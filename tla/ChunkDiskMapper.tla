--------------------------- MODULE ChunkDiskMapper --------------------------
(***************************************************************************)
(* The chunk files of the head (tsdb/chunks/head_chunks.go) and the queue  *)
(* in front of them (chunk_write_queue.go, queue.go): a reference is given *)
(* out before its chunk is written, readers look for a chunk in the queue, *)
(* in the write buffer and in the m-mapped file, and Truncate removes      *)
(* files while chunks are being written.                                   *)
(*                                                                         *)
(* A chunk is a number and takes one unit of a file, whose header takes    *)
(* one too.  A reference is a pair of a file and an offset.                *)
(***************************************************************************)
EXTENDS Integers, Sequences, FiniteSets

CONSTANTS CdmReaders,  \* readers
          MaxChunks,   \* bound on the chunks written
          FileSize,    \* MaxHeadChunkFileSize
          QueueSize,   \* maxSize of the write job queue
          MaxReopens,  \* bound on restarts
          CdmRaces     \* which of the races below an instance has

\* Chunks are written during a truncation, as out-of-order inserts do.
\* "write": also during one that finds no chunk in use or removes all files.
\* "queued": all files may be removed while chunks are on their way to a file.
ASSUME CdmAssumption ==
  /\ MaxChunks \in Nat /\ QueueSize \in Nat \ {0} /\ MaxReopens \in Nat
  /\ FileSize \in Nat /\ FileSize >= 2
  /\ CdmRaces \subseteq {"write", "queued"}

Header == 1

VARIABLES
  queued,      \* is there a writeQueue?
  evtlPos,     \* the position behind all references given out
  wjob,        \* the job of the call of WriteChunk that holds evtlPosMtx
  jobs,        \* writeJobQueue
  chunkRefMap, \* the chunks in the queue and being written
  wr,          \* the progress of writeChunk, under writePathMtx
  cur,         \* curFileSequence and curFileOffset
  chunkBuffer, \* the chunks in the write buffer, for readers
  unflushed,   \* what chkWriter has not passed to the file yet
  content,     \* what is in the files
  onDisk,      \* the files in the directory
  mapped,      \* mmappedChunkFiles
  live,        \* the chunks that series of the head refer to, by reference
  trunc,       \* the truncation in progress
  cdmRead,     \* the readers
  written,     \* the number of chunks given to WriteChunk
  reopens,
  failed       \* has a write failed?

cdmVars == <<queued, evtlPos, wjob, jobs, chunkRefMap, wr, cur, chunkBuffer, unflushed, content,
             onDisk, mapped, live, trunc, cdmRead, written, reopens, failed>>
queueVars == <<queued, evtlPos, wjob, jobs, chunkRefMap>>
fileVars == <<cur, chunkBuffer, unflushed, content, onDisk, mapped>>
boundVars == <<written, reopens, failed>>

NoJob == [ref |-> <<0, 0>>, chk |-> 0, cutFile |-> FALSE]
NoTrunc == [pc |-> "idle", fileNo |-> 0, removed |-> {}, all |-> FALSE, unused |-> FALSE]
NoRead == [pc |-> "idle", ref |-> <<0, 0>>, want |-> 0, result |-> 0]
IdleWriter == [pc |-> "idle", job |-> NoJob, next |-> "idle"]
Nothing == [ref \in {} |-> 0]

\* A map with one more, or without some, of its keys.
Put(map, ref, chk) == [r \in DOMAIN map \union {ref} |-> IF r = ref THEN chk ELSE map[r]]
Without(map, refs) == [r \in DOMAIN map \ refs |-> map[r]]
Newest(seqs) == IF seqs = {} THEN 0 ELSE CHOOSE s \in seqs : \A t \in seqs : t <= s

CdmInit ==
  /\ queued \in BOOLEAN
  /\ evtlPos = [seq |-> 0, offset |-> 0, cutFile |-> FALSE]
  /\ wjob = NoJob /\ jobs = <<>> /\ chunkRefMap = Nothing
  /\ wr = IdleWriter
  /\ cur = [seq |-> 0, offset |-> 0]
  /\ chunkBuffer = Nothing /\ unflushed = Nothing /\ content = Nothing
  /\ onDisk = {} /\ mapped = {}
  /\ live = Nothing
  /\ trunc = NoTrunc
  /\ cdmRead = [r \in CdmReaders |-> NoRead]
  /\ written = 0 /\ reopens = 0 /\ failed = FALSE
-----------------------------------------------------------------------------
\* shouldCutNewFile
shouldCutNewFile == evtlPos.cutFile \/ evtlPos.offset = 0 \/ evtlPos.offset + 1 > FileSize

\* A truncation that found no chunk in use, or that removes all files.
Emptying == IF trunc.pc = "list" THEN trunc.unused ELSE trunc.all

\* WriteChunk takes evtlPosMtx and the next reference (getNextChunkRef).  With
\* a queue the chunk enters the map of addJob, without one it is written now.
WriteChunk ==
  /\ wjob = NoJob /\ (~queued => wr.pc = "idle")
  /\ written < MaxChunks
  /\ "write" \in CdmRaces \/ ~Emptying
  /\ written' = written + 1
  /\ LET cut == shouldCutNewFile
         ref == IF cut THEN <<evtlPos.seq + 1, Header>> ELSE <<evtlPos.seq, evtlPos.offset>>
         job == [ref |-> ref, chk |-> written + 1, cutFile |-> cut]
     IN  /\ evtlPos' = [seq |-> ref[1], offset |-> ref[2] + 1, cutFile |-> evtlPos.cutFile /\ ~cut]
         /\ wjob' = job
         /\ IF queued THEN chunkRefMap' = Put(chunkRefMap, ref, written + 1) /\ UNCHANGED wr
            ELSE wr' = [IdleWriter EXCEPT !.pc = "start", !.job = job] /\ UNCHANGED chunkRefMap
  /\ UNCHANGED <<queued, jobs, fileVars, live, trunc, cdmRead, reopens, failed>>

\* writeJobQueue.push waits for space; WriteChunk returns the reference.
push ==
  /\ queued /\ wjob # NoJob
  /\ Len(jobs) < QueueSize
  /\ jobs' = Append(jobs, wjob)
  /\ live' = Put(live, wjob.ref, wjob.chk)
  /\ wjob' = NoJob
  /\ UNCHANGED <<queued, evtlPos, chunkRefMap, wr, fileVars, trunc, cdmRead, boundVars>>

\* writeJobQueue.pop by the worker.
pop ==
  /\ queued /\ wr.pc = "idle" /\ jobs # <<>>
  /\ wr' = [IdleWriter EXCEPT !.pc = "start", !.job = Head(jobs)]
  /\ jobs' = Tail(jobs)
  /\ UNCHANGED <<queued, evtlPos, wjob, chunkRefMap, fileVars, live, trunc, cdmRead, boundVars>>

\* writeChunk cuts a file when it has to, flushing the old one; else it may
\* have to flush the buffer to make room.
writeChunkStart ==
  /\ wr.pc = "start"
  /\ \/ wr.job.cutFile /\ cur.seq = 0 /\ wr' = [wr EXCEPT !.pc = "cut"]
     \/ wr.job.cutFile /\ cur.seq # 0 /\ wr' = [wr EXCEPT !.pc = "flush", !.next = "cut"]
     \/ ~wr.job.cutFile /\ wr' = [wr EXCEPT !.pc = "put"]
     \/ ~wr.job.cutFile /\ wr' = [wr EXCEPT !.pc = "flush", !.next = "put"]
  /\ UNCHANGED <<queueVars, fileVars, live, trunc, cdmRead, boundVars>>

\* Mutant: the buffer is cleared first.
flushBufferCleared ==
  /\ wr.pc = "flush"
  /\ chunkBuffer' = Nothing
  /\ wr' = [wr EXCEPT !.pc = "clear"]
  /\ UNCHANGED <<queueVars, cur, unflushed, content, onDisk, mapped, live, trunc, cdmRead, boundVars>>

\* flushBuffer: what was written reaches the file ...
flushBuffer ==
  /\ wr.pc = "flush"
  /\ content' = [r \in DOMAIN content \union DOMAIN unflushed |->
                   IF r \in DOMAIN unflushed THEN unflushed[r] ELSE content[r]]
  /\ unflushed' = Nothing
  /\ wr' = [wr EXCEPT !.pc = "clear"]
  /\ UNCHANGED <<queueVars, cur, chunkBuffer, onDisk, mapped, live, trunc, cdmRead, boundVars>>

\* ... and then the buffer is cleared.
clear ==
  /\ wr.pc = "clear"
  /\ chunkBuffer' = Nothing
  /\ wr' = [wr EXCEPT !.pc = wr.next]
  /\ UNCHANGED <<queueVars, cur, unflushed, content, onDisk, mapped, live, trunc, cdmRead, boundVars>>

\* cutAndExpectRef: the new file is the one after the newest in the directory.
cutAndExpectRef ==
  /\ wr.pc = "cut"
  /\ \A r \in CdmReaders : cdmRead[r].pc = "idle"
  /\ LET seq == Newest(onDisk) + 1
     IN  /\ onDisk' = onDisk \union {seq}
         /\ mapped' = mapped \union {seq}
         /\ cur' = [seq |-> seq, offset |-> Header]
         /\ IF wr.job.ref = <<seq, Header>>
            THEN wr' = [wr EXCEPT !.pc = "put"] /\ UNCHANGED failed
            ELSE wr' = [wr EXCEPT !.pc = "done"] /\ failed' = TRUE
  /\ UNCHANGED <<queueVars, chunkBuffer, unflushed, content, live, trunc, cdmRead, written, reopens>>

\* The chunk goes to the writer and to the buffer.  One larger than the buffer
\* is flushed at once.
putChunk ==
  /\ wr.pc = "put"
  /\ unflushed' = Put(unflushed, <<cur.seq, cur.offset>>, wr.job.chk)
  /\ cur' = [cur EXCEPT !.offset = @ + 1]
  /\ chunkBuffer' = Put(chunkBuffer, wr.job.ref, wr.job.chk)
  /\ \/ wr' = [wr EXCEPT !.pc = "done"]
     \/ wr' = [wr EXCEPT !.pc = "flush", !.next = "done"]
  /\ UNCHANGED <<queueVars, content, onDisk, mapped, live, trunc, cdmRead, boundVars>>

\* The end of processJob, or of WriteChunk without a queue.
processed ==
  /\ wr.pc = "done"
  /\ wr' = IdleWriter
  /\ IF queued THEN chunkRefMap' = Without(chunkRefMap, {wr.job.ref}) /\ UNCHANGED <<wjob, live>>
     ELSE wjob' = NoJob /\ live' = Put(live, wr.job.ref, wr.job.chk) /\ UNCHANGED chunkRefMap
  /\ UNCHANGED <<queued, evtlPos, jobs, fileVars, trunc, cdmRead, boundVars>>
-----------------------------------------------------------------------------
readTo(r, pc) ==
  /\ cdmRead' = [cdmRead EXCEPT ![r].pc = pc]
  /\ UNCHANGED <<queueVars, wr, fileVars, live, trunc, boundVars>>

NotFound == -1

\* The reader has its chunk, or an error.
readDone(r, chk) ==
  /\ cdmRead' = [cdmRead EXCEPT ![r] = [NoRead EXCEPT !.want = cdmRead[r].want, !.result = chk]]
  /\ UNCHANGED <<queueVars, wr, fileVars, live, trunc, boundVars>>

\* ChunkDiskMapper.Chunk holds readPathMtx to its end.
Chunk(r) ==
  /\ cdmRead[r].pc = "idle"
  /\ \E ref \in DOMAIN live :
       cdmRead' = [cdmRead EXCEPT ![r] = [pc |-> IF queued THEN "queue" ELSE "buffer",
                                          ref |-> ref, want |-> live[ref], result |-> 0]]
  /\ UNCHANGED <<queueVars, wr, fileVars, live, trunc, boundVars>>

\* chunkWriteQueue.get
getQueue(r) ==
  /\ cdmRead[r].pc = "queue"
  /\ LET ref == cdmRead[r].ref
     IN  IF ref \in DOMAIN chunkRefMap THEN readDone(r, chunkRefMap[ref]) ELSE readTo(r, "buffer")

\* chunkBuffer.get, for the file being written only.
getBuffer(r) ==
  /\ cdmRead[r].pc = "buffer"
  /\ LET ref == cdmRead[r].ref
     IN  IF ref[1] = cur.seq /\ ref \in DOMAIN chunkBuffer
         THEN readDone(r, chunkBuffer[ref]) ELSE readTo(r, "file")

\* The m-mapped file.
getFile(r) ==
  /\ cdmRead[r].pc = "file"
  /\ LET ref == cdmRead[r].ref
     IN  readDone(r, IF ref[1] \in mapped /\ ref \in DOMAIN content THEN content[ref] ELSE NotFound)
-----------------------------------------------------------------------------
\* The head drops a chunk, under the lock of its series.
Drop(ref) ==
  /\ trunc.pc = "idle" /\ ref \in DOMAIN live
  /\ \A r \in CdmReaders : cdmRead[r].pc # "idle" => cdmRead[r].ref # ref
  /\ live' = Without(live, {ref})
  /\ UNCHANGED <<queueVars, wr, fileVars, trunc, cdmRead, boundVars>>

\* truncateSeriesAndChunkDiskMapper: the first file that is still needed.
TruncateBegin ==
  /\ trunc.pc = "idle"
  /\ LET seqs == {ref[1] : ref \in DOMAIN live}
     IN  trunc' = [NoTrunc EXCEPT !.pc = "list", !.unused = seqs = {},
                     !.fileNo = IF seqs = {} THEN MaxChunks + 1
                                ELSE CHOOSE s \in seqs : \A t \in seqs : s <= t]
  /\ UNCHANGED <<queueVars, wr, fileVars, live, cdmRead, boundVars>>

\* Mutant: the file with the oldest chunk is removed as well.
TruncateListOne ==
  /\ trunc.pc = "list"
  /\ LET removed == {s \in mapped : \A t \in mapped : t <= s => t # cur.seq /\ t <= trunc.fileNo}
     IN  trunc' = [trunc EXCEPT !.pc = "cut", !.removed = removed, !.all = removed = mapped]
  /\ UNCHANGED <<queueVars, wr, fileVars, live, cdmRead, boundVars>>

\* Truncate lists the files up to that one or to the one being written.
TruncateList ==
  /\ trunc.pc = "list"
  /\ LET removed == {s \in mapped : \A t \in mapped : t <= s => t # cur.seq /\ t < trunc.fileNo}
     IN  /\ "queued" \in CdmRaces \/ (removed = mapped => chunkRefMap = Nothing /\ wjob = NoJob)
         /\ trunc' = [trunc EXCEPT !.pc = "cut", !.removed = removed, !.all = removed = mapped]
  /\ UNCHANGED <<queueVars, wr, fileVars, live, cdmRead, boundVars>>

\* A new file will be cut if the current one has chunks.
TruncateCut ==
  /\ trunc.pc = "cut"
  /\ cur.offset > Header => wjob = NoJob
  /\ evtlPos' = [evtlPos EXCEPT !.cutFile = @ \/ cur.offset > Header]
  /\ trunc' = [trunc EXCEPT !.pc = "unmap"]
  /\ UNCHANGED <<queued, wjob, jobs, chunkRefMap, wr, fileVars, live, cdmRead, boundVars>>

\* deleteFiles: the mappings go first, under the lock.
TruncateUnmap ==
  /\ trunc.pc = "unmap"
  /\ \A r \in CdmReaders : cdmRead[r].pc = "idle"
  /\ mapped' = mapped \ trunc.removed
  /\ trunc' = [trunc EXCEPT !.pc = "remove"]
  /\ UNCHANGED <<queueVars, wr, cur, chunkBuffer, unflushed, content, onDisk, live, cdmRead, boundVars>>

\* The files are then removed one by one, oldest first.
TruncateRemove ==
  /\ trunc.pc = "remove"
  /\ IF trunc.removed = {}
     THEN trunc' = [trunc EXCEPT !.pc = "reset"] /\ UNCHANGED <<onDisk, content>>
     ELSE LET seq == CHOOSE s \in trunc.removed : \A t \in trunc.removed : s <= t
          IN  /\ onDisk' = onDisk \ {seq}
              /\ content' = Without(content, {ref \in DOMAIN content : ref[1] = seq})
              /\ trunc' = [trunc EXCEPT !.removed = @ \ {seq}]
  /\ UNCHANGED <<queueVars, wr, cur, chunkBuffer, unflushed, mapped, live, cdmRead, boundVars>>

\* When no file is left numbering starts anew, unless chunks are in the queue.
TruncateReset ==
  /\ trunc.pc = "reset"
  /\ trunc.all => wjob = NoJob
  /\ evtlPos' = IF trunc.all /\ chunkRefMap = Nothing THEN [evtlPos EXCEPT !.seq = 0] ELSE evtlPos
  /\ trunc' = NoTrunc
  /\ UNCHANGED <<queued, wjob, jobs, chunkRefMap, wr, fileVars, live, cdmRead, boundVars>>

\* A crash, and openMMapFiles and IterateAllChunks of the next start.  The
\* chunks that were not flushed come back from the WAL as chunks of the head.
Reopen ==
  /\ reopens < MaxReopens /\ ~failed
  /\ reopens' = reopens + 1
  /\ queued' \in BOOLEAN
  /\ evtlPos' = [seq |-> Newest(onDisk), offset |-> 0, cutFile |-> FALSE]
  /\ wjob' = NoJob /\ jobs' = <<>> /\ chunkRefMap' = Nothing
  /\ wr' = IdleWriter
  /\ cur' = [seq |-> 0, offset |-> 0]
  /\ chunkBuffer' = Nothing /\ unflushed' = Nothing
  /\ mapped' = onDisk
  /\ live' = content
  /\ trunc' = NoTrunc
  /\ cdmRead' = [r \in CdmReaders |-> NoRead]
  /\ UNCHANGED <<content, onDisk, written, failed>>

CdmNext ==
  \/ WriteChunk \/ push \/ pop
  \/ writeChunkStart \/ flushBuffer \/ clear \/ cutAndExpectRef \/ putChunk \/ processed
  \/ \E r \in CdmReaders : Chunk(r) \/ getQueue(r) \/ getBuffer(r) \/ getFile(r)
  \/ \E ref \in DOMAIN live : Drop(ref)
  \/ TruncateBegin \/ TruncateList \/ TruncateCut \/ TruncateUnmap \/ TruncateRemove \/ TruncateReset
  \/ Reopen

CdmSpec == CdmInit /\ [][CdmNext]_cdmVars
-----------------------------------------------------------------------------
\* A reference is good from the moment WriteChunk returns it: a reader finds
\* the chunk while it moves from the queue to the buffer and to the file, and
\* no chunk is written at another position than its reference says.  A restart
\* at any moment finds the files numbered without a gap, which openMMapFiles
\* insists on.
ReferencesGood ==
  /\ ~failed
  /\ \A r \in CdmReaders : cdmRead[r].pc = "idle" => cdmRead[r].result = cdmRead[r].want
  /\ \A s, t \in onDisk : \A u \in s..t : u \in onDisk
=============================================================================
