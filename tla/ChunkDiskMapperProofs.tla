------------------------ MODULE ChunkDiskMapperProofs -----------------------
(***************************************************************************)
(* References to chunks of the head are good from the moment WriteChunk    *)
(* returns them, for any number of chunks, readers and restarts, and any   *)
(* size of the files and of the queue.  The invariant says that all places *)
(* a chunk may be in agree about it (ToldInv), that the jobs that wait     *)
(* follow one another and what has been written, so that the files will be *)
(* where the references say (ChainInv), that a chunk leaves one place only *)
(* when it is in the next (BufferInv), and that a truncation removes the   *)
(* oldest files and, if it removes all, finds nothing written or waiting   *)
(* (TruncInv), while what is written during it goes to files that it       *)
(* leaves (OrderInv).                                                      *)
(***************************************************************************)
EXTENDS ChunkDiskMapper, TLAPS

\* The references and the jobs of the queue.
Refs == Nat \X Nat
Jobs == [ref : Refs, chk : Nat, cutFile : BOOLEAN]
WriterStates == {"idle", "start", "flush", "clear", "cut", "put", "done"}
TruncStates == {"idle", "list", "cut", "unmap", "remove", "reset"}
Writers == [pc : WriterStates, job : Jobs, next : {"idle", "cut", "put", "done"}]

CdmTyped ==
  /\ queued \in BOOLEAN
  /\ evtlPos \in [seq : Nat, offset : Nat, cutFile : BOOLEAN]
  /\ wjob \in Jobs /\ (wjob # NoJob => wjob.chk > 0)
  /\ jobs \in Seq(Jobs) /\ \A i \in 1..Len(jobs) : jobs[i].chk > 0
  /\ wr \in Writers /\ (wr.pc # "idle" => wr.job.chk > 0)
  /\ wr.pc \in {"flush", "clear"} => wr.next # "idle"
  /\ cur \in [seq : Nat, offset : Nat]
  /\ onDisk \subseteq Nat \ {0} /\ mapped \subseteq onDisk
  /\ trunc \in [pc : TruncStates, fileNo : Nat, removed : SUBSET Nat, all : BOOLEAN, unused : BOOLEAN]
  /\ cdmRead \in [CdmReaders -> [pc : {"idle", "queue", "buffer", "file"}, ref : Refs, want : Int, result : Int]]
  /\ written \in Nat

\* What is known of a chunk, wherever it is, is the same.
Graph(m) == {<<r, m[r]>> : r \in DOMAIN m}
InFlight ==
  {jobs[i] : i \in 1..Len(jobs)}
    \union (IF wr.pc # "idle" THEN {wr.job} ELSE {})
    \union (IF wjob # NoJob THEN {wjob} ELSE {})
Told ==
  Graph(content) \union Graph(unflushed) \union Graph(chunkBuffer) \union Graph(chunkRefMap) \union Graph(live)
    \union {<<j.ref, j.chk>> : j \in InFlight}
Below(ref) ==
  /\ ref[1] <= evtlPos.seq
  /\ ref[1] = evtlPos.seq /\ evtlPos.offset # 0 => ref[2] < evtlPos.offset
ToldInv ==
  /\ Told \subseteq Refs \X Nat
  /\ \A p, q \in Told : p[1] = q[1] => p[2] = q[2]
  /\ \A p \in Told : Below(p[1])

\* The files.
GapLess(S) == \A s, t \in S : \A u \in s..t : u \in S
Top(S, n) == IF S = {} THEN n = 0 ELSE n \in S /\ \A s \in S : s <= n
Removing == trunc.pc \in {"cut", "unmap", "remove"}
FileInv ==
  /\ GapLess(onDisk) /\ \E n \in Nat : Top(onDisk, n)
  /\ mapped = IF trunc.pc = "remove" THEN onDisk \ trunc.removed ELSE onDisk
  /\ IF cur.seq = 0 THEN cur.offset = 0 /\ chunkBuffer = Nothing
     ELSE cur.seq \in onDisk /\ cur.seq = Newest(onDisk) /\ cur.offset > 0
  /\ \A r \in DOMAIN content : r[1] \in onDisk

TruncInv ==
  /\ Removing => /\ trunc.removed \subseteq onDisk
                 /\ \A s \in trunc.removed, t \in onDisk : t <= s => t \in trunc.removed
                 /\ \A r \in DOMAIN live : r[1] \notin trunc.removed
                 /\ trunc.all <=> trunc.removed = onDisk
  /\ (Removing \/ trunc.pc = "reset") /\ trunc.all =>
       /\ wr.pc = "idle" /\ jobs = <<>> /\ chunkRefMap = Nothing /\ cur.seq = 0
       /\ evtlPos.offset = 0 /\ wjob = NoJob
  /\ trunc.pc = "reset" /\ trunc.all => onDisk = {}

\* No reference given out after the truncation began is to a file before the
\* first that it found in use.  If it found none in use, a chunk that was on
\* its way then is in the file being written or will be in a later one.
OrderInv ==
  /\ Newest(onDisk) <= evtlPos.seq
  /\ trunc.pc = "list" /\ trunc.unused =>
       \A r \in DOMAIN live : r[1] = evtlPos.seq /\ (r \in DOMAIN chunkRefMap \/ cur.seq # 0)
  /\ trunc.pc = "list" /\ ~trunc.unused =>
       trunc.fileNo <= evtlPos.seq /\ \A r \in DOMAIN live : trunc.fileNo <= r[1]

\* The positions that the references were made of.
After(j) == <<j.ref[1], j.ref[2] + 1>>
Follows(p, j) == IF j.cutFile THEN j.ref = <<p[1] + 1, Header>> ELSE j.ref = p /\ p[2] > 0
Flushing(next) == wr.pc \in {"flush", "clear"} /\ wr.next = next
CutDue == (wr.pc = "start" /\ wr.job.cutFile) \/ wr.pc = "cut" \/ Flushing("cut")
PutDue == (wr.pc = "start" /\ ~wr.job.cutFile) \/ wr.pc = "put" \/ Flushing("put")
Stored == wr.pc = "done" \/ Flushing("done")
BaseSeq == IF trunc.pc \in {"remove", "reset"} /\ trunc.all THEN evtlPos.seq ELSE Newest(onDisk)
Behind == IF CutDue \/ PutDue THEN After(wr.job) ELSE <<BaseSeq, cur.offset>>
Last == IF jobs = <<>> THEN Behind ELSE After(jobs[Len(jobs)])
ChainInv ==
  /\ CutDue => wr.job.cutFile /\ wr.job.ref = <<Newest(onDisk) + 1, Header>>
  /\ PutDue => wr.job.ref = <<cur.seq, cur.offset>> /\ cur.seq # 0
  /\ \A i \in 1..Len(jobs) : Follows(IF i = 1 THEN Behind ELSE After(jobs[i - 1]), jobs[i])
  /\ IF queued /\ wjob # NoJob
     THEN Follows(Last, wjob) /\ <<evtlPos.seq, evtlPos.offset>> = After(wjob)
     ELSE <<evtlPos.seq, evtlPos.offset>> = Last

\* The jobs in the queue.
QueueInv ==
  /\ queued => \A j \in InFlight : j.ref \in DOMAIN chunkRefMap
  /\ \A i, k \in 1..Len(jobs) : i # k => jobs[i].ref # jobs[k].ref
  /\ wr.pc # "idle" => \A i \in 1..Len(jobs) : jobs[i].ref # wr.job.ref
  /\ queued /\ wjob # NoJob => /\ \A i \in 1..Len(jobs) : jobs[i].ref # wjob.ref
                               /\ wr.pc # "idle" => wr.job.ref # wjob.ref
  /\ ~queued => /\ chunkRefMap = Nothing /\ jobs = <<>>
                /\ wjob = IF wr.pc = "idle" THEN NoJob ELSE wr.job

\* Where a chunk is found.
Buffered == {r \in DOMAIN chunkBuffer : r[1] = cur.seq}
Filed == {r \in DOMAIN content : r[1] \in mapped}
BufferInv ==
  /\ IF wr.pc = "clear" THEN unflushed = Nothing /\ DOMAIN chunkBuffer \subseteq DOMAIN content ELSE chunkBuffer = unflushed
  /\ wr.pc = "cut" => chunkBuffer = Nothing
  /\ \A r \in DOMAIN chunkBuffer : r[1] = cur.seq
  /\ Stored => wr.job.ref[1] = cur.seq /\ (wr.job.ref \in Buffered \/ wr.job.ref \in Filed)
  /\ \A r \in DOMAIN live : r \in DOMAIN chunkRefMap \/ r \in Buffered \/ r \in Filed

ReaderInv(r) ==
  LET rd == cdmRead[r]
  IN  /\ rd.pc = "idle" => rd.result = rd.want
      /\ rd.pc # "idle" => rd.ref \in DOMAIN live /\ live[rd.ref] = rd.want
      /\ rd.pc = "buffer" => rd.ref \in Buffered \/ rd.ref \in Filed
      /\ rd.pc = "file" => rd.ref \in Filed

CdmInv ==
  /\ CdmTyped /\ ToldInv /\ FileInv /\ TruncInv /\ OrderInv /\ ChainInv /\ QueueInv /\ BufferInv
  /\ ~failed
  /\ \A r \in CdmReaders : ReaderInv(r)
-----------------------------------------------------------------------------
LEMMA NewestIs ==
  ASSUME NEW S \in SUBSET Nat, NEW n \in Nat, Top(S, n)
  PROVE  Newest(S) = n
<1>1. CASE S = {}
  BY <1>1, Zenon DEF Top, Newest
<1>2. CASE S # {}
  <2>1. n \in S /\ \A s \in S : s <= n
    BY <1>2, Zenon DEF Top
  <2>2. \A x \in S : (\A t \in S : t <= x) => x = n
    BY <2>1
  <2> QED
    BY <1>2, <2>1, <2>2, Zenon DEF Newest
<1> QED
  BY <1>1, <1>2, Zenon

LEMMA NewestTop ==
  ASSUME CdmTyped, FileInv
  PROVE  Newest(onDisk) \in Nat /\ Top(onDisk, Newest(onDisk)) /\ onDisk \subseteq Nat
  BY NewestIs, Zenon DEF FileInv, CdmTyped

\* The pairs of a map.
LEMMA GraphNothing == Graph(Nothing) = {} /\ DOMAIN Nothing = {}
  BY Zenon DEF Graph, Nothing

\* The pairs of a map.
LEMMA GraphPairs ==
  ASSUME NEW m, NEW p \in Graph(m)
  PROVE  p[1] \in DOMAIN m /\ p[2] = m[p[1]]
BY DEF Graph

LEMMA GraphPut ==
  ASSUME NEW m, NEW r, NEW c
  PROVE  /\ Graph(Put(m, r, c)) \subseteq Graph(m) \union {<<r, c>>}
         /\ DOMAIN Put(m, r, c) = DOMAIN m \union {r} /\ Put(m, r, c)[r] = c
         /\ \A s \in DOMAIN m : s # r => Put(m, r, c)[s] = m[s]
  BY Zenon DEF Graph, Put

LEMMA GraphWithout ==
  ASSUME NEW m, NEW R
  PROVE  /\ Graph(Without(m, R)) \subseteq Graph(m)
         /\ DOMAIN Without(m, R) = DOMAIN m \ R /\ \A s \in DOMAIN m \ R : Without(m, R)[s] = m[s]
  BY Zenon DEF Graph, Without

LEMMA InGraph ==
  ASSUME NEW m, NEW r \in DOMAIN m
  PROVE  <<r, m[r]>> \in Graph(m)
  BY Zenon DEF Graph

LEMMA DomainGraph ==
  ASSUME NEW m, NEW r, NEW v, <<r, v>> \in Graph(m)
  PROVE  r \in DOMAIN m /\ m[r] = v
  BY Zenon DEF Graph

\* The writer at the start of a job.
LEMMA StartingFields ==
  ASSUME NEW j \in Jobs, wr' = [IdleWriter EXCEPT !.pc = "start", !.job = j]
  PROVE  wr' \in Writers /\ wr'.pc = "start" /\ wr'.job = j
  BY Zenon DEF IdleWriter, Writers, WriterStates

\* A step that moves what is known of chunks, and makes nothing up.
LEMMA ToldMoved ==
  ASSUME ToldInv, Told' \subseteq Told, evtlPos'.seq = evtlPos.seq, evtlPos'.offset = evtlPos.offset
  PROVE  ToldInv'
  BY Zenon DEF ToldInv, Below

\* What two places say of a chunk.
LEMMA SameChunk ==
  ASSUME ToldInv, NEW r, NEW v, NEW w, <<r, v>> \in Told, <<r, w>> \in Told
  PROVE  v = w /\ r \in Refs /\ v \in Nat /\ r[1] \in Nat /\ r[2] \in Nat /\ Below(r)
<1>1. <<r, v>> \in Refs \X Nat /\ <<r, v>>[1] = r /\ <<r, v>>[2] = v /\ <<r, w>>[1] = r /\ <<r, w>>[2] = w
  BY Zenon DEF ToldInv
<1>2. v = w
  BY <1>1, Zenon DEF ToldInv
<1>3. Below(r)
  BY <1>1, Zenon DEF ToldInv
<1> QED
  BY <1>1, <1>2, <1>3, Zenon DEF Refs

\* Steps of readers leave everything else as it is.
LEMMA OthersUnchanged ==
  ASSUME CdmInv, UNCHANGED <<queueVars, wr, fileVars, live, trunc, boundVars>>
  PROVE  /\ ToldInv' /\ FileInv' /\ TruncInv' /\ OrderInv' /\ ChainInv' /\ QueueInv' /\ BufferInv' /\ ~failed'
         /\ \A r \in CdmReaders : cdmRead'[r] = cdmRead[r] => ReaderInv(r)'
         /\ cdmRead' \in [CdmReaders -> [pc : {"idle", "queue", "buffer", "file"}, ref : Refs, want : Int, result : Int]]
              => CdmTyped'
<1> USE DEF queueVars, fileVars, boundVars
<1>1. ToldInv'
  BY DEF CdmInv, ToldInv, Told, InFlight, Below
<1>2. FileInv'
  BY Zenon DEF CdmInv, FileInv
<1>3. TruncInv' /\ OrderInv'
  BY Zenon DEF CdmInv, TruncInv, OrderInv, Removing
<1>4. ChainInv'
  BY Zenon DEF CdmInv, ChainInv, CutDue, PutDue, Flushing, Behind, BaseSeq, Last
<1>5. QueueInv'
  BY DEF CdmInv, QueueInv, InFlight
<1>6. BufferInv'
  BY Zenon DEF CdmInv, BufferInv, Stored, Flushing, Buffered, Filed
<1>7. ASSUME NEW r \in CdmReaders, cdmRead'[r] = cdmRead[r] PROVE ReaderInv(r)'
  BY <1>7, Zenon DEF CdmInv, ReaderInv, Buffered, Filed
<1>8. cdmRead' \in [CdmReaders -> [pc : {"idle", "queue", "buffer", "file"}, ref : Refs, want : Int, result : Int]]
         => CdmTyped'
  BY Zenon DEF CdmInv, CdmTyped
<1> QED
  BY <1>1, <1>2, <1>3, <1>4, <1>5, <1>6, <1>7, <1>8, Zenon DEF CdmInv

\* A chunk is found where the reader looks for it next.
LEMMA ReadsOK ==
  ASSUME CdmInv, NEW r \in CdmReaders, Chunk(r) \/ getQueue(r) \/ getBuffer(r) \/ getFile(r)
  PROVE  CdmInv'
<1> DEFINE Reads == [pc : {"idle", "queue", "buffer", "file"}, ref : Refs, want : Int, result : Int]
           rd == cdmRead[r]
<1>0. UNCHANGED <<queueVars, wr, fileVars, live, trunc, boundVars>>
  BY Zenon DEF Chunk, getQueue, getBuffer, getFile, readTo, readDone
<1>1. cdmRead \in [CdmReaders -> Reads] /\ rd \in Reads /\ ReaderInv(r) /\ ToldInv /\ BufferInv /\ QueueInv
  BY Zenon DEF CdmInv, CdmTyped
<1>2. ASSUME NEW x \in Reads, cdmRead' = [cdmRead EXCEPT ![r] = x],
             x.pc = "idle" => x.result = x.want,
             x.pc # "idle" => x.ref \in DOMAIN live /\ live[x.ref] = x.want,
             x.pc = "buffer" => x.ref \in Buffered \/ x.ref \in Filed,
             x.pc = "file" => x.ref \in Filed
      PROVE  CdmInv'
  <2>1. cdmRead' \in [CdmReaders -> Reads] /\ cdmRead'[r] = x /\ \A s \in CdmReaders \ {r} : cdmRead'[s] = cdmRead[s]
    BY <1>1, <1>2, Zenon
  <2>2. ReaderInv(r)'
    BY <1>0, <1>2, <2>1, Zenon DEF ReaderInv, Buffered, Filed, fileVars
  <2>3. \A s \in CdmReaders \ {r} : ReaderInv(s)'
    BY <1>0, <2>1, OthersUnchanged, Zenon
  <2> QED
    BY <1>0, <2>1, <2>2, <2>3, OthersUnchanged, Zenon DEF CdmInv
<1>3. ASSUME rd.pc # "idle", NEW m, Graph(m) \subseteq Told, rd.ref \in DOMAIN m PROVE m[rd.ref] = rd.want
  <2>1. <<rd.ref, m[rd.ref]>> \in Told
    BY <1>3, InGraph, Zenon
  <2>2. <<rd.ref, rd.want>> \in Told
    BY <1>1, <1>3, InGraph, Zenon DEF ReaderInv, Told
  <2> QED
    BY <1>1, <2>1, <2>2, SameChunk
<1>4. ASSUME NEW c, c = rd.want, readDone(r, c) PROVE CdmInv'
  <2> DEFINE x == [NoRead EXCEPT !.want = rd.want, !.result = c]
  <2>1. x \in Reads /\ x.pc = "idle" /\ x.want = rd.want /\ x.result = rd.want
    BY <1>1, <1>4, Zenon DEF NoRead, Refs
  <2>2. cdmRead' = [cdmRead EXCEPT ![r] = x]
    BY <1>4, Zenon DEF readDone
  <2> HIDE DEF x
  <2> QED
    BY <1>2, <2>1, <2>2, Zenon
<1>5. ASSUME NEW pc \in {"buffer", "file"}, rd.pc # "idle", readTo(r, pc),
             rd.ref \in Buffered \/ rd.ref \in Filed, pc = "file" => rd.ref \in Filed
      PROVE  CdmInv'
  <2> DEFINE x == [rd EXCEPT !.pc = pc]
  <2>1. x \in Reads /\ x.pc = pc /\ x.want = rd.want /\ x.ref = rd.ref
    BY <1>1, Zenon
  <2>2. cdmRead' = [cdmRead EXCEPT ![r] = x]
    BY <1>1, <1>5, Zenon DEF readTo
  <2>3. rd.ref \in DOMAIN live /\ live[rd.ref] = rd.want
    BY <1>1, <1>5, Zenon DEF ReaderInv
  <2> HIDE DEF x, rd
  <2> QED
    BY <1>2, <1>5, <2>1, <2>2, <2>3, Zenon
<1>6. CASE Chunk(r)
  <2>1. PICK ref \in DOMAIN live :
          cdmRead' = [cdmRead EXCEPT ![r] = [pc |-> IF queued THEN "queue" ELSE "buffer",
                                             ref |-> ref, want |-> live[ref], result |-> 0]]
    BY <1>6, Zenon DEF Chunk
  <2> DEFINE x == [pc |-> IF queued THEN "queue" ELSE "buffer", ref |-> ref, want |-> live[ref], result |-> 0]
  <2>2. ref \in Refs /\ live[ref] \in Nat
    BY <1>1, InGraph, SameChunk, Zenon DEF Told
  <2>3. x \in Reads /\ x.ref = ref /\ x.want = live[ref] /\ x.pc \in {"queue", "buffer"} /\ (x.pc = "buffer" => ~queued)
    BY <2>2
  <2>4. ~queued => ref \in Buffered \/ ref \in Filed
    BY <1>1, GraphNothing, Zenon DEF BufferInv, QueueInv
  <2> HIDE DEF x
  <2>5. cdmRead' = [cdmRead EXCEPT ![r] = x]
    BY <2>1, Zenon DEF x
  <2> QED
    BY <1>2, <2>3, <2>4, <2>5, Zenon
<1>7. CASE getQueue(r)
  <2>1. rd.pc = "queue" /\ Graph(chunkRefMap) \subseteq Told
    BY <1>7, Zenon DEF getQueue, Told
  <2>2. CASE rd.ref \in DOMAIN chunkRefMap
    BY <1>3, <1>4, <1>7, <2>1, <2>2, Zenon DEF getQueue
  <2>3. CASE rd.ref \notin DOMAIN chunkRefMap
    <3>1. rd.ref \in Buffered \/ rd.ref \in Filed
      BY <1>1, <2>1, <2>3, Zenon DEF BufferInv, ReaderInv
    <3>2. readTo(r, "buffer")
      BY <1>7, <2>3, Zenon DEF getQueue
    <3> QED
      BY <1>5, <2>1, <3>1, <3>2, Zenon
  <2> QED
    BY <2>2, <2>3, Zenon
<1>8. CASE getBuffer(r)
  <2>1. rd.pc = "buffer" /\ Graph(chunkBuffer) \subseteq Told /\ (rd.ref \in Buffered \/ rd.ref \in Filed)
    BY <1>1, <1>8, Zenon DEF getBuffer, Told, ReaderInv
  <2>2. CASE rd.ref \in Buffered
    <3>1. readDone(r, chunkBuffer[rd.ref])
      BY <1>8, <2>2, Zenon DEF getBuffer, Buffered
    <3> QED
      BY <1>3, <1>4, <2>1, <2>2, <3>1, Zenon DEF Buffered
  <2>3. CASE rd.ref \notin Buffered
    <3>1. readTo(r, "file")
      BY <1>8, <2>3, Zenon DEF getBuffer, Buffered
    <3> QED
      BY <1>5, <2>1, <2>3, <3>1, Zenon
  <2> QED
    BY <2>2, <2>3, Zenon
<1>9. CASE getFile(r)
  <2>1. rd.pc = "file" /\ Graph(content) \subseteq Told /\ rd.ref \in Filed
    BY <1>1, <1>9, Zenon DEF getFile, Told, ReaderInv
  <2>2. readDone(r, content[rd.ref])
    BY <1>9, <2>1, Zenon DEF getFile, Filed
  <2> QED
    BY <1>3, <1>4, <2>1, <2>2, Zenon DEF Filed
<1> QED
  BY <1>6, <1>7, <1>8, <1>9, Zenon

\* Readers find their chunks when these do not go from where they are looked for.
LEMMA ReadersKept ==
  ASSUME \A r \in CdmReaders : ReaderInv(r), cdmRead' = cdmRead,
         \A r \in CdmReaders : cdmRead[r].pc # "idle" => cdmRead[r].ref \in DOMAIN live'
                                                          /\ live'[cdmRead[r].ref] = live[cdmRead[r].ref],
         \A s \in DOMAIN live : s \in Filed => s \in Filed',
         \A s \in DOMAIN live : s \in Buffered => s \in Buffered' \/ s \in Filed'
  PROVE  \A r \in CdmReaders : ReaderInv(r)'
  BY Zenon DEF ReaderInv

\* The file being written is not removed.
LEMMA CurMapped ==
  ASSUME CdmInv, cur.seq # 0
  PROVE  cur.seq \in mapped /\ (Removing => cur.seq \notin trunc.removed)
<1>1. CdmTyped /\ FileInv /\ TruncInv
  BY Zenon DEF CdmInv
<1>2. cur.seq \in onDisk /\ \A s \in onDisk : s <= cur.seq
  BY <1>1, NewestTop, Zenon DEF FileInv, Top
<1>3. Removing => cur.seq \notin trunc.removed
  BY <1>1, <1>2, Zenon DEF TruncInv
<1> QED
  BY <1>1, <1>2, <1>3, Zenon DEF FileInv, Removing

\* The head drops a chunk that no reader is looking for.
LEMMA DropOK ==
  ASSUME CdmInv, NEW ref \in DOMAIN live, Drop(ref)
  PROVE  CdmInv'
<1>0. /\ trunc.pc = "idle" /\ live' = Without(live, {ref})
      /\ \A r \in CdmReaders : cdmRead[r].pc # "idle" => cdmRead[r].ref # ref
      /\ UNCHANGED <<queueVars, wr, fileVars, trunc, cdmRead, boundVars>>
  BY Zenon DEF Drop
<1> USE DEF queueVars, fileVars, boundVars
<1>a. DOMAIN live' = DOMAIN live \ {ref} /\ \A s \in DOMAIN live' : live'[s] = live[s]
  BY <1>0, Zenon DEF Without
<1>1. CdmTyped'
  BY <1>0, Zenon DEF CdmInv, CdmTyped
<1>2. Graph(live') \subseteq Graph(live)
  BY <1>0, GraphWithout, Zenon
<1>b. InFlight' = InFlight
  BY <1>0, Zenon DEF InFlight
<1>3. Told' \subseteq Told
  BY <1>0, <1>b, <1>2, Zenon DEF Told
<1>4. ToldInv'
  BY <1>0, <1>3, ToldMoved, Zenon DEF CdmInv
<1>5. FileInv' /\ TruncInv' /\ OrderInv'
  BY <1>0, Zenon DEF CdmInv, FileInv, TruncInv, OrderInv, Removing
<1>6. ChainInv'
  BY <1>0, Zenon DEF CdmInv, ChainInv, CutDue, PutDue, Flushing, Behind, BaseSeq, Last
<1>7. QueueInv'
  BY <1>0 DEF CdmInv, QueueInv, InFlight
<1>8. Buffered' = Buffered /\ Filed' = Filed
  BY <1>0, Zenon DEF Buffered, Filed
<1>9. BufferInv'
  BY <1>0, <1>a, <1>8, Zenon DEF CdmInv, BufferInv, Stored, Flushing
<1>10. \A r \in CdmReaders : ReaderInv(r)'
  <2>1. \A r \in CdmReaders : cdmRead[r].pc # "idle" => cdmRead[r].ref \in DOMAIN live'
                                                          /\ live'[cdmRead[r].ref] = live[cdmRead[r].ref]
    BY <1>0, <1>a, Zenon DEF CdmInv, ReaderInv
  <2> QED
    BY <1>0, <1>8, <2>1, ReadersKept, Zenon DEF CdmInv
<1> QED
  BY <1>0, <1>1, <1>4, <1>5, <1>6, <1>7, <1>9, <1>10, Zenon DEF CdmInv

\* A step of writeChunk: the job stays in the writer.
LEMMA Working ==
  ASSUME CdmInv, wr.pc # "idle", wr' \in Writers, wr'.pc # "idle", wr'.job = wr.job,
         wr'.pc \in {"flush", "clear"} => wr'.next # "idle",
         UNCHANGED <<queueVars, onDisk, mapped, live, trunc, cdmRead, boundVars>>,
         cur' \in [seq : Nat, offset : Nat]
  PROVE  CdmTyped' /\ QueueInv' /\ InFlight' = InFlight /\ (cur'.seq = cur.seq => TruncInv' /\ OrderInv')
<1> USE DEF queueVars, boundVars
<1>1. CdmTyped'
  BY Zenon DEF CdmInv, CdmTyped
<1>2. InFlight' = InFlight
  BY Zenon DEF InFlight
<1>3. QueueInv'
  BY <1>2, Zenon DEF CdmInv, QueueInv
<1>4. cur'.seq = cur.seq => TruncInv' /\ OrderInv'
  BY Zenon DEF CdmInv, TruncInv, OrderInv, Removing
<1> QED
  BY <1>1, <1>2, <1>3, <1>4, Zenon

LEMMA ChainMoved ==
  ASSUME ChainInv, Behind' = Behind, UNCHANGED queueVars,
         CutDue' => wr'.job.cutFile /\ wr'.job.ref = <<Newest(onDisk') + 1, Header>>,
         PutDue' => wr'.job.ref = <<cur'.seq, cur'.offset>> /\ cur'.seq # 0
  PROVE  ChainInv'
<1>1. Last' = Last
  BY Zenon DEF Last, queueVars
<1> QED
  BY <1>1, Zenon DEF ChainInv, queueVars

\* writeChunk decides whether to cut a file and whether to flush.
LEMMA StartOK ==
  ASSUME CdmInv, writeChunkStart
  PROVE  CdmInv'
<1>0. wr.pc = "start" /\ UNCHANGED <<queueVars, fileVars, live, trunc, cdmRead, boundVars>>
  BY Zenon DEF writeChunkStart
<1>a. wr \in Writers /\ cur \in [seq : Nat, offset : Nat] /\ wr.job.cutFile \in BOOLEAN
  BY Zenon DEF CdmInv, CdmTyped, Writers, Jobs
<1>b. /\ wr' \in Writers /\ wr'.job = wr.job
      /\ \/ wr.job.cutFile /\ cur.seq = 0 /\ wr'.pc = "cut"
         \/ wr.job.cutFile /\ cur.seq # 0 /\ wr'.pc = "flush" /\ wr'.next = "cut"
         \/ ~wr.job.cutFile /\ wr'.pc = "put"
         \/ ~wr.job.cutFile /\ wr'.pc = "flush" /\ wr'.next = "put"
  <2>1. CASE wr.job.cutFile /\ cur.seq = 0 /\ wr' = [wr EXCEPT !.pc = "cut"]
    BY <1>a, <2>1, Zenon DEF Writers, WriterStates
  <2>2. CASE wr.job.cutFile /\ cur.seq # 0 /\ wr' = [wr EXCEPT !.pc = "flush", !.next = "cut"]
    BY <1>a, <2>2, Zenon DEF Writers, WriterStates
  <2>3. CASE ~wr.job.cutFile /\ wr' = [wr EXCEPT !.pc = "put"]
    BY <1>a, <2>3, Zenon DEF Writers, WriterStates
  <2>4. CASE ~wr.job.cutFile /\ wr' = [wr EXCEPT !.pc = "flush", !.next = "put"]
    BY <1>a, <2>4, Zenon DEF Writers, WriterStates
  <2> QED
    BY <2>1, <2>2, <2>3, <2>4, Zenon DEF writeChunkStart
<1> USE DEF fileVars
<1>1. CdmTyped' /\ QueueInv' /\ InFlight' = InFlight /\ TruncInv' /\ OrderInv'
  BY <1>0, <1>a, <1>b, Working, Zenon
<1>2. ToldInv'
  <2>1. Told' = Told
    BY <1>0, <1>1, Zenon DEF Told, queueVars
  <2> QED
    BY <1>0, <2>1, ToldMoved, Zenon DEF CdmInv, queueVars
<1>3. FileInv'
  BY <1>0, Zenon DEF CdmInv, FileInv
<1>4. ChainInv'
  <2>1. CutDue' = CutDue /\ PutDue' = PutDue
    BY <1>0, <1>b, Zenon DEF CutDue, PutDue, Flushing
  <2>2. Behind' = Behind
    BY <1>0, <1>b, <2>1, Zenon DEF Behind, BaseSeq, queueVars
  <2> QED
    BY <1>0, <1>b, <2>1, <2>2, ChainMoved, Zenon DEF CdmInv, ChainInv
<1>5. Buffered' = Buffered /\ Filed' = Filed
  BY <1>0, Zenon DEF Buffered, Filed
<1>6. BufferInv'
  BY <1>0, <1>b, <1>5, Zenon DEF CdmInv, BufferInv, Stored, Flushing, FileInv, queueVars
<1>7. \A r \in CdmReaders : ReaderInv(r)'
  BY <1>0, <1>5, ReadersKept, Zenon DEF CdmInv, ReaderInv
<1> QED
  BY <1>0, <1>1, <1>2, <1>3, <1>4, <1>6, <1>7, Zenon DEF CdmInv, boundVars

\* flushBuffer: what is in the buffer is in the file.
LEMMA FlushOK ==
  ASSUME CdmInv, flushBuffer
  PROVE  CdmInv'
<1>0. /\ wr.pc = "flush" /\ unflushed' = Nothing /\ wr' = [wr EXCEPT !.pc = "clear"]
      /\ content' = [r \in DOMAIN content \union DOMAIN unflushed |->
                       IF r \in DOMAIN unflushed THEN unflushed[r] ELSE content[r]]
      /\ UNCHANGED <<queueVars, cur, chunkBuffer, onDisk, mapped, live, trunc, cdmRead, boundVars>>
  BY Zenon DEF flushBuffer
<1>a. wr \in Writers /\ cur \in [seq : Nat, offset : Nat] /\ wr.next # "idle" /\ chunkBuffer = unflushed
  BY <1>0, Zenon DEF CdmInv, CdmTyped, BufferInv
<1>b. wr' \in Writers /\ wr'.job = wr.job /\ wr'.pc = "clear" /\ wr'.next = wr.next
  BY <1>0, <1>a, Zenon DEF Writers, WriterStates
<1>c. DOMAIN content' = DOMAIN content \union DOMAIN chunkBuffer
  BY <1>0, <1>a, Zenon
<1>1. CdmTyped' /\ QueueInv' /\ InFlight' = InFlight /\ TruncInv' /\ OrderInv'
  BY <1>0, <1>a, <1>b, Working, Zenon
<1>2. ToldInv'
  <2>1. Graph(content') \subseteq Graph(content) \union Graph(unflushed)
    BY <1>0, Zenon DEF Graph
  <2>2. Graph(unflushed') = {}
    BY <1>0, GraphNothing, Zenon
  <2>3. Told' \subseteq Told
    BY <1>0, <1>1, <2>1, <2>2, Zenon DEF Told, queueVars
  <2> QED
    BY <1>0, <2>3, ToldMoved, Zenon DEF CdmInv, queueVars
<1>3. FileInv'
  <2>1. \A r \in DOMAIN content' : r[1] \in onDisk
    BY <1>c, GraphNothing, Zenon DEF CdmInv, FileInv, BufferInv
  <2> QED
    BY <1>0, <2>1, Zenon DEF CdmInv, FileInv
<1>4. ChainInv'
  <2>1. CutDue' = CutDue /\ PutDue' = PutDue
    BY <1>0, <1>b, Zenon DEF CutDue, PutDue, Flushing
  <2>2. Behind' = Behind
    BY <1>0, <1>b, <2>1 DEF Behind, BaseSeq, queueVars
  <2> QED
    BY <1>0, <1>b, <2>1, <2>2, ChainMoved, Zenon DEF CdmInv, ChainInv
<1>5. Buffered' = Buffered /\ Filed \subseteq Filed'
  BY <1>0, <1>c, Zenon DEF Buffered, Filed
<1>6. BufferInv'
  <2>1. Stored' = Stored
    BY <1>0, <1>b, Zenon DEF Stored, Flushing
  <2> QED
    BY <1>0, <1>b, <1>c, <1>5, <2>1 DEF CdmInv, BufferInv, queueVars
<1>7. \A r \in CdmReaders : ReaderInv(r)'
  BY <1>0, <1>5, ReadersKept, Zenon DEF CdmInv, ReaderInv
<1> QED
  BY <1>0, <1>1, <1>2, <1>3, <1>4, <1>6, <1>7, Zenon DEF CdmInv, boundVars

\* The buffer is cleared when its chunks are in the file.
LEMMA ClearOK ==
  ASSUME CdmInv, clear
  PROVE  CdmInv'
<1>0. /\ wr.pc = "clear" /\ chunkBuffer' = Nothing /\ wr' = [wr EXCEPT !.pc = wr.next]
      /\ UNCHANGED <<queueVars, cur, unflushed, content, onDisk, mapped, live, trunc, cdmRead, boundVars>>
  BY Zenon DEF clear
<1>a. /\ wr \in Writers /\ cur \in [seq : Nat, offset : Nat] /\ wr.next \in {"cut", "put", "done"}
      /\ unflushed = Nothing /\ DOMAIN chunkBuffer \subseteq DOMAIN content
  BY <1>0, Zenon DEF CdmInv, CdmTyped, BufferInv, Writers
<1>b. wr' \in Writers /\ wr'.job = wr.job /\ wr'.pc = wr.next /\ wr'.next = wr.next
  BY <1>0, <1>a, Zenon DEF Writers, WriterStates
<1>1. CdmTyped' /\ QueueInv' /\ InFlight' = InFlight /\ TruncInv' /\ OrderInv'
  BY <1>0, <1>a, <1>b, Working, Zenon
<1>2. ToldInv'
  <2>1. Graph(chunkBuffer') = {}
    BY <1>0, GraphNothing, Zenon
  <2>2. Told' \subseteq Told
    BY <1>0, <1>1, <2>1, Zenon DEF Told, queueVars
  <2> QED
    BY <1>0, <2>2, ToldMoved, Zenon DEF CdmInv, queueVars
<1>3. FileInv'
  BY <1>0, Zenon DEF CdmInv, FileInv
<1>4. ChainInv'
  <2>1. CutDue' = CutDue /\ PutDue' = PutDue
    BY <1>0, <1>a, <1>b, Zenon DEF CutDue, PutDue, Flushing
  <2>2. Behind' = Behind
    BY <1>0, <1>b, <2>1 DEF Behind, BaseSeq, queueVars
  <2> QED
    BY <1>0, <1>b, <2>1, <2>2, ChainMoved, Zenon DEF CdmInv, ChainInv
<1>5. Buffered \subseteq Filed /\ Filed' = Filed
  <2>1. cur.seq = 0 => DOMAIN chunkBuffer = {}
    BY GraphNothing, Zenon DEF CdmInv, FileInv
  <2> QED
    BY <1>0, <1>a, <2>1, CurMapped, Zenon DEF Buffered, Filed
<1>6. BufferInv'
  <2>1. Stored' = Stored
    BY <1>0, <1>a, <1>b, Zenon DEF Stored, Flushing
  <2> QED
    BY <1>0, <1>a, <1>b, <1>5, <2>1, GraphNothing DEF CdmInv, BufferInv, queueVars
<1>7. \A r \in CdmReaders : ReaderInv(r)'
  BY <1>0, <1>5, ReadersKept, Zenon DEF CdmInv, ReaderInv
<1> QED
  BY <1>0, <1>1, <1>2, <1>3, <1>4, <1>6, <1>7, Zenon DEF CdmInv, boundVars

\* cutAndExpectRef cuts the file that the reference names.
LEMMA CutOK ==
  ASSUME CdmInv, cutAndExpectRef
  PROVE  CdmInv'
<1>s. PICK s : s = Newest(onDisk) + 1
  BY Zenon
<1>0. /\ wr.pc = "cut" /\ onDisk' = onDisk \union {s} /\ mapped' = mapped \union {s}
      /\ cur' = [seq |-> s, offset |-> Header]
      /\ UNCHANGED <<queueVars, chunkBuffer, unflushed, content, live, trunc, cdmRead, written, reopens>>
  BY <1>s, Zenon DEF cutAndExpectRef
<1>a. CdmTyped /\ FileInv /\ TruncInv /\ ChainInv /\ QueueInv /\ BufferInv
  BY Zenon DEF CdmInv
<1>b. CutDue /\ wr.job.ref = <<s, Header>>
  BY <1>0, <1>a, <1>s, Zenon DEF CutDue, ChainInv
<1>c. wr' = [wr EXCEPT !.pc = "put"] /\ failed' = failed
  BY <1>b, <1>s, Zenon DEF cutAndExpectRef
<1>d. wr' \in Writers /\ wr'.job = wr.job /\ wr'.pc = "put"
  BY <1>a, <1>c, Zenon DEF CdmTyped, Writers, WriterStates
<1>e. s \in Nat /\ s > 0 /\ onDisk \subseteq Nat /\ \A t \in onDisk : t < s
  BY <1>a, <1>s, NewestTop DEF Top
<1>f. cur'.seq = s /\ cur'.offset = Header
  BY <1>0, Zenon
<1> USE DEF queueVars
<1>1. CdmTyped'
  BY <1>0, <1>a, <1>d, <1>e DEF CdmTyped, Header
<1>2. InFlight' = InFlight
  BY <1>0, <1>d, Zenon DEF InFlight
<1>3. ToldInv'
  <2>1. Told' = Told
    BY <1>0, <1>2, Zenon DEF Told
  <2> QED
    BY <1>0, <2>1, ToldMoved, Zenon DEF CdmInv
<1>4. TruncInv' /\ (trunc.pc = "remove" => s \notin trunc.removed)
  <2>1. ~((Removing \/ trunc.pc = "reset") /\ trunc.all)
    BY <1>0, <1>a, Zenon DEF TruncInv
  <2>2. Removing => s \notin trunc.removed /\ \A x \in trunc.removed : ~(s <= x)
    <3>1. Removing => trunc.removed \subseteq onDisk
      BY <1>a, Zenon DEF TruncInv
    <3>2. \A x \in onDisk : ~(s <= x)
      BY <1>e
    <3>3. s \notin onDisk
      BY <1>e, <3>2
    <3> QED
      BY <3>1, <3>2, <3>3, Zenon
  <2> QED
    BY <1>0, <1>a, <2>1, <2>2, Zenon DEF TruncInv, Removing
<1>n. Newest(onDisk') = s
  <2>1. Top(onDisk', s) /\ onDisk' \subseteq Nat
    BY <1>0, <1>e DEF Top
  <2> QED
    BY <1>e, <2>1, NewestIs, Zenon
<1>o. OrderInv'
  <2>1. <<wr.job.ref, wr.job.chk>> \in Told
    BY <1>0, Zenon DEF Told, InFlight
  <2>2. Below(wr.job.ref)
    BY <2>1, SameChunk, Zenon DEF CdmInv
  <2>3. s <= evtlPos.seq
    BY <1>b, <2>2 DEF Below
  <2>4. cur'.seq # 0
    BY <1>e, <1>f
  <2> QED
    BY <1>0, <1>n, <2>3, <2>4, Zenon DEF CdmInv, OrderInv
<1>5. FileInv'
  <2>1. GapLess(onDisk')
    <3>1. ASSUME NEW x \in onDisk, NEW u \in x..s PROVE u \in onDisk'
      <4>1. s - 1 \in onDisk
        BY <1>a, <1>s, NewestTop DEF Top
      <4>2. u = s \/ u \in x..(s - 1)
        BY <1>e
      <4> QED
        BY <1>0, <1>a, <4>1, <4>2, Zenon DEF FileInv, GapLess
    <3>2. \A x \in onDisk : \A u \in s..x : FALSE
      BY <1>e
    <3>3. \A u \in s..s : u = s
      BY <1>e
    <3>4. ASSUME NEW x \in onDisk, NEW y \in onDisk, NEW u \in x..y PROVE u \in onDisk'
      BY <1>0, <1>a, Zenon DEF FileInv, GapLess
    <3> QED
      BY <1>0, <3>1, <3>2, <3>3, <3>4, Zenon DEF GapLess
  <2>2. Top(onDisk', s) /\ onDisk' \subseteq Nat
    BY <1>0, <1>e DEF Top
  <2>3. Newest(onDisk') = s
    BY <1>e, <2>2, NewestIs, Zenon
  <2>4. mapped' = IF trunc'.pc = "remove" THEN onDisk' \ trunc'.removed ELSE onDisk'
    BY <1>0, <1>a, <1>4, Zenon DEF FileInv
  <2>5. \A r \in DOMAIN content' : r[1] \in onDisk'
    BY <1>0, <1>a, Zenon DEF FileInv
  <2>6. cur'.seq # 0 /\ cur'.seq \in onDisk' /\ cur'.offset > 0
    BY <1>0, <1>e, <1>f DEF Header
  <2> QED
    BY <1>e, <1>f, <2>1, <2>2, <2>3, <2>4, <2>5, <2>6, Zenon DEF FileInv
<1>6. ChainInv'
  <2>1. ~CutDue' /\ PutDue'
    BY <1>d, Zenon DEF CutDue, PutDue, Flushing
  <2>2. Behind' = Behind
    BY <1>b, <1>d, <2>1, Zenon DEF Behind
  <2> QED
    BY <1>0, <1>a, <1>b, <1>d, <1>e, <1>f, <2>1, <2>2, ChainMoved
<1>7. QueueInv'
  BY <1>0, <1>a, <1>2, <1>d, Zenon DEF QueueInv
<1>8. chunkBuffer = Nothing /\ Filed \subseteq Filed' /\ Buffered = {}
  BY <1>0, <1>a, GraphNothing, Zenon DEF BufferInv, Filed, Buffered
<1>9. BufferInv'
  BY <1>0, <1>a, <1>8, <1>d, GraphNothing, ZenonT(30) DEF BufferInv, Stored, Flushing
<1>10. \A r \in CdmReaders : ReaderInv(r)'
  BY <1>0, <1>8, ReadersKept, Zenon DEF CdmInv, ReaderInv
<1> QED
  BY <1>1, <1>3, <1>4, <1>5, <1>6, <1>7, <1>9, <1>10, <1>c, <1>o, Zenon DEF CdmInv

\* The chunk is put where its reference says.
LEMMA PutOK ==
  ASSUME CdmInv, putChunk
  PROVE  CdmInv'
<1>0. /\ wr.pc = "put" /\ unflushed' = Put(unflushed, <<cur.seq, cur.offset>>, wr.job.chk)
      /\ cur' = [cur EXCEPT !.offset = @ + 1] /\ chunkBuffer' = Put(chunkBuffer, wr.job.ref, wr.job.chk)
      /\ UNCHANGED <<queueVars, content, onDisk, mapped, live, trunc, cdmRead, boundVars>>
  BY Zenon DEF putChunk
<1>a. CdmTyped /\ FileInv /\ TruncInv /\ ChainInv /\ QueueInv /\ BufferInv
  BY Zenon DEF CdmInv
<1>b. PutDue /\ ~CutDue /\ wr.job.ref = <<cur.seq, cur.offset>> /\ cur.seq # 0
  BY <1>0, <1>a, Zenon DEF PutDue, CutDue, Flushing, ChainInv
<1>c. /\ wr' \in Writers /\ wr'.job = wr.job
      /\ wr'.pc = "done" \/ (wr'.pc = "flush" /\ wr'.next = "done")
  <2>1. CASE wr' = [wr EXCEPT !.pc = "done"]
    BY <1>a, <2>1, Zenon DEF CdmTyped, Writers, WriterStates
  <2>2. CASE wr' = [wr EXCEPT !.pc = "flush", !.next = "done"]
    BY <1>a, <2>2, Zenon DEF CdmTyped, Writers, WriterStates
  <2> QED
    BY <2>1, <2>2, Zenon DEF putChunk
<1>d. /\ cur' \in [seq : Nat, offset : Nat] /\ cur'.seq = cur.seq /\ cur'.offset = cur.offset + 1
      /\ cur.seq \in Nat /\ cur.offset \in Nat
  <2>1. cur \in [seq : Nat, offset : Nat]
    BY <1>a, Zenon DEF CdmTyped
  <2> QED
    BY <1>0, <2>1
<1>e. unflushed' = chunkBuffer' /\ DOMAIN chunkBuffer' = DOMAIN chunkBuffer \union {wr.job.ref}
  BY <1>0, <1>a, <1>b, Zenon DEF BufferInv, Put
<1>1. CdmTyped' /\ QueueInv' /\ InFlight' = InFlight /\ TruncInv' /\ OrderInv'
  BY <1>0, <1>c, <1>d, Working, Zenon
<1>2. ToldInv'
  <2>1. Graph(chunkBuffer') \subseteq Graph(chunkBuffer) \union {<<wr.job.ref, wr.job.chk>>}
    BY <1>0, GraphPut, Zenon
  <2>2. <<wr.job.ref, wr.job.chk>> \in Told
    BY <1>0, Zenon DEF Told, InFlight
  <2>3. Graph(unflushed') \subseteq Told
    BY <1>e, <2>1, <2>2, Zenon DEF Told
  <2>4. Told' \subseteq Told
    BY <1>0, <1>1, <1>e, <2>3, Zenon DEF Told, queueVars
  <2> QED
    BY <1>0, <2>4, ToldMoved, Zenon DEF CdmInv, queueVars
<1>3. FileInv'
  BY <1>0, <1>a, <1>b, <1>d DEF FileInv
<1>4. ChainInv'
  <2>1. ~CutDue' /\ ~PutDue'
    BY <1>c, Zenon DEF CutDue, PutDue, Flushing
  <2>2. BaseSeq' = cur.seq
    BY <1>0, <1>a, <1>b, Zenon DEF BaseSeq, TruncInv, Removing, FileInv
  <2>3. Behind' = <<cur.seq, cur.offset + 1>>
    BY <1>d, <2>1, <2>2, Zenon DEF Behind
  <2>4. Behind = <<cur.seq, cur.offset + 1>>
    BY <1>b DEF Behind, After
  <2> QED
    BY <1>0, <1>a, <2>1, <2>3, <2>4, ChainMoved, Zenon
<1>5. Buffered \subseteq Buffered' /\ Filed' = Filed /\ wr.job.ref \in Buffered'
  BY <1>0, <1>b, <1>d, <1>e DEF Buffered, Filed
<1>6. BufferInv'
  <2>1. (\A r \in DOMAIN chunkBuffer' : r[1] = cur'.seq) /\ wr'.job.ref[1] = cur'.seq
    BY <1>a, <1>b, <1>c, <1>d, <1>e DEF BufferInv
  <2> QED
    BY <1>0, <1>a, <1>c, <1>e, <1>5, <2>1, Zenon DEF BufferInv, queueVars
<1>7. \A r \in CdmReaders : ReaderInv(r)'
  BY <1>0, <1>5, ReadersKept, Zenon DEF CdmInv, ReaderInv
<1> QED
  BY <1>0, <1>1, <1>2, <1>3, <1>4, <1>6, <1>7, Zenon DEF CdmInv, boundVars

\* The reference of the call of WriteChunk in progress is the last one.
LEMMA LastReference ==
  ASSUME CdmInv, wjob # NoJob
  PROVE  wjob.ref[1] = evtlPos.seq
<1>a. CdmTyped /\ FileInv /\ TruncInv /\ ChainInv /\ QueueInv /\ BufferInv
  BY Zenon DEF CdmInv
<1>1. CASE queued
  <2>1. <<evtlPos.seq, evtlPos.offset>> = <<wjob.ref[1], wjob.ref[2] + 1>>
    BY <1>1, <1>a, Zenon DEF ChainInv, After
  <2> QED
    BY <2>1, Zenon
<1>2. CASE ~queued
  <2>1. wjob = wr.job /\ wr.pc # "idle" /\ jobs = <<>>
    BY <1>2, <1>a, Zenon DEF QueueInv
  <2>2. <<evtlPos.seq, evtlPos.offset>> = Behind
    BY <1>2, <1>a, <2>1, Zenon DEF ChainInv, Last
  <2>3. CASE CutDue \/ PutDue
    BY <2>1, <2>2, <2>3, Zenon DEF Behind, After
  <2>4. CASE ~CutDue /\ ~PutDue
    <3>1. Stored
      <4>1. wr.pc \in WriterStates /\ wr.next \in {"idle", "cut", "put", "done"}
            /\ (wr.pc \in {"flush", "clear"} => wr.next # "idle")
        BY <1>a, Zenon DEF CdmTyped, Writers
      <4> QED
        BY <2>1, <2>4, <4>1, Zenon DEF WriterStates, CutDue, PutDue, Stored, Flushing
    <3>2. wr.job.ref[1] = cur.seq /\ (wr.job.ref \in Buffered \/ wr.job.ref \in Filed)
      BY <1>a, <3>1, Zenon DEF BufferInv
    <3>3. cur.seq # 0
      <4>1. wr.job.ref \in Filed => wr.job.ref[1] # 0
        BY <1>a, Zenon DEF Filed, CdmTyped
      <4>2. cur.seq = 0 => Buffered = {}
        BY <1>a, GraphNothing, Zenon DEF Buffered, FileInv
      <4> QED
        BY <3>2, <4>1, <4>2, Zenon
    <3>4. BaseSeq = cur.seq
      BY <1>a, <2>1, <3>3, Zenon DEF BaseSeq, TruncInv, Removing, FileInv
    <3> QED
      BY <2>1, <2>2, <2>4, <3>2, <3>4, Zenon DEF Behind
  <2> QED
    BY <2>3, <2>4, Zenon
<1> QED
  BY <1>1, <1>2, Zenon

\* It is to no file that is being removed.
LEMMA LastStays ==
  ASSUME CdmInv, wjob # NoJob
  PROVE  Removing => wjob.ref[1] \notin trunc.removed
<1>a. CdmTyped /\ FileInv /\ TruncInv /\ OrderInv
  BY Zenon DEF CdmInv
<1>1. wjob.ref[1] = evtlPos.seq
  BY LastReference, Zenon
<1>2. ASSUME Removing, evtlPos.seq \in trunc.removed PROVE FALSE
  <2>1. /\ trunc.removed \subseteq onDisk /\ onDisk \subseteq Nat
        /\ \A s \in trunc.removed, t \in onDisk : t <= s => t \in trunc.removed
    BY <1>2, <1>a, NewestTop, Zenon DEF TruncInv
  <2>2. Newest(onDisk) \in Nat /\ \A t \in onDisk : t <= Newest(onDisk)
    BY <1>a, NewestTop, Zenon DEF Top
  <2>3. \A t \in onDisk : t <= evtlPos.seq
    <3>1. Newest(onDisk) <= evtlPos.seq /\ evtlPos.seq \in Nat
      BY <1>2, <1>a, <2>1, Zenon DEF OrderInv
    <3> QED
      BY <2>1, <2>2, <3>1
  <2>4. trunc.removed = onDisk
    BY <1>2, <2>1, <2>3, Zenon
  <2> QED
    BY <1>2, <1>a, <2>4, Zenon DEF TruncInv
<1> QED
  BY <1>1, <1>2, Zenon

\* A chunk that goes to the head with the value it was written with.
LEMMA LivePut ==
  ASSUME ToldInv, NEW ref, NEW chk, <<ref, chk>> \in Told, live' = Put(live, ref, chk)
  PROVE  /\ Graph(live') \subseteq Told /\ DOMAIN live' = DOMAIN live \union {ref}
         /\ \A s \in DOMAIN live : live'[s] = live[s]
<1>0. Graph(live') \subseteq Graph(live) \union {<<ref, chk>>}
  BY GraphPut, Zenon
<1>1. /\ DOMAIN live' = DOMAIN live \union {ref}
      /\ live'[ref] = chk /\ \A s \in DOMAIN live : s # ref => live'[s] = live[s]
  BY Zenon DEF Put
<1>2. ref \in DOMAIN live => live[ref] = chk
  BY InGraph, SameChunk, Zenon DEF Told
<1> QED
  BY <1>0, <1>1, <1>2, Zenon DEF Told

\* The chunk leaves the queue when it is in the buffer or in the file.
LEMMA ProcessedOK ==
  ASSUME CdmInv, processed
  PROVE  CdmInv'
<1>0. /\ wr.pc = "done" /\ wr' = IdleWriter
      /\ UNCHANGED <<queued, evtlPos, jobs, fileVars, trunc, cdmRead, boundVars>>
  BY Zenon DEF processed
<1>a. CdmTyped /\ FileInv /\ TruncInv /\ ChainInv /\ QueueInv /\ BufferInv /\ ToldInv
  BY Zenon DEF CdmInv
<1>b. wr' \in Writers /\ wr'.pc = "idle" /\ wr.job \in Jobs /\ wr.job.chk > 0
  BY <1>0, <1>a, Zenon DEF CdmTyped, IdleWriter, NoJob, Writers, WriterStates, Jobs, Refs
<1>c. Buffered' = Buffered /\ Filed' = Filed
  BY <1>0, Zenon DEF Buffered, Filed, fileVars
<1>d. wr.job.ref \in Buffered \/ wr.job.ref \in Filed
  BY <1>0, <1>a, Zenon DEF BufferInv, Stored
<1>e. ~((Removing \/ trunc.pc = "reset") /\ trunc.all)
  BY <1>0, <1>a, Zenon DEF TruncInv
<1>f. Behind' = Behind /\ Last' = Last /\ ~CutDue' /\ ~PutDue'
  BY <1>0, <1>b, Zenon DEF Behind, BaseSeq, Last, CutDue, PutDue, Flushing, fileVars
<1>g. FileInv'
  BY <1>0, <1>a, Zenon DEF FileInv, fileVars
<1>h. ~Stored'
  BY <1>b, Zenon DEF Stored, Flushing
<1>i. cur.seq # 0
  <2>1. wr.job.ref[1] = cur.seq
    BY <1>0, <1>a, Zenon DEF BufferInv, Stored
  <2>2. wr.job.ref \in Filed => wr.job.ref[1] # 0
    BY <1>a, Zenon DEF Filed, CdmTyped
  <2>3. cur.seq = 0 => Buffered = {}
    BY <1>a, GraphNothing, Zenon DEF Buffered, FileInv
  <2> QED
    BY <1>d, <2>1, <2>2, <2>3, Zenon
<1>1. CASE queued
  <2>0. chunkRefMap' = Without(chunkRefMap, {wr.job.ref}) /\ UNCHANGED <<wjob, live>>
    BY <1>1, Zenon DEF processed
  <2>1. /\ Graph(chunkRefMap') \subseteq Graph(chunkRefMap)
        /\ DOMAIN chunkRefMap' = DOMAIN chunkRefMap \ {wr.job.ref}
    BY <2>0, GraphWithout, Zenon DEF Without
  <2>2. CdmTyped'
    BY <1>0, <1>a, <1>b, <2>0, Zenon DEF CdmTyped, fileVars, boundVars
  <2>3. InFlight' \subseteq InFlight /\ \A j \in InFlight' : j.ref # wr.job.ref
    BY <1>0, <1>1, <1>a, <1>b, <2>0, Zenon DEF InFlight, QueueInv
  <2>4. Told' \subseteq Told
    BY <1>0, <2>0, <2>1, <2>3, Zenon DEF Told, fileVars
  <2>5. ToldInv'
    BY <1>0, <1>a, <2>4, ToldMoved, Zenon
  <2>6. TruncInv'
    BY <1>0, <1>a, <1>e, <2>0, Zenon DEF TruncInv, Removing, fileVars
  <2>o. OrderInv'
    BY <1>0, <1>i, <2>0, Zenon DEF CdmInv, OrderInv, fileVars
  <2>7. ChainInv'
    BY <1>0, <1>a, <1>f, <2>0, Zenon DEF ChainInv
  <2>8. QueueInv'
    BY <1>0, <1>1, <1>a, <1>b, <2>0, <2>1, <2>3 DEF QueueInv
  <2>9. BufferInv'
    BY <1>0, <1>a, <1>b, <1>c, <1>d, <1>h, <2>0, <2>1, Zenon DEF BufferInv, fileVars
  <2>10. \A r \in CdmReaders : ReaderInv(r)'
    BY <1>0, <1>c, <2>0, ReadersKept, Zenon DEF CdmInv, ReaderInv
  <2> QED
    BY <1>0, <1>g, <2>2, <2>5, <2>6, <2>7, <2>8, <2>9, <2>10, <2>o, Zenon DEF CdmInv, boundVars
<1>2. CASE ~queued
  <2>0. wjob' = NoJob /\ live' = Put(live, wr.job.ref, wr.job.chk) /\ UNCHANGED chunkRefMap
    BY <1>2, Zenon DEF processed
  <2>a. wr.job # NoJob
    BY <1>b DEF NoJob
  <2>b. jobs = <<>> /\ wjob = wr.job
    BY <1>0, <1>2, <1>a, Zenon DEF QueueInv
  <2>c. <<wr.job.ref, wr.job.chk>> \in Told
    BY <1>0, Zenon DEF Told, InFlight
  <2>1. /\ Graph(live') \subseteq Told /\ DOMAIN live' = DOMAIN live \union {wr.job.ref}
        /\ \A s \in DOMAIN live : live'[s] = live[s]
    BY <1>a, <2>0, <2>c, LivePut, Zenon
  <2>2. CdmTyped'
    <3>1. NoJob \in Jobs
      BY Zenon DEF NoJob, Jobs, Refs
    <3> QED
      BY <1>0, <1>a, <1>b, <2>0, <3>1, Zenon DEF CdmTyped, fileVars, boundVars
  <2>3. InFlight' = {}
    BY <1>0, <1>b, <2>0, <2>b DEF InFlight
  <2>4. Told' \subseteq Told
    BY <1>0, <2>0, <2>1, <2>3, Zenon DEF Told, fileVars
  <2>5. ToldInv'
    BY <1>0, <1>a, <2>4, ToldMoved, Zenon
  <2>6. TruncInv'
    <3>1. Removing => wr.job.ref[1] \notin trunc.removed
      BY <2>a, <2>b, LastStays, Zenon
    <3> QED
      BY <1>0, <1>a, <1>e, <2>0, <2>1, <3>1, Zenon DEF TruncInv, Removing, fileVars
  <2>o. OrderInv'
    <3>1. wr.job.ref[1] = evtlPos.seq
      BY <2>a, <2>b, LastReference, Zenon
    <3> QED
      BY <1>0, <1>i, <2>0, <2>1, <3>1, Zenon DEF CdmInv, OrderInv, fileVars
  <2>7. ChainInv'
    BY <1>0, <1>2, <1>a, <1>f, <2>0, Zenon DEF ChainInv
  <2>8. QueueInv'
    BY <1>0, <1>2, <1>a, <1>b, <2>0, <2>3, <2>b DEF QueueInv
  <2>9. BufferInv'
    BY <1>0, <1>a, <1>b, <1>c, <1>d, <1>h, <2>0, <2>1, Zenon DEF BufferInv, fileVars
  <2>10. \A r \in CdmReaders : ReaderInv(r)'
    BY <1>0, <1>c, <2>1, ReadersKept, Zenon DEF CdmInv, ReaderInv
  <2> QED
    BY <1>0, <1>g, <2>2, <2>5, <2>6, <2>7, <2>8, <2>9, <2>10, <2>o, Zenon DEF CdmInv, boundVars
<1> QED
  BY <1>1, <1>2, Zenon

\* The worker takes the oldest job.
LEMMA PopOK ==
  ASSUME CdmInv, pop
  PROVE  CdmInv'
<1>0. /\ queued /\ wr.pc = "idle" /\ jobs # <<>> /\ jobs' = Tail(jobs)
      /\ wr' = [IdleWriter EXCEPT !.pc = "start", !.job = Head(jobs)]
      /\ UNCHANGED <<queued, evtlPos, wjob, chunkRefMap, fileVars, live, trunc, cdmRead, boundVars>>
  BY Zenon DEF pop
<1>a. CdmTyped /\ FileInv /\ TruncInv /\ ChainInv /\ QueueInv /\ BufferInv /\ ToldInv
  BY Zenon DEF CdmInv
<1>b. PICK n \in Nat : n = Len(jobs) /\ n > 0
  <2>1. jobs \in Seq(Jobs)
    BY <1>a, Zenon DEF CdmTyped
  <2>2. Len(jobs) \in Nat /\ Len(jobs) > 0
    BY <1>0, <2>1
  <2> QED
    BY <2>2, Zenon
<1>c. /\ jobs' \in Seq(Jobs) /\ Len(jobs') = n - 1 /\ \A i \in 1..(n - 1) : jobs'[i] = jobs[i + 1]
      /\ Head(jobs) = jobs[1] /\ jobs[1] \in Jobs /\ jobs[1].chk > 0 /\ (jobs' = <<>> <=> n = 1)
  BY <1>0, <1>a, <1>b, SMTT(30) DEF CdmTyped
<1>d. wr' \in Writers /\ wr'.pc = "start" /\ wr'.job = jobs[1]
  BY <1>0, <1>c, StartingFields, Zenon
<1>e. ~((Removing \/ trunc.pc = "reset") /\ trunc.all)
  BY <1>0, <1>a, Zenon DEF TruncInv
<1>1. CdmTyped'
  <2>1. \A i \in 1..Len(jobs') : jobs'[i].chk > 0
    BY <1>a, <1>b, <1>c DEF CdmTyped
  <2>2. wr'.pc # "flush" /\ wr'.pc # "clear"
    BY <1>d, Zenon
  <2> QED
    BY <1>0, <1>a, <1>c, <1>d, <2>1, <2>2, Zenon DEF CdmTyped, fileVars, boundVars
<1>2. InFlight' \subseteq InFlight
  <2>1. \A i \in 1..Len(jobs') : i + 1 \in 1..Len(jobs) /\ jobs'[i] = jobs[i + 1]
    BY <1>b, <1>c
  <2>2. 1 \in 1..Len(jobs)
    BY <1>b
  <2> QED
    BY <1>0, <1>d, <2>1, <2>2 DEF InFlight
<1>3. ToldInv'
  <2>1. Told' \subseteq Told
    BY <1>0, <1>2, Zenon DEF Told, fileVars
  <2> QED
    BY <1>0, <1>a, <2>1, ToldMoved, Zenon
<1>4. FileInv' /\ TruncInv' /\ OrderInv'
  <2>1. OrderInv'
    BY <1>0, Zenon DEF CdmInv, OrderInv, fileVars
  <2> QED
    BY <1>0, <1>a, <1>e, <2>1, Zenon DEF FileInv, TruncInv, Removing, fileVars
<1>5. ChainInv'
  <2>1. ~CutDue /\ ~PutDue
    BY <1>0, Zenon DEF CutDue, PutDue, Flushing
  <2>2. Behind = <<Newest(onDisk), cur.offset>>
    BY <1>e, <2>1, Zenon DEF Behind, BaseSeq, Removing
  <2>3. Follows(Behind, jobs[1])
    BY <1>a, <1>b DEF ChainInv
  <2>4. jobs[1].cutFile => CutDue' /\ ~PutDue' /\ jobs[1].ref = <<Newest(onDisk) + 1, Header>>
    BY <1>d, <2>2, <2>3, Zenon DEF CutDue, PutDue, Flushing, Follows
  <2>5. ~jobs[1].cutFile => PutDue' /\ ~CutDue' /\ jobs[1].ref = <<Newest(onDisk), cur.offset>> /\ cur.offset > 0
    BY <1>d, <2>2, <2>3, Zenon DEF CutDue, PutDue, Flushing, Follows
  <2>6. cur.offset > 0 => cur.seq = Newest(onDisk) /\ cur.seq # 0
    BY <1>a DEF FileInv
  <2>7. Behind' = After(jobs[1])
    BY <1>d, <2>4, <2>5, Zenon DEF Behind
  <2>8. ASSUME NEW i \in 1..Len(jobs')
        PROVE  Follows(IF i = 1 THEN Behind' ELSE After(jobs'[i - 1]), jobs'[i])
    <3>1. i + 1 \in 1..Len(jobs) /\ i + 1 # 1 /\ jobs'[i] = jobs[i + 1] /\ (i + 1) - 1 = i
      BY <1>b, <1>c
    <3>2. Follows(After(jobs[i]), jobs[i + 1])
      BY <1>a, <3>1, Zenon DEF ChainInv
    <3>3. i # 1 => jobs'[i - 1] = jobs[i]
      BY <1>b, <1>c
    <3> QED
      BY <2>7, <3>1, <3>2, <3>3, Zenon
  <2>9. Last' = Last
    <3>1. Last = After(jobs[n])
      BY <1>0, <1>b, Zenon DEF Last
    <3>2. CASE n = 1
      BY <1>c, <2>7, <3>1, <3>2, Zenon DEF Last
    <3>3. CASE n # 1
      <4>1. jobs' # <<>> /\ jobs'[Len(jobs')] = jobs[n]
        BY <1>b, <1>c, <3>3
      <4> QED
        BY <3>1, <4>1, Zenon DEF Last
    <3> QED
      BY <3>2, <3>3, Zenon
  <2>10. CutDue' => wr'.job.cutFile /\ wr'.job.ref = <<Newest(onDisk') + 1, Header>>
    BY <1>0, <1>d, <2>4, <2>5, Zenon DEF fileVars
  <2>11. PutDue' => wr'.job.ref = <<cur'.seq, cur'.offset>> /\ cur'.seq # 0
    BY <1>0, <1>d, <2>4, <2>5, <2>6, Zenon DEF fileVars
  <2> QED
    BY <1>0, <1>a, <2>8, <2>9, <2>10, <2>11, Zenon DEF ChainInv
<1>6. QueueInv'
  <2>1. \A i \in 1..Len(jobs') : i + 1 \in 1..Len(jobs) /\ i + 1 # 1 /\ jobs'[i] = jobs[i + 1]
    BY <1>b, <1>c
  <2>2. \A i, k \in 1..Len(jobs') : i # k => i + 1 # k + 1
    BY <1>b, <1>c
  <2>3. 1 \in 1..Len(jobs)
    BY <1>b
  <2>4. \A i, k \in 1..Len(jobs') : i # k => jobs'[i].ref # jobs'[k].ref
    BY <1>a, <2>1, <2>2 DEF QueueInv
  <2>5. \A i \in 1..Len(jobs') : jobs'[i].ref # wr'.job.ref
    BY <1>a, <1>d, <2>1, <2>3 DEF QueueInv
  <2>6. queued /\ wjob # NoJob => /\ \A i \in 1..Len(jobs') : jobs'[i].ref # wjob.ref
                                  /\ wr'.job.ref # wjob.ref
    BY <1>a, <1>d, <2>1, <2>3, Zenon DEF QueueInv
  <2> QED
    BY <1>0, <1>a, <1>2, <2>4, <2>5, <2>6, Zenon DEF QueueInv
<1>7. Buffered' = Buffered /\ Filed' = Filed
  BY <1>0, Zenon DEF Buffered, Filed, fileVars
<1>8. BufferInv'
  <2>1. ~Stored'
    BY <1>d, Zenon DEF Stored, Flushing
  <2> QED
    BY <1>0, <1>a, <1>7, <1>d, <2>1, Zenon DEF BufferInv, fileVars
<1>9. \A r \in CdmReaders : ReaderInv(r)'
  BY <1>0, <1>7, ReadersKept, Zenon DEF CdmInv, ReaderInv
<1> QED
  BY <1>0, <1>1, <1>3, <1>4, <1>5, <1>6, <1>8, <1>9, Zenon DEF CdmInv, boundVars

\* The job joins the queue and its reference is returned.
LEMMA PushOK ==
  ASSUME CdmInv, push
  PROVE  CdmInv'
<1>0. /\ queued /\ wjob # NoJob /\ jobs' = Append(jobs, wjob) /\ live' = Put(live, wjob.ref, wjob.chk)
      /\ wjob' = NoJob
      /\ UNCHANGED <<queued, evtlPos, chunkRefMap, wr, fileVars, trunc, cdmRead, boundVars>>
  BY Zenon DEF push
<1>a. CdmTyped /\ FileInv /\ TruncInv /\ ChainInv /\ QueueInv /\ BufferInv /\ ToldInv
  BY Zenon DEF CdmInv
<1>b. PICK n \in Nat : n = Len(jobs)
  BY <1>a DEF CdmTyped
<1>c. /\ jobs' \in Seq(Jobs) /\ Len(jobs') = n + 1 /\ jobs'[n + 1] = wjob /\ jobs' # <<>>
      /\ \A i \in 1..n : jobs'[i] = jobs[i]
      /\ jobs = <<>> <=> n = 0
  BY <1>0, <1>a, <1>b DEF CdmTyped
<1>d. \A i \in 1..Len(jobs') : i = n + 1 \/ (i \in 1..Len(jobs) /\ i # n + 1)
  BY <1>b, <1>c
<1>e. wjob \in InFlight /\ wjob.chk > 0
  BY <1>0, <1>a, Zenon DEF InFlight, CdmTyped
<1>f. /\ Graph(live') \subseteq Told /\ DOMAIN live' = DOMAIN live \union {wjob.ref}
      /\ \A s \in DOMAIN live : live'[s] = live[s]
  <2>1. <<wjob.ref, wjob.chk>> \in Told
    BY <1>e, Zenon DEF Told
  <2> QED
    BY <1>0, <1>a, <2>1, LivePut, Zenon
<1>1. CdmTyped'
  <2>1. NoJob \in Jobs
    BY Zenon DEF NoJob, Jobs, Refs
  <2>2. \A i \in 1..Len(jobs') : jobs'[i].chk > 0
    BY <1>a, <1>b, <1>c, <1>d, <1>e, Zenon DEF CdmTyped
  <2> QED
    BY <1>0, <1>a, <1>c, <2>1, <2>2, Zenon DEF CdmTyped, fileVars, boundVars
<1>2. InFlight' \subseteq InFlight
  BY <1>0, <1>b, <1>c, <1>d, <1>e, ZenonT(30) DEF InFlight
<1>3. ToldInv'
  <2>1. Told' \subseteq Told
    BY <1>0, <1>2, <1>f, Zenon DEF Told, fileVars
  <2> QED
    BY <1>0, <1>a, <2>1, ToldMoved, Zenon
<1>4. FileInv' /\ TruncInv' /\ OrderInv'
  <2>1. wjob.ref[1] = evtlPos.seq /\ (Removing => wjob.ref[1] \notin trunc.removed)
    BY <1>0, LastReference, LastStays, Zenon
  <2>2. wjob.ref \in DOMAIN chunkRefMap
    BY <1>0, <1>a, <1>e, Zenon DEF QueueInv
  <2>3. ~((Removing \/ trunc.pc = "reset") /\ trunc.all)
    BY <1>0, <1>a, Zenon DEF TruncInv
  <2>4. TruncInv'
    BY <1>0, <1>a, <1>f, <2>1, <2>3, Zenon DEF TruncInv, Removing, fileVars
  <2>5. OrderInv'
    BY <1>0, <1>f, <2>1, <2>2, Zenon DEF CdmInv, OrderInv, fileVars
  <2> QED
    BY <1>0, <1>a, <2>4, <2>5, Zenon DEF FileInv, fileVars
<1>5. ChainInv'
  <2>1. CutDue' = CutDue /\ PutDue' = PutDue /\ Behind' = Behind
    BY <1>0, Zenon DEF CutDue, PutDue, Flushing, Behind, BaseSeq, fileVars
  <2>2. Follows(Last, wjob) /\ <<evtlPos.seq, evtlPos.offset>> = After(wjob)
    BY <1>0, <1>a, Zenon DEF ChainInv
  <2>3. ASSUME NEW i \in 1..Len(jobs')
        PROVE  Follows(IF i = 1 THEN Behind' ELSE After(jobs'[i - 1]), jobs'[i])
    <3>1. CASE i = n + 1
      <4>1. CASE n = 0
        BY <1>b, <1>c, <2>1, <2>2, <3>1, <4>1 DEF Last
      <4>2. CASE n # 0
        <5>1. i # 1 /\ jobs'[i - 1] = jobs[n] /\ Last = After(jobs[n])
          BY <1>b, <1>c, <3>1, <4>2 DEF Last
        <5> QED
          BY <1>c, <2>2, <3>1, <5>1, Zenon
      <4> QED
        BY <4>1, <4>2, Zenon
    <3>2. CASE i # n + 1
      <4>1. i \in 1..n /\ (i # 1 => i - 1 \in 1..n)
        BY <1>b, <1>c, <3>2
      <4>2. Follows(IF i = 1 THEN Behind ELSE After(jobs[i - 1]), jobs[i])
        BY <1>a, <1>b, <4>1, Zenon DEF ChainInv
      <4>3. jobs'[i] = jobs[i] /\ (i # 1 => jobs'[i - 1] = jobs[i - 1])
        BY <1>c, <4>1, Zenon
      <4>4. CASE i = 1
        BY <2>1, <4>2, <4>3, <4>4, Zenon
      <4>5. CASE i # 1
        BY <4>2, <4>3, <4>5, Zenon
      <4> QED
        BY <4>4, <4>5, Zenon
    <3> QED
      BY <3>1, <3>2, Zenon
  <2>4. Last' = After(wjob)
    BY <1>c, Zenon DEF Last
  <2> QED
    BY <1>0, <1>a, <2>1, <2>2, <2>3, <2>4, Zenon DEF ChainInv, fileVars
<1>6. QueueInv'
  <2>1. \A i, k \in 1..Len(jobs') : i # k => jobs'[i].ref # jobs'[k].ref
    <3>1. \A i \in 1..n : jobs[i].ref # wjob.ref
      BY <1>0, <1>a, <1>b, Zenon DEF QueueInv
    <3>2. \A i, k \in 1..n : i # k => jobs[i].ref # jobs[k].ref
      BY <1>a, <1>b, Zenon DEF QueueInv
    <3> QED
      BY <1>b, <1>c, <1>d, <3>1, <3>2
  <2>2. wr'.pc # "idle" => \A i \in 1..Len(jobs') : jobs'[i].ref # wr'.job.ref
    <3>1. wr.pc # "idle" => wr.job.ref # wjob.ref /\ \A i \in 1..n : jobs[i].ref # wr.job.ref
      BY <1>0, <1>a, <1>b, Zenon DEF QueueInv
    <3> QED
      BY <1>0, <1>b, <1>c, <1>d, <3>1, Zenon
  <2> QED
    BY <1>0, <1>a, <1>2, <2>1, <2>2, Zenon DEF QueueInv
<1>7. Buffered' = Buffered /\ Filed' = Filed
  BY <1>0, Zenon DEF Buffered, Filed, fileVars
<1>8. BufferInv'
  <2>1. Stored' = Stored
    BY <1>0, Zenon DEF Stored, Flushing
  <2>2. wjob.ref \in DOMAIN chunkRefMap
    BY <1>0, <1>a, <1>e, Zenon DEF QueueInv
  <2> QED
    BY <1>0, <1>a, <1>7, <1>f, <2>1, <2>2, Zenon DEF BufferInv, fileVars
<1>9. \A r \in CdmReaders : ReaderInv(r)'
  BY <1>0, <1>7, <1>f, ReadersKept, Zenon DEF CdmInv, ReaderInv
<1> QED
  BY <1>0, <1>1, <1>3, <1>4, <1>5, <1>6, <1>8, <1>9, Zenon DEF CdmInv, boundVars

\* WriteChunk gives out a reference that no chunk has.
LEMMA WriteOK ==
  ASSUME CdmRaces = {}, CdmInv, WriteChunk
  PROVE  CdmInv'
<1>0. /\ wjob = NoJob /\ (~queued => wr.pc = "idle") /\ ~Emptying /\ written' = written + 1
      /\ UNCHANGED <<queued, jobs, fileVars, live, trunc, cdmRead, reopens, failed>>
  BY Zenon DEF WriteChunk
<1>a. CdmTyped /\ FileInv /\ TruncInv /\ ChainInv /\ QueueInv /\ BufferInv /\ ToldInv
  BY Zenon DEF CdmInv
<1>b. PICK cut \in BOOLEAN : cut = shouldCutNewFile
  BY Zenon DEF shouldCutNewFile, CdmInv, CdmTyped
<1>c. PICK ref : ref = IF cut THEN <<evtlPos.seq + 1, Header>> ELSE <<evtlPos.seq, evtlPos.offset>>
  BY Zenon
<1>d. PICK job : job = [ref |-> ref, chk |-> written + 1, cutFile |-> cut]
  BY Zenon
<1>e. /\ evtlPos' = [seq |-> ref[1], offset |-> ref[2] + 1, cutFile |-> evtlPos.cutFile /\ ~cut]
      /\ wjob' = job
      /\ IF queued THEN chunkRefMap' = Put(chunkRefMap, ref, written + 1) /\ UNCHANGED wr
         ELSE wr' = [IdleWriter EXCEPT !.pc = "start", !.job = job] /\ UNCHANGED chunkRefMap
  BY <1>b, <1>c, <1>d, Zenon DEF WriteChunk
<1>f. evtlPos.seq \in Nat /\ evtlPos.offset \in Nat /\ evtlPos.cutFile \in BOOLEAN /\ written \in Nat
  BY <1>a, Zenon DEF CdmTyped
<1>g. ref \in Refs /\ ref[1] \in Nat /\ ref[2] \in Nat
  BY <1>c, <1>f DEF Refs, Header
<1>h. job \in Jobs /\ job.ref = ref /\ job.chk = written + 1 /\ job.cutFile = cut /\ job.chk > 0 /\ job # NoJob
  <2>1. job \in Jobs /\ job.ref = ref /\ job.chk = written + 1 /\ job.cutFile = cut
    BY <1>b, <1>d, <1>f, <1>g DEF Jobs
  <2>2. job.chk > 0
    BY <1>f, <2>1
  <2> QED
    BY <2>1, <2>2 DEF NoJob
<1>i. /\ evtlPos' \in [seq : Nat, offset : Nat, cutFile : BOOLEAN]
      /\ evtlPos'.seq = ref[1] /\ evtlPos'.offset = ref[2] + 1
  <2>1. (evtlPos.cutFile /\ ~cut) \in BOOLEAN
    BY Zenon
  <2> QED
    BY <1>e, <1>g, <2>1
<1>j. ~cut => evtlPos.offset > 0
  <2>1. ~cut => evtlPos.offset # 0
    BY <1>b, Zenon DEF shouldCutNewFile
  <2> QED
    BY <1>f, <2>1
<1>k. ~queued => wr' \in Writers /\ wr'.pc = "start" /\ wr'.job = job
  BY <1>e, <1>h, StartingFields, Zenon
<1>1. CdmTyped'
  <2>1. wjob' \in Jobs /\ (wjob' # NoJob => wjob'.chk > 0) /\ written' \in Nat
    BY <1>0, <1>e, <1>f, <1>h
  <2>2. wr' \in Writers /\ (wr'.pc # "idle" => wr'.job.chk > 0) /\ (wr'.pc \in {"flush", "clear"} => wr'.next # "idle")
    BY <1>a, <1>e, <1>h, <1>k, Zenon DEF CdmTyped
  <2> QED
    BY <1>0, <1>a, <1>i, <2>1, <2>2, Zenon DEF CdmTyped, fileVars
<1>2. ASSUME NEW p \in Told
      PROVE  p[1] # ref /\ p[1][1] \in Nat /\ p[1][2] \in Nat
               /\ p[1][1] <= ref[1] /\ (p[1][1] = ref[1] => p[1][2] < ref[2])
  <2>1. p[1] \in Refs /\ Below(p[1])
    BY <1>a, Zenon DEF ToldInv
  <2>2. p[1][1] \in Nat /\ p[1][2] \in Nat
    BY <2>1, Zenon DEF Refs
  <2>3. CASE cut
    <3>1. ref[1] = evtlPos.seq + 1
      BY <1>c, <2>3, Zenon
    <3> QED
      BY <1>f, <2>1, <2>2, <3>1 DEF Below
  <2>4. CASE ~cut
    <3>1. ref[1] = evtlPos.seq /\ ref[2] = evtlPos.offset
      BY <1>c, <2>4, Zenon
    <3> QED
      BY <1>f, <1>j, <2>1, <2>2, <2>4, <3>1 DEF Below
  <2> QED
    BY <2>3, <2>4, Zenon
<1>3. \A j \in InFlight : j.ref # ref
  <2>1. \A j \in InFlight : <<j.ref, j.chk>> \in Told /\ <<j.ref, j.chk>>[1] = j.ref
    BY Zenon DEF Told
  <2> QED
    BY <1>2, <2>1, Zenon
<1>4. InFlight' \subseteq InFlight \union {job}
  BY <1>0, <1>e, <1>k, Zenon DEF InFlight
<1>5. Told' \subseteq Told \union {<<ref, written + 1>>}
  <2>1. Graph(chunkRefMap') \subseteq Graph(chunkRefMap) \union {<<ref, written + 1>>}
    <3>1. CASE queued
      <4>1. chunkRefMap' = Put(chunkRefMap, ref, written + 1)
        BY <1>e, <3>1, Zenon
      <4> QED
        BY <4>1, GraphPut, Zenon
    <3>2. CASE ~queued
      BY <1>e, <3>2, Zenon
    <3> QED
      BY <3>1, <3>2, Zenon
  <2> QED
    BY <1>0, <1>4, <1>h, <2>1 DEF Told, fileVars
<1>6. ToldInv'
  <2> DEFINE new == <<ref, written + 1>>
  <2>1. new[1] = ref /\ new[2] = written + 1 /\ new \in Refs \X Nat
    BY <1>f, <1>g
  <2> HIDE DEF new
  <2>2. Told' \subseteq Told \union {new}
    BY <1>5, Zenon DEF new
  <2>3. Told' \subseteq Refs \X Nat
    BY <1>a, <2>1, <2>2, Zenon DEF ToldInv
  <2>4. ASSUME NEW p \in Told', NEW q \in Told', p[1] = q[1] PROVE p[2] = q[2]
    <3>1. p \in Told \/ p = new
      BY <2>2, Zenon
    <3>2. q \in Told \/ q = new
      BY <2>2, Zenon
    <3> QED
      BY <1>2, <1>a, <2>1, <2>4, <3>1, <3>2, Zenon DEF ToldInv
  <2>5. ASSUME NEW p \in Told'
        PROVE  /\ p[1][1] <= evtlPos'.seq
               /\ p[1][1] = evtlPos'.seq /\ evtlPos'.offset # 0 => p[1][2] < evtlPos'.offset
    <3>1. CASE p \in Told
      <4>1. p[1][1] \in Nat /\ p[1][2] \in Nat /\ p[1][1] <= ref[1] /\ (p[1][1] = ref[1] => p[1][2] < ref[2])
        BY <1>2, <3>1, Zenon
      <4> QED
        BY <1>g, <1>i, <4>1
    <3>2. CASE p = new
      BY <1>g, <1>i, <2>1, <3>2
    <3> QED
      BY <2>2, <3>1, <3>2, Zenon
  <2> QED
    BY <2>3, <2>4, <2>5, Zenon DEF ToldInv, Below
<1>7. FileInv'
  BY <1>0, <1>a, Zenon DEF FileInv, fileVars
<1>8. TruncInv' /\ OrderInv'
  <2>1. ~((Removing \/ trunc.pc = "reset") /\ trunc.all) /\ ~(trunc.pc = "list" /\ trunc.unused)
    BY <1>0, Zenon DEF Emptying, Removing
  <2>2. TruncInv'
    BY <1>0, <1>a, <2>1, Zenon DEF TruncInv, Removing, fileVars
  <2>3. evtlPos.seq <= evtlPos'.seq
    BY <1>c, <1>f, <1>i
  <2>4. Newest(onDisk) \in Nat /\ trunc.fileNo \in Nat /\ evtlPos'.seq \in Nat
    BY <1>a, <1>g, <1>i, NewestTop, Zenon DEF CdmTyped
  <2>5. Newest(onDisk) <= evtlPos.seq /\ (trunc.pc = "list" => trunc.fileNo <= evtlPos.seq)
    BY <2>1, Zenon DEF CdmInv, OrderInv
  <2>6. Newest(onDisk) <= evtlPos'.seq /\ (trunc.pc = "list" => trunc.fileNo <= evtlPos'.seq)
    BY <1>f, <2>3, <2>4, <2>5
  <2>7. OrderInv'
    BY <1>0, <2>1, <2>6, Zenon DEF CdmInv, OrderInv, fileVars
  <2> QED
    BY <2>2, <2>7, Zenon
<1>9. <<evtlPos.seq, evtlPos.offset>> = Last /\ <<evtlPos'.seq, evtlPos'.offset>> = After(job) /\ Follows(Last, job)
  <2>1. <<evtlPos.seq, evtlPos.offset>> = Last
    BY <1>0, <1>a, Zenon DEF ChainInv
  <2>2. <<evtlPos'.seq, evtlPos'.offset>> = After(job)
    BY <1>h, <1>i, Zenon DEF After
  <2>3. Last[1] = evtlPos.seq /\ Last[2] = evtlPos.offset
    BY <2>1, Zenon
  <2>4. ASSUME cut PROVE Follows(Last, job)
    BY <1>c, <1>h, <2>3, <2>4, Zenon DEF Follows
  <2>5. ASSUME ~cut PROVE Follows(Last, job)
    BY <1>c, <1>h, <1>j, <2>1, <2>3, <2>5, Zenon DEF Follows
  <2> QED
    BY <2>1, <2>2, <2>4, <2>5, Zenon
<1>10. ChainInv'
  <2>1. CASE queued
    <3>1. wr' = wr
      BY <1>e, <2>1, Zenon
    <3>2. CutDue' = CutDue /\ PutDue' = PutDue /\ Behind' = Behind
      <4>1. ~(trunc.pc \in {"remove", "reset"} /\ trunc.all)
        BY <1>0, Zenon DEF Emptying
      <4> QED
        BY <1>0, <3>1, <4>1, Zenon DEF CutDue, PutDue, Flushing, Behind, BaseSeq, fileVars
    <3>3. Last' = Last
      BY <1>0, <3>2, Zenon DEF Last
    <3>4. wjob' = job /\ wjob' # NoJob
      BY <1>e, <1>h, Zenon
    <3>5. Follows(Last', wjob') /\ <<evtlPos'.seq, evtlPos'.offset>> = After(wjob')
      BY <1>9, <3>3, <3>4, Zenon
    <3> QED
      BY <1>0, <1>a, <2>1, <3>1, <3>2, <3>4, <3>5, Zenon DEF ChainInv, fileVars
  <2>2. CASE ~queued
    <3>1. jobs = <<>> /\ wr.pc = "idle"
      BY <1>0, <1>a, <2>2, Zenon DEF QueueInv
    <3>2. Last = <<Newest(onDisk), cur.offset>>
      BY <1>0, <3>1, Zenon DEF Last, Behind, BaseSeq, CutDue, PutDue, Flushing, Emptying
    <3>3. cut => CutDue' /\ ~PutDue'
      BY <1>h, <1>k, <2>2, Zenon DEF CutDue, PutDue, Flushing
    <3>4. ~cut => PutDue' /\ ~CutDue'
      BY <1>h, <1>k, <2>2, Zenon DEF CutDue, PutDue, Flushing
    <3>5. Last' = After(job)
      BY <1>0, <1>b, <1>k, <2>2, <3>1, <3>3, <3>4, Zenon DEF Last, Behind
    <3>6. cut => ref = <<Newest(onDisk) + 1, Header>>
      BY <1>9, <1>h, <3>2 DEF Follows
    <3>7. ~cut => ref = <<Newest(onDisk), cur.offset>> /\ cur.offset > 0
      BY <1>9, <1>h, <3>2 DEF Follows
    <3>8. cur.offset > 0 => cur.seq = Newest(onDisk) /\ cur.seq # 0
      BY <1>a DEF FileInv
    <3>9. CutDue' => wr'.job.cutFile /\ wr'.job.ref = <<Newest(onDisk') + 1, Header>>
      BY <1>0, <1>b, <1>h, <1>k, <2>2, <3>4, <3>6, Zenon DEF fileVars
    <3>10. PutDue' => wr'.job.ref = <<cur'.seq, cur'.offset>> /\ cur'.seq # 0
      BY <1>0, <1>b, <1>h, <1>k, <2>2, <3>3, <3>7, <3>8, Zenon DEF fileVars
    <3>11. 1..Len(jobs') = {}
      BY <1>0, <3>1
    <3> QED
      BY <1>0, <1>9, <2>2, <3>5, <3>9, <3>10, <3>11, Zenon DEF ChainInv
  <2> QED
    BY <2>1, <2>2, Zenon
<1>11. QueueInv'
  <2>1. CASE queued
    <3>1. wr' = wr /\ wjob' = job /\ chunkRefMap' = Put(chunkRefMap, ref, written + 1)
      BY <1>e, <2>1, Zenon
    <3>2. DOMAIN chunkRefMap' = DOMAIN chunkRefMap \union {ref}
      BY <3>1, Zenon DEF Put
    <3>3. \A j \in InFlight' : j.ref \in DOMAIN chunkRefMap'
      BY <1>4, <1>a, <1>h, <2>1, <3>2, Zenon DEF QueueInv
    <3>4. /\ \A i \in 1..Len(jobs) : jobs[i].ref # ref
          /\ wr.pc # "idle" => wr.job.ref # ref
      BY <1>3, Zenon DEF InFlight
    <3> QED
      BY <1>0, <1>a, <1>h, <2>1, <3>1, <3>3, <3>4 DEF QueueInv
  <2>2. CASE ~queued
    <3>1. 1..Len(jobs') = {}
      BY <1>0, <1>a, <2>2 DEF QueueInv
    <3> QED
      BY <1>0, <1>a, <1>e, <1>k, <2>2, <3>1, Zenon DEF QueueInv
  <2> QED
    BY <2>1, <2>2, Zenon
<1>12. Buffered' = Buffered /\ Filed' = Filed
  BY <1>0, Zenon DEF Buffered, Filed, fileVars
<1>13. BufferInv'
  <2>1. DOMAIN chunkRefMap \subseteq DOMAIN chunkRefMap'
    BY <1>e, Zenon DEF Put
  <2>2. CASE queued
    <3>1. Stored' = Stored /\ wr' = wr
      BY <1>e, <2>2, Zenon DEF Stored, Flushing
    <3> QED
      BY <1>0, <1>12, <1>a, <2>1, <3>1, Zenon DEF BufferInv, fileVars
  <2>3. CASE ~queued
    <3>1. ~Stored' /\ wr'.pc = "start" /\ wr.pc = "idle"
      BY <1>0, <1>k, <2>3, Zenon DEF Stored, Flushing
    <3> QED
      BY <1>0, <1>12, <1>a, <2>1, <3>1, Zenon DEF BufferInv, fileVars
  <2> QED
    BY <2>2, <2>3, Zenon
<1>14. \A r \in CdmReaders : ReaderInv(r)'
  BY <1>0, <1>12, ReadersKept, Zenon DEF CdmInv, ReaderInv
<1> QED
  BY <1>0, <1>1, <1>6, <1>7, <1>8, <1>10, <1>11, <1>13, <1>14, Zenon DEF CdmInv

\* A step of Truncate that only notes something.
LEMMA TruncOnly ==
  ASSUME CdmInv, UNCHANGED <<queued, wjob, jobs, chunkRefMap, wr, fileVars, live, cdmRead, boundVars>>,
         evtlPos' \in [seq : Nat, offset : Nat, cutFile : BOOLEAN],
         evtlPos'.seq = evtlPos.seq, evtlPos'.offset = evtlPos.offset,
         trunc' \in [pc : TruncStates, fileNo : Nat, removed : SUBSET Nat, all : BOOLEAN, unused : BOOLEAN],
         mapped = IF trunc'.pc = "remove" THEN onDisk \ trunc'.removed ELSE onDisk,
         BaseSeq' = BaseSeq, TruncInv', OrderInv'
  PROVE  CdmInv'
<1>1. CdmTyped' /\ FileInv' /\ ~failed'
  BY Zenon DEF CdmInv, CdmTyped, FileInv, fileVars, boundVars
<1>2. InFlight' = InFlight
  BY DEF InFlight
<1>3. ToldInv'
  <2>1. Told' = Told
    BY <1>2, Zenon DEF Told, fileVars
  <2> QED
    BY <2>1, ToldMoved, Zenon DEF CdmInv
<1>4. CutDue' = CutDue /\ PutDue' = PutDue /\ Stored' = Stored
  BY Zenon DEF CutDue, PutDue, Stored, Flushing
<1>5. ChainInv'
  <2>1. Behind' = Behind
    BY <1>4, Zenon DEF Behind, fileVars
  <2>2. Last' = Last
    BY <2>1, Zenon DEF Last
  <2> QED
    BY <1>4, <2>1, <2>2, Zenon DEF CdmInv, ChainInv, fileVars
<1>6. QueueInv'
  BY <1>2 DEF CdmInv, QueueInv
<1>7. Buffered' = Buffered /\ Filed' = Filed
  BY Zenon DEF Buffered, Filed, fileVars
<1>8. BufferInv'
  BY <1>4, <1>7, Zenon DEF CdmInv, BufferInv, fileVars
<1>9. \A r \in CdmReaders : ReaderInv(r)'
  BY <1>7, ReadersKept, Zenon DEF CdmInv, ReaderInv
<1> QED
  BY <1>1, <1>3, <1>5, <1>6, <1>8, <1>9, Zenon DEF CdmInv

\* Nothing is written when all the files go.
LEMMA ListOK ==
  ASSUME CdmRaces = {}, CdmInv, TruncateList
  PROVE  CdmInv'
<1>a. CdmTyped /\ FileInv /\ TruncInv /\ ToldInv /\ QueueInv /\ ChainInv
  BY Zenon DEF CdmInv
<1>1. PICK removed : removed = {s \in mapped : \A t \in mapped : t <= s => t # cur.seq /\ t < trunc.fileNo}
  BY Zenon
<1>2. PICK all \in BOOLEAN : all = (removed = mapped)
  BY Zenon
<1>3. /\ trunc.pc = "list" /\ removed = mapped => chunkRefMap = Nothing /\ wjob = NoJob
      /\ trunc' = [trunc EXCEPT !.pc = "cut", !.removed = removed, !.all = all]
      /\ UNCHANGED <<queueVars, wr, fileVars, live, cdmRead, boundVars>>
  BY <1>1, <1>2, Zenon DEF TruncateList
<1>4. trunc.pc = "list" /\ (all => chunkRefMap = Nothing /\ wjob = NoJob) /\ mapped = onDisk /\ onDisk \subseteq Nat
  BY <1>2, <1>3, <1>a, Zenon DEF TruncateList, FileInv, CdmTyped
<1>5. removed \subseteq onDisk /\ \A s \in removed, t \in onDisk : t <= s => t \in removed
  <2>1. \A s, t, u \in onDisk : u <= t /\ t <= s => u <= s
    BY <1>4
  <2> QED
    BY <1>1, <1>4, <2>1, Zenon
<1>6. /\ trunc' \in [pc : TruncStates, fileNo : Nat, removed : SUBSET Nat, all : BOOLEAN, unused : BOOLEAN]
      /\ trunc'.pc = "cut" /\ trunc'.removed = removed /\ trunc'.all = all
  BY <1>3, <1>4, <1>5, <1>a, Zenon DEF CdmTyped, TruncStates
<1>7. \A r \in DOMAIN live : r[1] \notin removed
  <2>1. ASSUME NEW r \in DOMAIN live, r[1] \in removed PROVE FALSE
    <3>1. r[1] \in onDisk /\ r[1] \in Nat /\ trunc.fileNo \in Nat
      BY <1>4, <1>5, <1>a, <2>1, Zenon DEF CdmTyped
    <3>2. CASE ~trunc.unused
      <4>1. r[1] < trunc.fileNo
        BY <1>1, <1>4, <2>1, <3>1
      <4>2. trunc.fileNo <= r[1]
        BY <1>4, <2>1, <3>2, Zenon DEF CdmInv, OrderInv
      <4> QED
        BY <3>1, <4>1, <4>2
    <3>3. CASE trunc.unused
      <4>1. Newest(onDisk) <= r[1] /\ (r \in DOMAIN chunkRefMap \/ cur.seq # 0)
        BY <1>4, <2>1, <3>3, Zenon DEF CdmInv, OrderInv
      <4>2. Newest(onDisk) \in Nat /\ \A t \in onDisk : t <= Newest(onDisk)
        BY <1>a, <3>1, NewestTop, Zenon DEF Top
      <4>3. \A t \in onDisk : t <= r[1]
        BY <1>4, <3>1, <4>1, <4>2
      <4>4. removed = onDisk
        BY <1>5, <2>1, <4>3, Zenon
      <4>5. cur.seq = 0
        <5>1. cur.seq # 0 => cur.seq \in removed /\ cur.seq \in Nat
          BY <1>4, <1>a, <4>4, Zenon DEF FileInv
        <5> QED
          BY <1>1, <1>4, <5>1
      <4> QED
        BY <1>3, <1>4, <4>1, <4>4, <4>5, GraphNothing, Zenon
    <3> QED
      BY <3>2, <3>3, Zenon
  <2> QED
    BY <2>1, Zenon
<1>8. all => wjob = NoJob
  BY <1>4, Zenon
<1>9. ASSUME all
      PROVE  wr.pc = "idle" /\ jobs = <<>> /\ chunkRefMap = Nothing /\ cur.seq = 0 /\ evtlPos.offset = 0
  <2>1. chunkRefMap = Nothing /\ removed = onDisk
    BY <1>2, <1>4, <1>9, Zenon
  <2>2. queued => InFlight = {}
    BY <1>a, <2>1, GraphNothing, Zenon DEF QueueInv
  <2>3. wr.pc = "idle"
    <3>1. ~queued /\ wr.pc # "idle" => wr.job = NoJob /\ wr.job.chk > 0
      BY <1>8, <1>9, <1>a, Zenon DEF QueueInv, CdmTyped
    <3> QED
      BY <2>2, <3>1 DEF InFlight, NoJob
  <2>4. jobs = <<>>
    <3>1. queued => 1..Len(jobs) = {}
      BY <2>2, Zenon DEF InFlight
    <3>2. jobs \in Seq(Jobs)
      BY <1>a, Zenon DEF CdmTyped
    <3>3. queued => jobs = <<>>
      BY <3>1, <3>2, SMTT(30)
    <3> QED
      BY <1>a, <3>3, Zenon DEF QueueInv
  <2>5. cur.seq = 0 /\ cur.offset = 0
    <3>1. cur.seq # 0 => cur.seq \in removed /\ cur.seq \in Nat
      BY <1>4, <1>a, <2>1, Zenon DEF FileInv
    <3> QED
      BY <1>1, <1>4, <1>a, <3>1 DEF FileInv
  <2>6. evtlPos.offset = 0
    <3>1. <<evtlPos.seq, evtlPos.offset>> = <<BaseSeq, cur.offset>>
      BY <1>8, <1>9, <1>a, <2>3, <2>4, Zenon DEF ChainInv, Last, Behind, CutDue, PutDue, Flushing
    <3> QED
      BY <2>5, <3>1, Zenon
  <2> QED
    BY <2>1, <2>3, <2>4, <2>5, <2>6, Zenon
<1>10. TruncInv'
  <2>1. all <=> removed = onDisk
    BY <1>2, <1>4, Zenon
  <2> QED
    BY <1>3, <1>5, <1>6, <1>7, <1>8, <1>9, <2>1, Zenon DEF TruncInv, Removing, queueVars, fileVars
<1>11. BaseSeq' = BaseSeq
  BY <1>3, <1>4, <1>6, Zenon DEF BaseSeq, fileVars
<1>12. OrderInv'
  BY <1>3, <1>6, Zenon DEF CdmInv, OrderInv, queueVars, fileVars
<1> QED
  BY <1>3, <1>4, <1>6, <1>10, <1>11, <1>12, <1>a, TruncOnly, Zenon DEF queueVars, CdmTyped

LEMMA TruncateCutOK ==
  ASSUME CdmInv, TruncateCut
  PROVE  CdmInv'
<1>a. CdmTyped /\ FileInv /\ TruncInv
  BY Zenon DEF CdmInv
<1>1. /\ trunc.pc = "cut" /\ trunc' = [trunc EXCEPT !.pc = "unmap"]
      /\ evtlPos' = [evtlPos EXCEPT !.cutFile = @ \/ cur.offset > Header]
      /\ UNCHANGED <<queued, wjob, jobs, chunkRefMap, wr, fileVars, live, cdmRead, boundVars>>
  BY Zenon DEF TruncateCut
<1>2. /\ evtlPos' \in [seq : Nat, offset : Nat, cutFile : BOOLEAN]
      /\ evtlPos'.seq = evtlPos.seq /\ evtlPos'.offset = evtlPos.offset
  <2>1. PICK b \in BOOLEAN : evtlPos' = [evtlPos EXCEPT !.cutFile = b]
    BY <1>1, Zenon
  <2> QED
    BY <1>a, <2>1, Zenon DEF CdmTyped
<1>3. /\ trunc' \in [pc : TruncStates, fileNo : Nat, removed : SUBSET Nat, all : BOOLEAN, unused : BOOLEAN]
      /\ trunc'.pc = "unmap" /\ trunc'.removed = trunc.removed /\ trunc'.all = trunc.all
  BY <1>1, <1>a, Zenon DEF CdmTyped, TruncStates
<1>4. TruncInv'
  BY <1>1, <1>2, <1>3, <1>a, Zenon DEF TruncInv, Removing, fileVars
<1>5. BaseSeq' = BaseSeq
  BY <1>1, <1>3, Zenon DEF BaseSeq, fileVars
<1>6. OrderInv'
  BY <1>1, <1>2, <1>3, Zenon DEF CdmInv, OrderInv, fileVars
<1> QED
  BY <1>1, <1>2, <1>3, <1>4, <1>5, <1>6, <1>a, TruncOnly, Zenon DEF FileInv

\* The files that are unmapped have no chunk that the head needs.
LEMMA UnmapOK ==
  ASSUME CdmInv, TruncateUnmap
  PROVE  CdmInv'
<1>a. CdmTyped /\ FileInv /\ TruncInv /\ ChainInv /\ QueueInv /\ BufferInv /\ ToldInv
  BY Zenon DEF CdmInv
<1>0. /\ trunc.pc = "unmap" /\ trunc' = [trunc EXCEPT !.pc = "remove"] /\ mapped' = mapped \ trunc.removed
      /\ UNCHANGED <<queueVars, wr, cur, chunkBuffer, unflushed, content, onDisk, live, cdmRead, boundVars>>
  BY Zenon DEF TruncateUnmap
<1>b. /\ trunc' \in [pc : TruncStates, fileNo : Nat, removed : SUBSET Nat, all : BOOLEAN, unused : BOOLEAN]
      /\ trunc'.pc = "remove" /\ trunc'.removed = trunc.removed /\ trunc'.all = trunc.all
  BY <1>0, <1>a, Zenon DEF CdmTyped, TruncStates
<1> USE DEF queueVars
<1>1. CdmTyped'
  BY <1>0, <1>a, <1>b, Zenon DEF CdmTyped, boundVars
<1>2. InFlight' = InFlight
  BY <1>0, Zenon DEF InFlight
<1>3. ToldInv'
  <2>1. Told' = Told
    BY <1>0, <1>2, Zenon DEF Told
  <2> QED
    BY <1>0, <1>a, <2>1, ToldMoved, Zenon
<1>4. FileInv'
  BY <1>0, <1>a, <1>b, Zenon DEF FileInv
<1>5. TruncInv' /\ OrderInv'
  BY <1>0, <1>a, <1>b, Zenon DEF CdmInv, TruncInv, OrderInv, Removing
<1>6. CutDue' = CutDue /\ PutDue' = PutDue /\ Stored' = Stored
  BY <1>0, Zenon DEF CutDue, PutDue, Stored, Flushing
<1>7. ChainInv'
  <2>1. trunc.all => wr.pc = "idle" /\ jobs = <<>> /\ wjob = NoJob
    BY <1>0, <1>a, Zenon DEF TruncInv, Removing
  <2>2. trunc.all => <<evtlPos.seq, evtlPos.offset>> = <<Newest(onDisk), cur.offset>>
    BY <1>0, <1>a, <2>1, Zenon DEF ChainInv, Last, Behind, BaseSeq, CutDue, PutDue, Flushing
  <2>3. BaseSeq' = BaseSeq
    BY <1>0, <1>b, <2>2, Zenon DEF BaseSeq
  <2>4. Behind' = Behind
    BY <1>0, <1>6, <2>3, Zenon DEF Behind
  <2> QED
    BY <1>0, <1>6, <1>a, <2>4, ChainMoved, Zenon DEF ChainInv
<1>8. QueueInv'
  BY <1>0, <1>2, <1>a DEF QueueInv
<1>9. Buffered' = Buffered /\ Filed' = {r \in Filed : r[1] \notin trunc.removed}
  BY <1>0, Zenon DEF Buffered, Filed
<1>10. \A r \in DOMAIN live : r \in Filed => r \in Filed'
  BY <1>0, <1>9, <1>a, Zenon DEF TruncInv, Removing
<1>11. Stored /\ wr.job.ref \in Filed => wr.job.ref \in Filed'
  <2>1. Stored /\ wr.job.ref \in Filed => cur.seq # 0 /\ wr.job.ref[1] = cur.seq
    BY <1>a, Zenon DEF BufferInv, Filed, CdmTyped
  <2>2. cur.seq # 0 => cur.seq \notin trunc.removed
    BY <1>0, CurMapped, Zenon DEF Removing
  <2> QED
    BY <1>9, <2>1, <2>2, Zenon
<1>12. BufferInv'
  BY <1>0, <1>6, <1>9, <1>10, <1>11, <1>a, Zenon DEF BufferInv
<1>13. \A r \in CdmReaders : ReaderInv(r)'
  BY <1>0, <1>9, <1>10, ReadersKept, Zenon DEF CdmInv, ReaderInv
<1> QED
  BY <1>0, <1>1, <1>3, <1>4, <1>5, <1>7, <1>8, <1>12, <1>13, Zenon DEF CdmInv, boundVars

\* Nothing is known of any chunk when all files are gone: numbering may start anew.
LEMMA ResetOK ==
  ASSUME CdmInv, TruncateReset
  PROVE  CdmInv'
<1>a. CdmTyped /\ FileInv /\ TruncInv /\ ChainInv /\ QueueInv /\ BufferInv /\ ToldInv
  BY Zenon DEF CdmInv
<1>0. /\ trunc.pc = "reset" /\ trunc' = NoTrunc
      /\ evtlPos' = IF trunc.all /\ chunkRefMap = Nothing THEN [evtlPos EXCEPT !.seq = 0] ELSE evtlPos
      /\ UNCHANGED <<queued, wjob, jobs, chunkRefMap, wr, fileVars, live, cdmRead, boundVars>>
  BY Zenon DEF TruncateReset
<1>b. /\ trunc' \in [pc : TruncStates, fileNo : Nat, removed : SUBSET Nat, all : BOOLEAN, unused : BOOLEAN]
      /\ trunc'.pc = "idle"
  BY <1>0, Zenon DEF NoTrunc, TruncStates
<1>c. TruncInv'
  BY <1>b, Zenon DEF TruncInv, Removing
<1>d. mapped = onDisk
  BY <1>0, <1>a, Zenon DEF FileInv
<1>1. CASE ~trunc.all
  <2>1. BaseSeq' = BaseSeq
    BY <1>0, <1>1, <1>b, Zenon DEF BaseSeq, fileVars
  <2>2. evtlPos' = evtlPos
    BY <1>0, <1>1, Zenon
  <2>3. OrderInv'
    BY <1>0, <1>b, <2>2, Zenon DEF CdmInv, OrderInv, fileVars
  <2> QED
    BY <1>0, <1>a, <1>b, <1>c, <1>d, <2>1, <2>2, <2>3, TruncOnly, Zenon DEF CdmTyped
<1>2. CASE trunc.all
  <2>1. /\ wr.pc = "idle" /\ jobs = <<>> /\ chunkRefMap = Nothing /\ cur.seq = 0 /\ evtlPos.offset = 0
        /\ onDisk = {} /\ wjob = NoJob
    BY <1>0, <1>2, <1>a, Zenon DEF TruncInv
  <2>2. /\ evtlPos' \in [seq : Nat, offset : Nat, cutFile : BOOLEAN] /\ evtlPos'.seq = 0 /\ evtlPos'.offset = 0
    <3>1. evtlPos' = [evtlPos EXCEPT !.seq = 0] /\ evtlPos \in [seq : Nat, offset : Nat, cutFile : BOOLEAN]
      BY <1>0, <1>2, <1>a, <2>1, Zenon DEF CdmTyped
    <3> QED
      BY <2>1, <3>1, Zenon
  <2>3. InFlight = {} /\ InFlight' = InFlight
    BY <1>0, <2>1 DEF InFlight
  <2>4. DOMAIN content = {} /\ DOMAIN chunkBuffer = {} /\ unflushed = chunkBuffer /\ DOMAIN chunkRefMap = {}
    BY <1>a, <2>1, GraphNothing, Zenon DEF FileInv, BufferInv
  <2>5. DOMAIN live = {}
    BY <1>a, <2>4, Zenon DEF BufferInv, Buffered, Filed
  <2>6. Told' = {}
    BY <1>0, <2>3, <2>4, <2>5 DEF Told, Graph, fileVars
  <2>7. ToldInv'
    BY <2>6, Zenon DEF ToldInv
  <2>8. CdmTyped' /\ FileInv'
    BY <1>0, <1>a, <1>b, <1>d, <2>2, Zenon DEF CdmTyped, FileInv, fileVars, boundVars
  <2>9. ChainInv'
    <3>1. ~CutDue' /\ ~PutDue'
      BY <1>0, <2>1, Zenon DEF CutDue, PutDue, Flushing
    <3>2. Newest(onDisk') = 0 /\ cur'.offset = 0
      BY <1>0, <1>a, <2>1, Zenon DEF Newest, FileInv, fileVars
    <3>3. Last' = <<0, 0>>
      BY <1>0, <1>b, <2>1, <3>1, <3>2, Zenon DEF Last, Behind, BaseSeq
    <3>4. 1..Len(jobs') = {}
      BY <1>0, <2>1
    <3> QED
      BY <1>0, <2>1, <2>2, <3>1, <3>3, <3>4, Zenon DEF ChainInv
  <2>o. OrderInv'
    <3>1. Newest(onDisk') = 0
      BY <1>0, <2>1, Zenon DEF Newest, fileVars
    <3>2. Newest(onDisk') <= evtlPos'.seq
      BY <2>2, <3>1
    <3> QED
      BY <1>b, <3>2, Zenon DEF OrderInv
  <2>10. QueueInv'
    BY <1>0, <1>a, <2>3 DEF QueueInv
  <2>11. Buffered' = Buffered /\ Filed' = Filed /\ Stored' = Stored
    BY <1>0, Zenon DEF Buffered, Filed, Stored, Flushing, fileVars
  <2>12. BufferInv'
    BY <1>0, <1>a, <2>11, Zenon DEF BufferInv, fileVars
  <2>13. \A r \in CdmReaders : ReaderInv(r)'
    BY <1>0, <2>11, ReadersKept, Zenon DEF CdmInv, ReaderInv
  <2> QED
    BY <1>0, <1>c, <2>7, <2>8, <2>9, <2>10, <2>12, <2>13, <2>o, Zenon DEF CdmInv, boundVars
<1> QED
  BY <1>1, <1>2, Zenon

\* What is fresh after a start, whether of a new head or of one that crashed.
Fresh ==
  /\ queued \in BOOLEAN /\ wjob = NoJob /\ jobs = <<>> /\ chunkRefMap = Nothing /\ wr = IdleWriter
  /\ evtlPos = [seq |-> Newest(onDisk), offset |-> 0, cutFile |-> FALSE]
  /\ cur = [seq |-> 0, offset |-> 0] /\ chunkBuffer = Nothing /\ unflushed = Nothing
  /\ onDisk \subseteq Nat \ {0} /\ mapped = onDisk /\ GapLess(onDisk) /\ \E n \in Nat : Top(onDisk, n)
  /\ Graph(content) \subseteq Refs \X Nat /\ (\A r \in DOMAIN content : r[1] \in onDisk)
  /\ live = content /\ trunc = NoTrunc /\ cdmRead = [r \in CdmReaders |-> NoRead]
  /\ written \in Nat /\ ~failed

\* An empty queue.
LEMMA NoJobs ==
  ASSUME jobs = <<>>
  PROVE  1..Len(jobs) = {} /\ jobs \in Seq(Jobs)
OBVIOUS

LEMMA FreshOK ==
  ASSUME Fresh
  PROVE  CdmInv
<1> USE DEF Fresh
<1>1. wr.pc = "idle" /\ wr \in Writers /\ NoJob \in Jobs /\ trunc.pc = "idle" /\ cur.seq = 0 /\ cur.offset = 0
  BY Zenon DEF IdleWriter, Writers, WriterStates, Jobs, Refs, NoJob, NoTrunc
<1>2. Newest(onDisk) \in Nat /\ \A s \in onDisk : s <= Newest(onDisk)
  BY NewestIs, Zenon DEF Top
<1>3. 1..Len(jobs) = {} /\ jobs \in Seq(Jobs)
  BY NoJobs, Zenon
<1>4. CdmTyped
  <2>1. /\ evtlPos \in [seq : Nat, offset : Nat, cutFile : BOOLEAN] /\ cur \in [seq : Nat, offset : Nat]
    BY <1>2, Zenon
  <2>2. trunc \in [pc : TruncStates, fileNo : Nat, removed : SUBSET Nat, all : BOOLEAN, unused : BOOLEAN]
    BY Zenon DEF NoTrunc, TruncStates
  <2>3. cdmRead \in [CdmReaders -> [pc : {"idle", "queue", "buffer", "file"}, ref : Refs, want : Int, result : Int]]
    BY DEF NoRead, Refs
  <2> QED
    BY <1>1, <1>3, <2>1, <2>2, <2>3, Zenon DEF CdmTyped
<1>5. InFlight = {}
  BY <1>1, <1>3, Zenon DEF InFlight
<1>6. Told = Graph(content)
  BY <1>5, GraphNothing, Zenon DEF Told
<1>7. ToldInv
  <2>2. \A p \in Told : p[1] \in DOMAIN content /\ p[2] = content[p[1]]
    BY <1>6, GraphPairs, Zenon
  <2>3. \A p \in Told : Below(p[1])
    BY <1>2, <2>2, Zenon DEF Below
  <2> QED
    BY <1>6, <2>2, <2>3, Zenon DEF ToldInv
<1>8. FileInv /\ TruncInv
  BY <1>1, Zenon DEF FileInv, TruncInv, Removing
<1>o. OrderInv
  <2>1. Newest(onDisk) <= evtlPos.seq
    BY <1>2
  <2> QED
    BY <1>1, <2>1, Zenon DEF OrderInv
<1>9. ChainInv
  <2>1. ~CutDue /\ ~PutDue
    BY <1>1, Zenon DEF CutDue, PutDue, Flushing
  <2>2. Last = <<Newest(onDisk), 0>>
    BY <1>1, <2>1, Zenon DEF Last, Behind, BaseSeq
  <2> QED
    BY <1>3, <2>1, <2>2, Zenon DEF ChainInv
<1>10. QueueInv
  BY <1>1, <1>3, <1>5, Zenon DEF QueueInv
<1>11. BufferInv
  BY <1>1, GraphNothing, Zenon DEF BufferInv, Stored, Flushing, Filed
<1>12. \A r \in CdmReaders : ReaderInv(r)
  BY Zenon DEF ReaderInv, NoRead
<1> QED
  BY <1>4, <1>7, <1>8, <1>9, <1>10, <1>11, <1>12, <1>o, Zenon DEF CdmInv

LEMMA ReopenOK ==
  ASSUME CdmInv, Reopen
  PROVE  CdmInv'
<1>1. Graph(content) \subseteq Refs \X Nat /\ onDisk \subseteq Nat \ {0} /\ written \in Nat /\ ~failed
  BY Zenon DEF CdmInv, ToldInv, Told, CdmTyped
<1>2. GapLess(onDisk) /\ (\E n \in Nat : Top(onDisk, n)) /\ \A r \in DOMAIN content : r[1] \in onDisk
  BY Zenon DEF CdmInv, FileInv
<1>3. Fresh'
  BY <1>1, <1>2, Zenon DEF Reopen, Fresh
<1>4. Fresh' => CdmInv'
  BY FreshOK, PTL
<1> QED
  BY <1>3, <1>4, Zenon
-----------------------------------------------------------------------------
\* Every set of natural numbers that is not empty has a least element: LEMMA
\* NaturalsWellOrdered, at the end of the module.
WellOrdered == \A S \in SUBSET Nat : S # {} => \E x \in S : \A y \in S : x <= y

\* No chunk that the head needs is in a file before the one Truncate is given.
LEMMA BeginOK ==
  ASSUME WellOrdered, CdmInv, TruncateBegin
  PROVE  CdmInv'
<1> DEFINE seqs == {ref[1] : ref \in DOMAIN live}
<1>a. CdmTyped /\ FileInv /\ TruncInv /\ ToldInv
  BY Zenon DEF CdmInv
<1>1. PICK F : F = IF seqs = {} THEN MaxChunks + 1 ELSE CHOOSE s \in seqs : \A t \in seqs : s <= t
  OBVIOUS
<1>u. PICK none \in BOOLEAN : none = (seqs = {})
  BY Zenon
<1>2. /\ trunc.pc = "idle" /\ trunc' = [NoTrunc EXCEPT !.pc = "list", !.unused = none, !.fileNo = F]
      /\ UNCHANGED <<queueVars, wr, fileVars, live, cdmRead, boundVars>>
  BY <1>1, <1>u DEF TruncateBegin
<1>3. seqs \in SUBSET Nat
  <2>1. ASSUME NEW r \in DOMAIN live PROVE r[1] \in Nat
    <3>1. <<r, live[r]>> \in Told
      BY InGraph, Zenon DEF Told
    <3> QED
      BY <1>a, <3>1, SameChunk, Zenon
  <2> QED
    BY <2>1, Zenon
<1>4. F \in Nat /\ \A s \in seqs : F <= s
  <2>1. CASE seqs = {}
    BY <1>1, <2>1, CdmAssumption
  <2>2. CASE seqs # {}
    <3> HIDE DEF seqs
    <3>1. \E x \in seqs : \A y \in seqs : x <= y
      BY <1>3, <2>2, Zenon DEF WellOrdered
    <3> QED
      BY <1>1, <1>3, <2>2, <3>1, Zenon
  <2> QED
    BY <2>1, <2>2, Zenon
<1>5. (\A r \in DOMAIN live : F <= r[1]) /\ (none => DOMAIN live = {})
  BY <1>4, <1>u, Zenon
<1>l. ~none => F <= evtlPos.seq
  <2>1. ~none => \E r \in DOMAIN live : TRUE
    BY <1>u, Zenon
  <2>2. ASSUME NEW r \in DOMAIN live PROVE r[1] \in Nat /\ r[1] <= evtlPos.seq
    <3>1. <<r, live[r]>> \in Told
      BY InGraph, Zenon DEF Told
    <3> QED
      BY <1>a, <3>1, SameChunk, Zenon DEF Below
  <2>3. evtlPos.seq \in Nat
    BY <1>a, Zenon DEF CdmTyped
  <2> HIDE DEF seqs
  <2> QED
    BY <1>4, <1>5, <2>1, <2>2, <2>3
<1> HIDE DEF seqs
<1>6. /\ trunc' \in [pc : TruncStates, fileNo : Nat, removed : SUBSET Nat, all : BOOLEAN, unused : BOOLEAN]
      /\ trunc'.pc = "list" /\ trunc'.fileNo = F /\ trunc'.unused = none
  BY <1>2, <1>4, Zenon DEF NoTrunc, TruncStates
<1>7. BaseSeq' = BaseSeq
  BY <1>2, <1>6, Zenon DEF BaseSeq, fileVars
<1>8. TruncInv'
  BY <1>6, Zenon DEF TruncInv, Removing
<1>9. OrderInv'
  BY <1>2, <1>5, <1>6, <1>l, Zenon DEF CdmInv, OrderInv, queueVars, fileVars
<1> QED
  BY <1>2, <1>6, <1>7, <1>8, <1>9, <1>a, TruncOnly, Zenon DEF queueVars, FileInv, CdmTyped

\* The oldest file is removed: the others are still numbered without a gap.
LEMMA RemoveOK ==
  ASSUME WellOrdered, CdmInv, TruncateRemove
  PROVE  CdmInv'
<1>a. CdmTyped /\ FileInv /\ TruncInv /\ ChainInv /\ QueueInv /\ BufferInv /\ ToldInv
  BY Zenon DEF CdmInv
<1>0. /\ trunc.pc = "remove"
      /\ UNCHANGED <<queueVars, wr, cur, chunkBuffer, unflushed, mapped, live, cdmRead, boundVars>>
  BY Zenon DEF TruncateRemove
<1>1. CASE trunc.removed = {}
  <2>1. trunc' = [trunc EXCEPT !.pc = "reset"] /\ UNCHANGED <<onDisk, content>>
    BY <1>1, Zenon DEF TruncateRemove
  <2>2. /\ trunc' \in [pc : TruncStates, fileNo : Nat, removed : SUBSET Nat, all : BOOLEAN, unused : BOOLEAN]
        /\ trunc'.pc = "reset" /\ trunc'.all = trunc.all
    BY <1>a, <2>1, Zenon DEF CdmTyped, TruncStates
  <2>3. BaseSeq' = BaseSeq
    BY <1>0, <2>1, <2>2, Zenon DEF BaseSeq, queueVars
  <2>4. TruncInv'
    BY <1>0, <1>1, <1>a, <2>1, <2>2, Zenon DEF TruncInv, Removing, queueVars
  <2>5. mapped = onDisk
    BY <1>0, <1>1, <1>a, Zenon DEF FileInv
  <2>6. OrderInv'
    BY <1>0, <2>1, <2>2, Zenon DEF CdmInv, OrderInv, queueVars
  <2> QED
    BY <1>0, <1>a, <2>1, <2>2, <2>3, <2>4, <2>5, <2>6, TruncOnly, Zenon DEF queueVars, fileVars, CdmTyped
<1>2. CASE trunc.removed # {}
  <2>1. PICK seq : seq = CHOOSE s \in trunc.removed : \A t \in trunc.removed : s <= t
    BY Zenon
  <2>2. /\ onDisk' = onDisk \ {seq} /\ content' = Without(content, {ref \in DOMAIN content : ref[1] = seq})
        /\ trunc' = [trunc EXCEPT !.removed = trunc.removed \ {seq}]
    BY <1>2, <2>1, Zenon DEF TruncateRemove
  <2>3. /\ trunc.removed \subseteq onDisk /\ onDisk \subseteq Nat /\ trunc.removed \in SUBSET Nat
        /\ \A s \in trunc.removed, t \in onDisk : t <= s => t \in trunc.removed
        /\ trunc.all <=> trunc.removed = onDisk
    BY <1>0, <1>a, Zenon DEF TruncInv, Removing, CdmTyped
  <2>4. seq \in trunc.removed /\ \A t \in trunc.removed : seq <= t
    <3>1. \E x \in trunc.removed : \A y \in trunc.removed : x <= y
      BY <1>2, <2>3, Zenon DEF WellOrdered
    <3> QED
      BY <2>1, <3>1, Zenon
  <2>5. \A t \in onDisk : seq <= t
    <3>1. \A t \in onDisk : t <= seq => t \in trunc.removed
      BY <2>3, <2>4, Zenon
    <3> QED
      BY <2>3, <2>4, <3>1
  <2>6. /\ trunc' \in [pc : TruncStates, fileNo : Nat, removed : SUBSET Nat, all : BOOLEAN, unused : BOOLEAN]
        /\ trunc'.pc = "remove" /\ trunc'.removed = trunc.removed \ {seq} /\ trunc'.all = trunc.all
        /\ trunc'.fileNo = trunc.fileNo
    <3>1. trunc.removed \ {seq} \in SUBSET Nat
      BY <2>3, Zenon
    <3>2. trunc \in [pc : TruncStates, fileNo : Nat, removed : SUBSET Nat, all : BOOLEAN, unused : BOOLEAN]
      BY <1>a, Zenon DEF CdmTyped
    <3> QED
      BY <1>0, <2>2, <3>1, <3>2, Zenon
  <2>7. DOMAIN content' = {r \in DOMAIN content : r[1] # seq} /\ Graph(content') \subseteq Graph(content)
    <3>1. DOMAIN content' = {r \in DOMAIN content : r[1] # seq}
      BY <2>2, Zenon DEF Without
    <3> QED
      BY <2>2, <3>1, GraphWithout, Zenon
  <2>8. ~trunc.all => Newest(onDisk') = Newest(onDisk) /\ Newest(onDisk) \in onDisk' /\ Top(onDisk', Newest(onDisk))
    <3>1. ASSUME ~trunc.all PROVE Newest(onDisk) \in onDisk' /\ Top(onDisk', Newest(onDisk)) /\ Newest(onDisk) \in Nat
      <4>1. onDisk # {} /\ Newest(onDisk) \in onDisk /\ Newest(onDisk) \in Nat /\ \A s \in onDisk : s <= Newest(onDisk)
        BY <1>a, <2>3, <2>4, NewestTop, Zenon DEF Top
      <4>2. Newest(onDisk) \notin trunc.removed
        BY <2>3, <3>1, <4>1, Zenon
      <4>3. Newest(onDisk) \in onDisk'
        BY <2>2, <2>4, <4>1, <4>2, Zenon
      <4> QED
        BY <2>2, <4>1, <4>3, Zenon DEF Top
    <3>2. onDisk' \in SUBSET Nat
      BY <2>2, <2>3, Zenon
    <3> QED
      BY <3>1, <3>2, NewestIs, Zenon
  <2>9. cur.seq # 0 => cur.seq # seq /\ ~trunc.all
    <3>1. cur.seq # 0 => cur.seq \notin trunc.removed
      BY <1>0, CurMapped, Zenon DEF Removing
    <3> QED
      BY <1>0, <1>a, <2>4, <3>1, Zenon DEF TruncInv, Removing
  <2>10. CdmTyped'
    <3>1. onDisk' \subseteq Nat \ {0}
      BY <1>a, <2>2, Zenon DEF CdmTyped
    <3>2. mapped \subseteq onDisk'
      BY <1>0, <1>a, <2>2, <2>4, Zenon DEF FileInv
    <3> QED
      BY <1>0, <1>a, <2>6, <3>1, <3>2, Zenon DEF CdmTyped, queueVars, boundVars
  <2>11. InFlight' = InFlight
    BY <1>0, Zenon DEF InFlight, queueVars
  <2>12. ToldInv'
    <3>1. Told' \subseteq Told
      BY <1>0, <2>7, <2>11, Zenon DEF Told, queueVars
    <3> QED
      BY <1>0, <1>a, <3>1, ToldMoved, Zenon DEF queueVars
  <2>13. FileInv'
    <3>1. GapLess(onDisk')
      <4>1. ASSUME NEW s \in onDisk', NEW t \in onDisk', NEW u \in s..t PROVE u \in onDisk'
        <5>1. s \in onDisk /\ t \in onDisk /\ s # seq /\ s \in Nat /\ seq \in Nat
          BY <2>2, <2>3, <2>4, Zenon
        <5>2. u \in onDisk
          BY <1>a, <5>1, Zenon DEF FileInv, GapLess
        <5>3. seq < s /\ s <= u
          BY <2>3, <2>5, <5>1, <5>2
        <5> QED
          BY <2>2, <2>3, <5>1, <5>2, <5>3
      <4> QED
        BY <4>1, Zenon DEF GapLess
    <3>2. \E n \in Nat : Top(onDisk', n)
      <4>1. CASE ~trunc.all
        BY <1>a, <2>8, <4>1, NewestTop, Zenon
      <4>2. CASE trunc.all /\ onDisk' = {}
        BY <4>2, Zenon DEF Top
      <4>3. CASE trunc.all /\ onDisk' # {}
        <5>1. Newest(onDisk) \in onDisk /\ Newest(onDisk) \in Nat /\ \A s \in onDisk : s <= Newest(onDisk)
          BY <1>a, <2>3, <2>4, NewestTop, Zenon DEF Top
        <5>2. PICK x \in onDisk' : TRUE
          BY <4>3, Zenon
        <5>3. x \in onDisk /\ x # seq /\ seq <= x /\ x <= Newest(onDisk) /\ x \in Nat /\ seq \in Nat
          BY <2>2, <2>3, <2>4, <2>5, <5>1, Zenon
        <5>4. Newest(onDisk) # seq
          BY <5>1, <5>3
        <5> QED
          BY <2>2, <5>1, <5>4, Zenon DEF Top
      <4> QED
        BY <4>1, <4>2, <4>3, Zenon
    <3>3. mapped = onDisk' \ trunc'.removed
      BY <1>0, <1>a, <2>2, <2>4, <2>6, Zenon DEF FileInv
    <3>4. IF cur.seq = 0 THEN cur.offset = 0 /\ chunkBuffer = Nothing
          ELSE cur.seq \in onDisk' /\ cur.seq = Newest(onDisk') /\ cur.offset > 0
      BY <1>a, <2>8, <2>9, Zenon DEF FileInv
    <3>5. \A r \in DOMAIN content' : r[1] \in onDisk'
      BY <1>a, <2>2, <2>7, Zenon DEF FileInv
    <3> QED
      BY <1>0, <2>6, <3>1, <3>2, <3>3, <3>4, <3>5, Zenon DEF FileInv
  <2>14. TruncInv'
    <3>1. trunc'.removed \subseteq onDisk' /\ \A s \in trunc'.removed, t \in onDisk' : t <= s => t \in trunc'.removed
      BY <2>2, <2>3, <2>6, Zenon
    <3>2. trunc'.all <=> trunc'.removed = onDisk'
      BY <2>2, <2>3, <2>4, <2>6, ZenonT(30)
    <3>3. \A r \in DOMAIN live : r[1] \notin trunc'.removed
      BY <1>0, <1>a, <2>6, Zenon DEF TruncInv, Removing
    <3>4. trunc.all => /\ wr.pc = "idle" /\ jobs = <<>> /\ chunkRefMap = Nothing /\ cur.seq = 0
                       /\ evtlPos.offset = 0 /\ wjob = NoJob
      BY <1>0, <1>a, Zenon DEF TruncInv, Removing
    <3> QED
      BY <1>0, <2>6, <3>1, <3>2, <3>3, <3>4, Zenon DEF TruncInv, Removing, queueVars
  <2>o. OrderInv'
    <3>1. Newest(onDisk') \in Nat /\ Top(onDisk', Newest(onDisk'))
      BY <2>10, <2>13, NewestIs, Zenon DEF CdmTyped, FileInv
    <3>2. Newest(onDisk') = 0 \/ Newest(onDisk') \in onDisk
      BY <2>2, <3>1, Zenon DEF Top
    <3>3. Newest(onDisk) \in Nat /\ \A t \in onDisk : t <= Newest(onDisk)
      BY <1>a, NewestTop, Zenon DEF Top
    <3>4. evtlPos.seq \in Nat /\ Newest(onDisk) <= evtlPos.seq
      BY <1>a, Zenon DEF CdmInv, OrderInv, CdmTyped
    <3>5. Newest(onDisk') <= evtlPos.seq
      BY <3>1, <3>2, <3>3, <3>4
    <3> QED
      BY <1>0, <2>6, <3>5, Zenon DEF OrderInv, queueVars
  <2>15. CutDue' = CutDue /\ PutDue' = PutDue /\ Stored' = Stored
    BY <1>0, Zenon DEF CutDue, PutDue, Stored, Flushing
  <2>16. ChainInv'
    <3>1. BaseSeq' = BaseSeq
      BY <1>0, <2>6, <2>8, Zenon DEF BaseSeq, queueVars
    <3>2. Behind' = Behind
      BY <1>0, <2>15, <3>1, Zenon DEF Behind
    <3>3. CutDue => Newest(onDisk') = Newest(onDisk)
      BY <1>0, <1>a, <2>8, Zenon DEF CutDue, Flushing, TruncInv, Removing
    <3> QED
      BY <1>0, <1>a, <2>15, <3>2, <3>3, ChainMoved, ZenonT(30) DEF ChainInv
  <2>17. QueueInv'
    BY <1>0, <1>a, <2>11 DEF QueueInv, queueVars
  <2>18. Buffered' = Buffered /\ Filed' = Filed
    <3>1. seq \notin mapped
      BY <1>0, <1>a, <2>4, Zenon DEF FileInv
    <3> QED
      BY <1>0, <2>7, <3>1, Zenon DEF Buffered, Filed
  <2>19. BufferInv'
    <3>1. DOMAIN chunkBuffer \subseteq DOMAIN content => DOMAIN chunkBuffer \subseteq DOMAIN content'
      <4>1. \A r \in DOMAIN chunkBuffer : r[1] # seq
        BY <1>a, <2>9, GraphNothing, Zenon DEF BufferInv, FileInv
      <4> QED
        BY <2>7, <4>1, Zenon
    <3> QED
      BY <1>0, <1>a, <2>15, <2>18, <3>1, Zenon DEF BufferInv, queueVars
  <2>20. \A r \in CdmReaders : ReaderInv(r)'
    BY <1>0, <2>18, ReadersKept, Zenon DEF CdmInv, ReaderInv
  <2> QED
    BY <1>0, <2>10, <2>12, <2>13, <2>14, <2>16, <2>17, <2>19, <2>20, <2>o, Zenon DEF CdmInv, boundVars
<1> QED
  BY <1>1, <1>2, Zenon

-----------------------------------------------------------------------------
INSTANCE WellFoundedInduction

\* The naturals are well-ordered by <.
LEMMA NaturalsWellOrdered == WellOrdered
<1> SUFFICES ASSUME NEW S \in SUBSET Nat, S # {}
             PROVE  \E x \in S : \A y \in S : x <= y
  BY Zenon DEF WellOrdered
<1> DEFINE Less == {ss \in Nat \X Nat : ss[1] < ss[2]}
<1>1. IsWellFoundedOn(Less, Nat)
  BY NatLessThanWellFounded, Zenon DEF OpToRel
<1> HIDE DEF Less
<1>2. \E x \in S : \A y \in S : ~(<<y, x>> \in Less)
  BY <1>1, WFMin, Zenon
<1>3. \A x, y \in Nat : ~(<<y, x>> \in Less) => x <= y
  BY DEF Less
<1> QED
  BY <1>2, <1>3, Zenon

LEMMA CdmInvariance ==
  ASSUME CdmRaces = {}
  PROVE  CdmSpec => []CdmInv
<1>1. CdmInit => CdmInv
  <2> SUFFICES ASSUME CdmInit PROVE CdmInv
    BY Zenon
  <2>1. Newest(onDisk) = 0 /\ Top(onDisk, 0) /\ GapLess(onDisk)
    BY Zenon DEF CdmInit, Newest, Top, GapLess
  <2>2. Graph(content) = {} /\ DOMAIN content = {}
    BY GraphNothing, Zenon DEF CdmInit
  <2>3. Fresh
    <3>1. /\ \E n \in Nat : Top(onDisk, n)
          /\ Graph(content) \subseteq Refs \X Nat /\ \A r \in DOMAIN content : r[1] \in onDisk
      BY <2>1, <2>2
    <3>2. evtlPos = [seq |-> Newest(onDisk), offset |-> 0, cutFile |-> FALSE]
      BY <2>1, Zenon DEF CdmInit
    <3>3. onDisk \subseteq Nat \ {0} /\ mapped = onDisk /\ live = content /\ written \in Nat /\ ~failed
      BY Zenon DEF CdmInit
    <3> QED
      BY <2>1, <3>1, <3>2, <3>3, Zenon DEF CdmInit, Fresh
  <2> QED
    BY <2>3, FreshOK, Zenon
<1>2. CdmInv /\ [CdmNext]_cdmVars => CdmInv'
  <2> SUFFICES ASSUME CdmInv, [CdmNext]_cdmVars PROVE CdmInv'
    BY Zenon
  <2>1. CASE WriteChunk
    BY <2>1, WriteOK, Zenon
  <2>2. CASE push
    BY <2>2, PushOK, Zenon
  <2>3. CASE pop
    BY <2>3, PopOK, Zenon
  <2>4. CASE writeChunkStart
    BY <2>4, StartOK, Zenon
  <2>5. CASE flushBuffer
    BY <2>5, FlushOK, Zenon
  <2>6. CASE clear
    BY <2>6, ClearOK, Zenon
  <2>7. CASE cutAndExpectRef
    BY <2>7, CutOK, Zenon
  <2>8. CASE putChunk
    BY <2>8, PutOK, Zenon
  <2>9. CASE processed
    BY <2>9, ProcessedOK, Zenon
  <2>10. CASE \E r \in CdmReaders : Chunk(r) \/ getQueue(r) \/ getBuffer(r) \/ getFile(r)
    BY <2>10, ReadsOK, Zenon
  <2>11. CASE \E ref \in DOMAIN live : Drop(ref)
    BY <2>11, DropOK, Zenon
  <2>12. CASE TruncateBegin
    BY <2>12, NaturalsWellOrdered, BeginOK, Zenon
  <2>13. CASE TruncateList
    BY <2>13, ListOK, Zenon
  <2>14. CASE TruncateCut
    BY <2>14, TruncateCutOK, Zenon
  <2>15. CASE TruncateUnmap
    BY <2>15, UnmapOK, Zenon
  <2>16. CASE TruncateRemove
    BY <2>16, NaturalsWellOrdered, RemoveOK, Zenon
  <2>17. CASE TruncateReset
    BY <2>17, ResetOK, Zenon
  <2>18. CASE Reopen
    BY <2>18, ReopenOK, Zenon
  <2>19. CASE UNCHANGED cdmVars
    <3>1. UNCHANGED <<queueVars, wr, fileVars, live, trunc, boundVars>> /\ cdmRead' = cdmRead
      BY <2>19, Zenon DEF cdmVars, queueVars, fileVars, boundVars
    <3>2. CdmTyped'
      BY <3>1, OthersUnchanged, Zenon DEF CdmInv, CdmTyped
    <3> QED
      BY <3>1, <3>2, OthersUnchanged, Zenon DEF CdmInv
  <2> QED
    BY <2>1, <2>2, <2>3, <2>4, <2>5, <2>6, <2>7, <2>8, <2>9, <2>10, <2>11, <2>12, <2>13, <2>14, <2>15,
       <2>16, <2>17, <2>18, <2>19, Zenon DEF CdmNext
<1> QED
  BY <1>1, <1>2, PTL DEF CdmSpec

\* ReferencesGood, without the two races that the instances name: whatever the
\* sizes and the number of readers and restarts, a reader finds every chunk
\* whose reference WriteChunk returned, in the queue, the buffer or the file,
\* no chunk is written elsewhere than its reference says (cutAndExpectRef never
\* fails), and the files on disk are always numbered without a gap.
THEOREM ReferencesStayGood ==
  ASSUME CdmRaces = {}
  PROVE  CdmSpec => []ReferencesGood
<1>1. CdmInv => ReferencesGood
  BY Zenon DEF CdmInv, ReferencesGood, ReaderInv, FileInv, GapLess
<1> QED
  BY <1>1, CdmInvariance, PTL
=============================================================================
