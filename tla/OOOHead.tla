------------------------------ MODULE OOOHead -------------------------------
(***************************************************************************)
(* Compaction of the out-of-order head into blocks (DB.compactOOOHead in   *)
(* tsdb/db.go, OOOCompactionHead in ooo_head_read.go, truncateOOO in       *)
(* head.go) while samples are inserted and queries run                     *)
(* (ooo_isolation.go, HeadAndOOOQuerier).                                  *)
(*                                                                         *)
(* The module is about which chunks are handed to whom.  A chunk is the    *)
(* set of its timestamps; decoding it is not modelled here (see OOOChunk). *)
(***************************************************************************)
EXTENDS Integers, Sequences, FiniteSetsExt

CONSTANTS Series,     \* the series of the head
          Times,      \* the timestamps of the samples
          Readers,    \* the queries
          oooCapMax,  \* OutOfOrderCapMax
          blockSize,  \* the chunk range of the head
          MaxRef      \* bound on the references the ChunkDiskMapper gives out

ASSUME OOOHeadAssumption ==
  /\ Times \subseteq 0..Max(Times) /\ Max(Times) \in Nat  \* there is a last time
  /\ oooCapMax \in Nat \ {0} /\ blockSize \in Nat \ {0} /\ MaxRef \in Nat

VARIABLES
  oooHeadChunk,      \* the timestamps in the chunk of each series
  oooMmappedChunks,  \* the m-mapped chunks of each series: reference, timestamps
  firstOOOChunkID,   \* the HeadChunkID of the first of them
  nextRef,           \* the reference of the next chunk that is m-mapped
  inserted,          \* the samples that were inserted: series, timestamp
  blocks,            \* the samples in db.blocks
  lastGarbageCollectedMmapRef,
  minOOOMmapRef,
  ch,                \* the OOOCompactionHead, and how far compactOOOHead is
  reads              \* the open queries

headVars == <<oooHeadChunk, oooMmappedChunks, firstOOOChunkID, nextRef, inserted>>
dbVars == <<blocks, lastGarbageCollectedMmapRef, minOOOMmapRef>>
vars == <<headVars, dbVars, ch, reads>>

Sample == Series \X Times

\* Not compacting.  mint and maxt are those of the set times.
Idle == [pc |-> "idle", todo |-> {}, postings |-> {}, lastMmapRef |-> 0,
         times |-> {}, written |-> {}]

\* No query.
Closed == [pc |-> "closed", minRef |-> 0, blocks |-> {}, todo |-> {}, metas |-> {},
           got |-> {}, asked |-> {}]

Init ==
  /\ oooHeadChunk = [s \in Series |-> {}]
  /\ oooMmappedChunks = [s \in Series |-> <<>>]
  /\ firstOOOChunkID = [s \in Series |-> 0]
  /\ nextRef = 1 /\ inserted = {} /\ blocks = {}
  /\ lastGarbageCollectedMmapRef = 0 /\ minOOOMmapRef = 0
  /\ ch = Idle
  /\ reads = [r \in Readers |-> Closed]
-----------------------------------------------------------------------------
\* mmapCurrentOOOHeadChunk appends the chunk to the m-mapped ones.
Mmapped(s) == Append(oooMmappedChunks[s], [ref |-> nextRef, ts |-> oooHeadChunk[s]])

\* The references given out, and those the chunks in memory will need.
Refs == nextRef - 1 + Cardinality({s \in Series : oooHeadChunk[s] # {}})

\* memSeries.insert, under the lock of the series.  A full chunk is m-mapped
\* and the sample starts a new one.
insert(s, t) ==
  /\ \/ /\ Cardinality(oooHeadChunk[s]) < oooCapMax
        /\ t \notin oooHeadChunk[s]
        /\ oooHeadChunk[s] = {} => Refs < MaxRef
        /\ oooHeadChunk' = [oooHeadChunk EXCEPT ![s] = @ \union {t}]
        /\ UNCHANGED <<oooMmappedChunks, nextRef>>
     \/ /\ Cardinality(oooHeadChunk[s]) = oooCapMax
        /\ Refs < MaxRef
        /\ oooMmappedChunks' = [oooMmappedChunks EXCEPT ![s] = Mmapped(s)]
        /\ nextRef' = nextRef + 1
        /\ oooHeadChunk' = [oooHeadChunk EXCEPT ![s] = {t}]
  /\ inserted' = inserted \union {<<s, t>>}
  /\ UNCHANGED <<firstOOOChunkID, dbVars, ch, reads>>
-----------------------------------------------------------------------------
\* compactOOOHead is called, with the compaction mutex held.
compactOOOHead ==
  /\ ch.pc = "idle"
  /\ ch' = [Idle EXCEPT !.pc = "mmap", !.todo = Series]
  /\ UNCHANGED <<headVars, dbVars, reads>>

\* One turn of the loop of NewOOOCompactionHead, under the lock of the series.
mmapSeries(s) ==
  LET mmap == oooHeadChunk[s] # {}
      chks == IF mmap THEN Mmapped(s) ELSE oooMmappedChunks[s]
      last == IF chks = <<>> THEN 0 ELSE chks[Len(chks)].ref
  IN  /\ ch.pc = "mmap"
      /\ s \in ch.todo
      /\ oooMmappedChunks' = [oooMmappedChunks EXCEPT ![s] = chks]
      /\ oooHeadChunk' = [oooHeadChunk EXCEPT ![s] = {}]
      /\ nextRef' = IF mmap THEN nextRef + 1 ELSE nextRef
      /\ ch' = [ch EXCEPT
           !.pc = IF ch.todo = {s} THEN "write" ELSE "mmap",
           !.todo = @ \ {s},
           !.postings = IF chks = <<>> THEN @ ELSE @ \union {s},
           !.lastMmapRef = Max({@, last}),
           !.times = @ \union UNION {chks[i].ts : i \in DOMAIN chks}]
      /\ UNCHANGED <<firstOOOChunkID, inserted, dbVars, reads>>

\* Mutant: the last range is cut off at the last timestamp.
CoveredExclusive(t) ==
  ch.times # {} /\ t >= blockSize * (Min(ch.times) \div blockSize) /\ t < Max(ch.times)

\* The block ranges compactOOO writes, from the one with mint to the one with
\* maxt; mint and maxt are those of the chunks seen by mmapSeries.
Covered(t) ==
  /\ ch.times # {}
  /\ t >= blockSize * (Min(ch.times) \div blockSize)
  /\ t < blockSize * (Max(ch.times) \div blockSize + 1)

\* What the OOOCompactionHeadIndexReader hands to the compactor.
Compacted ==
  {x \in ch.postings \X Times :
     /\ Covered(x[2])
     /\ \E i \in DOMAIN oooMmappedChunks[x[1]] :
          /\ oooMmappedChunks[x[1]][i].ref <= ch.lastMmapRef
          /\ x[2] \in oooMmappedChunks[x[1]][i].ts}

\* Mutant: queries are turned away from the chunks before the blocks are loaded.
writeAndMark ==
  /\ ch.pc = "write"
  /\ ch' = [ch EXCEPT !.pc = "reload", !.written = Compacted]
  /\ lastGarbageCollectedMmapRef' = Max({ch.lastMmapRef, lastGarbageCollectedMmapRef})
  /\ UNCHANGED <<headVars, blocks, minOOOMmapRef, reads>>

\* compactOOO.  The chunks up to lastMmapRef no longer change, so it does not
\* matter when each of them is read.
write ==
  /\ ch.pc = "write"
  /\ ch' = [ch EXCEPT !.pc = "reload", !.written = Compacted]
  /\ UNCHANGED <<headVars, dbVars, reads>>

\* An error of the compactor, or of reloadBlocks: what was written is removed.
fail ==
  /\ ch.pc \in {"write", "reload"}
  /\ ch' = Idle
  /\ UNCHANGED <<headVars, dbVars, reads>>

\* reloadBlocks sets db.blocks under db.mtx.
reloadBlocks ==
  /\ ch.pc = "reload"
  /\ blocks' = blocks \union ch.written
  /\ ch' = [ch EXCEPT !.pc = "mark"]
  /\ UNCHANGED <<headVars, lastGarbageCollectedMmapRef, minOOOMmapRef, reads>>

\* Under db.mtx: no new query will use the chunks that are in blocks now.
mark ==
  /\ ch.pc = "mark"
  /\ lastGarbageCollectedMmapRef' =
       IF ch.lastMmapRef # 0 THEN ch.lastMmapRef ELSE lastGarbageCollectedMmapRef
  /\ ch' = [ch EXCEPT !.pc = "truncate"]
  /\ UNCHANGED <<headVars, blocks, minOOOMmapRef, reads>>

\* Mutant: reads that use only later chunks are waited for as well.
HasOpenReadsAtOrBeforeAny(ref) == \E r \in Readers : reads[r].pc = "open" /\ ref >= reads[r].minRef

HasOpenReadsAtOrBefore(ref) == \E r \in Readers : reads[r].pc = "open" /\ ref > reads[r].minRef

\* Mutant: the garbage collection does not wait for queries.
truncateOOONoWait ==
  /\ ch.pc = "truncate"
  /\ minOOOMmapRef' = ch.lastMmapRef
  /\ ch' = [ch EXCEPT !.pc = "gc", !.todo = Series]
  /\ UNCHANGED <<headVars, blocks, lastGarbageCollectedMmapRef, reads>>

\* truncateOOO, once WaitForPendingReadersForOOOChunksAtOrBefore returns.
truncateOOO ==
  /\ ch.pc = "truncate"
  /\ \/ /\ ch.lastMmapRef > minOOOMmapRef
        /\ ~HasOpenReadsAtOrBefore(ch.lastMmapRef)
        /\ minOOOMmapRef' = ch.lastMmapRef
        /\ ch' = [ch EXCEPT !.pc = "gc", !.todo = Series]
     \/ /\ ch.lastMmapRef <= minOOOMmapRef
        /\ ch' = Idle
        /\ UNCHANGED minOOOMmapRef
  /\ UNCHANGED <<headVars, blocks, lastGarbageCollectedMmapRef, reads>>

\* How many of the chunks mm the loop of truncateChunksBefore passes: it stops
\* at the first one after minOOOMmapRef.
removedOOO(mm) == Min({n \in 0..Len(mm) : n = Len(mm) \/ mm[n + 1].ref > minOOOMmapRef})

\* truncateChunksBefore, for one series at a time.  A series without OOO data
\* drops its memSeriesOOOFields, and chunk IDs start again at zero.
gcSeries(s) ==
  LET n    == removedOOO(oooMmappedChunks[s])
      keep == SubSeq(oooMmappedChunks[s], n + 1, Len(oooMmappedChunks[s]))
  IN  /\ ch.pc = "gc"
      /\ s \in ch.todo
      /\ oooMmappedChunks' = [oooMmappedChunks EXCEPT ![s] = keep]
      /\ firstOOOChunkID' = [firstOOOChunkID EXCEPT ![s] =
           IF n > 0 /\ keep = <<>> /\ oooHeadChunk[s] = {} THEN 0 ELSE @ + n]
      /\ ch' = IF ch.todo = {s} THEN Idle ELSE [ch EXCEPT !.todo = @ \ {s}]
      /\ UNCHANGED <<oooHeadChunk, nextRef, inserted, dbVars, reads>>
-----------------------------------------------------------------------------
\* All samples a new query can find.
Stored ==
  blocks \union {x \in Sample : x[2] \in oooHeadChunk[x[1]] \/
    \E i \in DOMAIN oooMmappedChunks[x[1]] : x[2] \in oooMmappedChunks[x[1]][i].ts}

\* DB.Querier, under db.mtx: the blocks, and a read of the chunks after
\* lastGarbageCollectedMmapRef.
Querier(r) ==
  /\ reads[r].pc = "closed"
  /\ reads' = [reads EXCEPT ![r] =
       [Closed EXCEPT !.pc = "open", !.minRef = lastGarbageCollectedMmapRef,
                      !.blocks = blocks, !.todo = Series, !.asked = Stored]]
  /\ UNCHANGED <<headVars, dbVars, ch>>

\* HeadAndOOOIndexReader.Series: the head chunk is encoded at once, of the
\* m-mapped chunks the IDs are remembered.
getOOOSeriesChunks(r, s) ==
  LET mm == oooMmappedChunks[s]
  IN  /\ s \in reads[r].todo
      /\ reads' = [reads EXCEPT
           ![r].todo = @ \ {s},
           ![r].got = @ \union ({s} \X oooHeadChunk[s]),
           ![r].metas = @ \union
             {[s |-> s, id |-> firstOOOChunkID[s] + i - 1, ref |-> mm[i].ref] :
                i \in {j \in DOMAIN mm : mm[j].ref > reads[r].minRef}}]
      /\ UNCHANGED <<headVars, dbVars, ch>>

\* oooChunk: the chunk an ID stands for now, if any.
oooChunk(m) ==
  LET ix == m.id - firstOOOChunkID[m.s]
      mm == oooMmappedChunks[m.s]
  IN  IF ix >= 0 /\ ix < Len(mm) THEN {mm[ix + 1]} ELSE {}

\* HeadAndOOOChunkReader.ChunkOrIterable.
chunkOrIterable(r, m) ==
  /\ m \in reads[r].metas
  /\ reads' = [reads EXCEPT
       ![r].metas = @ \ {m},
       ![r].got = @ \union UNION {{m.s} \X c.ts : c \in oooChunk(m)}]
  /\ UNCHANGED <<headVars, dbVars, ch>>

\* A query may end, or be cancelled, at any time.
CloseQuerier(r) ==
  /\ reads[r].pc = "open"
  /\ reads' = [reads EXCEPT ![r] = Closed]
  /\ UNCHANGED <<headVars, dbVars, ch>>

CompactionStep ==
  \/ \E s \in Series : mmapSeries(s) \/ gcSeries(s)
  \/ write \/ fail \/ reloadBlocks \/ mark \/ truncateOOO

ReadStep(r) ==
  \/ \E s \in Series : getOOOSeriesChunks(r, s)
  \/ \E m \in reads[r].metas : chunkOrIterable(r, m)

Next ==
  \/ \E s \in Series, t \in Times : insert(s, t)
  \/ compactOOOHead \/ CompactionStep
  \/ \E r \in Readers : Querier(r) \/ ReadStep(r) \/ CloseQuerier(r)

\* The goroutine of the compaction runs on; queries end, at the latest when
\* their timeout cancels them.
Fairness ==
  /\ WF_vars(CompactionStep)
  /\ \A r \in Readers : WF_vars(CloseQuerier(r))

Spec == Init /\ [][Next]_vars /\ Fairness
-----------------------------------------------------------------------------
\* A query is handed every out-of-order sample that was stored when it began,
\* from a block or from a chunk, wherever it overlaps with a compaction.
QueryComplete ==
  \A r \in Readers :
    reads[r].pc = "open" /\ reads[r].todo = {} /\ reads[r].metas = {} =>
      reads[r].asked \subseteq reads[r].got \union reads[r].blocks

\* An out-of-order sample that was inserted stays in memory until a block
\* with it has been loaded: mint and maxt are "Among all the compactable
\* chunks", and no chunk is garbage collected that was not compacted.
InsertedStored == inserted \subseteq Stored

\* A compaction that began comes to its end: it waits for queries that were
\* there before, never for the ones that keep coming.
CompactionEnds == []<>(ch.pc = "idle")
=============================================================================
