----------------------------- MODULE HeadSeries -----------------------------
(***************************************************************************)
(* The in-order samples of the series of the head, written by concurrent   *)
(* appenders and read under isolation (tsdb/head_append.go, head_read.go,  *)
(* head.go), on top of the isolation state.                                *)
(*                                                                         *)
(* A series is the list of all samples it was ever given, cut into chunks: *)
(* a chunk is the position of its last sample.  The first chunks are       *)
(* m-mapped, the others are the headChunks list, the last one is open.     *)
(* What is in the bytes of a chunk, which cutting and reading it compact,  *)
(* is the matter of CLChunk.                                               *)
(***************************************************************************)
EXTENDS Isolation, FiniteSetsExt

CONSTANTS Series,      \* the series
          MaxSamples   \* bound on the samples in the series and in the open appends

ASSUME HeadSeriesAssumption ==
  /\ MaxSamples \in Nat
  /\ Min(Times) \in Times /\ Max(Times) \in Times   \* there is a first and a last time

VARIABLES
  history,       \* the samples appended so far: timestamp and append ID
  ends,          \* the last position of each chunk in memory, oldest first
  removed,       \* how many samples were truncated
  mmapped,       \* how many of the chunks are m-mapped
  firstChunkID,  \* the HeadChunkID of the oldest chunk
  txs,           \* the append IDs of the newest samples (see TxQueue)
  pending,       \* headAppender.samples and sampleSeries: still to be applied
  phase          \* what the appender is doing

seriesVars == <<history, ends, removed, mmapped, firstChunkID, txs>>
vars == <<isoVars, seriesVars, pending, phase>>

Sample == [t : Times, id : Nat]

Init ==
  /\ newIsolation
  /\ history = [s \in Series |-> <<>>]
  /\ ends = [s \in Series |-> <<>>]
  /\ removed = [s \in Series |-> 0]
  /\ mmapped = [s \in Series |-> 0]
  /\ firstChunkID = [s \in Series |-> 0]
  /\ txs = [s \in Series |-> <<>>]
  /\ pending = [id \in {} |-> <<>>]
  /\ phase = [id \in {} |-> "open"]
-----------------------------------------------------------------------------
\* Mutant: the newest sample is not looked at.
InOrderUnchecked(s, t) == TRUE

\* Does a sample at t go behind all samples of the series?
InOrder(s, t) == ends[s] # <<>> => t > history[s][Len(history[s])].t

\* memSeries.appendable with out-of-order ingestion off: a sample at the
\* newest timestamp passes when it repeats the newest value.
appendable(s, t) == ends[s] # <<>> => t >= history[s][Len(history[s])].t

Appender(minTime) ==
  /\ newAppendID(minTime)
  /\ pending' = [id \in appendsOpen' |-> IF id \in appendsOpen THEN pending[id] ELSE <<>>]
  /\ phase' = [id \in appendsOpen' |-> IF id \in appendsOpen THEN phase[id] ELSE "open"]
  /\ UNCHANGED seriesVars

\* headAppender.Append: only samples that are appendable now are kept.
AppendSample(id, s, t) ==
  /\ phase[id] = "open"
  /\ Len(history[s]) + MapThenSumSet(LAMBDA k : Len(pending[k]), appendsOpen) < MaxSamples
  /\ appendable(s, t)
  /\ pending' = [pending EXCEPT ![id] = Append(@, <<s, t>>)]
  /\ UNCHANGED <<isoVars, seriesVars, phase>>

\* Commit, once the samples are logged.  When logging fails it rolls back.
Commit(id) ==
  /\ phase[id] = "open"
  /\ phase' = [phase EXCEPT ![id] = "commit"]
  /\ UNCHANGED <<isoVars, seriesVars, pending>>

Rollback(id) ==
  /\ phase[id] = "open"
  /\ phase' = [phase EXCEPT ![id] = "rollback"]
  /\ UNCHANGED <<isoVars, seriesVars, pending>>

\* Mutant: one ID too many is forgotten.
seriesCleanupAppendIDsAndAt(s, ids, bound) ==
  \E n \in 0..Len(ids) :
    /\ \A j \in 1..n : ids[j] <= bound
    /\ n < Len(ids) => ids[n + 1] > bound
    /\ txs' = [txs EXCEPT ![s] = SubSeq(ids, n + 1, Len(ids))]

\* The series is left with the IDs from the first one at or above the bound.
seriesCleanupAppendIDs(s, ids, bound) ==
  \E n \in 0..Len(ids) :
    /\ \A j \in 1..n : ids[j] < bound
    /\ n < Len(ids) => ids[n + 1] >= bound
    /\ txs' = [txs EXCEPT ![s] = SubSeq(ids, n + 1, Len(ids))]

\* A new open chunk for the next sample.
cutNewHeadChunk(s) == ends' = [ends EXCEPT ![s] = Append(@, Len(history[s]) + 1)]

\* memSeries.append.  When the open chunk is full (its size, its number of
\* samples or its time range, see HeadChunkCut) a new one is cut first.
append(s, t, id) ==
  /\ history' = [history EXCEPT ![s] = Append(@, [t |-> t, id |-> id])]
  /\ \/ cutNewHeadChunk(s)
     \/ /\ ends[s] # <<>>
        /\ ends' = [ends EXCEPT ![s][Len(ends[s])] = @ + 1]
  /\ UNCHANGED <<removed, mmapped, firstChunkID>>

\* One turn of the loop of commitSamples, under the lock of the series.  The
\* sample may have become out of order, or a duplicate, since Append.
commitSample(id) ==
  /\ phase[id] = "commit"
  /\ pending[id] # <<>>
  /\ pending' = [pending EXCEPT ![id] = Tail(@)]
  /\ LET s == Head(pending[id])[1]
         t == Head(pending[id])[2]
     IN  \/ /\ InOrder(s, t)
            /\ append(s, t, id)
            /\ seriesCleanupAppendIDs(s, Append(txs[s], id), cleanupBelow[id])
         \/ /\ ~InOrder(s, t)
            /\ seriesCleanupAppendIDs(s, txs[s], cleanupBelow[id])
            /\ UNCHANGED <<history, ends, removed, mmapped, firstChunkID>>
  /\ UNCHANGED <<isoVars, phase>>

\* One turn of the loop of Rollback: nothing is appended.
rollbackSample(id) ==
  /\ phase[id] = "rollback"
  /\ pending[id] # <<>>
  /\ pending' = [pending EXCEPT ![id] = Tail(@)]
  /\ LET s == Head(pending[id])[1]
     IN  seriesCleanupAppendIDs(s, txs[s], cleanupBelow[id])
  /\ UNCHANGED <<isoVars, phase, history, ends, removed, mmapped, firstChunkID>>

\* The deferred closeAppend of Commit and Rollback, after the loop.
finish(id) ==
  /\ phase[id] # "open"
  /\ pending[id] = <<>>
  /\ closeAppend(id)
  /\ pending' = [k \in appendsOpen' |-> pending[k]]
  /\ phase' = [k \in appendsOpen' |-> phase[k]]
  /\ UNCHANGED seriesVars
-----------------------------------------------------------------------------
Querier(r, mint, maxt) == State(r, mint, maxt) /\ UNCHANGED <<seriesVars, pending, phase>>

CloseQuerier(r) == Close(r) /\ UNCHANGED <<seriesVars, pending, phase>>

\* All chunks but the open one go to disk.
mmapChunks(s) ==
  /\ Len(ends[s]) > mmapped[s] + 1
  /\ mmapped' = [mmapped EXCEPT ![s] = Len(ends[s]) - 1]
  /\ UNCHANGED <<isoVars, history, ends, removed, firstChunkID, txs, pending, phase>>

\* Mutant: the ID of the oldest chunk is not moved along.
truncateChunksBeforeSameID(s, mint) ==
  \E n \in 1..Len(ends[s]) :
    /\ \A read \in OpenReads : read.mint >= mint
    /\ history[s][ends[s][n]].t < mint
    /\ n < Len(ends[s]) => history[s][ends[s][n + 1]].t >= mint
    /\ ends' = [ends EXCEPT ![s] = SubSeq(@, n + 1, Len(@))]
    /\ removed' = [removed EXCEPT ![s] = ends[s][n]]
    /\ mmapped' = [mmapped EXCEPT ![s] = IF n < @ THEN @ - n ELSE 0]
    /\ UNCHANGED <<isoVars, history, firstChunkID, txs, pending, phase>>

\* The chunks that end before mint are dropped, the open one included.  The
\* head only does so once the reads that overlap them are closed.
truncateChunksBefore(s, mint) ==
  \E n \in 1..Len(ends[s]) :
    /\ \A read \in OpenReads : read.mint >= mint
    /\ history[s][ends[s][n]].t < mint
    /\ n < Len(ends[s]) => history[s][ends[s][n + 1]].t >= mint
    /\ ends' = [ends EXCEPT ![s] = SubSeq(@, n + 1, Len(@))]
    /\ removed' = [removed EXCEPT ![s] = ends[s][n]]
    /\ mmapped' = [mmapped EXCEPT ![s] = IF n < @ THEN @ - n ELSE 0]
    /\ firstChunkID' = [firstChunkID EXCEPT ![s] = @ + n]
    /\ UNCHANGED <<isoVars, history, txs, pending, phase>>

\* What an appender accepts reaches down to its minTime.  A query's range is
\* only looked at by truncation, which a query of the newest range, as here,
\* never holds up.
Next ==
  \/ Appender(Min(Times))
  \/ \E id \in appendsOpen, s \in Series, t \in Times : AppendSample(id, s, t)
  \/ \E id \in appendsOpen : Commit(id) \/ Rollback(id)
  \/ \E id \in appendsOpen : commitSample(id) \/ rollbackSample(id) \/ finish(id)
  \/ \E r \in Readers : Querier(r, Max(Times), Max(Times))
  \/ \E r \in Readers : CloseQuerier(r)
  \/ \E s \in Series : mmapChunks(s)
  \/ \E s \in Series, mint \in Times : truncateChunksBefore(s, mint)

Spec == Init /\ [][Next]_vars
-----------------------------------------------------------------------------
\* The samples before the c-th chunk, truncated ones included.
Start(s, c) == IF c = 1 THEN removed[s] ELSE ends[s][c - 1]

\* Mutant: the IDs of the samples behind the chunk are not taken off.
appendIDsToConsiderAll(s, c, numSamples) == Len(txs[s])

\* Of the IDs in the ring, those that are not of samples behind the chunk.
appendIDsToConsider(s, c, numSamples) ==
  LET totalSamples    == Len(history[s]) - removed[s]
      previousSamples == Start(s, c) - removed[s]
  IN  Len(txs[s]) - (totalSamples - (previousSamples + numSamples))

\* memSeries.iterator: how many of the numSamples samples of the chunk, or of
\* a copy of it made when it had that many, a read gets to see.
stopAfter(s, c, numSamples, read) ==
  LET n      == appendIDsToConsider(s, c, numSamples)
      hidden == {i \in 1..Len(txs[s]) : i <= n /\ Hides(read, txs[s][i])}
      stop   == numSamples - (n - (Min(hidden) - 1))
  IN  IF hidden = {} THEN numSamples ELSE IF stop < 0 THEN 0 ELSE stop
-----------------------------------------------------------------------------
Chunks(s) == 1..Len(ends[s])

Sizes(s, c) == 1..(ends[s][c] - Start(s, c))

\* No dirty reads: a query never gets a sample of an append that was still
\* open, or had not begun, when it started, although the series forgets
\* append IDs and the chunk was cut, m-mapped, copied or has grown since.
NoDirtyRead ==
  \A s \in Series, read \in OpenReads : \A c \in Chunks(s) : \A n \in Sizes(s, c) :
    \A p \in 1..stopAfter(s, c, n, read) : ~Hides(read, history[s][Start(s, c) + p].id)

\* Nothing is withheld without a reason: when a query gets less than the
\* chunk holds, the next sample or an older one of the series is hidden.
WithheldBehindHidden ==
  \A s \in Series, read \in OpenReads : \A c \in Chunks(s) : \A n \in Sizes(s, c) :
    stopAfter(s, c, n, read) < n =>
      \E p \in 1..(Start(s, c) + stopAfter(s, c, n, read) + 1) : Hides(read, history[s][p].id)

\* The samples in memory are in time order, whatever appenders raced to
\* append to the series: commitSamples checks again under the lock.
SamplesInOrder ==
  \A s \in Series : \A p, q \in (removed[s] + 1)..Len(history[s]) :
    p < q => history[s][p].t < history[s][q].t

\* A HeadChunkID keeps naming the same chunk while chunks are cut, m-mapped
\* and truncated ("Chunk IDs remain unchanged"): a query looks chunks up by
\* an ID it got earlier.
ChunkIDsStable ==
  [][\A s \in Series : \A c \in Chunks(s), d \in 1..Len(ends'[s]) :
       firstChunkID[s] + c = firstChunkID'[s] + d =>
         Start(s, c) = IF d = 1 THEN removed'[s] ELSE ends'[s][d - 1]]_vars
=============================================================================
