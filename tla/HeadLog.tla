------------------------------ MODULE HeadLog -------------------------------
(***************************************************************************)
(* The series of the head and their write-ahead log: creation and lookup   *)
(* of series, commits that log series and samples, garbage collection of   *)
(* series, checkpoints, and the replay of the log after a crash            *)
(* (tsdb/head.go, head_append.go, head_wal.go, wlog/checkpoint.go,         *)
(* wlog/wlog.go).                                                          *)
(*                                                                         *)
(* A memSeries is known by its reference, which is never given out twice.  *)
(* A sample is its timestamp.  Samples below mint are in blocks.  The      *)
(* m-mapped chunks of a series are part of its samples.                    *)
(***************************************************************************)
EXTENDS Integers, Sequences, SequencesExt, FiniteSets, FiniteSetsExt

CONSTANTS Labels,       \* the label sets
          LogAppenders, \* the appenders
          MaxLogTime,      \* bound on timestamps, which start at 1
          MaxBatch,     \* bound on the samples of an appender
          MaxRef,       \* bound on references
          MaxSegment,   \* bound on WAL segments
          MaxCrashes,   \* bound on crashes, from any count on
          DuplicateCrashes \* may a crash find two series records for a label set in the log?

ASSUME HeadLogAssumption ==
  /\ MaxLogTime \in Nat /\ MaxBatch \in Nat /\ MaxRef \in Nat /\ MaxSegment \in Nat /\ MaxCrashes \in Nat
  /\ DuplicateCrashes \in BOOLEAN

LogTimes == 1..MaxLogTime
Refs == 1..MaxRef
NoRef == 0

VARIABLES
  lastSeriesID,
  hashes,      \* stripeSeries.hashes: the reference for each label set
  ids,         \* stripeSeries.series: the references that can be looked up
  series,      \* the memSeries, also those only an appender still refers to
  lapp,        \* the head appenders
  deleted,     \* Head.deleted: the segment up to which a record is kept
  mint,        \* minTime, minValidTime and lastWALTruncationTime of the head
  tr,          \* the truncation in progress
  wal,         \* the segments on disk
  checkpoints, \* the checkpoints on disk
  crashes,
  accepted,    \* the samples of each label set that were committed, but for stray series
  contended    \* the label sets that two open appenders had series or samples of

memVars == <<lastSeriesID, hashes, ids, series, lapp, deleted, tr>>
logVars == <<memVars, mint, wal, checkpoints, crashes, accepted, contended>>

SeriesRec(all) == [type |-> "series", series |-> all]
SamplesRec(samples) == [type |-> "samples", samples |-> samples]

\* The last two fields are history.  Its pendingCommit was cleared although
\* there are samples to commit; it was collected then, or between its lookup
\* and its first sample.
NewSeries(l) == [lset |-> l, times |-> {}, pendingCommit |-> FALSE, cleared |-> FALSE, stray |-> FALSE]
NoLogApp == [pc |-> "idle", mvt |-> 0, ref |-> NoRef, new |-> <<>>, samples |-> <<>>]
NoTr == [pc |-> "idle", todo |-> {}, dropped |-> {}, to |-> 0]

LogInit ==
  /\ lastSeriesID = 0
  /\ hashes = [l \in Labels |-> NoRef]
  /\ ids = {}
  /\ series = [ref \in {} |-> NewSeries(0)]
  /\ lapp = [a \in LogAppenders |-> NoLogApp]
  /\ deleted = [ref \in {} |-> 0]
  /\ mint = 0
  /\ tr = NoTr
  /\ wal = [i \in {0} |-> <<>>]
  /\ checkpoints = [i \in {} |-> <<>>]
  /\ crashes \in 0..MaxCrashes
  /\ accepted = [l \in Labels |-> {}] /\ contended = {}
-----------------------------------------------------------------------------
FirstSegment == Min(DOMAIN wal)
LastSegment == Max(DOMAIN wal)

\* WL.Log: one record, in the last segment or, when that is full, in a new one.
Log(rec) ==
  \/ wal' = [wal EXCEPT ![LastSegment] = Append(@, rec)]
  \/ /\ LastSegment < MaxSegment
     /\ wal' = [i \in DOMAIN wal \union {LastSegment + 1} |->
                  IF i \in DOMAIN wal THEN wal[i] ELSE <<rec>>]

\* WL.NextSegment
NextSegment ==
  /\ LastSegment < MaxSegment
  /\ wal' = [i \in DOMAIN wal \union {LastSegment + 1} |-> IF i \in DOMAIN wal THEN wal[i] ELSE <<>>]
-----------------------------------------------------------------------------
\* The samples for a series that the appenders have not committed.
OpenSamples(ref, apps) ==
  UNION {{i \in DOMAIN apps[a].samples : apps[a].samples[i][1] = ref} : a \in LogAppenders}

\* Does an appender other than a have something open for the label set?
InUse(a, l) ==
  \E b \in LogAppenders \ {a} :
    \E ref \in {lapp[b].ref} \union Range(lapp[b].new) \union {x[1] : x \in Range(lapp[b].samples)} :
      ref # NoRef /\ series[ref].lset = l

NewAppender(a, mvt) ==
  /\ lapp[a].pc = "idle"
  /\ mvt >= mint
  /\ lapp' = [lapp EXCEPT ![a] = [NoLogApp EXCEPT !.pc = "open", !.mvt = mvt]]
  /\ UNCHANGED <<lastSeriesID, hashes, ids, series, deleted, tr, mint, wal, checkpoints, crashes, accepted, contended>>

\* getByID with a reference from an earlier append, or getByHash.
FindSeries(a, l) ==
  /\ lapp[a].pc = "open"
  /\ Len(lapp[a].samples) < MaxBatch
  /\ \E ref \in {r \in ids : series[r].lset = l} \union ({hashes[l]} \ {NoRef}) :
       lapp' = [lapp EXCEPT ![a].pc = "found", ![a].ref = ref]
  /\ contended' = IF InUse(a, l) THEN contended \union {l} ELSE contended
  /\ UNCHANGED <<lastSeriesID, hashes, ids, series, deleted, tr, mint, wal, checkpoints, crashes, accepted>>

\* getOrCreate and the first half of getOrSet: the series is in hashes.
CreateSeries(a, l) ==
  /\ lapp[a].pc = "open"
  /\ Len(lapp[a].samples) < MaxBatch
  /\ hashes[l] = NoRef
  /\ lastSeriesID < MaxRef
  /\ LET ref == lastSeriesID + 1
     IN  /\ lastSeriesID' = ref
         /\ hashes' = [hashes EXCEPT ![l] = ref]
         /\ series' = [r \in DOMAIN series \union {ref} |-> IF r = ref THEN NewSeries(l) ELSE series[r]]
         /\ lapp' = [lapp EXCEPT ![a].pc = "created", ![a].ref = ref]
  /\ contended' = IF InUse(a, l) THEN contended \union {l} ELSE contended
  /\ UNCHANGED <<ids, deleted, tr, mint, wal, checkpoints, crashes, accepted>>

\* The second half of getOrSet: the series can be found by its reference.
SetID(a) ==
  /\ lapp[a].pc = "created"
  /\ ids' = ids \union {lapp[a].ref}
  /\ lapp' = [lapp EXCEPT ![a].pc = "found", ![a].new = Append(@, lapp[a].ref)]
  /\ UNCHANGED <<lastSeriesID, hashes, series, deleted, tr, mint, wal, checkpoints, crashes, accepted, contended>>

\* memSeries.appendable with out-of-order ingestion off.
Appendable(ref, t, mvt) == t >= mvt /\ \A u \in series[ref].times : t > u

\* Mutant: the series is not marked.
AppendUnmarked(a, t) ==
  /\ lapp[a].pc = "found"
  /\ t >= lapp[a].mvt
  /\ Appendable(lapp[a].ref, t, lapp[a].mvt)
  /\ lapp' = [lapp EXCEPT ![a].pc = "open", ![a].ref = NoRef, ![a].samples = Append(@, <<lapp[a].ref, t>>)]
  /\ UNCHANGED <<lastSeriesID, hashes, ids, series, deleted, tr, mint, wal, checkpoints, crashes, accepted, contended>>

\* headAppender.Append, from the lock of the series on.
AppendTo(a, t) ==
  /\ lapp[a].pc = "found"
  /\ t >= lapp[a].mvt
  /\ LET ref == lapp[a].ref
     IN  IF Appendable(ref, t, lapp[a].mvt)
         THEN /\ series' = [series EXCEPT ![ref].pendingCommit = TRUE, ![ref].cleared = FALSE]
              /\ lapp' = [lapp EXCEPT ![a].pc = "open", ![a].ref = NoRef, ![a].samples = Append(@, <<ref, t>>)]
         ELSE /\ lapp' = [lapp EXCEPT ![a].pc = "open", ![a].ref = NoRef]
              /\ UNCHANGED series
  /\ UNCHANGED <<lastSeriesID, hashes, ids, deleted, tr, mint, wal, checkpoints, crashes, accepted, contended>>

\* headAppender.log, the record of the series it created.
LogSeries(a) ==
  IF lapp[a].new = <<>> THEN UNCHANGED wal
  ELSE Log(SeriesRec([i \in DOMAIN lapp[a].new |-> <<lapp[a].new[i], series[lapp[a].new[i]].lset>>]))

\* Commit logs first the series ...
CommitSeries(a) ==
  /\ lapp[a].pc = "open"
  /\ lapp[a].samples # <<>>
  /\ LogSeries(a)
  /\ lapp' = [lapp EXCEPT ![a].pc = "logSamples"]
  /\ UNCHANGED <<lastSeriesID, hashes, ids, series, deleted, tr, mint, checkpoints, crashes, accepted, contended>>

\* ... then the samples.
CommitSamples(a) ==
  /\ lapp[a].pc = "logSamples"
  /\ Log(SamplesRec(lapp[a].samples))
  /\ lapp' = [lapp EXCEPT ![a].pc = "apply"]
  /\ UNCHANGED <<lastSeriesID, hashes, ids, series, deleted, tr, mint, checkpoints, crashes, accepted, contended>>

\* One turn of the loop of commitSamples; after the last the append is closed.
ApplySample(a) ==
  /\ lapp[a].pc = "apply"
  /\ lapp' = [lapp EXCEPT ![a] = IF Len(@.samples) = 1 THEN NoLogApp ELSE [@ EXCEPT !.samples = Tail(@)]]
  /\ LET ref == Head(lapp[a].samples)[1]
         t   == Head(lapp[a].samples)[2]
         ok  == Appendable(ref, t, lapp[a].mvt)
     IN  /\ series' = [series EXCEPT ![ref].times = IF ok THEN @ \union {t} ELSE @,
                                     ![ref].pendingCommit = FALSE,
                                     ![ref].cleared = OpenSamples(ref, lapp') # {}]
         /\ accepted' = [accepted EXCEPT ![series[ref].lset] = IF ok /\ ~series[ref].stray THEN @ \union {t} ELSE @]
  /\ UNCHANGED <<lastSeriesID, hashes, ids, deleted, tr, mint, wal, checkpoints, crashes, contended>>

\* One turn of the loop of Rollback.
RollbackSample(a) ==
  /\ lapp[a].pc \in {"open", "rollback"}
  /\ lapp[a].samples # <<>>
  /\ lapp' = [lapp EXCEPT ![a].pc = "rollback", ![a].samples = Tail(@)]
  /\ LET ref == Head(lapp[a].samples)[1]
     IN  series' = [series EXCEPT ![ref].pendingCommit = FALSE, ![ref].cleared = OpenSamples(ref, lapp') # {}]
  /\ UNCHANGED <<lastSeriesID, hashes, ids, deleted, tr, mint, wal, checkpoints, crashes, accepted, contended>>

\* After the loop, or without samples: the new series are logged all the same.
RollbackDone(a) ==
  /\ lapp[a].pc \in {"open", "rollback"}
  /\ lapp[a].samples = <<>>
  /\ LogSeries(a)
  /\ lapp' = [lapp EXCEPT ![a] = NoLogApp]
  /\ UNCHANGED <<lastSeriesID, hashes, ids, series, deleted, tr, mint, checkpoints, crashes, accepted, contended>>
-----------------------------------------------------------------------------
\* Samples below newMint are in a block.  The compaction that wrote it has
\* waited for the appenders that could add to them.
TruncateMemory(newMint) ==
  /\ tr.pc = "idle"
  /\ newMint > mint
  /\ \A a \in LogAppenders : lapp[a].pc # "idle" => lapp[a].mvt >= newMint
  /\ mint' = newMint
  /\ tr' = [NoTr EXCEPT !.pc = "gc", !.todo = Labels]
  /\ UNCHANGED <<lastSeriesID, hashes, ids, series, lapp, deleted, wal, checkpoints, crashes, accepted, contended>>

\* stripeSeries.gc for one series, under its lock and those of its stripes.
gcLogSeries(l) ==
  LET ref  == hashes[l]
      left == {t \in series[ref].times : t >= mint}
  IN  /\ tr.pc = "gc"
      /\ l \in tr.todo
      /\ ref # NoRef
      /\ IF left # {} \/ series[ref].pendingCommit
         THEN /\ series' = [series EXCEPT ![ref].times = left]
              /\ tr' = [tr EXCEPT !.todo = @ \ {l}]
              /\ UNCHANGED <<hashes, ids>>
         ELSE /\ series' = [series EXCEPT ![ref].times = left,
                              ![ref].stray = series[ref].cleared \/ \E a \in LogAppenders : lapp[a].ref = ref]
              /\ tr' = [tr EXCEPT !.todo = @ \ {l}, !.dropped = @ \union {ref}]
              /\ hashes' = [hashes EXCEPT ![l] = NoRef]
              /\ ids' = ids \ {ref}
      /\ UNCHANGED <<lastSeriesID, lapp, deleted, mint, wal, checkpoints, crashes, accepted, contended>>

\* The references in the map after some more were collected in a segment.
Keep(dropped, segment) ==
  [ref \in DOMAIN deleted \union dropped |-> IF ref \in dropped THEN segment ELSE deleted[ref]]

\* Head.gc when the series are done: their records are kept for a while.
gcDone ==
  /\ tr.pc = "gc"
  /\ \A l \in tr.todo : hashes[l] = NoRef
  /\ deleted' = Keep(tr.dropped, LastSegment)
  /\ tr' = [NoTr EXCEPT !.pc = "wal"]
  /\ UNCHANGED <<lastSeriesID, hashes, ids, series, lapp, mint, wal, checkpoints, crashes, accepted, contended>>

\* truncateWAL: a new segment, and the lower two thirds of the others.
truncateWAL ==
  /\ tr.pc = "wal"
  /\ NextSegment
  /\ LET to == FirstSegment + ((LastSegment - 1 - FirstSegment) * 2) \div 3
     IN  tr' = IF LastSegment < 1 \/ to <= FirstSegment THEN NoTr
               ELSE [NoTr EXCEPT !.pc = "checkpoint", !.to = to]
  /\ UNCHANGED <<lastSeriesID, hashes, ids, series, lapp, deleted, mint, checkpoints, crashes, accepted, contended>>

\* Is the series record still needed?
keep(ref, to) == ref \in ids \/ (ref \in DOMAIN deleted /\ deleted[ref] > to)

\* The log from segment i to segment j.
Records(i, j) == FlattenSeq([k \in 1..(j - i + 1) |-> IF i + k - 1 \in DOMAIN wal THEN wal[i + k - 1] ELSE <<>>])

NoCheckpoint == -1
LastCheckpoint == IF DOMAIN checkpoints = {} THEN NoCheckpoint ELSE Max(DOMAIN checkpoints)

\* What a checkpoint retains of a record: the series that are kept, the
\* samples that are not in blocks.
Retained(rec, to) ==
  LET all     == SelectSeq(rec.series, LAMBDA s : keep(s[1], to))
      samples == SelectSeq(rec.samples, LAMBDA s : s[2] >= mint)
  IN  IF rec.type = "series" THEN IF all = <<>> THEN <<>> ELSE <<SeriesRec(all)>>
      ELSE IF samples = <<>> THEN <<>> ELSE <<SamplesRec(samples)>>

\* wlog.Checkpoint: written to a temporary directory, which a crash leaves to
\* be ignored, and renamed.
Checkpoint ==
  /\ tr.pc = "checkpoint"
  /\ LET last == LastCheckpoint
         recs == IF last = NoCheckpoint THEN Records(FirstSegment, tr.to)
                 ELSE checkpoints[last] \o Records(last + 1, tr.to)
         new  == FlattenSeq([i \in DOMAIN recs |-> Retained(recs[i], tr.to)])
     IN  checkpoints' = [i \in DOMAIN checkpoints \union {tr.to} |-> IF i = tr.to THEN new ELSE checkpoints[i]]
  /\ tr' = [tr EXCEPT !.pc = "segments"]
  /\ UNCHANGED <<lastSeriesID, hashes, ids, series, lapp, deleted, mint, wal, crashes, accepted, contended>>

\* Mutant: the segment after the checkpoint goes as well.
TruncateSegmentPast ==
  /\ tr.pc = "segments"
  /\ IF FirstSegment <= tr.to + 1
     THEN wal' = [i \in DOMAIN wal \ {FirstSegment} |-> wal[i]] /\ UNCHANGED tr
     ELSE tr' = [tr EXCEPT !.pc = "forget"] /\ UNCHANGED wal
  /\ UNCHANGED <<lastSeriesID, hashes, ids, series, lapp, deleted, mint, checkpoints, crashes, accepted, contended>>

\* WL.Truncate removes the segments one by one.
TruncateSegment ==
  /\ tr.pc = "segments"
  /\ IF FirstSegment <= tr.to
     THEN wal' = [i \in DOMAIN wal \ {FirstSegment} |-> wal[i]] /\ UNCHANGED tr
     ELSE tr' = [tr EXCEPT !.pc = "forget"] /\ UNCHANGED wal
  /\ UNCHANGED <<lastSeriesID, hashes, ids, series, lapp, deleted, mint, checkpoints, crashes, accepted, contended>>

\* The end of truncateWAL: old entries of deleted, then old checkpoints.
Forget ==
  /\ tr.pc = "forget"
  /\ deleted' = [ref \in {r \in DOMAIN deleted : deleted[r] > tr.to} |-> deleted[ref]]
  /\ checkpoints' = [i \in {j \in DOMAIN checkpoints : j >= tr.to} |-> checkpoints[i]]
  /\ tr' = NoTr
  /\ UNCHANGED <<lastSeriesID, hashes, ids, series, lapp, mint, wal, crashes, accepted, contended>>
-----------------------------------------------------------------------------
\* What Head.Init reads: the newest checkpoint and the segments after it.
ReplayLog ==
  IF LastCheckpoint = NoCheckpoint THEN Records(FirstSegment, LastSegment)
  ELSE checkpoints[LastCheckpoint] \o Records(LastCheckpoint + 1, LastSegment)

\* processWALSamples: one sample, for the series its reference stands for.
ReplaySample(st, s) ==
  LET ref == IF s[1] \in DOMAIN st.multiRef THEN st.multiRef[s[1]] ELSE s[1]
  IN  IF s[2] >= mint /\ ref \in DOMAIN st.series /\ \A u \in st.series[ref].times : s[2] > u
      THEN [st EXCEPT !.series[ref].times = @ \union {s[2]}] ELSE st

\* loadWAL: one series of a record.  A series that exists under another
\* reference is reset: its samples so far should be in blocks.
ReplaySeries(st, s) ==
  LET old == {r \in DOMAIN st.series : st.series[r].lset = s[2]}
      ref == IF old = {} THEN s[1] ELSE CHOOSE r \in old : TRUE
  IN  [series   |-> [r \in DOMAIN st.series \union {ref} |-> IF r = ref THEN NewSeries(s[2]) ELSE st.series[r]],
       multiRef |-> [r \in DOMAIN st.multiRef \union (IF old = {} THEN {} ELSE {s[1]}) |->
                       IF r = s[1] THEN ref ELSE st.multiRef[r]],
       last     |-> Max({st.last, s[1]})]

\* loadWAL: one record.
ReplayRecord(st, rec) ==
  IF rec.type = "samples" THEN FoldLeft(ReplaySample, st, rec.samples)
  ELSE FoldLeft(ReplaySeries, st, rec.series)

Replayed ==
  FoldLeft(ReplayRecord,
           [series |-> [r \in {} |-> NewSeries(0)], multiRef |-> [r \in {} |-> 0], last |-> 0],
           ReplayLog)

\* A crash, and the next start up to the garbage collection at the end of
\* Head.Init.  The log continues in a new segment.
CrashAndReplay ==
  /\ crashes < MaxCrashes
  /\ crashes' = crashes + 1
  /\ NextSegment
  /\ \E st \in {Replayed} :
       LET live == {r \in DOMAIN st.series : st.series[r].times # {}}
       IN  /\ DuplicateCrashes \/ DOMAIN st.multiRef = {}
           /\ lastSeriesID' = st.last
           /\ series' = [r \in live |-> st.series[r]]
           /\ hashes' = [l \in Labels |-> IF \E r \in live : st.series[r].lset = l
                                          THEN CHOOSE r \in live : st.series[r].lset = l ELSE NoRef]
           /\ ids' = live
           /\ deleted' = [r \in DOMAIN st.series \ live |-> LastSegment + 1]
  /\ lapp' = [a \in LogAppenders |-> NoLogApp]
  /\ tr' = NoTr
  /\ UNCHANGED <<mint, checkpoints, accepted, contended>>

LogNext ==
  \/ \E a \in LogAppenders, t \in LogTimes : NewAppender(a, t) \/ AppendTo(a, t)
  \/ \E a \in LogAppenders, l \in Labels : FindSeries(a, l) \/ CreateSeries(a, l)
  \/ \E a \in LogAppenders : SetID(a) \/ CommitSeries(a) \/ CommitSamples(a) \/ ApplySample(a)
  \/ \E a \in LogAppenders : RollbackSample(a) \/ RollbackDone(a)
  \/ \E t \in LogTimes : TruncateMemory(t)
  \/ \E l \in Labels : gcLogSeries(l)
  \/ gcDone \/ truncateWAL \/ Checkpoint \/ TruncateSegment \/ Forget
  \/ CrashAndReplay

LogSpec == LogInit /\ [][LogNext]_logVars
-----------------------------------------------------------------------------
\* What the log owes: the committed samples that are not in blocks.
Owed(l) == {t \in accepted[l] : t >= mint}

\* A committed sample is in the series that a lookup of its labels finds,
\* whatever collections ran while its appender was open: pendingCommit keeps
\* its series.  Two gaps of pendingCommit are left out, by series: those that
\* were collected between a lookup and the first sample, when the flag is not
\* set yet, and after another append had cleared the flag, which all share.
HeadComplete ==
  \A l \in Labels : Owed(l) # {} => hashes[l] # NoRef /\ Owed(l) \subseteq series[hashes[l]].times

\* A crash now would lose no committed sample of a label set that one appender
\* wrote to at a time: the newest checkpoint and the segments after it have
\* its record and, before it, the record of its series.  (Appenders that are
\* open together log their series and samples in another order than that in
\* which they create and apply them.)  A label set that got a second series
\* through the first gap of HeadComplete is left out too.
ReplayComplete ==
  \A l \in {k \in Labels \ contended : \A r \in DOMAIN series : series[r].lset = k => ~series[r].stray} :
    Owed(l) # {} =>
      \E all \in {Replayed.series} : \E r \in DOMAIN all : all[r].lset = l /\ Owed(l) \subseteq all[r].times
=============================================================================
