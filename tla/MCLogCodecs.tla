---------------------------- MODULE MCLogCodecs -----------------------------
(***************************************************************************)
(* The write-ahead log, the chunk files and the compressors written in     *)
(* C++.  A behaviour is one of                                             *)
(*   - the series of the head and their log, with a crash and one          *)
(*     appender: many segments, for checkpoints of checkpoints, or many    *)
(*     timestamps;                                                         *)
(*   - the same with two appenders that share their series, in a log of    *)
(*     one segment;                                                        *)
(*   - the log with a watcher that tails it, without crashes, from the     *)
(*     beginning or from a head that was restarted three times;            *)
(*   - the chunk files of the head, two chunks to a file, with or without  *)
(*     a queue;                                                            *)
(*   - Machete on five values, among them a jump too large for a delta of  *)
(*     four bits and NaN, with each of its encoders;                       *)
(*   - the bit stream under it, with words of three bits;                  *)
(*   - SZ3 on five values, among them an unpredictable one and NaN, with   *)
(*     blocks of six and bytes of two bits.                                *)
(***************************************************************************)
EXTENDS LogWatcher, ChunkDiskMapper, Machete, BitStream, SZ3, TLC

CONSTANTS nan, l1, b1,
          FewTimes,    \* the timestamps when there are many segments or a watcher
          FewSegments, \* the segments when there are many timestamps or a watcher
          FewRecords   \* the records when there are two appenders

VARIABLE part

MCMValues == {0, 5, -3, 30, nan}
MCSZValues == {1, 4, 20, nan}

Short ==
  /\ mint <= FewTimes
  /\ \A a \in LogAppenders : /\ lapp[a].mvt <= FewTimes
                            /\ \A i \in DOMAIN lapp[a].samples : lapp[a].samples[i][2] <= FewTimes
  /\ \A l \in Labels : \A t \in accepted[l] : t <= FewTimes

\* One appender, whose series are not collected under it.
Alone ==
  /\ \A a \in LogAppenders \ {b1} : lapp[a] = NoLogApp
  /\ \A ref \in DOMAIN series : ~series[ref].stray

LogBound == Alone /\ (Short \/ LastSegment < FewSegments)

NearHead == \A a \in LogAppenders : lapp[a].mvt <= mint + 1

\* The appenders are alike: the first one to open is b1.
FirstOpens == (\A a \in LogAppenders : lapp[a] = NoLogApp) => \A a \in LogAppenders \ {b1} : lapp'[a] = NoLogApp

SharedBound == NearHead /\ Short /\ DOMAIN wal = {0} /\ Len(wal[0]) <= FewRecords

\* With a watcher, appenders commit and are not far ahead of the head.
Tailed == Alone /\ NearHead /\ \A a \in LogAppenders : lapp[a].pc # "rollback"

\* The last segment is for a watcher that started with the first one.
WatchBound ==
  /\ Tailed /\ Short
  /\ LastSegment < FewSegments \/ (LastSegment = FewSegments /\ wpc # "off" /\ tailFrom = 0)

LagBound == Tailed /\ lastSeriesID = 1

\* A head that logged a series and a sample, was truncated, and was restarted
\* three times: enough segments for two checkpoints while a watcher tails.
RestartedInit ==
  /\ lastSeriesID = 1 /\ ids = {1} /\ hashes = [l \in Labels |-> IF l = l1 THEN 1 ELSE NoRef]
  /\ series = [ref \in {1} |-> [NewSeries(l1) EXCEPT !.times = {2}]]
  /\ lapp = [a \in LogAppenders |-> NoLogApp]
  /\ deleted = [ref \in {} |-> 0]
  /\ mint = 1 /\ tr = NoTr
  /\ wal = [i \in 0..3 |-> IF i = 0 THEN <<SeriesRec(<<<<1, l1>>>>), SamplesRec(<<<<1, 2>>>>)>> ELSE <<>>]
  /\ checkpoints = [i \in {} |-> <<>>]
  /\ accepted = [l \in Labels |-> IF l = l1 THEN {2} ELSE {}] /\ contended = {}

MCInit ==
  /\ part \in {"log", "shared", "watch", "lag", "files", "machete", "bits", "sz3"}
  /\ IF part = "lag" THEN RestartedInit ELSE LogInit
  /\ WatchInit /\ crashes = IF part = "log" THEN 0 ELSE MaxCrashes
  /\ CdmInit /\ (part # "files" => queued)
  /\ MacheteInit /\ BitInit /\ SZInit

MCNext ==
  \/ /\ part \in {"log", "shared"} /\ LogNext
     /\ IF part = "log" THEN LogBound' ELSE SharedBound' /\ FirstOpens
     /\ UNCHANGED <<part, watchVars, cdmVars, macheteVars, bitVars, szVars>>
  \/ /\ part \in {"watch", "lag"} /\ WatchedNext
     /\ IF part = "watch" THEN WatchBound' ELSE LagBound'
     /\ UNCHANGED <<part, cdmVars, macheteVars, bitVars, szVars>>
  \/ /\ part = "files" /\ CdmNext
     /\ UNCHANGED <<part, logVars, watchVars, macheteVars, bitVars, szVars>>
  \/ /\ part = "machete" /\ MacheteNext
     /\ UNCHANGED <<part, logVars, watchVars, cdmVars, bitVars, szVars>>
  \/ /\ part = "bits" /\ BitNext
     /\ UNCHANGED <<part, logVars, watchVars, cdmVars, macheteVars, szVars>>
  \/ /\ part = "sz3" /\ SZNext
     /\ UNCHANGED <<part, logVars, watchVars, cdmVars, macheteVars, bitVars>>

MCSpec == MCInit /\ [][MCNext]_<<part, logVars, watchVars, cdmVars, macheteVars, bitVars, szVars>>
=============================================================================
