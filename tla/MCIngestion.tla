---------------------------- MODULE MCIngestion -----------------------------
(***************************************************************************)
(* How samples are taken in, and the alerts that rules make of them.  The  *)
(* parts have no state in common, or are looked at one at a time, so a     *)
(* behaviour is one of                                                     *)
(*   - the isolation state alone, with all its readers and appends;        *)
(*   - the ring of append IDs, grown from nothing to eight slots;          *)
(*   - one series, written by three appends, two at a time, and read;      *)
(*   - the Simple8b encoder, which starts empty, short of a whole word by  *)
(*     one value, or with a buffer that has room for one or two more;      *)
(*   - the lossy chunks of a series, with an 8-bit int64: a Simple8b word  *)
(*     holds values up to 15, int64(NaN) is -128 (amd64), a quantum is 4   *)
(*     and the error bound 2.  Values lie at all distances from quanta;    *)
(*     the outer ones fit a word only after a near one;                    *)
(*   - an out-of-order chunk of three samples, filled in every order of    *)
(*     four timestamps;                                                    *)
(*   - an alerting rule over outages, restarts and failing evaluations,    *)
(*     with one alert, and a second one that exceeds the limit of one.     *)
(***************************************************************************)
EXTENDS HeadSeries, TxRing, Simple8b, CLChunk, OOOChunk, AlertingRule, TLC

CONSTANTS stale, f2,
          SeriesAppends,  \* bound on the appends to the series
          SeriesOpen      \* bound on those that are open at a time

VARIABLE part

MCValues == {-34, -7, 3, 22, 33}
MCNaNToInt == -128

Repeated(n, w) == [i \in 1..n |-> w]

MCStarts == {<<>>, Repeated(239, 1), Repeated(119, 1), Repeated(59, 0), Repeated(29, 2),
             Repeated(238, 2), <<61>> \o Repeated(238, 1)}

\* Alone, the isolation state makes nothing of the times it is given.
IsoBound ==
  /\ \A i \in DOMAIN appendsOpenList : appendsOpenList[i].minTime = Min(Times)
  /\ \A rd \in OpenReads : rd.maxt = Min(Times)

SeriesBound ==
  /\ lastAppendID <= SeriesAppends
  /\ Len(appendsOpenList) <= SeriesOpen
  /\ \A rd \in OpenReads : rd.reader = CHOOSE r \in Readers : TRUE

\* The second alert is there only to exceed the limit.
RuleBound == f2 \notin DOMAIN actives

MCInit ==
  /\ part \in {"isolation", "ring", "series", "simple8b", "cl", "ooo", "rule"}
  /\ Init
  /\ newTxRing
  /\ NewSimple8bEncoder /\ (part # "simple8b" => written = <<>>)
  /\ CLInit
  /\ OOOInit
  /\ RuleInit /\ (part # "rule" => now = 1)

MCNext ==
  \/ /\ part = "isolation" /\ IsoNext /\ IsoBound'
     /\ UNCHANGED <<part, seriesVars, pending, phase, ringVars, encVars, chunkVars, oooVars, ruleVars>>
  \/ /\ part = "ring" /\ RingNext
     /\ UNCHANGED <<part, vars, encVars, chunkVars, oooVars, ruleVars>>
  \/ /\ part = "series" /\ Next /\ SeriesBound'
     /\ UNCHANGED <<part, ringVars, encVars, chunkVars, oooVars, ruleVars>>
  \/ /\ part = "simple8b" /\ EncNext
     /\ UNCHANGED <<part, vars, ringVars, chunkVars, oooVars, ruleVars>>
  \/ /\ part = "cl" /\ CLNext
     /\ UNCHANGED <<part, vars, ringVars, encVars, oooVars, ruleVars>>
  \/ /\ part = "ooo" /\ OOONext
     /\ UNCHANGED <<part, vars, ringVars, encVars, chunkVars, ruleVars>>
  \/ /\ part = "rule" /\ RuleNext /\ RuleBound'
     /\ UNCHANGED <<part, vars, ringVars, encVars, chunkVars, oooVars>>

MCSpec == MCInit /\ [][MCNext]_<<part, vars, ringVars, encVars, chunkVars, oooVars, ruleVars>>
=============================================================================
