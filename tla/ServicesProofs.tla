--------------------------- MODULE ServicesProofs ---------------------------
(***************************************************************************)
(* The services that feed the storage and send what rules make of it, for  *)
(* any capacities, sets of series and numbers of reloads:                  *)
(*   - the markers of stopped scrape loops never hide what a running loop  *)
(*     has scraped, and a series that is no longer exposed is marked stale *)
(*     in time;                                                            *)
(*   - the notifier loses no alert silently;                               *)
(*   - what a receiver is told about alerts stays right, and an alert does *)
(*     not fire before its time, if the group is not evaluated more often  *)
(*     than every second.                                                  *)
(***************************************************************************)
EXTENDS ScrapeLoop, Notifier, AlertingRule, TLAPS

-----------------------------------------------------------------------------
(* Alerting rules.                                                         *)

AlertRec == [state: {"inactive", "pending", "firing"}, activeAt: Int, resolvedAt: Int,
             lastSentAt: Int, validUntil: Int, keepFiringSince: Int]
ForSample == [t: Int, v: Int, stale: BOOLEAN]

\* An alert that has not ended has no time of its end, and none was sent in the
\* future.
AlertOK(a, t) ==
  /\ a \in AlertRec
  /\ a.state # "inactive" => a.resolvedAt = 0
  /\ a.lastSentAt <= t

\* An alert that the receiver was told of, n failed evaluations ago: it fires,
\* and the last evaluation that did not fail would have sent it again had the
\* resend delay passed.
ToldOK(a, t, n) ==
  /\ a.state = "firing"
  /\ a.validUntil = a.lastSentAt + ValidFor
  /\ n = 0 => t <= a.lastSentAt + ResendDelay
  /\ n = 1 => t <= a.lastSentAt + ResendDelay + Interval
  /\ n = 2 => t <= a.lastSentAt + ResendDelay + Interval + Interval

RInv ==
  /\ now \in Nat /\ fails \in Nat
  /\ forState \in [Fps -> ForSample]
  /\ DOMAIN actives \subseteq Fps
  /\ actives = [fp \in DOMAIN actives |-> actives[fp]]
  /\ \A fp \in DOMAIN actives : AlertOK(actives[fp], now)
  /\ \A fp \in told \ dropped : fp \in DOMAIN actives /\ ToldOK(actives[fp], now, fails)

\* The durations of the rule.
LEMMA Consts ==
  /\ Interval \in Nat /\ Interval > 0 /\ Unit \in Nat /\ Unit > 0
  /\ HoldDuration \in Nat /\ KeepFiringFor \in Nat /\ ResolvedRetention \in Nat
  /\ ResendDelay \in Nat /\ ForGracePeriod \in Nat /\ OutageTolerance \in Nat
  BY AlertingAssumption

\* What is sent is valid for two missed evaluations on top of the resend delay.
LEMMA ValidForLong ==
  /\ ValidFor \in Nat
  /\ ResendDelay + Interval + Interval <= ValidFor
  BY Consts DEF ValidFor

\* The stored times are numbers.
LEMMA SecondsInt == ASSUME NEW t \in Int PROVE Seconds(t) \in Int
  BY Consts DEF Seconds

\* A new alert of the first loop of Eval.
LEMMA NewOK == ASSUME NEW t \in Int, NEW n \in Nat PROVE AlertOK(NewAlert(t), n)
  BY DEF NewAlert, AlertOK, AlertRec

\* An evaluation: an alert keeps what was sent of it, and one that stops firing
\* ends now and is sent.
LEMMA EvalOK ==
  ASSUME RInv, NEW res \in SUBSET Fps, Eval(res)
  PROVE  RInv'
<1> DEFINE ts == now + Interval
           merged == Merged(res, ts)
           kept == {fp \in DOMAIN merged : fp \in res \/ ~Deleted(merged[fp], ts)}
           counted == {fp \in DOMAIN merged : fp \in res \/ KeepsFiring(merged[fp], ts)}
           updated == [fp \in kept |-> Updated(merged[fp], fp \in res, ts)]
           sent == {fp \in kept : needsSending(updated[fp], ts)}
           final == [fp \in kept |-> IF fp \in sent
                                     THEN [updated[fp] EXCEPT !.lastSentAt = ts, !.validUntil = ts + ValidFor]
                                     ELSE updated[fp]]
<1>a. now' = ts
  BY Zenon DEF Eval
<1>0. ts \in Nat /\ now < ts /\ now' = ts
  BY <1>a, Consts DEF RInv
<1>b. \/ /\ actives' = [fp \in {} |-> NewAlert(0)] /\ told' \ dropped' = {} /\ fails' = fails + 1
         /\ forState' = forState
      \/ /\ actives' = final
         /\ told' = (told \ sent) \union {fp \in sent : updated[fp].state = "firing"} /\ fails' = 0
         /\ dropped' = dropped \ sent
         /\ forState' = [fp \in Fps |->
                            IF restored /\ fp \in counted
                            THEN [t |-> ts, v |-> Seconds(updated[fp].activeAt), stale |-> FALSE]
                            ELSE IF fp \in prevSeries THEN [t |-> ts, v |-> 0, stale |-> TRUE]
                            ELSE forState[fp]]
  BY Zenon DEF Eval
<1>1. /\ DOMAIN merged = DOMAIN actives \union res
      /\ \A fp \in DOMAIN merged : AlertOK(merged[fp], now) /\ (fp \in res => merged[fp].state # "inactive")
      /\ \A fp \in DOMAIN actives : actives[fp].state = "firing" => merged[fp] = actives[fp]
  <2>1. \A fp \in DOMAIN actives \union res :
          merged[fp] = IF fp \in DOMAIN actives /\ (fp \notin res \/ actives[fp].state # "inactive")
                       THEN actives[fp] ELSE NewAlert(ts)
    BY Zenon DEF Merged
  <2>2. AlertOK(NewAlert(ts), now) /\ NewAlert(ts).state = "pending"
    BY <1>0, NewOK DEF RInv, NewAlert
  <2>3. DOMAIN merged = DOMAIN actives \union res
    BY Zenon DEF Merged
  <2> HIDE DEF merged
  <2> QED BY <2>1, <2>2, <2>3, Zenon DEF RInv
<1> HIDE DEF merged
<1>2. \A fp \in kept :
        /\ AlertOK(updated[fp], ts)
        /\ updated[fp].lastSentAt = merged[fp].lastSentAt /\ updated[fp].validUntil = merged[fp].validUntil
        /\ merged[fp].state = "firing" => updated[fp].state = "firing" \/ updated[fp].resolvedAt = ts
  <2> SUFFICES ASSUME NEW fp \in kept
      PROVE /\ AlertOK(updated[fp], ts)
            /\ updated[fp].lastSentAt = merged[fp].lastSentAt /\ updated[fp].validUntil = merged[fp].validUntil
            /\ merged[fp].state = "firing" => updated[fp].state = "firing" \/ updated[fp].resolvedAt = ts
    BY Zenon
  <2>1. updated[fp] = Updated(merged[fp], fp \in res, ts)
    BY Zenon
  <2>2. AlertOK(merged[fp], now) /\ (fp \in res => merged[fp].state # "inactive")
    BY <1>1, Zenon
  <2> HIDE DEF kept, updated, ts
  <2>3. ts \in Int /\ now \in Int /\ now <= ts 
    BY <1>0 DEF RInv
  <2> DEFINE a == merged[fp]
             b == updated[fp]
  <2>4. /\ AlertOK(b, ts)
        /\ b.lastSentAt = a.lastSentAt /\ b.validUntil = a.validUntil
        /\ a.state = "firing" => b.state = "firing" \/ b.resolvedAt = ts
    <3>5. b = Updated(a, fp \in res, ts) /\ AlertOK(a, now) /\ (fp \in res => a.state # "inactive")
      BY <2>1, <2>2, Zenon
    <3> HIDE DEF a, b
    <3>0. a \in AlertRec /\ a.lastSentAt <= ts
      BY <2>3, <3>5 DEF AlertOK, AlertRec
    <3>1. CASE fp \in res
      <4> DEFINE st == IF a.state = "pending" /\ ts - a.activeAt >= HoldDuration THEN "firing" ELSE a.state
      <4>1. b = [a EXCEPT !.keepFiringSince = 0, !.state = st]
        BY <3>1, <3>5, Zenon DEF Updated
      <4>2. st \in {"pending", "firing"} /\ (a.state = "firing" => st = "firing") /\ a.resolvedAt = 0
        BY <3>0, <3>1, <3>5, Zenon DEF AlertOK, AlertRec
      <4> HIDE DEF st
      <4>3. /\ b \in AlertRec /\ b.state = st /\ b.resolvedAt = a.resolvedAt
            /\ b.lastSentAt = a.lastSentAt /\ b.validUntil = a.validUntil
        BY <2>3, <3>0, <4>1, <4>2, Zenon DEF AlertRec
      <4> QED BY <3>0, <4>2, <4>3, Zenon DEF AlertOK
    <3>2. CASE fp \notin res /\ KeepsFiring(a, ts)
      <4> DEFINE k == IF a.keepFiringSince = 0 THEN ts ELSE a.keepFiringSince
      <4>1. b = [a EXCEPT !.keepFiringSince = k]
        BY <3>2, <3>5, Zenon DEF Updated
      <4>2. k \in Int
        BY <2>3, <3>0, Zenon DEF AlertRec
      <4> HIDE DEF k
      <4>3. /\ b \in AlertRec /\ b.state = a.state /\ b.resolvedAt = a.resolvedAt
            /\ b.lastSentAt = a.lastSentAt /\ b.validUntil = a.validUntil
        BY <2>3, <3>0, <4>1, <4>2, Zenon DEF AlertRec
      <4> QED BY <2>3, <3>0, <3>5, <4>3, Zenon DEF AlertOK
    <3>3. CASE fp \notin res /\ ~KeepsFiring(a, ts) /\ a.state = "inactive"
      BY <3>0, <3>3, <3>5, Zenon DEF Updated, AlertOK, AlertRec
    <3>4. CASE fp \notin res /\ ~KeepsFiring(a, ts) /\ a.state # "inactive"
      <4> DEFINE k == IF a.state = "firing" /\ KeepFiringFor > 0 /\ a.keepFiringSince = 0
                      THEN ts ELSE a.keepFiringSince
      <4>1. b = [a EXCEPT !.state = "inactive", !.resolvedAt = ts, !.keepFiringSince = k]
        BY <3>4, <3>5, Zenon DEF Updated
      <4>2. k \in Int
        BY <2>3, <3>0, Zenon DEF AlertRec
      <4> HIDE DEF k
      <4>3. /\ b \in AlertRec /\ b.state = "inactive" /\ b.resolvedAt = ts
            /\ b.lastSentAt = a.lastSentAt /\ b.validUntil = a.validUntil
        BY <2>3, <3>0, <4>1, <4>2, Zenon DEF AlertRec
      <4> QED BY <2>3, <3>0, <3>5, <4>3, Zenon DEF AlertOK
    <3> QED BY <3>1, <3>2, <3>3, <3>4, Zenon
  <2> QED BY <2>4, Zenon
<1>3. /\ DOMAIN final = kept
      /\ \A fp \in kept : AlertOK(final[fp], ts)
      /\ \A fp \in sent : /\ final[fp].state = updated[fp].state
                          /\ final[fp].lastSentAt = ts /\ final[fp].validUntil = ts + ValidFor
      /\ \A fp \in kept \ sent : final[fp] = updated[fp]
  <2> HIDE DEF updated, ts
  <2>1. \A fp \in sent : final[fp] = [updated[fp] EXCEPT !.lastSentAt = ts, !.validUntil = ts + ValidFor]
    BY Zenon
  <2>2. \A fp \in sent : updated[fp] \in AlertRec
    BY <1>2, Zenon DEF AlertOK
  <2>3. ValidFor \in Nat /\ ts \in Nat
    BY <1>0, ValidForLong, Zenon
  <2>4. \A fp \in kept \ sent : final[fp] = updated[fp]
    BY Zenon
  <2>5. DOMAIN final = kept /\ sent \subseteq kept
    BY Zenon
  <2> HIDE DEF final, sent, kept
  <2>6. \A fp \in sent : /\ final[fp].state = updated[fp].state /\ final[fp].resolvedAt = updated[fp].resolvedAt
                         /\ final[fp].lastSentAt = ts /\ final[fp].validUntil = ts + ValidFor
                         /\ final[fp] \in AlertRec
    <3> TAKE fp \in sent
    <3> DEFINE v == ts + ValidFor
    <3>1. updated[fp] \in AlertRec /\ ts \in Int /\ v \in Int
      BY <2>2, <2>3
    <3>2. final[fp] = [updated[fp] EXCEPT !.lastSentAt = ts, !.validUntil = v]
      BY <2>1, Zenon
    <3> DEFINE u == updated[fp]
               f == final[fp]
    <3>3. u \in AlertRec /\ f = [u EXCEPT !.lastSentAt = ts, !.validUntil = v]
      BY <3>1, <3>2, Zenon
    <3> HIDE DEF u, f, v
    <3>4. /\ f \in AlertRec /\ f.state = u.state /\ f.resolvedAt = u.resolvedAt
          /\ f.lastSentAt = ts /\ f.validUntil = v
      BY ONLY <3>1, <3>3, Zenon DEF AlertRec
    <3> QED BY <3>4, Zenon DEF u, f, v
  <2>7. \A fp \in sent : AlertOK(final[fp], ts)
    BY <1>2, <2>3, <2>5, <2>6 DEF AlertOK
  <2> QED BY <1>2, <2>4, <2>5, <2>6, <2>7, Zenon
<1>4. \A fp \in (told \ dropped) \ sent :
                              /\ fp \in kept /\ updated[fp].state = "firing"
                              /\ updated[fp].validUntil = updated[fp].lastSentAt + ValidFor
                              /\ ts <= updated[fp].lastSentAt + ResendDelay
  <2> SUFFICES ASSUME NEW fp \in (told \ dropped) \ sent
      PROVE /\ fp \in kept /\ updated[fp].state = "firing"
            /\ updated[fp].validUntil = updated[fp].lastSentAt + ValidFor
            /\ ts <= updated[fp].lastSentAt + ResendDelay
    BY Zenon
  <2>1. /\ fp \in DOMAIN actives /\ actives[fp].state = "firing" /\ actives[fp].resolvedAt = 0
        /\ actives[fp].validUntil = actives[fp].lastSentAt + ValidFor /\ actives[fp].lastSentAt <= now
        /\ actives[fp].lastSentAt \in Int
    BY Zenon DEF RInv, ToldOK, AlertOK, AlertRec
  <2>2. merged[fp] = actives[fp] /\ fp \in DOMAIN merged
    BY <1>1, <2>1, Zenon
  <2>3. fp \in kept
    BY <2>1, <2>2, Zenon DEF Deleted
  <2>4. ~needsSending(updated[fp], ts)
    BY <2>3, Zenon
  <2> HIDE DEF kept, updated, sent, ts
  <2>5. /\ updated[fp].lastSentAt = actives[fp].lastSentAt /\ updated[fp].validUntil = actives[fp].validUntil
        /\ updated[fp].state = "firing" \/ updated[fp].resolvedAt = ts
    BY <1>2, <2>1, <2>2, <2>3, Zenon
  <2>6. updated[fp] \in AlertRec /\ (updated[fp].state # "inactive" => updated[fp].resolvedAt = 0)
    BY <1>2, <2>3, Zenon DEF AlertOK
  <2>7. updated[fp].state = "firing"
    <3> SUFFICES ASSUME updated[fp].state # "firing" PROVE FALSE
      BY Zenon
    <3>1. updated[fp].resolvedAt = ts /\ ts > updated[fp].lastSentAt /\ ts # 0
      BY <1>0, <2>1, <2>5 DEF RInv
    <3>2. updated[fp].state # "pending"
      BY <2>6, <3>1, Zenon
    <3> QED BY <2>4, <3>1, <3>2, Zenon DEF needsSending
  <2>8. ~(updated[fp].lastSentAt + ResendDelay < ts)
    BY <2>4, <2>7, Zenon DEF needsSending
  <2> QED BY <1>0, <2>1, <2>3, <2>5, <2>7, <2>8, Consts
<1>5. forState' \in [Fps -> ForSample]
  <2>1. CASE UNCHANGED forState
    BY <2>1, Zenon DEF RInv
  <2>2. CASE forState' = [fp \in Fps |->
                IF restored /\ fp \in counted
                THEN [t |-> ts, v |-> Seconds(updated[fp].activeAt), stale |-> FALSE]
                ELSE IF fp \in prevSeries THEN [t |-> ts, v |-> 0, stale |-> TRUE]
                ELSE forState[fp]]
    <3>1. \A fp \in counted : Seconds(updated[fp].activeAt) \in Int
      <4>1. \A fp \in counted : fp \in kept
        <5> SUFFICES ASSUME NEW fp \in DOMAIN merged, KeepsFiring(merged[fp], ts)
                     PROVE  ~Deleted(merged[fp], ts)
          BY Zenon
        <5> QED BY <1>1, Zenon DEF Deleted, KeepsFiring, AlertOK
      <4> HIDE DEF updated, kept, counted
      <4> QED BY <1>2, <4>1, SecondsInt, Zenon DEF AlertOK, AlertRec
    <3> SUFFICES ASSUME NEW fp \in Fps PROVE forState'[fp] \in ForSample
      BY <2>2, Zenon
    <3>2. CASE restored /\ fp \in counted
      <4>1. forState'[fp] = [t |-> ts, v |-> Seconds(updated[fp].activeAt), stale |-> FALSE]
        BY <2>2, <3>2, Zenon
      <4> HIDE DEF updated, counted, ts
      <4> QED BY <1>0, <3>1, <3>2, <4>1 DEF ForSample
    <3>3. CASE ~(restored /\ fp \in counted) /\ fp \in prevSeries
      <4>1. forState'[fp] = [t |-> ts, v |-> 0, stale |-> TRUE]
        BY <2>2, <3>3, Zenon
      <4> HIDE DEF ts
      <4> QED BY <1>0, <4>1 DEF ForSample
    <3>4. CASE ~(restored /\ fp \in counted) /\ fp \notin prevSeries
      BY <2>2, <3>4, Zenon DEF RInv
    <3> QED BY <3>2, <3>3, <3>4, Zenon
  <2> QED BY ONLY <1>b, <2>1, <2>2, Zenon
<1>6. CASE actives' = [fp \in {} |-> NewAlert(0)] /\ told' \ dropped' = {} /\ fails' = fails + 1
  BY <1>0, <1>5, <1>6 DEF RInv
<1>7. CASE /\ actives' = final /\ fails' = 0
           /\ told' = (told \ sent) \union {fp \in sent : updated[fp].state = "firing"}
           /\ dropped' = dropped \ sent
  <2>2. kept \subseteq Fps /\ sent \subseteq kept
    BY <1>1, Zenon DEF RInv
  <2>3. actives' = [fp \in kept |-> actives'[fp]]
    BY <1>7, Zenon
  <2> HIDE DEF kept, sent, updated, final, ts, counted
  <2>4. \A fp \in told' \ dropped' : fp \in kept /\ ToldOK(final[fp], ts, 0)
    <3>0. told' \ dropped' \subseteq ((told \ dropped) \ sent) \union {fp \in sent : updated[fp].state = "firing"}
      BY <1>7, Zenon
    <3>1. \A fp \in (told \ dropped) \ sent : fp \in kept /\ final[fp] = updated[fp]
      BY <1>3, <1>4, Zenon
    <3>2. \A fp \in (told \ dropped) \ sent : ToldOK(final[fp], ts, 0)
      BY <1>4, <3>1 DEF ToldOK
    <3>3. \A fp \in sent : updated[fp].state = "firing" => ToldOK(final[fp], ts, 0)
      BY <1>0, <1>3, Consts DEF ToldOK
    <3> QED BY <2>2, <3>0, <3>1, <3>2, <3>3, Zenon
  <2> QED BY <1>0, <1>3, <1>5, <1>7, <2>2, <2>3, <2>4, Zenon DEF RInv
<1> QED BY ONLY <1>b, <1>6, <1>7, Zenon

\* A failed evaluation only lets time pass.
LEMMA EvalFailsOK ==
  ASSUME RInv, EvalFails
  PROVE  RInv'
<1>1. /\ now' = now + Interval /\ fails' = fails + 1
      /\ actives' = actives /\ told' = told /\ dropped' = dropped /\ forState' = forState
  BY Zenon DEF EvalFails
<1>2. now \in Nat /\ now' \in Nat /\ now <= now' /\ fails' \in Nat
  BY <1>1, Consts DEF RInv
<1>3. ASSUME NEW fp \in DOMAIN actives PROVE AlertOK(actives[fp], now')
  BY <1>2 DEF RInv, AlertOK, AlertRec
<1>4. ASSUME NEW fp \in told \ dropped PROVE ToldOK(actives[fp], now', fails')
  <2>1. ToldOK(actives[fp], now, fails) /\ actives[fp].lastSentAt \in Int /\ fails \in Nat
    BY Zenon DEF RInv, AlertOK, AlertRec
  <2> QED BY <1>1, <1>2, <2>1, Consts DEF ToldOK
<1> QED BY <1>1, <1>2, <1>3, <1>4, Zenon DEF RInv

\* The restored ActiveAt is a number.
LEMMA RestoredInt ==
  ASSUME NEW s \in ForSample, NEW ts \in Int
  PROVE  RestoredActiveAt(s, ts) \in Int
<1>1. s.t \in Int /\ s.v \in Int
  BY Zenon DEF ForSample
<1>2. Seconds(s.t) \in Int
  BY <1>1, SecondsInt, Zenon
<1> QED BY <1>1, <1>2, Consts DEF RestoredActiveAt

\* The restoration changes only when alerts became active.
LEMMA RestoreOK ==
  ASSUME RInv, RestoreForState
  PROVE  RInv'
<1>1. now' = now /\ fails' = fails /\ told' = told /\ dropped' = dropped /\ forState' = forState
  BY Zenon DEF RestoreForState
<1>2. CASE actives' = actives
  BY <1>1, <1>2, Zenon DEF RInv
<1>3. CASE actives' = [fp \in DOMAIN actives |->
                         LET s == forState[fp]
                         IN  IF s.stale \/ s.t < now - OutageTolerance THEN actives[fp]
                             ELSE [actives[fp] EXCEPT !.activeAt = RestoredActiveAt(s, now)]]
  <2>1. ASSUME NEW fp \in DOMAIN actives
        PROVE  /\ actives'[fp] \in AlertRec
               /\ actives'[fp].state = actives[fp].state /\ actives'[fp].resolvedAt = actives[fp].resolvedAt
               /\ actives'[fp].lastSentAt = actives[fp].lastSentAt
               /\ actives'[fp].validUntil = actives[fp].validUntil
    <3> DEFINE a == actives[fp]
               b == actives'[fp]
               x == RestoredActiveAt(forState[fp], now)
    <3>1. a \in AlertRec /\ x \in Int
      BY RestoredInt DEF RInv, AlertOK
    <3>2. b = a \/ b = [a EXCEPT !.activeAt = x]
      BY <1>3, Zenon
    <3> HIDE DEF a, b, x
    <3>3. /\ b \in AlertRec /\ b.state = a.state /\ b.resolvedAt = a.resolvedAt
          /\ b.lastSentAt = a.lastSentAt /\ b.validUntil = a.validUntil
      BY <3>1, <3>2, Zenon DEF AlertRec
    <3> QED BY <3>3, Zenon DEF a, b
  <2>2. DOMAIN actives' = DOMAIN actives /\ actives' = [fp \in DOMAIN actives |-> actives'[fp]]
    BY <1>3, Zenon
  <2>3. \A fp \in DOMAIN actives : AlertOK(actives'[fp], now)
    BY <2>1, Zenon DEF RInv, AlertOK
  <2>4. \A fp \in told \ dropped : fp \in DOMAIN actives /\ ToldOK(actives'[fp], now, fails)
    BY <2>1, Zenon DEF RInv, ToldOK
  <2> QED BY <1>1, <2>2, <2>3, <2>4, Zenon DEF RInv
<1> QED BY <1>2, <1>3, Zenon DEF RestoreForState

\* Every step keeps the invariant.
LEMMA RStep ==
  ASSUME RInv, [RuleNext]_ruleVars
  PROVE  RInv'
<1>1. CASE UNCHANGED ruleVars
  BY <1>1, Zenon DEF ruleVars, RInv
<1>2. CASE CopyState
  BY <1>2, Zenon DEF CopyState, RInv
<1>3. ASSUME NEW outage \in 1..MaxNow, Restart(outage) PROVE RInv'
  BY <1>3, AlertingAssumption DEF Restart, RInv
<1> QED
  BY <1>1, <1>2, <1>3, EvalOK, EvalFailsOK, RestoreOK, Zenon DEF RuleNext

\* The receiver never holds an alert to be firing that has ended, nor times one
\* out that has not before three evaluations in a row fail (Eval, needsSending,
\* sendAlerts), for any interval, resend delay, retention and limit; an alert
\* that the rule forgot at its limit is excepted until it is sent again.
THEOREM ReceiverNeverMisled == RuleSpec => []ReceiverAgrees
<1>1. RuleInit => RInv
  <2> SUFFICES ASSUME RuleInit PROVE RInv
    BY Zenon
  <2>1. now \in Nat
    BY Consts DEF RuleInit
  <2>2. forState \in [Fps -> ForSample]
    BY DEF RuleInit, NoSample, ForSample
  <2> QED BY <2>1, <2>2, Zenon DEF RuleInit, RInv
<1>2. RInv /\ [RuleNext]_ruleVars => RInv'
  BY RStep, Zenon
<1>3. RInv => ReceiverAgrees
  <2> SUFFICES ASSUME RInv, NEW fp \in told \ dropped
               PROVE  /\ fp \in DOMAIN actives /\ actives[fp].state = "firing"
                      /\ fails <= 2 => now <= actives[fp].validUntil
    BY Zenon DEF ReceiverAgrees
  <2>1. fp \in DOMAIN actives /\ ToldOK(actives[fp], now, fails) /\ actives[fp].lastSentAt \in Int
    BY Zenon DEF RInv, AlertOK, AlertRec
  <2>2. fails <= 2 => fails = 0 \/ fails = 1 \/ fails = 2
    BY DEF RInv
  <2> QED BY <2>1, <2>2, ValidForLong, Consts DEF ToldOK, RInv
<1> QED
  BY <1>1, <1>2, <1>3, PTL DEF RuleSpec
-----------------------------------------------------------------------------
\* How long an alert has been active is told by ActiveAt while the server runs
\* and by the last sample of ALERTS_FOR_STATE over a restart.  Seconds makes the
\* latter longer by less than a second; the two evaluations before the
\* restoration, whose distance the restored ActiveAt leaves out, make up for it.
HeldEnough(fp) == heldFor[fp] > HoldDuration - Unit

Span(s) == Seconds(s.t) - s.v

AlertHeld(fp) ==
  actives[fp].state # "inactive" =>
    /\ heldFor[fp] >= 0
    /\ HeldEnough(fp) \/ (actives[fp].state = "pending" /\ now - actives[fp].activeAt <= heldFor[fp])

SampleHeld(fp) ==
  ~forState[fp].stale =>
    heldFor[fp] >= 0 /\ (HeldEnough(fp) \/ Span(forState[fp]) <= heldFor[fp] + Unit - 1)

RestoreHeld(fp) ==
  shouldRestore /\ evals = 2 /\ actives[fp].state = "pending" /\ ~forState[fp].stale =>
    HeldEnough(fp) \/ Span(forState[fp]) + Interval <= heldFor[fp] + Unit - 1

HInv ==
  /\ RInv
  /\ heldFor \in [Fps -> Int] /\ \A fp \in Fps : heldFor[fp] >= -1
  /\ evals \in {0, 1, 2} /\ (evals = 0 => DOMAIN actives = {})
  /\ restored \in BOOLEAN /\ (shouldRestore => ~restored) /\ (~restored => prevSeries = {})
  /\ \A fp \in Fps : SampleHeld(fp)
  /\ \A fp \in DOMAIN actives : AlertHeld(fp) /\ RestoreHeld(fp)

\* A stored time is at most a second early.
LEMMA SecondsBounds ==
  ASSUME NEW t \in Int
  PROVE  Seconds(t) <= t /\ t - Unit + 1 <= Seconds(t)
<1>1. t % Unit \in 0..(Unit - 1)
  BY Consts
<1> DEFINE m == t % Unit
<1> HIDE DEF m
<1> QED
  BY <1>1, Consts DEF Seconds, m

\* What a sample tells of an alert that is active since a.
LEMMA SpanBound ==
  ASSUME NEW t \in Int, NEW a \in Int
  PROVE  Seconds(t) \in Int /\ Seconds(a) \in Int /\ Seconds(t) - Seconds(a) <= t - a + Unit - 1
  BY SecondsBounds, SecondsInt, Consts

\* The alerts that an evaluation leaves firing or pending are counted, and are
\* new or were pending or firing before; one that starts to fire was due.
LEMMA EvalActive ==
  ASSUME NEW a \in AlertRec, NEW in \in BOOLEAN, NEW ts \in Int
  PROVE  LET u == Updated(a, in, ts)
         IN  /\ u \in AlertRec /\ u.activeAt = a.activeAt
             /\ in /\ a.state = "pending" => u.state = "pending" \/ (u.state = "firing" /\ ts - a.activeAt >= HoldDuration)
             /\ in /\ a.state # "pending" => u.state = a.state
             /\ ~in /\ a.state # "inactive" => u.state = "inactive" \/ (a.state = "firing" /\ KeepsFiring(a, ts) /\ u.state = "firing")
             /\ ~in /\ a.state = "inactive" => u.state = "inactive"
<1> DEFINE x == IF a.keepFiringSince = 0 THEN ts ELSE a.keepFiringSince
           y == IF a.state = "pending" /\ ts - a.activeAt >= HoldDuration THEN "firing" ELSE a.state
           z == IF a.state = "firing" /\ KeepFiringFor > 0 /\ a.keepFiringSince = 0 THEN ts ELSE a.keepFiringSince
           u == Updated(a, in, ts)
<1>0. x \in Int /\ z \in Int /\ y \in {"inactive", "pending", "firing"}
  BY Zenon DEF AlertRec
<1>1. KeepsFiring(a, ts) => a.state = "firing"
  BY Zenon DEF KeepsFiring
<1>2. CASE in
  <2>1. u = [a EXCEPT !.keepFiringSince = 0, !.state = y]
    BY <1>2, Zenon DEF Updated
  <2>2. /\ a.state = "pending" => y = "pending" \/ (y = "firing" /\ ts - a.activeAt >= HoldDuration)
        /\ a.state # "pending" => y = a.state
    BY Zenon
  <2> HIDE DEF y, u
  <2> DEFINE b == [a EXCEPT !.keepFiringSince = 0]
  <2>a. b \in AlertRec /\ b.activeAt = a.activeAt
    BY DEF AlertRec
  <2>b. u = [b EXCEPT !.state = y]
    BY <2>1, Zenon DEF AlertRec
  <2> HIDE DEF b
  <2>3. u \in AlertRec /\ u.activeAt = a.activeAt /\ u.state = y
    BY <1>0, <2>a, <2>b, Zenon DEF AlertRec
  <2> QED
    BY <1>2, <2>2, <2>3, Zenon DEF u
<1>3. CASE ~in /\ KeepsFiring(a, ts)
  <2>1. u = [a EXCEPT !.keepFiringSince = x]
    BY <1>3, Zenon DEF Updated
  <2> HIDE DEF x, u
  <2>3. u \in AlertRec /\ u.activeAt = a.activeAt /\ u.state = a.state
    BY <1>0, <2>1, Zenon DEF AlertRec
  <2> QED
    BY <1>1, <1>3, <2>3, Zenon DEF u
<1>4. CASE ~in /\ ~KeepsFiring(a, ts) /\ a.state = "inactive"
  <2>1. u = a
    BY <1>4, Zenon DEF Updated
  <2> QED
    BY <1>4, <2>1, Zenon
<1>5. CASE ~in /\ ~KeepsFiring(a, ts) /\ a.state # "inactive"
  <2>1. u = [a EXCEPT !.state = "inactive", !.resolvedAt = ts, !.keepFiringSince = z]
    BY <1>5, Zenon DEF Updated
  <2> HIDE DEF z, u
  <2>3. u \in AlertRec /\ u.activeAt = a.activeAt /\ u.state = "inactive"
    BY <1>0, <2>1, Zenon DEF AlertRec
  <2> QED
    BY <1>5, <2>3, Zenon DEF u
<1> QED
  BY <1>2, <1>3, <1>4, <1>5, Zenon

\* The time that HeldFor counts.
LEMMA HeldForGrows ==
  ASSUME HInv, NEW fp \in Fps, NEW counted, NEW ended
  PROVE  LET h == HeldFor(fp, counted, ended, now + Interval)
         IN  /\ h \in Int /\ h >= -1
             /\ fp \in counted => /\ h >= 0 /\ h >= heldFor[fp]
                                  /\ heldFor[fp] >= 0 /\ evals # 0 => h = heldFor[fp] + Interval
             /\ fp \notin counted /\ ~forState[fp].stale /\ fp \notin ended => h = heldFor[fp]
<1> DEFINE h == HeldFor(fp, counted, ended, now + Interval)
<1>1. /\ heldFor[fp] \in Int /\ heldFor[fp] >= -1 /\ now \in Nat /\ Interval \in Nat
      /\ (now + Interval) - now = Interval
  BY Consts DEF HInv, RInv
<1>2. CASE fp \in counted
  <2>1. h = IF heldFor[fp] < 0 THEN 0 ELSE IF evals = 0 THEN heldFor[fp] ELSE heldFor[fp] + Interval
    BY <1>1, <1>2, Zenon DEF HeldFor
  <2> HIDE DEF h
  <2>2. /\ h \in Int /\ h >= 0 /\ h >= heldFor[fp]
        /\ heldFor[fp] >= 0 /\ evals # 0 => h = heldFor[fp] + Interval
    BY <1>1, <2>1
  <2>3. h >= -1
    BY <2>2
  <2> QED
    BY <1>2, <2>2, <2>3, Zenon DEF h
<1>3. CASE fp \notin counted
  <2>1. h = IF forState[fp].stale \/ fp \in ended THEN -1 ELSE heldFor[fp]
    BY <1>3, Zenon DEF HeldFor
  <2> HIDE DEF h
  <2>2. h \in Int /\ h >= -1 /\ (~forState[fp].stale /\ fp \notin ended => h = heldFor[fp])
    BY <1>1, <2>1
  <2> QED
    BY <1>3, <2>2, Zenon DEF h
<1> QED
  BY <1>2, <1>3, Zenon

\* An evaluation: the time that an alert was active grows with the time since
\* ActiveAt, and a sample that is written tells no more than the latter.
LEMMA HeldEval ==
  ASSUME HInv, NEW res \in SUBSET Fps, Eval(res), ~(shouldRestore /\ evals = 2)
  PROVE  HInv' /\ \A fp \in DOMAIN actives' : actives'[fp].state = "firing" => HeldEnough(fp)'
<1> DEFINE ts == now + Interval
           merged == Merged(res, ts)
           kept == {fp \in DOMAIN merged : fp \in res \/ ~Deleted(merged[fp], ts)}
           counted == {fp \in DOMAIN merged : fp \in res \/ KeepsFiring(merged[fp], ts)}
           updated == [fp \in kept |-> Updated(merged[fp], fp \in res, ts)]
           sent == {fp \in kept : needsSending(updated[fp], ts)}
           tooMany == AlertLimit > 0 /\ Cardinality(counted) > AlertLimit
           ended == IF tooMany THEN {} ELSE prevSeries
           final == [fp \in kept |-> IF fp \in sent
                                     THEN [updated[fp] EXCEPT !.lastSentAt = ts, !.validUntil = ts + ValidFor]
                                     ELSE updated[fp]]
<1>0. RInv' /\ RInv
  BY EvalOK, Zenon DEF HInv
<1>a. /\ now' = ts /\ evals' = IF evals < 2 THEN evals + 1 ELSE evals
      /\ restored' = restored /\ shouldRestore' = shouldRestore
      /\ heldFor' = [fp \in Fps |-> HeldFor(fp, counted, ended, ts)]
  BY Zenon DEF Eval
<1>b. \/ /\ actives' = [fp \in {} |-> NewAlert(0)] /\ ended = {}
         /\ forState' = forState /\ prevSeries' = prevSeries
      \/ /\ actives' = final /\ ended = prevSeries
         /\ prevSeries' = IF restored THEN counted ELSE {}
         /\ forState' = [fp \in Fps |->
                            IF restored /\ fp \in counted
                            THEN [t |-> ts, v |-> Seconds(updated[fp].activeAt), stale |-> FALSE]
                            ELSE IF fp \in prevSeries THEN [t |-> ts, v |-> 0, stale |-> TRUE]
                            ELSE forState[fp]]
  <2>1. CASE tooMany
    BY <2>1, Zenon DEF Eval
  <2>2. CASE ~tooMany
    BY <2>2, Zenon DEF Eval
  <2> QED
    BY <2>1, <2>2, Zenon
<1>c. ts \in Nat /\ now \in Nat /\ now < ts /\ ts - now = Interval
  BY <1>0, Consts DEF RInv
<1>d. evals' \in {0, 1, 2} /\ evals' # 0 /\ (shouldRestore' /\ evals' = 2 => evals = 1 /\ shouldRestore)
  BY <1>a DEF HInv
<1>e. DOMAIN merged = DOMAIN actives \union res /\ DOMAIN merged \subseteq Fps
  BY <1>0, Zenon DEF Merged, RInv
<1>f. \A fp \in DOMAIN merged :
        merged[fp] = IF fp \in DOMAIN actives /\ (fp \notin res \/ actives[fp].state # "inactive")
                     THEN actives[fp] ELSE NewAlert(ts)
  BY Zenon DEF Merged
<1> HIDE DEF merged
<1>g. /\ \A fp \in counted : fp \in DOMAIN merged /\ (fp \in res \/ KeepsFiring(merged[fp], ts))
      /\ \A fp \in DOMAIN merged : fp \in res \/ KeepsFiring(merged[fp], ts) => fp \in counted
      /\ \A fp \in kept : fp \in DOMAIN merged /\ updated[fp] = Updated(merged[fp], fp \in res, ts)
      /\ \A fp \in DOMAIN merged : fp \in res \/ ~Deleted(merged[fp], ts) => fp \in kept
      /\ DOMAIN final = kept
      /\ \A fp \in kept : \/ final[fp] = updated[fp]
                          \/ final[fp] = [updated[fp] EXCEPT !.lastSentAt = ts, !.validUntil = ts + ValidFor]
  BY Zenon
<1> HIDE DEF counted, kept, updated, sent, tooMany, ended, final
<1>1. /\ heldFor' \in [Fps -> Int]
      /\ \A fp \in Fps : /\ heldFor'[fp] \in Int /\ heldFor'[fp] >= -1 /\ heldFor[fp] \in Int
                         /\ fp \in counted => /\ heldFor'[fp] >= 0 /\ heldFor'[fp] >= heldFor[fp]
                                              /\ heldFor[fp] >= 0 /\ evals # 0 => heldFor'[fp] = heldFor[fp] + Interval
                         /\ fp \notin counted /\ ~forState[fp].stale /\ fp \notin ended => heldFor'[fp] = heldFor[fp]
  BY <1>a, HeldForGrows, Zenon DEF HInv
<1>2. ASSUME NEW fp \in DOMAIN merged
      PROVE  /\ merged[fp] \in AlertRec /\ (fp \in res => merged[fp].state # "inactive")
             /\ merged[fp].state # "inactive" => merged[fp].resolvedAt = 0
             /\ fp \in counted /\ merged[fp].state # "inactive" =>
                  HeldEnough(fp)' \/ (merged[fp].state = "pending" /\ ts - merged[fp].activeAt <= heldFor'[fp])
  <2>1. CASE merged[fp] = NewAlert(ts)
    <3>1. /\ NewAlert(ts) \in AlertRec /\ NewAlert(ts).state = "pending" /\ NewAlert(ts).activeAt = ts
          /\ NewAlert(ts).resolvedAt = 0
      BY <1>c DEF NewAlert, AlertRec
    <3> QED
      BY <1>1, <1>c, <1>e, <2>1, <3>1
  <2>2. CASE merged[fp] = actives[fp] /\ fp \in DOMAIN actives /\ (fp \notin res \/ actives[fp].state # "inactive")
    <3>1. /\ actives[fp] \in AlertRec /\ AlertHeld(fp) /\ evals # 0
          /\ actives[fp].state # "inactive" => actives[fp].resolvedAt = 0
      BY <2>2, Zenon DEF HInv, RInv, AlertOK
    <3>2. actives[fp].activeAt \in Int
      BY <3>1, Zenon DEF AlertRec
    <3>3. ASSUME fp \in counted, actives[fp].state # "inactive"
          PROVE  HeldEnough(fp)' \/ (actives[fp].state = "pending" /\ ts - actives[fp].activeAt <= heldFor'[fp])
      <4>1. heldFor[fp] >= 0 /\ heldFor'[fp] = heldFor[fp] + Interval
        BY <1>1, <1>e, <3>1, <3>3, Zenon DEF AlertHeld
      <4>2. CASE HeldEnough(fp)
        BY <1>1, <1>e, <4>1, <4>2, Consts DEF HeldEnough
      <4>3. CASE actives[fp].state = "pending" /\ now - actives[fp].activeAt <= heldFor[fp]
        BY <1>1, <1>c, <1>e, <3>2, <4>1, <4>3, Consts
      <4> QED
        BY <3>1, <3>3, <4>2, <4>3, Zenon DEF AlertHeld
    <3> QED
      BY <2>2, <3>1, <3>3, Zenon
  <2> QED
    BY <1>f, <2>1, <2>2, Zenon
<1>3. ASSUME NEW fp \in kept
      PROVE  /\ updated[fp].activeAt = merged[fp].activeAt /\ updated[fp] \in AlertRec
             /\ updated[fp].state # "inactive" =>
                  /\ fp \in counted
                  /\ HeldEnough(fp)' \/ (updated[fp].state = "pending" /\ ts - updated[fp].activeAt <= heldFor'[fp])
  <2> DEFINE in == fp \in res
             m == merged[fp]
             u == Updated(m, in, ts)
  <2>1. updated[fp] = u /\ fp \in DOMAIN merged /\ in \in BOOLEAN
    <3>1. updated[fp] = u /\ fp \in DOMAIN merged
      BY <1>g, Zenon
    <3>2. in \in BOOLEAN
      OBVIOUS
    <3> QED
      BY <3>1, <3>2, Zenon
  <2>2. m \in AlertRec /\ m.activeAt \in Int /\ (in => m.state # "inactive")
    BY <1>2, <2>1, Zenon DEF AlertRec
  <2>3. /\ u \in AlertRec /\ u.activeAt = m.activeAt
        /\ in /\ m.state = "pending" => u.state = "pending" \/ (u.state = "firing" /\ ts - m.activeAt >= HoldDuration)
        /\ in /\ m.state # "pending" => u.state = m.state
        /\ ~in /\ m.state # "inactive" => u.state = "inactive" \/ (m.state = "firing" /\ KeepsFiring(m, ts) /\ u.state = "firing")
        /\ ~in /\ m.state = "inactive" => u.state = "inactive"
    <3> HIDE DEF m, in
    <3>1. ts \in Int
      BY <1>c
    <3> QED
      BY <2>1, <2>2, <3>1, EvalActive, ZenonT(30)
  <2>4. u.state # "inactive" => fp \in counted /\ m.state # "inactive"
    BY <1>g, <2>1, <2>2, <2>3, Zenon
  <2>5. fp \in counted /\ m.state # "inactive" =>
          HeldEnough(fp)' \/ (m.state = "pending" /\ ts - m.activeAt <= heldFor'[fp])
    BY <1>2, <2>1, Zenon
  <2>6. heldFor'[fp] \in Int
    BY <1>1, <1>e, <2>1, Zenon
  <2> HIDE DEF u, m, in
  <2>7. ts - m.activeAt <= heldFor'[fp] /\ ts - m.activeAt >= HoldDuration => HeldEnough(fp)'
    BY <1>c, <2>2, <2>6, Consts DEF HeldEnough
  <2>8. u.state \in {"inactive", "pending", "firing"}
    BY <2>3, Zenon DEF AlertRec
  <2>9. u.state # "inactive" =>
          HeldEnough(fp)' \/ (u.state = "pending" /\ ts - u.activeAt <= heldFor'[fp])
    BY <2>2, <2>3, <2>4, <2>5, <2>7, <2>8, Zenon
  <2> QED
    BY <2>1, <2>3, <2>4, <2>9, Zenon DEF m
<1>4. ASSUME NEW fp \in kept
      PROVE  final[fp].state = updated[fp].state /\ final[fp].activeAt = updated[fp].activeAt
  <2> DEFINE u == updated[fp]
  <2>1. final[fp] = u \/ final[fp] = [u EXCEPT !.lastSentAt = ts, !.validUntil = ts + ValidFor]
    BY <1>g, Zenon
  <2>2. u \in AlertRec
    BY <1>3, Zenon
  <2> HIDE DEF u
  <2>3. final[fp].state = u.state /\ final[fp].activeAt = u.activeAt
    BY <2>1, <2>2, Zenon DEF AlertRec
  <2> QED
    BY <2>3, Zenon DEF u
<1>5. ASSUME NEW fp \in DOMAIN actives'
      PROVE  /\ AlertHeld(fp)' /\ (actives'[fp].state # "inactive" => fp \in counted /\ forState'[fp] \in ForSample)
             /\ fp \in Fps
             /\ actives'[fp].state = "firing" => HeldEnough(fp)'
  <2>1. actives' = final /\ fp \in kept
    BY <1>b, <1>g, ZenonT(30)
  <2>2. fp \in Fps
    BY <1>e, <1>g, <2>1, Zenon
  <2>3. actives'[fp].state = updated[fp].state /\ actives'[fp].activeAt = updated[fp].activeAt
    BY <1>4, <2>1, Zenon
  <2>4. forState'[fp] \in ForSample
    BY <1>0, <2>2, Zenon DEF RInv
  <2> QED
    BY <1>1, <1>3, <1>a, <2>1, <2>2, <2>3, <2>4, Zenon DEF AlertHeld
<1>6. ASSUME NEW fp \in Fps PROVE SampleHeld(fp)'
  <2>1. CASE forState'[fp] = forState[fp] /\ (fp \in counted \/ fp \notin ended)
    <3>1. SampleHeld(fp) /\ forState[fp] \in ForSample
      BY <1>0, Zenon DEF HInv, RInv
    <3>2. ~forState[fp].stale => heldFor'[fp] >= heldFor[fp] /\ heldFor[fp] >= 0
      BY <1>1, <2>1, <3>1 DEF SampleHeld
    <3>3. Span(forState'[fp]) = Span(forState[fp]) /\ Span(forState[fp]) \in Int
      BY <2>1, <3>1, SecondsInt DEF Span, ForSample
    <3> QED
      BY <1>1, <2>1, <3>1, <3>2, <3>3, Consts DEF SampleHeld, HeldEnough
  <2>2. CASE forState'[fp] = [t |-> ts, v |-> 0, stale |-> TRUE]
    BY <2>2 DEF SampleHeld
  <2>3. CASE fp \in counted /\ forState'[fp] = [t |-> ts, v |-> Seconds(updated[fp].activeAt), stale |-> FALSE]
    <3>1. fp \in DOMAIN merged /\ (fp \in res \/ merged[fp].state = "firing")
      BY <1>g, <2>3, Zenon DEF KeepsFiring
    <3>2. merged[fp] \in AlertRec /\ merged[fp].state # "inactive" /\ merged[fp].resolvedAt = 0 /\ heldFor'[fp] >= 0
      BY <1>1, <1>2, <2>3, <3>1, Zenon
    <3>3. fp \in kept
      BY <1>g, <3>1, <3>2, Zenon DEF Deleted
    <3> DEFINE a == merged[fp].activeAt
    <3>4. a \in Int /\ updated[fp].activeAt = a
      BY <1>3, <3>2, <3>3, Zenon DEF AlertRec
    <3>5. HeldEnough(fp)' \/ ts - a <= heldFor'[fp]
      BY <1>2, <2>3, <3>1, <3>2, Zenon
    <3> HIDE DEF a
    <3>6. Span(forState'[fp]) = Seconds(ts) - Seconds(a) /\ ~forState'[fp].stale
      BY <2>3, <3>4 DEF Span
    <3>7. Seconds(ts) - Seconds(a) <= ts - a + Unit - 1 /\ Seconds(ts) \in Int /\ Seconds(a) \in Int
      <4>1. ts \in Int
        BY <1>c
      <4> HIDE DEF ts
      <4> QED
        BY <3>4, <4>1, SpanBound, Zenon
    <3>8. HeldEnough(fp)' \/ Span(forState'[fp]) <= heldFor'[fp] + Unit - 1
      BY <1>1, <1>c, <3>4, <3>5, <3>6, <3>7, Consts
    <3> QED
      BY <3>2, <3>8, Zenon DEF SampleHeld
  <2> QED
    BY <1>b, <2>1, <2>2, <2>3, Zenon
<1>7. ASSUME NEW fp \in DOMAIN actives' PROVE RestoreHeld(fp)'
  <2> SUFFICES ASSUME shouldRestore', evals' = 2, actives'[fp].state = "pending", ~forState'[fp].stale
               PROVE  HeldEnough(fp)' \/ Span(forState'[fp]) + Interval <= heldFor'[fp] + Unit - 1
    BY Zenon DEF RestoreHeld
  <2>1. evals = 1 /\ ~restored /\ prevSeries = {} /\ fp \in counted /\ fp \in Fps
    BY <1>5, <1>d, Zenon DEF HInv
  <2>2. forState'[fp] = forState[fp] /\ forState[fp] \in ForSample /\ SampleHeld(fp)
    BY <1>0, <1>b, <2>1, Zenon DEF HInv, RInv
  <2>3. heldFor'[fp] = heldFor[fp] + Interval
    BY <1>1, <2>1, <2>2 DEF SampleHeld
  <2>4. Span(forState[fp]) \in Int
    BY <2>2, SecondsInt DEF Span, ForSample
  <2> QED
    BY <1>1, <2>1, <2>2, <2>3, <2>4, Consts DEF SampleHeld, HeldEnough
<1>8. ~restored' => prevSeries' = {}
  BY <1>a, <1>b, Zenon DEF HInv
<1>9. /\ restored' \in BOOLEAN /\ (shouldRestore' => ~restored')
  BY <1>a, Zenon DEF HInv
<1> QED
  BY <1>0, <1>1, <1>5, <1>6, <1>7, <1>8, <1>9, <1>d, Zenon DEF HInv

\* A failed evaluation: the alerts that are active are taken to stay so.
LEMMA HeldEvalFails ==
  ASSUME HInv, EvalFails, ~(shouldRestore /\ evals = 2)
  PROVE  HInv'
<1>1. /\ now' = now + Interval /\ evals' = (IF evals < 2 THEN evals + 1 ELSE evals)
      /\ heldFor' = [fp \in Fps |-> IF heldFor[fp] < 0 \/ evals = 0 THEN heldFor[fp] ELSE heldFor[fp] + Interval]
      /\ UNCHANGED <<actives, restored, shouldRestore, forState, prevSeries>>
  BY Zenon DEF EvalFails
<1>2. RInv' /\ RInv
  BY EvalFailsOK, Zenon DEF HInv
<1>3. heldFor' \in [Fps -> Int] /\ now \in Nat
  BY <1>1, <1>2, Consts, SMTT(30) DEF HInv, RInv
<1>4. ASSUME NEW fp \in Fps
      PROVE  /\ heldFor[fp] \in Int /\ heldFor'[fp] \in Int /\ heldFor'[fp] >= heldFor[fp] /\ heldFor'[fp] >= -1
             /\ heldFor[fp] >= 0 /\ evals # 0 => heldFor'[fp] = heldFor[fp] + Interval
             /\ forState[fp] \in ForSample /\ Span(forState[fp]) \in Int
  <2>1. heldFor[fp] \in Int /\ heldFor[fp] >= -1 /\ forState[fp] \in ForSample
    BY <1>2, Zenon DEF HInv, RInv
  <2>2. Span(forState[fp]) \in Int
    BY <2>1, SecondsInt DEF Span, ForSample
  <2>3. heldFor'[fp] = IF heldFor[fp] < 0 \/ evals = 0 THEN heldFor[fp] ELSE heldFor[fp] + Interval
    BY <1>1, Zenon
  <2> QED
    BY <2>1, <2>2, <2>3, Consts
<1>5. ASSUME NEW fp \in Fps PROVE SampleHeld(fp)'
  BY <1>1, <1>4, Consts, SMTT(30) DEF HInv, SampleHeld, HeldEnough
<1>6. ASSUME NEW fp \in DOMAIN actives' PROVE AlertHeld(fp)' /\ RestoreHeld(fp)'
  <2>1. fp \in Fps /\ evals # 0 /\ AlertHeld(fp) /\ actives[fp] \in AlertRec /\ fp \in DOMAIN actives /\ SampleHeld(fp)
    BY <1>1, <1>2, Zenon DEF HInv, RInv, AlertOK
  <2>2. actives[fp].activeAt \in Int
    BY <2>1, Zenon DEF AlertRec
  <2>3. AlertHeld(fp)'
    BY <1>1, <1>3, <1>4, <2>1, <2>2, Consts DEF AlertHeld, HeldEnough
  <2>4. shouldRestore' /\ evals' = 2 => evals = 1
    BY <1>1, Zenon DEF HInv
  <2>5. RestoreHeld(fp)'
    BY <1>1, <1>4, <2>1, <2>4, Consts DEF RestoreHeld, SampleHeld, HeldEnough
  <2> QED
    BY <2>3, <2>5, Zenon
<1>7. evals' \in {0, 1, 2} /\ evals' # 0
  BY <1>1 DEF HInv
<1> QED
  BY <1>1, <1>2, <1>3, <1>4, <1>5, <1>6, <1>7, Zenon DEF HInv

\* The restored ActiveAt: no more time than the sample told, or one that the
\* sample told to be due.
LEMMA RestoredSpan ==
  ASSUME NEW s \in ForSample, NEW ts \in Int
  PROVE  /\ RestoredActiveAt(s, ts) \in Int /\ Span(s) \in Int
         /\ ts - RestoredActiveAt(s, ts) <= Span(s) \/ Span(s) >= HoldDuration
<1>1. s.t \in Int /\ s.v \in Int
  BY Zenon DEF ForSample
<1>2. Seconds(s.t) \in Int
  BY <1>1, SecondsInt, Zenon
<1> QED
  BY <1>1, <1>2, Consts DEF RestoredActiveAt, Span

LEMMA HeldRestore ==
  ASSUME Unit <= Interval + 1, HInv, RestoreForState
  PROVE  HInv' /\ \A fp \in DOMAIN actives' : fp \in DOMAIN actives /\ actives'[fp].state = actives[fp].state
<1>1. /\ shouldRestore /\ evals = 2 /\ shouldRestore' = FALSE
      /\ restored' = restored \/ restored' = TRUE
      /\ UNCHANGED <<now, evals, forState, prevSeries, heldFor>>
  BY Zenon DEF RestoreForState
<1>2. RInv' /\ RInv
  BY RestoreOK, Zenon DEF HInv
<1>3. ASSUME NEW fp \in DOMAIN actives'
      PROVE  /\ fp \in DOMAIN actives /\ actives'[fp].state = actives[fp].state
             /\ AlertHeld(fp)'
  <2> DEFINE s == forState[fp]
             x == RestoredActiveAt(s, now)
             a == actives[fp]
             b == actives'[fp]
  <2>1. fp \in DOMAIN actives /\ (b = a \/ (~s.stale /\ b = [a EXCEPT !.activeAt = x]))
    BY Zenon DEF RestoreForState
  <2>2. /\ fp \in Fps /\ s \in ForSample /\ now \in Int /\ a \in AlertRec /\ AlertHeld(fp) /\ RestoreHeld(fp)
        /\ heldFor[fp] \in Int
    BY <1>2, <2>1 DEF HInv, RInv, AlertOK
  <2>3. x \in Int /\ Span(s) \in Int /\ (now - x <= Span(s) \/ Span(s) >= HoldDuration)
    BY <2>2, RestoredSpan, Zenon
  <2>4. CASE b = a
    BY <1>1, <2>1, <2>2, <2>4, Zenon DEF AlertHeld, HeldEnough
  <2>5. CASE ~s.stale /\ b = [a EXCEPT !.activeAt = x]
    <3> HIDE DEF x, b, a, s
    <3>1. b.state = a.state /\ b.activeAt = x
      BY <2>2, <2>3, <2>5, Zenon DEF AlertRec
    <3>2. a.state = "pending" => HeldEnough(fp) \/ Span(s) + Interval <= heldFor[fp] + Unit - 1
      BY <1>1, <2>2, <2>5, Zenon DEF RestoreHeld, a, s
    <3>3. a.state # "inactive" => heldFor[fp] >= 0 /\ (HeldEnough(fp) \/ a.state = "pending")
      BY <2>2, Zenon DEF AlertHeld, a
    <3>4. a.state = "pending" => HeldEnough(fp) \/ now - x <= heldFor[fp]
      BY <2>2, <2>3, <3>2, Consts DEF HeldEnough
    <3>5. actives'[fp].state = a.state /\ actives'[fp].activeAt = x
      BY <3>1, Zenon DEF b
    <3>6. AlertHeld(fp)'
      BY <1>1, <3>3, <3>4, <3>5, Zenon DEF AlertHeld, HeldEnough
    <3> QED
      BY <2>1, <3>5, <3>6, Zenon DEF a
  <2> QED
    BY <2>1, <2>4, <2>5, Zenon
<1>4. \A fp \in DOMAIN actives' : RestoreHeld(fp)'
  BY <1>1, Zenon DEF RestoreHeld
<1>5. \A fp \in Fps : SampleHeld(fp)'
  BY <1>1, Zenon DEF HInv, SampleHeld, HeldEnough
<1>6. evals' = 2
  BY <1>1, Zenon
<1> QED
  BY <1>1, <1>2, <1>3, <1>4, <1>5, <1>6, Zenon DEF HInv

\* In a group that is not evaluated more often than every second, an alert fires
\* only when it has been active for the time of its "for" clause, but for less
\* than a second, over all failed evaluations, restarts and outages (Eval,
\* RestoreForState).
THEOREM HoldIsRespected ==
  ASSUME Unit <= Interval + 1
  PROVE  RuleSpec => HoldRespected
<1> DEFINE Due == \A fp \in DOMAIN actives' :
                    actives'[fp].state = "firing" /\ ~(fp \in DOMAIN actives /\ actives[fp].state = "firing")
                      => heldFor'[fp] > HoldDuration - Unit
<1>1. RuleInit => HInv
  <2> SUFFICES ASSUME RuleInit PROVE HInv
    BY Zenon
  <2>1. now \in Nat
    BY Consts DEF RuleInit
  <2>2. forState \in [Fps -> ForSample] /\ \A fp \in Fps : forState[fp].stale
    BY DEF RuleInit, NoSample, ForSample
  <2>3. RInv
    BY <2>1, <2>2, Zenon DEF RuleInit, RInv
  <2>4. heldFor \in [Fps -> Int] /\ \A fp \in Fps : heldFor[fp] >= -1
    BY DEF RuleInit
  <2>5. DOMAIN actives = {} /\ evals = 0 /\ restored = FALSE /\ shouldRestore = TRUE /\ prevSeries = {}
    BY Zenon DEF RuleInit
  <2> QED
    BY <2>2, <2>3, <2>4, <2>5, Zenon DEF HInv, SampleHeld
<1>2. HInv /\ [RuleNext]_ruleVars => HInv' /\ [Due]_ruleVars
  <2> SUFFICES ASSUME HInv, [RuleNext]_ruleVars PROVE HInv' /\ [Due]_ruleVars
    BY Zenon
  <2>1. CASE UNCHANGED ruleVars
    <3>1. RInv'
      BY <2>1, RStep, Zenon DEF HInv
    <3>2. HInv'
      BY <2>1, <3>1, Zenon DEF ruleVars, HInv, SampleHeld, AlertHeld, RestoreHeld, HeldEnough
    <3> QED
      BY <2>1, <3>2, Zenon
  <2>2. ASSUME NEW res \in SUBSET Fps, ~(shouldRestore /\ evals = 2), Eval(res) PROVE HInv' /\ Due
    <3>1. HInv' /\ \A fp \in DOMAIN actives' : actives'[fp].state = "firing" => HeldEnough(fp)'
      BY <2>2, HeldEval, Zenon
    <3> QED
      BY <3>1, Zenon DEF HeldEnough
  <2>3. CASE ~(shouldRestore /\ evals = 2) /\ EvalFails
    <3>1. actives' = actives
      BY <2>3, Zenon DEF EvalFails
    <3> QED
      BY <2>3, <3>1, HeldEvalFails, Zenon
  <2>4. CASE RestoreForState
    BY <2>4, HeldRestore, Zenon
  <2>5. ASSUME NEW outage \in 1..MaxNow, Restart(outage) PROVE HInv' /\ Due
    <3>1. RInv'
      BY <2>5, RStep, Zenon DEF HInv, RuleNext
    <3> QED
      BY <2>5, <3>1, Zenon DEF Restart, HInv, SampleHeld, HeldEnough
  <2>6. CASE CopyState
    <3>1. RInv'
      BY <2>6, RStep, Zenon DEF HInv, RuleNext
    <3> QED
      BY <2>6, <3>1, Zenon DEF CopyState, HInv, SampleHeld, AlertHeld, RestoreHeld, HeldEnough
  <2> QED
    BY <2>1, <2>2, <2>3, <2>4, <2>5, <2>6, Zenon DEF RuleNext
<1> QED
  BY <1>1, <1>2, PTL DEF RuleSpec, HoldRespected
-----------------------------------------------------------------------------
(* Scrape loops.                                                           *)

\* Samples are not ahead of the loop, which is at most one interval behind; the
\* markers of a stopped loop are older than the interval they are written in;
\* and the entries of the cache that are left marked as scraped are those of
\* scrapes that failed midway.
SInv ==
  /\ tick \in Nat /\ tick > 0
  /\ DOMAIN stored = Metrics /\ \A m \in Metrics : stored[m].t \in Nat
  /\ \A m \in Metrics : stored[m].t <= tick /\ (~phase => stored[m].t < tick)
  /\ loop.st \in {"none", "wait", "run"} /\ loop.last \in Nat /\ loop.cache.seen \subseteq cut
  /\ DOMAIN loop = {"st", "last", "fresh", "cache"}
  /\ DOMAIN loop.cache = {"cur", "prev", "known", "seen"}
  /\ loop.st # "none" => /\ loop.last <= tick /\ tick - 1 <= loop.last
                         /\ \A m \in Metrics : stored[m].t <= loop.last
  /\ \A e \in ending : /\ e.staleTime \in Nat /\ e.at \in Nat /\ e.staleTime <= e.at
                       /\ DOMAIN e = {"cache", "waits", "at", "staleTime"}
  /\ good.exposed # {} => loop.st = "run" /\ good.t = loop.last /\ good.exposed \subseteq Metrics
  /\ ScrapedIsLive

\* A scrape that succeeds appends what it exposes and no failed scrape had read.
LEMMA SucceedsOK ==
  ASSUME SInv, NEW E \in SUBSET Metrics, ScrapeSucceeds(E)
  PROVE  SInv'
<1> DEFINE c == Read(loop.cache, E, {}, tick)
           A == Appended(loop.cache, E, tick)
           S == StaleOf(c)
<1>1. /\ stored' = Committed(A, S, tick)
      /\ loop' = [loop EXCEPT !.last = tick, !.fresh = FALSE, !.cache = iterDone(c, TRUE)]
      /\ good' = [t |-> tick, exposed |-> E \ cut] /\ phase' = TRUE
      /\ tick' = tick /\ ending' = ending
      /\ loop.st = "run" /\ loop.last < tick
  BY Zenon DEF ScrapeSucceeds
<1>2. E \ cut \subseteq A
  BY <1>1 DEF Appended, Accepts, SInv
<1>3. /\ loop'.st = "run" /\ loop'.last = tick /\ loop'.cache = iterDone(c, TRUE)
      /\ DOMAIN loop' = DOMAIN loop
  <2> HIDE DEF c
  <2> QED BY <1>1, Zenon DEF SInv
<1>4. DOMAIN c = {"cur", "prev", "known", "seen"}
  BY Zenon DEF Read, SInv
<1> HIDE DEF c, A, S
<1>5. iterDone(c, TRUE).seen = {} /\ DOMAIN iterDone(c, TRUE) = {"cur", "prev", "known", "seen"}
  BY <1>4, Zenon DEF iterDone
<1>6. /\ DOMAIN stored' = Metrics
      /\ \A m \in Metrics : stored'[m].t \in Nat /\ stored'[m].t <= tick
  <2>1. DOMAIN stored' = Metrics
    BY <1>1, Zenon DEF Committed
  <2>2. ASSUME NEW m \in Metrics PROVE stored'[m].t \in Nat /\ stored'[m].t <= tick
    <3>1. \/ stored'[m] = [t |-> tick, stale |-> FALSE] \/ stored'[m] = [t |-> tick, stale |-> TRUE]
          \/ stored'[m] = stored[m]
      BY <1>1, Zenon DEF Committed
    <3> QED BY <3>1 DEF SInv
  <2> QED BY <2>1, <2>2, Zenon
<1>7. \A m \in E \ cut : stored'[m] = [t |-> tick, stale |-> FALSE]
  BY <1>1, <1>2, Zenon DEF Committed
<1>8. ScrapedIsLive'
  BY <1>1, <1>7, Zenon DEF ScrapedIsLive
<1>9. good'.t = tick /\ good'.exposed \subseteq Metrics
  BY <1>1, Zenon
<1>10. phase' /\ tick' = tick /\ ending' = ending
  BY <1>1, Zenon
<1>11. /\ loop'.cache.seen \subseteq cut' /\ DOMAIN loop'.cache = {"cur", "prev", "known", "seen"}
       /\ loop'.st = "run" /\ loop'.last = tick /\ DOMAIN loop' = {"st", "last", "fresh", "cache"}
  BY <1>3, <1>5, Zenon DEF SInv
<1>12. tick' \in Nat /\ tick' > 0 /\ tick' - 1 <= tick /\ tick <= tick' /\ tick \in Nat
  BY <1>1 DEF SInv
<1>13. \A e \in ending' : /\ e.staleTime \in Nat /\ e.at \in Nat /\ e.staleTime <= e.at
                          /\ DOMAIN e = {"cache", "waits", "at", "staleTime"}
  BY <1>1, Zenon DEF SInv
<1> QED
  BY ONLY <1>6, <1>8, <1>9, <1>10, <1>11, <1>12, <1>13 DEF SInv

\* A scrape that fails, midway or not.
LEMMA FailsOK ==
  ASSUME SInv, NEW E \in SUBSET Metrics, NEW X \in SUBSET Metrics, ScrapeFails(E, X)
  PROVE  SInv'
<1> DEFINE c == Read(loop.cache, E, X, tick)
           S == StaleOf(c)
<1>1. /\ stored' = Committed({}, S, tick)
      /\ loop' = [loop EXCEPT !.last = tick, !.fresh = FALSE, !.cache = iterDone(c, FALSE)]
      /\ good' = NoScrape /\ phase' = TRUE
      /\ tick' = tick /\ ending' = ending
      /\ loop.st = "run" /\ loop.last < tick
      /\ cut' = cut \union E \union (X \intersect loop.cache.known)
  BY Zenon DEF ScrapeFails
<1>2. c.seen \subseteq cut' /\ DOMAIN c = {"cur", "prev", "known", "seen"}
  <2>1. Appended(loop.cache, E, tick) \subseteq E
    BY Zenon DEF Appended
  <2>2. /\ c.seen = loop.cache.seen \union Appended(loop.cache, E, tick) \union ((E \union X) \intersect loop.cache.known)
        /\ DOMAIN c = {"cur", "prev", "known", "seen"}
    BY Zenon DEF Read, SInv
  <2> QED BY <1>1, <2>1, <2>2, Zenon DEF SInv
<1> HIDE DEF c, S
<1>3. /\ loop'.st = "run" /\ loop'.last = tick /\ loop'.cache = iterDone(c, FALSE)
      /\ DOMAIN loop' = DOMAIN loop
  BY <1>1, Zenon DEF SInv
<1>5. iterDone(c, FALSE).seen = c.seen /\ DOMAIN iterDone(c, FALSE) = {"cur", "prev", "known", "seen"}
  BY <1>2, Zenon DEF iterDone
<1>6. /\ DOMAIN stored' = Metrics
      /\ \A m \in Metrics : stored'[m].t \in Nat /\ stored'[m].t <= tick
  <2>1. DOMAIN stored' = Metrics
    BY <1>1, Zenon DEF Committed
  <2>2. ASSUME NEW m \in Metrics PROVE stored'[m].t \in Nat /\ stored'[m].t <= tick
    <3>1. stored'[m] = [t |-> tick, stale |-> TRUE] \/ stored'[m] = stored[m]
      BY <1>1, Zenon DEF Committed
    <3> QED BY <3>1 DEF SInv
  <2> QED BY <2>1, <2>2, Zenon
<1>8. good'.exposed = {} /\ ScrapedIsLive'
  BY <1>1, Zenon DEF ScrapedIsLive, NoScrape
<1>9. phase' /\ tick' = tick /\ ending' = ending
  BY <1>1, Zenon
<1>11. /\ loop'.cache.seen \subseteq cut' /\ DOMAIN loop'.cache = {"cur", "prev", "known", "seen"}
       /\ loop'.st = "run" /\ loop'.last = tick /\ DOMAIN loop' = {"st", "last", "fresh", "cache"}
  BY <1>2, <1>3, <1>5, Zenon DEF SInv
<1>12. tick' \in Nat /\ tick' > 0 /\ tick' - 1 <= tick /\ tick <= tick' /\ tick \in Nat
  BY <1>1 DEF SInv
<1>13. \A e \in ending' : /\ e.staleTime \in Nat /\ e.at \in Nat /\ e.staleTime <= e.at
                          /\ DOMAIN e = {"cache", "waits", "at", "staleTime"}
  BY <1>1, Zenon DEF SInv
<1> QED
  BY ONLY <1>6, <1>8, <1>9, <1>11, <1>12, <1>13, Zenon DEF SInv

\* A loop that is started takes its time from the interval whose offset passed.
LEMMA PassedOK ==
  ASSUME SInv
  PROVE  /\ Passed \in Nat /\ Passed <= tick /\ tick - 1 <= Passed
         /\ \A m \in Metrics : stored[m].t <= Passed
  BY DEF SInv, Passed

\* Loops that are stopped and started.
LEMMA RestartsOK ==
  ASSUME SInv, syncAdds \/ syncRemoves \/ stopPool \/ \E r \in BOOLEAN : restartLoops(r)
  PROVE  SInv'
<1>0. newScrapeCache.seen = {} /\ DOMAIN newScrapeCache = {"cur", "prev", "known", "seen"}
  BY Zenon DEF newScrapeCache
<1>1. \A e \in EndOfRun : /\ e.staleTime \in Nat /\ e.at \in Nat /\ e.staleTime <= e.at
                          /\ DOMAIN e = {"cache", "waits", "at", "staleTime"}
  BY DEF EndOfRun, SInv
<1>2. \A e \in ending' : /\ e.staleTime \in Nat /\ e.at \in Nat /\ e.staleTime <= e.at
                         /\ DOMAIN e = {"cache", "waits", "at", "staleTime"}
  BY <1>1, Zenon DEF syncAdds, syncRemoves, stopPool, restartLoops, SInv
<1>3. tick' = tick /\ phase' = phase /\ stored' = stored
  BY Zenon DEF syncAdds, syncRemoves, stopPool, restartLoops
<1>4. good'.exposed = {}
  BY DEF syncAdds, syncRemoves, stopPool, restartLoops, NoScrape, SInv
<1>5. \/ loop'.st = "none" /\ loop'.last = 0
      \/ loop'.st = "wait" /\ loop'.last = Passed
  BY DEF syncAdds, syncRemoves, stopPool, restartLoops
<1>6. /\ DOMAIN loop' = {"st", "last", "fresh", "cache"}
      /\ loop'.cache = newScrapeCache \/ (loop'.cache = loop.cache /\ cut' = cut)
  BY DEF syncAdds, syncRemoves, stopPool, restartLoops
<1>7. ScrapedIsLive'
  BY <1>4, Zenon DEF ScrapedIsLive
<1> QED
  BY <1>0, <1>2, <1>3, <1>4, <1>5, <1>6, <1>7, PassedOK DEF SInv

\* The markers of a stopped loop.
LEMMA EndOK ==
  ASSUME SInv, NEW e \in ending, endOfRunStaleness(e)
  PROVE  SInv'
<1>0. /\ e.staleTime \in Nat /\ e.at \in Nat /\ e.staleTime <= e.at /\ e.at < tick
      /\ DOMAIN e = {"cache", "waits", "at", "staleTime"}
      /\ tick' = tick /\ loop' = loop /\ good' = good /\ phase' = TRUE /\ cut' = cut
  BY Zenon DEF endOfRunStaleness, SInv
<1>1. CASE /\ ending' = (ending \ {e}) \union {[e EXCEPT !.waits = 1, !.at = tick, !.staleTime = tick]}
           /\ stored' = stored
  <2> DEFINE f == [e EXCEPT !.waits = 1, !.at = tick, !.staleTime = tick]
  <2>1. f.at = tick /\ f.staleTime = tick /\ DOMAIN f = DOMAIN e
    BY <1>0, Zenon
  <2> HIDE DEF f
  <2>2. ScrapedIsLive'
    BY <1>0, <1>1, Zenon DEF SInv, ScrapedIsLive
  <2>3. ending' = (ending \ {e}) \union {f}
    BY <1>1, Zenon DEF f
  <2>4. stored' = stored
    BY <1>1, Zenon
  <2> QED BY ONLY SInv, <1>0, <2>1, <2>2, <2>3, <2>4 DEF SInv
<1>2. CASE /\ loop.st = "run" => loop.last = tick
           /\ stored' = Committed({}, StaleOf(e.cache), e.staleTime)
           /\ ending' = ending \ {e}
  <2> DEFINE S == StaleOf(e.cache)
  <2>1. stored' = Committed({}, S, e.staleTime)
    BY <1>2, Zenon
  <2> HIDE DEF S
  <2>2. DOMAIN stored' = Metrics
    BY <2>1, Zenon DEF Committed
  <2>3. ASSUME NEW m \in Metrics
        PROVE  stored'[m].t \in Nat /\ (stored'[m].t = stored[m].t \/ stored'[m].t < tick)
    <3>1. stored'[m] = [t |-> e.staleTime, stale |-> TRUE] \/ stored'[m] = stored[m]
      BY <2>1, Zenon DEF Committed
    <3> QED BY <1>0, <3>1 DEF SInv
  <2>4. ASSUME NEW m \in good.exposed PROVE stored'[m] = stored[m]
    <3>1. m \in Metrics /\ good.t = tick /\ stored[m] = [t |-> good.t, stale |-> FALSE]
      BY <1>2, Zenon DEF SInv, ScrapedIsLive
    <3>2. stored[m].t = tick
      BY <3>1
    <3>3. ~Accepts(m, e.staleTime)
      BY <1>0, <3>2 DEF Accepts, SInv
    <3> QED BY <2>1, <3>1, <3>3, Zenon DEF Committed
  <2>5. ScrapedIsLive'
    BY <1>0, <2>4, Zenon DEF SInv, ScrapedIsLive
  <2>6. \A m \in Metrics : /\ stored'[m].t <= tick
                           /\ loop.st # "none" => stored'[m].t <= loop.last
    BY <2>3 DEF SInv
  <2> QED BY <1>0, <1>2, <2>2, <2>3, <2>5, <2>6, Zenon DEF SInv
<1> QED BY <1>1, <1>2, Zenon DEF endOfRunStaleness

\* Every step keeps the invariant.
LEMMA SStep ==
  ASSUME SInv, [ScrapeNext]_scrapeVars
  PROVE  SInv'
<1>1. CASE UNCHANGED scrapeVars
  BY <1>1, Zenon DEF scrapeVars, SInv, ScrapedIsLive
<1>2. CASE LoopStarts
  <2>1. /\ loop'.st = "run" /\ loop'.last = loop.last /\ loop'.cache = loop.cache
        /\ DOMAIN loop' = DOMAIN loop /\ loop.st = "wait" /\ phase' = TRUE
        /\ UNCHANGED <<tick, stored, ending, good, cut>>
    BY <1>2, Zenon DEF LoopStarts, SInv
  <2> QED BY <2>1, Zenon DEF SInv, ScrapedIsLive
<1>3. CASE Tick
  <2>1. /\ tick' = tick + 1 /\ phase' = FALSE /\ UNCHANGED <<stored, loop, ending, good, cut>>
        /\ loop.st # "none" => loop.last = tick
    BY <1>3, Zenon DEF Tick
  <2>2. ScrapedIsLive'
    BY <2>1, Zenon DEF SInv, ScrapedIsLive
  <2>3. tick' \in Nat /\ tick' > 0 /\ tick' - 1 = tick
    BY <2>1 DEF SInv
  <2>4. \A m \in Metrics : stored'[m].t <= tick' /\ stored'[m].t < tick'
    BY <2>1 DEF SInv
  <2>5. loop'.st # "none" => loop'.last <= tick' /\ tick' - 1 <= loop'.last
    BY <2>1, <2>3 DEF SInv
  <2> QED BY <2>1, <2>2, <2>3, <2>4, <2>5, Zenon DEF SInv
<1> QED
  BY <1>1, <1>2, <1>3, SucceedsOK, FailsOK, RestartsOK, EndOK, Zenon DEF ScrapeNext

\* The initial state.
LEMMA SInit == ScrapeInit => SInv
<1> SUFFICES ASSUME ScrapeInit PROVE SInv
  BY Zenon
<1>1. good.exposed = {} /\ ScrapedIsLive
  BY Zenon DEF ScrapeInit, ScrapedIsLive, NoScrape
<1>2. /\ loop.st = "none" /\ loop.last = 0 /\ loop.cache = newScrapeCache
      /\ DOMAIN loop = {"st", "last", "fresh", "cache"}
  BY Zenon DEF ScrapeInit
<1>3. newScrapeCache.seen = {} /\ DOMAIN newScrapeCache = {"cur", "prev", "known", "seen"}
  BY Zenon DEF newScrapeCache
<1>4. DOMAIN stored = Metrics /\ \A m \in Metrics : stored[m].t = 0
  BY Zenon DEF ScrapeInit
<1>5. tick = 1 /\ ending = {}
  BY Zenon DEF ScrapeInit
<1> QED BY <1>1, <1>2, <1>3, <1>4, <1>5 DEF SInv

\* After a scrape that succeeded, the series it exposed are live until the next
\* scrape, whatever scrapes failed before and whatever loops are stopped,
\* restarted and end late (scrapeAndReport, restartLoops, endOfRunStaleness);
\* the series that a scrape read which failed midway are excepted once.
THEOREM ScrapedStaysLive == ScrapeSpec => []ScrapedIsLive
<1>1. ScrapeInit => SInv
  BY SInit, Zenon
<1>2. SInv /\ [ScrapeNext]_scrapeVars => SInv'
  BY SStep, Zenon
<1>3. SInv => ScrapedIsLive
  BY Zenon DEF SInv
<1> QED
  BY <1>1, <1>2, <1>3, PTL DEF ScrapeSpec
-----------------------------------------------------------------------------
\* Who will mark a live series stale: the loop that scraped it in the last
\* interval, or in the one before when the last scrape failed after it had read
\* the series; or a stopped loop that was to mark it, within two ticks.
LoopWatches(m) ==
  /\ loop.st # "none" /\ m \in loop.cache.prev /\ m \in loop.cache.known
  /\ stored[m].t = loop.last \/ (stored[m].t = loop.last - 1 /\ m \in loop.cache.seen)

EndWatches(e, m) ==
  m \in e.cache.prev /\ (stored[m].t = e.at - e.waits \/ stored[m].t = e.at - e.waits - 1)

Watched(m) == LoopWatches(m) \/ \E e \in ending : EndWatches(e, m)

EndingOK(e) ==
  /\ e.cache.cur = {} /\ e.waits \in {0, 1} /\ e.at \in Nat /\ tick - 1 <= e.at /\ e.at <= tick
  /\ e.waits = 1 => e.staleTime = e.at

GInv ==
  /\ SInv
  /\ loop.cache.cur = {} /\ (loop.st # "run" => loop.fresh)
  /\ loop.st # "none" /\ ~phase => loop.last < tick
  /\ \A e \in ending : EndingOK(e)
  /\ poolUp => \A m \in Metrics \ orphaned : ~stored[m].stale => Watched(m)

\* A scrape that tracks the series P, of which it stores A: it marks the others
\* that the loop had tracked.
LEMMA ScrapeWatched ==
  ASSUME GInv, NEW A \in SUBSET Metrics, NEW P, SInv', loop.st = "run", loop.last < tick,
         loop'.st = "run", loop'.last = tick, loop'.cache.prev = P, loop'.cache.cur = {},
         stored' = Committed(A, loop.cache.prev \ P, tick), StillOrphaned,
         phase', UNCHANGED <<tick, ending, poolUp>>,
         \A m \in A : m \in P /\ m \in loop'.cache.known,
         \A m \in P : m \in loop.cache.known /\ m \notin A
                        => m \notin loop.cache.seen /\ m \in loop'.cache.seen /\ m \in loop'.cache.known
  PROVE  GInv'
<1>0. loop.last = tick - 1 /\ loop.last \in Nat /\ tick \in Nat
  BY DEF GInv, SInv
<1>1. ASSUME NEW m \in Metrics, m \notin orphaned', poolUp, ~stored'[m].stale PROVE Watched(m)'
  <2>1. CASE m \in A
    <3>1. stored'[m].t = tick
      BY <2>1, Zenon DEF Committed
    <3> QED
      BY <2>1, <3>1, Zenon DEF Watched, LoopWatches
  <2>2. CASE m \notin A
    <3>1. Accepts(m, tick)
      BY DEF Accepts, GInv, SInv
    <3>2. ~(m \in loop.cache.prev \ P) /\ stored'[m] = stored[m]
      <4>1. CASE m \in loop.cache.prev \ P
        <5>1. stored'[m] = [t |-> tick, stale |-> TRUE]
          BY <2>2, <3>1, <4>1, Zenon DEF Committed
        <5> QED
          BY <1>1, <5>1
      <4>2. CASE m \notin loop.cache.prev \ P
        BY <2>2, <4>2, Zenon DEF Committed
      <4> QED
        BY <4>1, <4>2, Zenon
    <3>3. m \notin orphaned
      BY <1>1, <3>2, Zenon DEF StillOrphaned
    <3>4. Watched(m)
      BY <1>1, <3>2, <3>3, Zenon DEF GInv
    <3>5. CASE LoopWatches(m)
      <4>1. m \in P /\ m \in loop.cache.known
        BY <3>2, <3>5, Zenon DEF LoopWatches
      <4>2. m \notin loop.cache.seen /\ m \in loop'.cache.seen /\ m \in loop'.cache.known
        BY <2>2, <4>1, Zenon
      <4>3. stored[m].t = loop.last
        BY <3>5, <4>2, Zenon DEF LoopWatches
      <4>4. stored'[m].t = loop'.last - 1
        BY <1>0, <3>2, <4>3
      <4> QED
        BY <4>1, <4>2, <4>4, Zenon DEF Watched, LoopWatches
    <3>6. CASE \E e \in ending : EndWatches(e, m)
      BY <3>2, <3>6, Zenon DEF Watched, EndWatches
    <3> QED
      BY <3>4, <3>5, <3>6, Zenon DEF Watched
  <2> QED
    BY <2>1, <2>2, Zenon
<1>2. \A e \in ending' : EndingOK(e)'
  BY Zenon DEF GInv, EndingOK
<1>3. \A m \in Metrics \ orphaned' : poolUp /\ ~stored'[m].stale => Watched(m)'
  BY <1>1, Zenon
<1> QED
  BY <1>2, <1>3, Zenon DEF GInv

LEMMA WatchScrape ==
  ASSUME GInv,
         NEW E \in SUBSET Metrics, NEW X \in SUBSET Metrics, ScrapeSucceeds(E) \/ ScrapeFails(E, X)
  PROVE  GInv'
<1>0. SInv' /\ SInv
  BY SucceedsOK, FailsOK, Zenon DEF GInv
<1> DEFINE A == Appended(loop.cache, E, tick)
<1>a. /\ A \in SUBSET Metrics /\ A \subseteq E
      /\ \A m \in A : ~(m \in loop.cache.known /\ m \in loop.cache.seen)
  BY Zenon DEF Appended
<1> HIDE DEF A
<1>1. CASE ScrapeSucceeds(E)
  <2> DEFINE c == Read(loop.cache, E, {}, tick)
             d == iterDone(c, TRUE)
             P == A \union (E \ loop.cache.known)
  <2>1. /\ stored' = Committed(A, StaleOf(c), tick)
        /\ loop' = [loop EXCEPT !.last = tick, !.fresh = FALSE, !.cache = d]
        /\ phase' /\ UNCHANGED <<tick, ending, poolUp>> /\ loop.st = "run" /\ loop.last < tick
        /\ StillOrphaned
    BY <1>1, Zenon DEF ScrapeSucceeds, A
  <2>3. /\ c.cur = P /\ c.prev = loop.cache.prev /\ DOMAIN c = {"cur", "prev", "known", "seen"}
        /\ A \subseteq c.seen
    BY <1>0, Zenon DEF Read, GInv, SInv, A
  <2> HIDE DEF c
  <2>4. d.prev = P /\ d.cur = {} /\ d.known = c.seen
    BY <2>3, Zenon DEF iterDone
  <2>5. StaleOf(c) = loop.cache.prev \ P
    BY <2>3, Zenon DEF StaleOf
  <2> HIDE DEF d
  <2>6. loop'.st = "run" /\ loop'.last = tick /\ loop'.cache = d
    BY <1>0, <2>1, Zenon DEF SInv
  <2>7. /\ \A m \in A : m \in P /\ m \in d.known
        /\ \A m \in P : ~(m \in loop.cache.known /\ m \notin A)
    BY <2>3, <2>4, Zenon
  <2> HIDE DEF P
  <2>8. stored' = Committed(A, loop.cache.prev \ P, tick)
    BY <2>1, <2>5, Zenon
  <2> QED
    BY <1>0, <1>a, <2>1, <2>4, <2>6, <2>7, <2>8, ScrapeWatched, Zenon
<1>2. CASE ScrapeFails(E, X)
  <2> DEFINE c == Read(loop.cache, E, X, tick)
             d == iterDone(c, FALSE)
             P == A \union ((E \union X) \ loop.cache.known)
             N == {}
  <2>1. /\ stored' = Committed(N, StaleOf(c), tick)
        /\ loop' = [loop EXCEPT !.last = tick, !.fresh = FALSE, !.cache = d]
        /\ phase' /\ UNCHANGED <<tick, ending, poolUp>> /\ loop.st = "run" /\ loop.last < tick
        /\ StillOrphaned
    BY <1>2, Zenon DEF ScrapeFails
  <2>3. /\ c.cur = P /\ c.prev = loop.cache.prev /\ DOMAIN c = {"cur", "prev", "known", "seen"}
        /\ A \subseteq c.seen /\ A \subseteq c.known
    BY <1>0, Zenon DEF Read, GInv, SInv, A
  <2> HIDE DEF c
  <2>4. d.prev = P /\ d.cur = {} /\ d.known = c.known /\ d.seen = c.seen
    BY <2>3, Zenon DEF iterDone
  <2>5. StaleOf(c) = loop.cache.prev \ P
    BY <2>3, Zenon DEF StaleOf
  <2> HIDE DEF d
  <2>6. loop'.st = "run" /\ loop'.last = tick /\ loop'.cache = d
    BY <1>0, <2>1, Zenon DEF SInv
  <2>7. /\ N \in SUBSET Metrics /\ \A m \in N : m \in P /\ m \in d.known
        /\ \A m \in P : m \in loop.cache.known /\ m \notin N
                         => m \notin loop.cache.seen /\ m \in d.seen /\ m \in d.known
    BY <1>a, <2>3, <2>4, Zenon
  <2> HIDE DEF P, N
  <2>8. stored' = Committed(N, loop.cache.prev \ P, tick)
    BY <2>1, <2>5, Zenon
  <2> QED
    BY <1>0, <2>1, <2>4, <2>6, <2>7, <2>8, ScrapeWatched, Zenon
<1> QED
  BY <1>1, <1>2, Zenon

\* Loops that are stopped and started: the series of a loop that is stopped are
\* taken over by the loop in endOfRunStaleness, or with the cache.
LEMMA WatchRestarts ==
  ASSUME GInv,
         syncAdds \/ syncRemoves \/ stopPool \/ \E r \in BOOLEAN : restartLoops(r)
  PROVE  GInv'
<1>0. SInv' /\ SInv /\ tick' = tick /\ phase' = phase /\ stored' = stored
  BY RestartsOK, Zenon DEF GInv, syncAdds, syncRemoves, stopPool, restartLoops
<1>a. newScrapeCache.cur = {} /\ newScrapeCache.prev = {}
  BY Zenon DEF newScrapeCache
<1>b. loop.st # "none" => Passed = loop.last \/ ~Quiet
  BY <1>0 DEF GInv, SInv, Quiet, Passed
<1>c. \A e \in EndOfRun : e.cache = loop.cache /\ e.waits = 0 /\ e.at = loop.last /\ loop.st = "run"
  BY DEF EndOfRun
<1>d. loop.st # "none" /\ ~loop.fresh => \E e \in EndOfRun : TRUE
  BY Zenon DEF EndOfRun, GInv
<1>e. \A e \in ending \union EndOfRun : EndingOK(e)'
  BY <1>0, <1>c DEF GInv, SInv, EndingOK
<1>1. CASE syncAdds
  <2>1. /\ loop.st = "none" /\ loop'.st = "wait" /\ loop'.last = Passed /\ loop'.fresh /\ loop'.cache = newScrapeCache
        /\ ending' = ending /\ poolUp' = poolUp /\ orphaned' = orphaned
    BY <1>1, ZenonT(30) DEF syncAdds
  <2>2. ~phase' => loop'.last < tick'
    BY <1>0, <2>1 DEF Passed, SInv
  <2>3. ASSUME NEW m \in Metrics, Watched(m) PROVE Watched(m)'
    BY <1>0, <2>1, <2>3, Zenon DEF Watched, LoopWatches, EndWatches
  <2> QED
    BY <1>0, <1>a, <1>e, <2>1, <2>2, <2>3, Zenon DEF GInv
<1>2. ASSUME loop.st # "none", ending' = ending \union EndOfRun, orphaned' = orphaned \union Orphans,
             NEW m \in Metrics \ orphaned', Watched(m)
      PROVE  Watched(m)'
  <2>1. CASE LoopWatches(m)
    <3>1. ~loop.fresh
      BY <1>2, <2>1, Zenon DEF Orphans, LoopWatches
    <3>2. PICK e \in EndOfRun : e.cache = loop.cache /\ e.waits = 0 /\ e.at = loop.last
      BY <1>2, <1>c, <1>d, <3>1, Zenon
    <3>3. (stored[m].t = e.at - e.waits \/ stored[m].t = e.at - e.waits - 1) /\ m \in e.cache.prev
      BY <1>0, <2>1, <3>2 DEF SInv, LoopWatches
    <3> QED
      BY <1>0, <1>2, <3>3, Zenon DEF Watched, EndWatches
  <2>2. CASE \E e \in ending : EndWatches(e, m)
    BY <1>0, <1>2, <2>2, Zenon DEF Watched, EndWatches
  <2> QED
    BY <1>2, <2>1, <2>2, Zenon DEF Watched
<1>3. CASE syncRemoves
  <2>1. /\ loop.st # "none" /\ loop'.st = "none" /\ loop'.fresh /\ loop'.cache = newScrapeCache
        /\ ending' = ending \union EndOfRun /\ poolUp' = poolUp /\ orphaned' = orphaned \union Orphans
    BY <1>3, Zenon DEF syncRemoves
  <2> QED
    BY <1>0, <1>2, <1>a, <1>e, <2>1, Zenon DEF GInv
<1>4. CASE stopPool
  BY <1>0, <1>4, <1>a, Zenon DEF stopPool, GInv
<1>5. CASE restartLoops(TRUE)
  <2>1. /\ loop.st # "none" /\ loop'.st = "wait" /\ loop'.last = loop.last /\ loop'.fresh /\ loop'.cache = loop.cache
        /\ ending' = ending /\ poolUp' = poolUp /\ orphaned' = orphaned
    BY <1>5, <1>b, Zenon DEF restartLoops
  <2>2. ASSUME NEW m \in Metrics, Watched(m) PROVE Watched(m)'
    BY <1>0, <2>1, <2>2, Zenon DEF Watched, LoopWatches, EndWatches
  <2> QED
    BY <1>0, <1>e, <2>1, <2>2, Zenon DEF GInv
<1>6. CASE restartLoops(FALSE)
  <2>1. /\ loop.st # "none" /\ loop'.st = "wait" /\ loop'.last = loop.last /\ loop'.fresh /\ loop'.cache = newScrapeCache
        /\ ending' = ending \union EndOfRun /\ poolUp' = poolUp /\ orphaned' = orphaned \union Orphans
    BY <1>6, <1>b, Zenon DEF restartLoops
  <2> QED
    BY <1>0, <1>2, <1>a, <1>e, <2>1, Zenon DEF GInv
<1> QED
  BY <1>1, <1>3, <1>4, <1>5, <1>6, Zenon

\* The two ticks of a stopped loop.
LEMMA WatchEnd ==
  ASSUME GInv, NEW e \in ending, endOfRunStaleness(e)
  PROVE  GInv'
<1>0. /\ SInv' /\ SInv /\ e.at < tick /\ tick' = tick /\ loop' = loop /\ phase' = TRUE /\ poolUp' = poolUp
      /\ DOMAIN e = {"cache", "waits", "at", "staleTime"} /\ EndingOK(e) /\ StillOrphaned
  BY EndOK, Zenon DEF endOfRunStaleness, GInv, SInv
<1>a. e.at = tick - 1 /\ tick \in Nat /\ e.cache.cur = {}
  BY <1>0 DEF EndingOK, SInv
<1>1. CASE /\ e.waits = 0 /\ stored' = stored
           /\ ending' = (ending \ {e}) \union {[e EXCEPT !.waits = 1, !.at = tick, !.staleTime = tick]}
  <2>0. PICK f : f = [e EXCEPT !.waits = 1, !.at = tick, !.staleTime = tick]
    BY Zenon
  <2>1. f.waits = 1 /\ f.at = tick /\ f.staleTime = tick /\ f.cache = e.cache
    BY <1>0, <2>0, Zenon
  <2>2. ending' = (ending \ {e}) \union {f}
    BY <1>1, <2>0, Zenon
  <2>3. EndingOK(f)'
    BY <1>0, <1>a, <2>1 DEF EndingOK
  <2>4. ASSUME NEW g \in ending \ {e} PROVE EndingOK(g)'
    BY <1>0, Zenon DEF GInv, EndingOK
  <2>5. ASSUME NEW m \in Metrics, Watched(m) PROVE Watched(m)'
    <3>1. CASE EndWatches(e, m)
      <4>1. m \in f.cache.prev /\ (stored[m].t = f.at - f.waits \/ stored[m].t = f.at - f.waits - 1)
        BY <1>1, <1>a, <2>1, <3>1 DEF EndWatches
      <4> QED
        BY <1>1, <2>2, <4>1, Zenon DEF Watched, EndWatches
    <3>2. CASE LoopWatches(m)
      BY <1>0, <1>1, <3>2, Zenon DEF Watched, LoopWatches
    <3>3. CASE \E g \in ending \ {e} : EndWatches(g, m)
      BY <1>1, <2>2, <3>3, Zenon DEF Watched, EndWatches
    <3> QED
      BY <2>5, <3>1, <3>2, <3>3, Zenon DEF Watched
  <2>6. orphaned' = orphaned
    BY <1>0, <1>1, Zenon DEF StillOrphaned
  <2> QED
    BY <1>0, <1>1, <2>2, <2>3, <2>4, <2>5, <2>6, Zenon DEF GInv
<1>2. CASE /\ e.waits = 1
           /\ stored' = Committed({}, StaleOf(e.cache), e.staleTime)
           /\ ending' = ending \ {e}
  <2>1. e.staleTime = tick - 1 /\ StaleOf(e.cache) = e.cache.prev
    BY <1>0, <1>2, <1>a, Zenon DEF EndingOK, StaleOf
  <2>2. ASSUME NEW g \in ending \ {e} PROVE EndingOK(g)'
    BY <1>0, Zenon DEF GInv, EndingOK
  <2>3. ASSUME NEW m \in Metrics \ orphaned', poolUp, ~stored'[m].stale PROVE Watched(m)'
    <3>1. stored'[m] = IF m \in e.cache.prev /\ Accepts(m, e.staleTime) THEN [t |-> e.staleTime, stale |-> TRUE] ELSE stored[m]
      BY <1>2, <2>1, Zenon DEF Committed
    <3>2. stored'[m] = stored[m] /\ ~(m \in e.cache.prev /\ Accepts(m, e.staleTime))
      BY <2>3, <3>1, SMTT(30)
    <3>3. ~EndWatches(e, m)
      BY <1>2, <1>a, <2>1, <3>2 DEF Accepts, EndWatches
    <3>4. Watched(m)
      BY <1>0, <2>3, <3>2, Zenon DEF GInv, StillOrphaned
    <3> QED
      BY <1>0, <1>2, <3>2, <3>3, <3>4, Zenon DEF Watched, LoopWatches, EndWatches
  <2> QED
    BY <1>0, <1>2, <2>2, <2>3, Zenon DEF GInv
<1> QED
  BY <1>1, <1>2, Zenon DEF endOfRunStaleness

\* While the pool runs, a series that is no longer exposed is marked stale
\* within three intervals, whatever failures, reloads, removals and returns of
\* the target happen (scrapeAndReport, restartLoops, endOfRunStaleness), unless
\* it was left in a cache whose loop was stopped before its first scrape.
THEOREM StaleMarkedInTime == ScrapeSpec => []StaleInTime
<1>1. ScrapeInit => GInv
  <2> SUFFICES ASSUME ScrapeInit PROVE GInv
    BY Zenon
  <2>1. SInv
    BY SInit, Zenon
  <2>2. loop.st = "none" /\ loop.fresh /\ loop.cache = newScrapeCache /\ ending = {}
    BY Zenon DEF ScrapeInit
  <2>3. newScrapeCache.cur = {}
    BY Zenon DEF newScrapeCache
  <2>4. \A m \in Metrics : stored[m].stale
    BY Zenon DEF ScrapeInit
  <2> QED
    BY <2>1, <2>2, <2>3, <2>4, Zenon DEF GInv
<1>2. GInv /\ [ScrapeNext]_scrapeVars => GInv'
  <2> SUFFICES ASSUME GInv, [ScrapeNext]_scrapeVars PROVE GInv'
    BY Zenon
  <2>0. SInv'
    BY SStep, Zenon DEF GInv
  <2>1. CASE UNCHANGED scrapeVars
    BY <2>0, <2>1, Zenon DEF scrapeVars, GInv, EndingOK, Watched, LoopWatches, EndWatches
  <2>2. CASE LoopStarts
    <3>1. /\ loop'.st = "run" /\ loop'.last = loop.last /\ loop'.cache = loop.cache /\ loop.st = "wait"
          /\ phase' /\ UNCHANGED <<tick, stored, ending, poolUp, orphaned>>
      BY <2>2, Zenon DEF LoopStarts, GInv, SInv
    <3>2. ASSUME NEW m \in Metrics, Watched(m) PROVE Watched(m)'
      BY <3>1, <3>2, Zenon DEF Watched, LoopWatches, EndWatches
    <3> QED
      BY <2>0, <3>1, <3>2, Zenon DEF GInv, EndingOK
  <2>3. CASE Tick
    <3>1. /\ tick' = tick + 1 /\ UNCHANGED <<stored, loop, ending, poolUp, orphaned>>
          /\ loop.st # "none" => loop.last = tick
          /\ \A e \in ending : e.at = tick
      BY <2>3, ZenonT(30) DEF Tick
    <3>2. tick \in Nat /\ (loop.st # "none" => loop.last < tick')
      BY <3>1 DEF GInv, SInv
    <3>3. ASSUME NEW e \in ending PROVE EndingOK(e)'
      BY <3>1, <3>2 DEF GInv, EndingOK
    <3>4. ASSUME NEW m \in Metrics, Watched(m) PROVE Watched(m)'
      BY <3>1, <3>4, Zenon DEF Watched, LoopWatches, EndWatches
    <3> QED
      BY <2>0, <3>1, <3>2, <3>3, <3>4, Zenon DEF GInv
  <2> QED
    BY <2>1, <2>2, <2>3, WatchScrape, WatchRestarts, WatchEnd, Zenon DEF ScrapeNext
<1>3. GInv => StaleInTime
  <2> SUFFICES ASSUME GInv, NEW m \in Metrics \ orphaned, poolUp, ~stored[m].stale
               PROVE  tick - stored[m].t <= 3
    BY Zenon DEF StaleInTime
  <2>1. Watched(m) /\ tick \in Nat
    BY Zenon DEF GInv, SInv
  <2>2. CASE LoopWatches(m)
    BY <2>1, <2>2 DEF GInv, SInv, LoopWatches
  <2>3. ASSUME NEW e \in ending, EndWatches(e, m) PROVE tick - stored[m].t <= 3
    BY <2>1, <2>3 DEF GInv, EndingOK, EndWatches
  <2> QED
    BY <2>1, <2>2, <2>3, Zenon DEF Watched
<1> QED
  BY <1>1, <1>2, <1>3, PTL DEF ScrapeSpec

-----------------------------------------------------------------------------
(* The notifier.                                                           *)

\* AlertsAccounted is inductive together with the types and the fact that
\* there is a batch only while sendAll sends it.
NInv ==
  /\ nqueue \in Seq(Int) /\ nbatch \in Seq(Int)
  /\ submitted \in Int /\ handled \in Int /\ ndropped \in Int
  /\ sender \notin {"send", "drainSend"} => nbatch = <<>>
  /\ AlertsAccounted

\* A queue that is cut in two keeps its alerts.
LEMMA CutInTwo ==
  ASSUME NEW q \in Seq(Int), NEW n \in 0..Len(q)
  PROVE  /\ SubSeq(q, 1, n) \in Seq(Int) /\ SubSeq(q, n + 1, Len(q)) \in Seq(Int)
         /\ Len(SubSeq(q, 1, n)) = n /\ Len(SubSeq(q, n + 1, Len(q))) = Len(q) - n
  OBVIOUS

\* Lengths are numbers.
LEMMA LenNat == ASSUME NEW q \in Seq(Int) PROVE Len(q) \in Nat
  OBVIOUS

\* A queue that new alerts are appended to.
LEMMA JoinTwo ==
  ASSUME NEW q \in Seq(Int), NEW r \in Seq(Int)
  PROVE  q \o r \in Seq(Int) /\ Len(q \o r) = Len(q) + Len(r)
  OBVIOUS

\* The number of alerts that Send drops from a queue of length q for a new ones.
LEMMA Overflow ==
  ASSUME NEW q \in Nat, NEW a \in Nat, NEW c \in Nat, q <= c, a <= c,
         NEW old, old = IF q + a - c > 0 THEN q + a - c ELSE 0
  PROVE  old \in 0..q /\ q - old + a <= c
  OBVIOUS

\* takeBatch moves the alerts of a batch from the queue to the batch.
LEMMA TakeBatch ==
  ASSUME NInv, NEW pc, pc \in {"send", "drainSend"}, nbatch = <<>>,
         sender # "stopped", takeBatch(pc), UNCHANGED ndropped
  PROVE  NInv'
<1> DEFINE n == IF Len(nqueue) > MaxBatchSize THEN MaxBatchSize ELSE Len(nqueue)
<1>1. n \in 0..Len(nqueue)
  BY NotifierAssumption, LenNat DEF NInv
<1>2. nbatch' = SubSeq(nqueue, 1, n) /\ nqueue' = SubSeq(nqueue, n + 1, Len(nqueue))
  BY Zenon DEF takeBatch
<1>6. sender' = pc /\ handled' = handled /\ submitted' = submitted /\ ndropped' = ndropped /\ cached' = {}
  BY Zenon DEF takeBatch
<1> HIDE DEF n
<1>3. /\ nbatch' \in Seq(Int) /\ nqueue' \in Seq(Int)
      /\ Len(nbatch') = n /\ Len(nqueue') = Len(nqueue) - n
  BY <1>1, <1>2, CutInTwo, Zenon DEF NInv
<1>4. Len(nbatch) = 0
  BY Zenon
<1>5. QueueCapacity \in Nat /\ Len(nqueue) \in Nat
  BY NotifierAssumption, LenNat, Zenon DEF NInv
<1>7. submitted' = Len(nqueue') + Len(nbatch') + handled' + ndropped'
  BY <1>1, <1>3, <1>4, <1>5, <1>6 DEF NInv, AlertsAccounted
<1>8. Len(nqueue') <= QueueCapacity
  BY <1>1, <1>3, <1>5 DEF NInv, AlertsAccounted
<1> QED
  BY ONLY NInv, pc \in {"send", "drainSend"}, <1>3, <1>6, <1>7, <1>8, Zenon DEF NInv, AlertsAccounted

\* Every step keeps the invariant.
LEMMA NStep ==
  ASSUME NInv, [NNext]_nVars
  PROVE  NInv'
<1>0. QueueCapacity \in Nat /\ Len(nqueue) \in Nat /\ Len(nbatch) \in Nat
  BY NotifierAssumption, LenNat, Zenon DEF NInv
<1>1. CASE UNCHANGED nVars
  BY <1>1, Zenon DEF nVars, NInv, AlertsAccounted, InBatch
<1>2. ASSUME NEW k \in 1..MaxSend, Send(k) PROVE NInv'
  <2> DEFINE excess == IF k > QueueCapacity THEN k - QueueCapacity ELSE 0
             alerts == [i \in 1..(k - excess) |-> submitted + excess + i]
             over == Len(nqueue) + Len(alerts) - QueueCapacity
             old == IF over > 0 THEN over ELSE 0
             rest == SubSeq(nqueue, old + 1, Len(nqueue))
  <2>1. k \in Nat /\ excess \in Nat /\ k - excess \in Nat /\ k - excess <= QueueCapacity
    BY <1>0, <1>2, NotifierAssumption
  <2>2. nqueue' = rest \o alerts
    BY <1>2, Zenon DEF Send
  <2>7. /\ ndropped' = ndropped + excess + old /\ submitted' = submitted + k
        /\ nbatch' = nbatch /\ handled' = handled /\ sender' = sender /\ cached' = cached
    BY <1>2, Zenon DEF Send
  <2>3. alerts \in Seq(Int) /\ Len(alerts) = k - excess
    <3> HIDE DEF excess
    <3> QED BY <2>1 DEF NInv
  <2> HIDE DEF excess, alerts
  <2>4. old \in 0..Len(nqueue) /\ Len(nqueue) - old + Len(alerts) <= QueueCapacity
    BY <1>0, <2>1, <2>3, Overflow, Zenon DEF NInv, AlertsAccounted
  <2> HIDE DEF old
  <2>5. rest \in Seq(Int) /\ Len(rest) = Len(nqueue) - old
    BY <2>4, CutInTwo, Zenon DEF NInv
  <2> HIDE DEF rest
  <2>6. nqueue' \in Seq(Int) /\ Len(nqueue') = Len(rest) + Len(alerts)
    BY <2>2, <2>3, <2>5, JoinTwo, Zenon
  <2>8. sender' # "stopped" =>
          submitted' = Len(nqueue') + Len(nbatch') + handled' + ndropped'
    BY <1>0, <2>1, <2>3, <2>4, <2>5, <2>6, <2>7 DEF NInv, AlertsAccounted
  <2>9. Len(nqueue') <= QueueCapacity
    BY <1>0, <2>4, <2>5, <2>6, Zenon
  <2> QED
    <3>1. cached' # {} => cached' = InBatch'
      BY <2>7, Zenon DEF NInv, AlertsAccounted, InBatch
    <3> QED
      BY ONLY NInv, <2>1, <2>4, <2>6, <2>7, <2>8, <2>9, <3>1 DEF NInv, AlertsAccounted
<1>3. CASE StopNotifier \/ (\E s \in AmSets : reload(s))
  BY <1>3, Zenon DEF StopNotifier, reload, NInv, AlertsAccounted, InBatch
<1>4. CASE sendLoop \/ sendLoopStop \/ setMore
  BY <1>4, Zenon DEF sendLoop, sendLoopStop, setMore, NInv, AlertsAccounted, InBatch
<1>5. CASE sendLoopMore
  BY <1>5, TakeBatch, Zenon DEF sendLoopMore, NInv
<1>6. CASE sendOneBatch
  <2>1. Len(nbatch') = 0 /\ nbatch' \in Seq(Int)
    BY <1>6 DEF sendOneBatch
  <2> QED
    BY <1>0, <1>6, <2>1 DEF sendOneBatch, NInv, AlertsAccounted
<1>7. CASE drainQueue
  <2>1. CASE DrainOnShutdown /\ nqueue # <<>>
    BY <1>7, <2>1, TakeBatch, Zenon DEF drainQueue, NInv
  <2>2. CASE ~(DrainOnShutdown /\ nqueue # <<>>)
    <3>1. /\ sender' = "stopped" /\ ndropped' = ndropped + Len(nqueue) /\ nbatch = <<>>
          /\ UNCHANGED <<nqueue, nbatch, handled, submitted, cached>>
      BY <1>7, <2>2, Zenon DEF drainQueue, NInv
    <3>2. cached' # {} => cached' = InBatch'
      BY <3>1, Zenon DEF NInv, AlertsAccounted, InBatch
    <3> QED
      BY <1>0, <3>1, <3>2 DEF NInv, AlertsAccounted
  <2> QED BY <2>1, <2>2, Zenon
<1>8. ASSUME NEW s \in AmSets, NEW K \in SUBSET InBatch, sendAll(s, K) PROVE NInv'
  <2>1. UNCHANGED <<nqueue, nbatch, sender, handled, ndropped, submitted>> /\ (cached' = cached \/ cached' = {} \/ cached' = InBatch)
    BY <1>8, Zenon DEF sendAll
  <2> QED
    BY <2>1, Zenon DEF NInv, AlertsAccounted, InBatch
<1>9. CASE \E s \in AmSets : sendAllGivesUp(s)
  BY <1>9, Zenon DEF sendAllGivesUp, NInv, AlertsAccounted, InBatch
<1> QED
  BY <1>1, <1>2, <1>3, <1>4, <1>5, <1>6, <1>7, <1>8, <1>9, Zenon DEF NNext, senderStep

\* Every alert is queued, being sent, taken or counted as dropped (Send,
\* sendOneBatch, drainQueue), whatever the sizes.
THEOREM NoAlertLostSilently == NSpec => []AlertsAccounted
<1>1. NInit => NInv
  BY NotifierAssumption DEF NInit, NInv, AlertsAccounted
<1>2. NInv /\ [NNext]_nVars => NInv'
  BY NStep, Zenon
<1>3. NInv => AlertsAccounted
  BY Zenon DEF NInv
<1> QED
  BY <1>1, <1>2, <1>3, PTL DEF NSpec
=============================================================================
