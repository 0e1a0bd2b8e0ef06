---------------------------- MODULE AlertingRule ----------------------------
(***************************************************************************)
(* An alerting rule of a group (rules/alerting.go, rules/group.go): its    *)
(* evaluations, the notifications they send, the samples of                *)
(* ALERTS_FOR_STATE they write, and how a restarted server restores the    *)
(* time that alerts have been pending from those samples.                  *)
(*                                                                         *)
(* Time counts in fractions of a second: Unit of them are a second, and    *)
(* the stored times are whole seconds.  0 is the zero time.                *)
(***************************************************************************)
EXTENDS Integers, FiniteSets

CONSTANTS Fps,              \* the fingerprints of the alerts
          Interval,         \* of the group
          HoldDuration,     \* for
          KeepFiringFor,    \* keep_firing_for
          ResolvedRetention,\* resolvedRetention
          ResendDelay,
          ForGracePeriod,
          OutageTolerance,
          AlertLimit,       \* limit of the group, 0 for none
          Unit,
          MaxNow            \* bound on time

ASSUME AlertingAssumption ==
  /\ Interval \in Nat \ {0} /\ Unit \in Nat \ {0}
  /\ {HoldDuration, KeepFiringFor, ResolvedRetention, ResendDelay, ForGracePeriod, OutageTolerance} \subseteq Nat
  /\ AlertLimit \in Nat /\ MaxNow \in Nat

VARIABLES
  now,        \* the time of the last evaluation
  actives,    \* AlertingRule.active
  restored,   \* has the state been restored?
  evals,      \* evaluations since the start, as far as RestoreForState asks
  shouldRestore,
  forState,   \* the last sample of ALERTS_FOR_STATE of each alert
  prevSeries, \* seriesInPreviousEval
  told,       \* the alerts that the receiver was told to be firing since the last start
  dropped,    \* those of them that the rule forgot at its limit and did not send since
  fails,      \* evaluations in a row that failed
  heldFor     \* how long each alert has been active without a break, outages left out

ruleVars == <<now, actives, restored, evals, shouldRestore, forState, prevSeries, told, dropped, fails, heldFor>>

NewAlert(ts) ==
  [state |-> "pending", activeAt |-> ts, resolvedAt |-> 0, lastSentAt |-> 0, validUntil |-> 0, keepFiringSince |-> 0]
NoSample == [t |-> 0, v |-> 0, stale |-> TRUE]
Seconds(t) == t - (t % Unit)

RuleTypeOK ==
  /\ now \in 0..MaxNow
  /\ DOMAIN actives \subseteq Fps
  /\ \A fp \in DOMAIN actives : actives[fp].state \in {"inactive", "pending", "firing"}
  /\ restored \in BOOLEAN /\ shouldRestore \in BOOLEAN /\ evals \in 0..2
  /\ told \subseteq Fps /\ dropped \subseteq told /\ prevSeries \subseteq Fps

RuleInit ==
  /\ now \in 1..Unit
  /\ actives = [fp \in {} |-> NewAlert(0)]
  /\ restored = FALSE /\ shouldRestore = TRUE /\ evals = 0
  /\ forState = [fp \in Fps |-> NoSample]
  /\ prevSeries = {} /\ told = {} /\ dropped = {} /\ fails = 0
  /\ heldFor = [fp \in Fps |-> -1]
-----------------------------------------------------------------------------
\* Eval, first loop: the alerts after the result of the query was merged.
Merged(res, ts) ==
  [fp \in DOMAIN actives \union res |->
     IF fp \in DOMAIN actives /\ (fp \notin res \/ actives[fp].state # "inactive") THEN actives[fp] ELSE NewAlert(ts)]

\* Does an alert that is not in the result keep firing?
KeepsFiring(a, ts) ==
  /\ a.state = "firing" /\ KeepFiringFor > 0
  /\ ts - (IF a.keepFiringSince = 0 THEN ts ELSE a.keepFiringSince) < KeepFiringFor

\* Eval, second loop: one alert, in the result or not.
Updated(a, in, ts) ==
  IF in THEN [a EXCEPT !.keepFiringSince = 0,
                       !.state = IF @ = "pending" /\ ts - a.activeAt >= HoldDuration THEN "firing" ELSE @]
  ELSE IF KeepsFiring(a, ts) THEN [a EXCEPT !.keepFiringSince = IF @ = 0 THEN ts ELSE @]
  ELSE IF a.state = "inactive" THEN a
  ELSE [a EXCEPT !.state = "inactive", !.resolvedAt = ts,
                 !.keepFiringSince = IF a.state = "firing" /\ KeepFiringFor > 0 /\ @ = 0 THEN ts ELSE @]

\* Is an alert that is not in the result deleted?
Deleted(a, ts) == a.state = "pending" \/ (a.resolvedAt # 0 /\ ts - a.resolvedAt > ResolvedRetention)

\* Mutant: a resolved alert waits for its turn like a firing one.
needsSendingLate(a, ts) == a.state # "pending" /\ a.lastSentAt + ResendDelay < ts

\* Alert.needsSending
needsSending(a, ts) ==
  a.state # "pending" /\ (a.resolvedAt > a.lastSentAt \/ a.lastSentAt + ResendDelay < ts)

\* sendAlerts: for how long the receiver may believe what it is told.
ValidFor == 4 * (IF Interval > ResendDelay THEN Interval ELSE ResendDelay)

\* The time that an alert has been active by this evaluation.  One that keeps
\* firing is active.  One that is not ends when its series says so, with the
\* markers for ended: an end that is seen between a restart and its first
\* sample, or by an evaluation that fails, leaves no mark.
HeldFor(fp, counted, ended, ts) ==
  IF fp \in counted THEN IF heldFor[fp] < 0 THEN 0 ELSE IF evals = 0 THEN heldFor[fp] ELSE heldFor[fp] + (ts - now)
  ELSE IF forState[fp].stale \/ fp \in ended THEN -1 ELSE heldFor[fp]

\* Group.Eval for the rule: AlertingRule.Eval, sendAlerts, the samples of the
\* result and the staleness markers of series that are no longer in it.  Past
\* the limit Eval forgets every alert and fails: nothing is sent or written.
Eval(res) ==
  LET ts      == now + Interval
      merged  == Merged(res, ts)
      kept    == {fp \in DOMAIN merged : fp \in res \/ ~Deleted(merged[fp], ts)}
      counted == {fp \in DOMAIN merged : fp \in res \/ KeepsFiring(merged[fp], ts)}
      updated == [fp \in kept |-> Updated(merged[fp], fp \in res, ts)]
      sent    == {fp \in kept : needsSending(updated[fp], ts)}
      tooMany == AlertLimit > 0 /\ Cardinality(counted) > AlertLimit
  IN  /\ ts <= MaxNow
      /\ now' = ts
      /\ evals' = IF evals < 2 THEN evals + 1 ELSE evals
      /\ heldFor' = [fp \in Fps |-> HeldFor(fp, counted, IF tooMany THEN {} ELSE prevSeries, ts)]
      /\ IF tooMany
         THEN /\ actives' = [fp \in {} |-> NewAlert(0)]
              /\ dropped' = told
              /\ fails' = fails + 1
              /\ UNCHANGED <<forState, prevSeries, told>>
         ELSE /\ actives' = [fp \in kept |-> IF fp \in sent
                                             THEN [updated[fp] EXCEPT !.lastSentAt = ts, !.validUntil = ts + ValidFor]
                                             ELSE updated[fp]]
              /\ told' = (told \ sent) \union {fp \in sent : updated[fp].state = "firing"}
              /\ dropped' = dropped \ sent
              /\ fails' = 0
              /\ prevSeries' = IF restored THEN counted ELSE {}
              /\ forState' = [fp \in Fps |->
                                IF restored /\ fp \in counted
                                THEN [t |-> ts, v |-> Seconds(updated[fp].activeAt), stale |-> FALSE]
                                ELSE IF fp \in prevSeries THEN [t |-> ts, v |-> 0, stale |-> TRUE]
                                ELSE forState[fp]]
      /\ UNCHANGED <<restored, shouldRestore>>

\* The query fails.
EvalFails ==
  /\ now + Interval <= MaxNow
  /\ now' = now + Interval
  /\ evals' = IF evals < 2 THEN evals + 1 ELSE evals
  /\ heldFor' = [fp \in Fps |-> IF heldFor[fp] < 0 \/ evals = 0 THEN heldFor[fp] ELSE heldFor[fp] + Interval]
  /\ fails' = fails + 1
  /\ UNCHANGED <<actives, restored, shouldRestore, forState, prevSeries, told, dropped>>
-----------------------------------------------------------------------------
\* Mutant: the outage counts as time that the alert has been active.
RestoredActiveAtOutage(s, ts) ==
  LET remaining == HoldDuration - (Seconds(s.t) - s.v)
  IN  IF remaining > 0 /\ remaining < ForGracePeriod THEN ts + ForGracePeriod - HoldDuration ELSE s.v

\* RestoreForState: the new ActiveAt from the last sample.
RestoredActiveAt(s, ts) ==
  LET downAt    == Seconds(s.t)
      remaining == HoldDuration - (downAt - s.v)
  IN  IF remaining <= 0 THEN s.v
      ELSE IF remaining < ForGracePeriod THEN ts + ForGracePeriod - HoldDuration
      ELSE s.v + (ts - downAt)

\* run: after the second evaluation.  Without a querier it returns at once,
\* and the rule is never restored; the query for the series may fail too.
RestoreForState ==
  /\ shouldRestore /\ evals = 2
  /\ shouldRestore' = FALSE
  /\ \/ UNCHANGED <<actives, restored>>
     \/ restored' = TRUE /\ UNCHANGED actives
     \/ /\ HoldDuration >= ForGracePeriod
        /\ restored' = TRUE
        /\ actives' = [fp \in DOMAIN actives |->
                         LET s == forState[fp]
                         IN  IF s.stale \/ s.t < now - OutageTolerance THEN actives[fp]
                             ELSE [actives[fp] EXCEPT !.activeAt = RestoredActiveAt(s, now)]]
  /\ UNCHANGED <<now, evals, forState, prevSeries, told, dropped, fails, heldFor>>

\* A crash, and a start after an outage.
Restart(outage) ==
  /\ now + outage <= MaxNow
  /\ now' = now + outage
  /\ actives' = [fp \in {} |-> NewAlert(0)]
  /\ restored' = FALSE /\ shouldRestore' = TRUE /\ evals' = 0
  /\ prevSeries' = {} /\ told' = {} /\ dropped' = {} /\ fails' = 0
  /\ UNCHANGED <<forState, heldFor>>

\* Manager.Update with a changed group: CopyState takes the alerts over, and
\* a group that is loaded later does not restore.
CopyState ==
  /\ restored' = TRUE /\ shouldRestore' = FALSE
  /\ UNCHANGED <<now, actives, evals, forState, prevSeries, told, dropped, fails, heldFor>>

RuleNext ==
  \/ \E res \in SUBSET Fps : ~(shouldRestore /\ evals = 2) /\ Eval(res)
  \/ ~(shouldRestore /\ evals = 2) /\ EvalFails
  \/ RestoreForState
  \/ \E outage \in 1..MaxNow : Restart(outage)
  \/ CopyState

RuleSpec == RuleInit /\ [][RuleNext]_ruleVars
-----------------------------------------------------------------------------
\* An alert fires only when it has been active for the time of its "for"
\* clause, as far as the stored samples tell, with the evaluations before and
\* after outages added up and but for the second that the stored times may be
\* off by (Eval, RestoreForState).  In a group that is evaluated more often
\* than every second, what the stored times are off by adds up over restarts.
HoldRespected ==
  [][\A fp \in DOMAIN actives' :
       actives'[fp].state = "firing" /\ ~(fp \in DOMAIN actives /\ actives[fp].state = "firing")
         => heldFor'[fp] > HoldDuration - Unit]_ruleVars

\* The receiver never holds an alert to be firing that has ended, and as long
\* as no more than two evaluations fail in a row it does not time out one
\* that has not: "Allow for two Eval or Alertmanager send failures".  Only an
\* alert that Eval forgot because the rule was past its limit stays as the
\* receiver was last told, until it is sent again or times out there.
ReceiverAgrees ==
  \A fp \in told \ dropped :
    /\ fp \in DOMAIN actives /\ actives[fp].state = "firing"
    /\ fails <= 2 => now <= actives[fp].validUntil
=============================================================================
