------------------------------ MODULE Notifier ------------------------------
(***************************************************************************)
(* The notification manager (notifier/notifier.go): rules send alerts into *)
(* a bounded queue, one goroutine takes batches from it and sends them to  *)
(* every set of Alertmanagers, and service discovery and reloads replace   *)
(* the members of the sets.                                                *)
(*                                                                         *)
(* An alert is a number.  Of the relabeling for a set the model has which  *)
(* alerts of a batch it drops, and not what it makes of their labels.      *)
(***************************************************************************)
EXTENDS Integers, Sequences, FiniteSets

CONSTANTS AmSets,        \* the Alertmanager sets
          RelabelSets,   \* those with alert_relabel_configs
          QueueCapacity,
          MaxBatchSize,  \* maxBatchSize
          MaxAlerts,     \* bound on the alerts that are sent
          MaxSend,       \* bound on the alerts of one Send
          DrainOnShutdown

ASSUME NotifierAssumption ==
  /\ RelabelSets \subseteq AmSets
  /\ QueueCapacity \in Nat \ {0} /\ MaxBatchSize \in Nat \ {0}
  /\ MaxAlerts \in Nat /\ MaxSend \in Nat /\ DrainOnShutdown \in BOOLEAN

VARIABLES
  nqueue,    \* the queue
  more,      \* is there a token in the channel more?
  stopReq,   \* is stopRequested closed?
  sender,    \* the progress of sendLoop and drainQueue
  nbatch,    \* the batch being sent
  todo,      \* the sets that sendAll has not visited
  cached,    \* the alerts of cachedPayload, none when it is nil
  success,   \* numSuccess > 0
  members,   \* the sets that have an Alertmanager
  handled,   \* the number of alerts of batches that some Alertmanager took
  ndropped,  \* the metric prometheus_notifications_dropped_total
  submitted  \* the number of alerts sent so far

nVars == <<nqueue, more, stopReq, sender, nbatch, todo, cached, success, members, handled, ndropped, submitted>>

InBatch == {nbatch[i] : i \in DOMAIN nbatch}

NTypeOK ==
  /\ Len(nbatch) <= MaxBatchSize
  /\ sender \in {"top", "select", "send", "more", "drain", "drainSend", "stopped"}
  /\ todo \subseteq AmSets /\ cached \subseteq InBatch /\ members \subseteq AmSets
  /\ handled \in 0..MaxAlerts /\ ndropped \in Nat /\ submitted \in 0..MaxAlerts

NInit ==
  /\ nqueue = <<>> /\ more = FALSE /\ stopReq = FALSE /\ sender = "top"
  /\ nbatch = <<>> /\ todo = {} /\ cached = {} /\ success = FALSE
  /\ members \in SUBSET AmSets
  /\ handled = 0 /\ ndropped = 0 /\ submitted = 0
-----------------------------------------------------------------------------
\* Mutant: the alerts that a full queue loses are not counted.
SendUncounted(k) ==
  /\ k + submitted <= MaxAlerts
  /\ LET alerts == [i \in 1..k |-> submitted + i]
         all    == nqueue \o alerts
     IN  nqueue' = IF Len(all) > QueueCapacity THEN SubSeq(all, Len(all) - QueueCapacity + 1, Len(all)) ELSE all
  /\ submitted' = submitted + k
  /\ more' = TRUE
  /\ UNCHANGED <<stopReq, sender, nbatch, todo, cached, success, members, handled, ndropped>>

\* Send of k alerts that the global relabeling keeps: the newest that fit, first of the batch, then of the queue.
Send(k) ==
  /\ k + submitted <= MaxAlerts
  /\ LET excess == IF k > QueueCapacity THEN k - QueueCapacity ELSE 0
         alerts == [i \in 1..(k - excess) |-> submitted + excess + i]
         over   == Len(nqueue) + Len(alerts) - QueueCapacity
         old    == IF over > 0 THEN over ELSE 0
     IN  /\ nqueue' = SubSeq(nqueue, old + 1, Len(nqueue)) \o alerts
         /\ ndropped' = ndropped + excess + old
  /\ submitted' = submitted + k
  /\ more' = TRUE
  /\ UNCHANGED <<stopReq, sender, nbatch, todo, cached, success, members, handled>>

\* Stop
StopNotifier ==
  /\ ~stopReq /\ stopReq' = TRUE
  /\ UNCHANGED <<nqueue, more, sender, nbatch, todo, cached, success, members, handled, ndropped, submitted>>

\* reload, or ApplyConfig with a changed set: other members, perhaps none.
reload(s) ==
  /\ members' = IF s \in members THEN members \ {s} ELSE members \union {s}
  /\ UNCHANGED <<nqueue, more, stopReq, sender, nbatch, todo, cached, success, handled, ndropped, submitted>>
-----------------------------------------------------------------------------
\* nextBatch, and sendAll up to its loop.
takeBatch(pc) ==
  LET n == IF Len(nqueue) > MaxBatchSize THEN MaxBatchSize ELSE Len(nqueue)
  IN  /\ nbatch' = SubSeq(nqueue, 1, n)
      /\ nqueue' = SubSeq(nqueue, n + 1, Len(nqueue))
      /\ todo' = IF n = 0 THEN {} ELSE AmSets
      /\ cached' = {}
      /\ success' = (n = 0)
      /\ sender' = pc
      /\ UNCHANGED <<stopReq, members, handled, submitted>>

\* sendLoop, its first select: a stop takes priority.
sendLoop ==
  /\ sender = "top"
  /\ sender' = IF stopReq THEN "drain" ELSE "select"
  /\ UNCHANGED <<nqueue, more, stopReq, nbatch, todo, cached, success, members, handled, ndropped, submitted>>

\* Its second select: the token of more.
sendLoopMore ==
  /\ sender = "select" /\ more
  /\ more' = FALSE
  /\ takeBatch("send")
  /\ UNCHANGED ndropped

\* Its second select: the stop.
sendLoopStop ==
  /\ sender = "select" /\ stopReq
  /\ sender' = "drain"
  /\ UNCHANGED <<nqueue, more, stopReq, nbatch, todo, cached, success, members, handled, ndropped, submitted>>

\* sendAll: one set, in the order of a map, of whose alerts relabelAlerts
\* keeps K.  The payload is kept for the next set when neither has a
\* relabeling of its own.
sendAll(s, K) ==
  /\ sender \in {"send", "drainSend"} /\ s \in todo
  /\ K \subseteq InBatch /\ (s \notin RelabelSets => K = InBatch)
  /\ todo' = todo \ {s}
  /\ IF s \notin members \/ K = {} THEN UNCHANGED <<cached, success>>
     ELSE /\ cached' = IF s \in RelabelSets THEN {} ELSE IF cached = {} THEN K ELSE cached
          /\ success' = TRUE \/ UNCHANGED success
  /\ UNCHANGED <<nqueue, more, stopReq, sender, nbatch, members, handled, ndropped, submitted>>

\* sendAll gives up at a set, because the alerts cannot be encoded for it:
\* what the sets before it answer is not waited for.
sendAllGivesUp(s) ==
  /\ sender \in {"send", "drainSend"} /\ s \in todo /\ s \in members
  /\ todo' = {} /\ success' = FALSE
  /\ UNCHANGED <<nqueue, more, stopReq, sender, nbatch, cached, members, handled, ndropped, submitted>>

\* sendAll returns; sendOneBatch counts a batch that no Alertmanager took.
sendOneBatch ==
  /\ sender \in {"send", "drainSend"} /\ todo = {}
  /\ handled' = IF success THEN handled + Len(nbatch) ELSE handled
  /\ ndropped' = IF success THEN ndropped ELSE ndropped + Len(nbatch)
  /\ nbatch' = <<>> /\ cached' = {} /\ success' = FALSE
  /\ sender' = IF sender = "send" THEN "more" ELSE "drain"
  /\ UNCHANGED <<nqueue, more, stopReq, todo, members, submitted>>

\* Mutant: the loop waits for the next Send.
setMoreForgotten ==
  /\ sender = "more"
  /\ sender' = "top"
  /\ UNCHANGED <<nqueue, more, stopReq, nbatch, todo, cached, success, members, handled, ndropped, submitted>>

\* The loop after a batch: the token is put back when alerts are left.
setMore ==
  /\ sender = "more"
  /\ more' = (more \/ nqueue # <<>>)
  /\ sender' = "top"
  /\ UNCHANGED <<nqueue, stopReq, nbatch, todo, cached, success, members, handled, ndropped, submitted>>

\* drainQueue: what is left is sent batch by batch, or counted as dropped.
drainQueue ==
  /\ sender = "drain"
  /\ IF DrainOnShutdown /\ nqueue # <<>> THEN takeBatch("drainSend") /\ UNCHANGED <<more, ndropped>>
     ELSE /\ sender' = "stopped"
          /\ ndropped' = ndropped + Len(nqueue)
          /\ UNCHANGED <<nqueue, more, stopReq, nbatch, todo, cached, success, members, handled, submitted>>

senderStep ==
  \/ sendLoop \/ sendLoopMore \/ sendLoopStop \/ sendOneBatch \/ setMore \/ drainQueue
  \/ \E s \in AmSets : (\E K \in SUBSET InBatch : sendAll(s, K)) \/ sendAllGivesUp(s)

NNext ==
  \/ \E k \in 1..MaxSend : Send(k)
  \/ StopNotifier
  \/ \E s \in AmSets : reload(s)
  \/ senderStep

\* The goroutine of the sender runs; a request to an Alertmanager times out.
NSpec == NInit /\ [][NNext]_nVars /\ WF_nVars(senderStep)
-----------------------------------------------------------------------------
\* Every alert is in the queue or in the batch, was in a batch of which some
\* Alertmanager took what was meant for it, or is counted as dropped:
\* overflow, a send that failed everywhere or was given up, members that a
\* reload took away, and a shutdown lose none silently.  The payload that is
\* kept for the next set has the whole batch, whatever the relabeling of
\* another set dropped from it.  The queue stays within its capacity.
AlertsAccounted ==
  /\ sender # "stopped" => submitted = Len(nqueue) + Len(nbatch) + handled + ndropped
  /\ cached # {} => cached = InBatch
  /\ Len(nqueue) <= QueueCapacity

\* Alerts in the queue are sent although nobody calls Send again: the token
\* is not lost between a batch and the next one.  A stop ends the sender.
QueueDrains ==
  /\ []<>(nqueue = <<>> \/ sender = "stopped")
  /\ []<>(stopReq => sender = "stopped")
=============================================================================
