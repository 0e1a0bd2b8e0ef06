---------------------------- MODULE RemoteWrite -----------------------------
(***************************************************************************)
(* The shards of a remote-write queue (storage/remote/queue_manager.go):   *)
(* the WAL watcher appends samples to the batch of the shard of their      *)
(* series, every shard sends its batches one after the other and retries,  *)
(* and a reshard stops all shards and starts others.                       *)
(*                                                                         *)
(* The samples of a series are numbered.  The endpoint may take a request  *)
(* whose answer is lost, and then gets the same request again.             *)
(***************************************************************************)
EXTENDS Integers, Sequences, FiniteSets

CONSTANTS RwSeries,   \* the references, natural numbers
          MaxSent,    \* bound on the samples of a series
          BatchSize,  \* MaxSamplesPerSend
          ChanSize,   \* the capacity of batchQueue
          MaxShards,  \* MaxShards
          MaxReshards,\* bound on reshards
          RwRaces     \* "flush": the timer of a shard may fire between the two
                      \* critical sections of FlushAndShutdown

ASSUME RwAssumption ==
  /\ RwSeries \subseteq Nat /\ MaxSent \in Nat /\ MaxReshards \in Nat
  /\ BatchSize \in Nat \ {0} /\ ChanSize \in Nat \ {0} /\ MaxShards \in Nat \ {0}
  /\ RwRaces \subseteq {"flush"}

VARIABLES
  rwShards,  \* len(s.queues)
  rwQueue,   \* of each shard: batch, batchQueue and whether it is closed
  rwShard,   \* runShard of each shard, and the batch it sends
  flushing,  \* FlushAndShutdown of each shard
  stopper,   \* the progress of shards.stop
  quit,      \* has QueueManager.Stop closed quit?
  hard,      \* has hardShutdown been called?
  reshards,
  enqueued,  \* enqueuedSamples
  reported,  \* samplesDroppedOnHardShutdown
  appended,  \* the number of samples of each series that were enqueued
  settled,   \* of each series, the last sample whose request has ended
  sent,      \* the samples that the endpoint has taken
  given,     \* the samples given up: refused, or lost in a hard shutdown
  lost       \* those that the hard shutdown under way has lost

rwVars == <<rwShards, rwQueue, rwShard, flushing, stopper, quit, hard, reshards, enqueued, reported, appended,
            settled, sent, given, lost>>

Shards == 0..(MaxShards - 1)
Running == 0..(rwShards - 1)
NewQueue == [batch |-> <<>>, chan |-> <<>>, closed |-> FALSE]
IdleShard == [pc |-> "select", batch |-> <<>>]
NoShard == [pc |-> "exit", batch |-> <<>>]

\* The samples in a sequence of batches.
Samples(batches) == UNION {{batches[k][j] : j \in DOMAIN batches[k]} : k \in DOMAIN batches}
InQueue(i) == Samples(Append(rwQueue[i].chan, rwQueue[i].batch))
InShard(i) == Samples(<<rwShard[i].batch>>)

RwInit ==
  /\ rwShards = 1
  /\ rwQueue = [i \in Shards |-> NewQueue]
  /\ rwShard = [i \in Shards |-> IF i < 1 THEN IdleShard ELSE NoShard]
  /\ flushing = [i \in Shards |-> "no"]
  /\ stopper = "no" /\ quit = FALSE /\ hard = FALSE /\ reshards = 0
  /\ enqueued = 0 /\ reported = 0
  /\ appended = [r \in RwSeries |-> 0]
  /\ settled = [r \in RwSeries |-> 0]
  /\ sent = {} /\ given = {} /\ lost = {}
-----------------------------------------------------------------------------
\* Mutant: a batch that finds no room in the channel is forgotten.
enqueueForgetting(r) ==
  /\ stopper = "no" /\ ~quit /\ appended[r] < MaxSent
  /\ LET i     == r % rwShards
         batch == Append(rwQueue[i].batch, <<r, appended[r] + 1>>)
         chan  == rwQueue[i].chan
     IN  rwQueue' = [rwQueue EXCEPT ![i] = IF Len(batch) < BatchSize THEN [@ EXCEPT !.batch = batch]
                                           ELSE IF Len(chan) = ChanSize THEN [@ EXCEPT !.batch = <<>>]
                                           ELSE [@ EXCEPT !.batch = <<>>, !.chan = Append(chan, batch)]]
  /\ appended' = [appended EXCEPT ![r] = @ + 1]
  /\ enqueued' = enqueued + 1
  /\ UNCHANGED <<rwShards, rwShard, flushing, stopper, quit, hard, reshards, reported, settled, sent, given, lost>>

\* shards.enqueue and queue.Append.  A full batch goes to the channel; when
\* that is full too the sample is taken back and QueueManager.Append retries.
enqueue(r) ==
  /\ stopper = "no" /\ ~quit /\ appended[r] < MaxSent
  /\ LET i     == r % rwShards
         batch == Append(rwQueue[i].batch, <<r, appended[r] + 1>>)
         chan  == rwQueue[i].chan
         full  == Len(batch) = BatchSize
     IN  /\ full => Len(chan) < ChanSize
         /\ rwQueue' = [rwQueue EXCEPT ![i] = IF full THEN [@ EXCEPT !.batch = <<>>, !.chan = Append(chan, batch)]
                                              ELSE [@ EXCEPT !.batch = batch]]
  /\ appended' = [appended EXCEPT ![r] = @ + 1]
  /\ enqueued' = enqueued + 1
  /\ UNCHANGED <<rwShards, rwShard, flushing, stopper, quit, hard, reshards, reported, settled, sent, given, lost>>
-----------------------------------------------------------------------------
\* runShard: a batch from the channel (or by queue.Batch, which prefers one).
receiveBatch(i) ==
  /\ rwShard[i].pc = "select" /\ rwQueue[i].chan # <<>>
  /\ rwShard' = [rwShard EXCEPT ![i] = [pc |-> "send", batch |-> Head(rwQueue[i].chan)]]
  /\ rwQueue' = [rwQueue EXCEPT ![i].chan = Tail(@)]
  /\ UNCHANGED <<rwShards, flushing, stopper, quit, hard, reshards, enqueued, reported, appended, settled, sent, given, lost>>

\* Mutant: the partial batch is taken although older ones are waiting.
BatchFirst(i) ==
  /\ rwShard[i].pc = "select" /\ ~rwQueue[i].closed
  /\ rwQueue[i].batch # <<>> /\ flushing[i] # "close"
  /\ rwShard' = [rwShard EXCEPT ![i] = [pc |-> "send", batch |-> rwQueue[i].batch]]
  /\ rwQueue' = [rwQueue EXCEPT ![i].batch = <<>>]
  /\ UNCHANGED <<rwShards, flushing, stopper, quit, hard, reshards, enqueued, reported, appended, settled, sent, given, lost>>

\* runShard: the timer, and queue.Batch when the channel is empty.
Batch(i) ==
  /\ rwShard[i].pc = "select" /\ ~rwQueue[i].closed
  /\ rwQueue[i].chan = <<>> /\ rwQueue[i].batch # <<>>
  /\ "flush" \notin RwRaces => flushing[i] # "close"
  /\ rwShard' = [rwShard EXCEPT ![i] = [pc |-> "send", batch |-> rwQueue[i].batch]]
  /\ rwQueue' = [rwQueue EXCEPT ![i].batch = <<>>]
  /\ UNCHANGED <<rwShards, flushing, stopper, quit, hard, reshards, enqueued, reported, appended, settled, sent, given, lost>>

\* runShard: the channel is closed and empty.
exitClosed(i) ==
  /\ rwShard[i].pc = "select" /\ rwQueue[i].closed /\ rwQueue[i].chan = <<>>
  /\ rwShard' = [rwShard EXCEPT ![i] = NoShard]
  /\ UNCHANGED <<rwShards, rwQueue, flushing, stopper, quit, hard, reshards, enqueued, reported, appended, settled,
                 sent, given, lost>>

\* runShard: the hard shutdown.
exitHard(i) ==
  /\ rwShard[i].pc = "select" /\ hard
  /\ reported' = reported + enqueued
  /\ \E left \in {{x \in InQueue(i) : x[2] > settled[x[1]]}} :
       lost' = lost \union left /\ given' = given \union left
  /\ rwShard' = [rwShard EXCEPT ![i] = NoShard]
  /\ UNCHANGED <<rwShards, rwQueue, flushing, stopper, quit, hard, reshards, enqueued, appended, settled, sent>>

\* The request of a shard ends, and updateMetrics.
requestEnds(i) ==
  /\ settled' = [r \in RwSeries |-> LET last == {x[2] : x \in {x \in InShard(i) : x[1] = r}}
                                    IN  CHOOSE n \in last \union {settled[r]} : \A m \in last \union {settled[r]} : m <= n]
  /\ enqueued' = enqueued - Len(rwShard[i].batch)
  /\ rwShard' = [rwShard EXCEPT ![i] = IdleShard]
  /\ UNCHANGED <<rwShards, rwQueue, flushing, stopper, quit, hard, reshards, reported, appended, lost>>

\* client().Store succeeds.
Store(i) ==
  /\ rwShard[i].pc = "send"
  /\ requestEnds(i)
  /\ sent' = sent \union InShard(i)
  /\ UNCHANGED given

\* A recoverable error, though the endpoint may have taken the request:
\* sendWriteRequestWithBackoff tries again until the shutdown is hard.
StoreRetried(i) ==
  /\ rwShard[i].pc = "send" /\ ~hard
  /\ sent' = sent \union InShard(i)
  /\ UNCHANGED <<rwShards, rwQueue, rwShard, flushing, stopper, quit, hard, reshards, enqueued, reported, appended,
                 settled, given, lost>>

\* The request is given up: the endpoint refused it, or the context is
\* cancelled, perhaps after the endpoint has taken it.
StoreFailed(i) ==
  /\ rwShard[i].pc = "send"
  /\ requestEnds(i)
  /\ given' = given \union InShard(i)
  /\ UNCHANGED sent
-----------------------------------------------------------------------------
\* reshardLoop: shards.stop closes softShutdown.
stop ==
  /\ stopper = "no" /\ ~quit /\ reshards < MaxReshards
  /\ reshards' = reshards + 1
  /\ stopper' = "lock"
  /\ UNCHANGED <<rwShards, rwQueue, rwShard, flushing, quit, hard, enqueued, reported, appended, settled, sent, given, lost>>

\* QueueManager.Stop: reshardLoop has ended, then the last shards.stop.
Stop ==
  /\ stopper = "no" /\ ~quit
  /\ quit' = TRUE
  /\ stopper' = "lock"
  /\ UNCHANGED <<rwShards, rwQueue, rwShard, flushing, hard, reshards, enqueued, reported, appended, settled, sent, given, lost>>

\* With the lock, every queue is flushed by a goroutine of its own.
stopLocked ==
  /\ stopper = "lock"
  /\ flushing' = [i \in Shards |-> IF i \in Running THEN "try" ELSE "no"]
  /\ stopper' = "flush"
  /\ UNCHANGED <<rwShards, rwQueue, rwShard, quit, hard, reshards, enqueued, reported, appended, settled, sent, given, lost>>

\* All shards have exited: done is closed.
done == \A i \in Running : rwShard[i].pc = "exit"

\* tryEnqueueingBatch: it leaves the batch where it is.
tryEnqueueingBatch(i) ==
  /\ flushing[i] = "try"
  /\ \/ (rwQueue[i].batch = <<>> \/ done) /\ UNCHANGED rwQueue
     \/ /\ rwQueue[i].batch # <<>> /\ Len(rwQueue[i].chan) < ChanSize
        /\ rwQueue' = [rwQueue EXCEPT ![i].chan = Append(@, rwQueue[i].batch)]
  /\ flushing' = [flushing EXCEPT ![i] = "close"]
  /\ UNCHANGED <<rwShards, rwShard, stopper, quit, hard, reshards, enqueued, reported, appended, settled, sent, given, lost>>

\* The second critical section of FlushAndShutdown closes the channel.
FlushAndShutdown(i) ==
  /\ flushing[i] = "close"
  /\ rwQueue' = [rwQueue EXCEPT ![i].batch = <<>>, ![i].closed = TRUE]
  /\ flushing' = [flushing EXCEPT ![i] = "done"]
  /\ UNCHANGED <<rwShards, rwShard, stopper, quit, hard, reshards, enqueued, reported, appended, settled, sent, given, lost>>

\* Mutant: the requests under way are not cancelled.
hardShutdownPatient ==
  /\ stopper = "flush" /\ ~done
  /\ stopper' = "hard"
  /\ UNCHANGED <<rwShards, rwQueue, rwShard, flushing, quit, hard, reshards, enqueued, reported, appended, settled, sent, given, lost>>

\* flushDeadline has passed.
hardShutdown ==
  /\ stopper = "flush" /\ ~done
  /\ hard' = TRUE /\ stopper' = "hard"
  /\ UNCHANGED <<rwShards, rwQueue, rwShard, flushing, quit, reshards, enqueued, reported, appended, settled, sent, given, lost>>

\* shards.stop returns, and shards.start with the new number of shards.
start ==
  /\ stopper \in {"flush", "hard"} /\ ~quit /\ done
  /\ \E n \in 1..MaxShards :
       /\ rwShards' = n
       /\ rwShard' = [i \in Shards |-> IF i < n THEN IdleShard ELSE NoShard]
  /\ rwQueue' = [i \in Shards |-> NewQueue]
  /\ flushing' = [i \in Shards |-> "no"]
  /\ stopper' = "no" /\ hard' = FALSE /\ enqueued' = 0 /\ reported' = 0 /\ lost' = {}
  /\ UNCHANGED <<quit, reshards, appended, settled, sent, given>>

\* The shards.stop of QueueManager.Stop returns.
stopped ==
  /\ stopper \in {"flush", "hard"} /\ quit /\ done
  /\ stopper' = "stopped"
  /\ rwQueue' = [i \in Shards |-> NewQueue]
  /\ flushing' = [i \in Shards |-> "no"]
  /\ UNCHANGED <<rwShards, rwShard, quit, hard, reshards, enqueued, reported, appended, settled, sent, given, lost>>

shardStep(i) == receiveBatch(i) \/ Batch(i) \/ exitClosed(i) \/ exitHard(i)
stopStep == stopLocked \/ hardShutdown \/ start \/ stopped
flushStep(i) == tryEnqueueingBatch(i) \/ FlushAndShutdown(i)

RwNext ==
  \/ \E r \in RwSeries : enqueue(r)
  \/ \E i \in Shards : shardStep(i) \/ Store(i) \/ StoreRetried(i) \/ StoreFailed(i) \/ flushStep(i)
  \/ stop \/ Stop \/ stopStep

\* The goroutines of the shards, of the flushes and of stop run, and a request
\* whose context is cancelled returns.  The endpoint may never answer.
requestAborted(i) == hard /\ (Store(i) \/ StoreFailed(i))

RwFairness ==
  /\ WF_rwVars(stopStep)
  /\ \A i \in Shards : WF_rwVars(shardStep(i)) /\ WF_rwVars(flushStep(i)) /\ WF_rwVars(requestAborted(i))

RwSpec == RwInit /\ [][RwNext]_rwVars /\ RwFairness
-----------------------------------------------------------------------------
\* "we only every deliver samples in order": a request holds the samples of a
\* series in order, all of them later than those of the requests that have
\* ended, and no two shards send the same series (reshardLoop).
DeliveredInOrder ==
  \A i \in Shards : rwShard[i].pc = "send" =>
    LET b == rwShard[i].batch
    IN  /\ \A k \in DOMAIN b : b[k][2] > settled[b[k][1]]
        /\ \A k, l \in DOMAIN b : k < l /\ b[k][1] = b[l][1] => b[k][2] < b[l][2]
        /\ \A j \in Shards \ {i} : {x[1] : x \in InShard(i)} \cap {x[1] : x \in InShard(j)} = {}

\* A sample that was enqueued is in a queue, in a request, at the endpoint,
\* or was given up for a reason: a reshard loses none of its own accord.  What
\* a hard shutdown loses it reports: each shard reports the samples of all
\* shards, so the number may be too large but is never too small.
NoSampleLost ==
  /\ \A r \in RwSeries : \A n \in 1..appended[r] :
       <<r, n>> \in sent \union given \union UNION {InQueue(i) \union InShard(i) : i \in Shards}
  /\ stopper = "hard" /\ done => reported >= Cardinality(lost)

\* Stopping the shards ends, whatever the endpoint does (shards.stop).
StopEnds == []<>(stopper \in {"no", "stopped"})
=============================================================================
