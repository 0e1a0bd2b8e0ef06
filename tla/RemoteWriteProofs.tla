------------------------- MODULE RemoteWriteProofs --------------------------
(***************************************************************************)
(* Remote write delivers the samples of a series in order and loses none   *)
(* unreported, for any number of shards, series and samples, as long as    *)
(* the timer of a shard does not fire between the two critical sections of *)
(* FlushAndShutdown.                                                       *)
(***************************************************************************)
EXTENDS RemoteWrite, TLAPS

Smp == RwSeries \X Nat
Queue == [batch : Seq(Smp), chan : Seq(Seq(Smp)), closed : BOOLEAN]
FlushState == {"no", "try", "close", "done"}
ShardState == [pc : {"select", "send", "exit"}, batch : Seq(Smp)]

RwTypeOK ==
  /\ rwShards \in 1..MaxShards
  /\ rwQueue \in [Shards -> Queue]
  /\ rwShard \in [Shards -> ShardState]
  /\ flushing \in [Shards -> FlushState]
  /\ stopper \in {"no", "lock", "flush", "hard", "stopped"}
  /\ quit \in BOOLEAN /\ hard \in BOOLEAN
  /\ enqueued \in Int /\ reported \in Nat
  /\ appended \in [RwSeries -> Nat]
  /\ settled \in [RwSeries -> Nat]

\* The samples of a batch, and of a channel of batches.
Elems(b) == {b[k] : k \in 1..Len(b)}
ChanElems(c) == UNION {Elems(c[k]) : k \in 1..Len(c)}

\* All that a shard with queue q and state sh holds, and what of it is still
\* to be sent: while it is flushed (fl), a batch that went to the channel is
\* still there to be taken back.
AllOf(q, sh) == Elems(sh.batch) \union ChanElems(q.chan) \union Elems(q.batch)
LiveOf(q, sh, fl) == Elems(sh.batch) \union ChanElems(q.chan) \union IF fl = "close" THEN {} ELSE Elems(q.batch)

All(i) == AllOf(rwQueue[i], rwShard[i])
Live(i) == LiveOf(rwQueue[i], rwShard[i], flushing[i])
NextLive(i) == LiveOf(rwQueue'[i], rwShard'[i], flushing'[i])
Pending == UNION {Live(i) : i \in Shards}

\* The samples of a batch are in order, and those of one set before another.
Sorted(b) == \A k, l \in 1..Len(b) : k < l /\ b[k][1] = b[l][1] => b[k][2] < b[l][2]
Before(X, Y) == \A x \in X, y \in Y : x[1] = y[1] => x[2] < y[2]

\* The batch b that is sent, then the batches of the channel c, are in order.
LineOK(b, c) ==
  /\ Sorted(b)
  /\ \A k \in 1..Len(c) : Sorted(c[k]) /\ Before(Elems(b), Elems(c[k]))
  /\ \A k, l \in 1..Len(c) : k < l => Before(Elems(c[k]), Elems(c[l]))

Line(q, sh, fl) ==
  /\ LineOK(sh.batch, q.chan)
  /\ Sorted(q.batch)
  /\ fl # "close" => Before(Elems(sh.batch) \union ChanElems(q.chan), Elems(q.batch))

\* A batch that may be thrown away is in the channel, in the request or has
\* ended (out), and is then settled (set) while the shard runs.  A shard that
\* has exited leaves nothing that has not ended.
Gone(q, sh, fl, out, set) ==
  /\ fl = "close" => \A x \in Elems(q.batch) : \/ x \in ChanElems(q.chan) \union Elems(sh.batch)
                                               \/ x \in out /\ (sh.pc = "exit" \/ x[2] <= set[x[1]])
  /\ sh.pc = "exit" => ChanElems(q.chan) \union Elems(q.batch) \subseteq out
  /\ sh.pc # "send" => sh.batch = <<>>
  /\ q.closed => q.batch = <<>>

\* A series is in the shard that its reference says, and what is to be sent
\* comes after what has been settled.
PlaceInv ==
  /\ \A i \in Shards : \A x \in Live(i) :
       x[1] % rwShards = i /\ settled[x[1]] < x[2] /\ x[2] <= appended[x[1]]
  /\ \A r \in RwSeries : settled[r] <= appended[r]

LocalInv ==
  \A i \in Shards : /\ Line(rwQueue[i], rwShard[i], flushing[i])
                    /\ Gone(rwQueue[i], rwShard[i], flushing[i], sent \union given, settled)

\* Which shards run, and how far their stopping is.
StopInv ==
  /\ hard => stopper \in {"hard", "stopped"}
  /\ stopper \in {"no", "lock"} => \A i \in Shards : flushing[i] = "no" /\ ~rwQueue[i].closed
  /\ stopper \in {"no", "lock"} => \A i \in Running : rwShard[i].pc # "exit"
  /\ \A i \in Shards \ Running : rwShard[i] = NoShard /\ rwQueue[i] = NewQueue /\ flushing[i] = "no"

KeptInv ==
  \A r \in RwSeries : \A n \in 1..appended[r] :
    <<r, n>> \in sent \union given \union UNION {All(i) : i \in Shards}

\* enqueuedSamples is not less than what is to be sent, and once a shard has
\* reported it, not less than what is lost and may still be lost.
CountInv ==
  /\ IsFiniteSet(Pending) /\ Cardinality(Pending) <= enqueued
  /\ lost = {} \/ /\ stopper \in {"hard", "stopped"}
                  /\ IsFiniteSet(lost) /\ Cardinality(lost \union Pending) <= reported

RwInv == RwTypeOK /\ LocalInv /\ PlaceInv /\ StopInv /\ KeptInv /\ CountInv
-----------------------------------------------------------------------------
LEMMA ElemsType ==
  ASSUME NEW b \in Seq(Smp)
  PROVE  Len(b) \in Nat /\ Elems(b) \subseteq Smp /\ (\A k \in 1..Len(b) : b[k] \in Elems(b) /\ b[k] \in Smp)
BY DEF Elems

LEMMA ElemsEmpty == Elems(<<>>) = {} /\ ChanElems(<<>>) = {}
BY DEF Elems, ChanElems

LEMMA ElemsAppend ==
  ASSUME NEW b \in Seq(Smp), NEW x \in Smp
  PROVE  Append(b, x) \in Seq(Smp) /\ Elems(Append(b, x)) = Elems(b) \union {x}
<1>1. /\ Append(b, x) \in Seq(Smp) /\ Len(Append(b, x)) = Len(b) + 1 /\ Len(b) \in Nat
      /\ \A k \in 1..Len(b) : Append(b, x)[k] = b[k]
      /\ Append(b, x)[Len(b) + 1] = x
  OBVIOUS
<1> QED
  BY <1>1 DEF Elems

LEMMA ChanAppend ==
  ASSUME NEW c \in Seq(Seq(Smp)), NEW b \in Seq(Smp)
  PROVE  /\ Append(c, b) \in Seq(Seq(Smp))
         /\ ChanElems(Append(c, b)) = ChanElems(c) \union Elems(b)
<1>1. /\ Append(c, b) \in Seq(Seq(Smp)) /\ Len(Append(c, b)) = Len(c) + 1 /\ Len(c) \in Nat
      /\ \A k \in 1..Len(c) : Append(c, b)[k] = c[k]
      /\ Append(c, b)[Len(c) + 1] = b
  OBVIOUS
<1>2. ChanElems(Append(c, b)) \subseteq ChanElems(c) \union Elems(b)
  BY <1>1 DEF ChanElems
<1>3. \A k \in 1..Len(c) : k \in 1..(Len(c) + 1)
  BY <1>1
<1>4. Len(c) + 1 \in 1..(Len(c) + 1)
  BY <1>1
<1>5. ChanElems(c) \union Elems(b) \subseteq ChanElems(Append(c, b))
  BY <1>1, <1>3, <1>4, Zenon DEF ChanElems
<1> QED
  BY <1>1, <1>2, <1>5, Zenon

LEMMA ChanTail ==
  ASSUME NEW c \in Seq(Seq(Smp)), c # <<>>
  PROVE  /\ Head(c) \in Seq(Smp) /\ Tail(c) \in Seq(Seq(Smp))
         /\ ChanElems(c) = Elems(Head(c)) \union ChanElems(Tail(c))
<1>1. /\ Head(c) \in Seq(Smp) /\ Tail(c) \in Seq(Seq(Smp)) /\ Len(c) \in Nat \ {0}
      /\ Len(Tail(c)) = Len(c) - 1
      /\ \A k \in 1..(Len(c) - 1) : Tail(c)[k] = c[k + 1]
      /\ Head(c) = c[1]
  OBVIOUS
<1>2. \A k \in 1..Len(c) : k = 1 \/ (k - 1 \in 1..(Len(c) - 1) /\ Tail(c)[k - 1] = c[k])
  BY <1>1
<1>3. ChanElems(c) \subseteq Elems(Head(c)) \union ChanElems(Tail(c))
  <2>1. SUFFICES ASSUME NEW v \in ChanElems(c)
                 PROVE  v \in Elems(Head(c)) \union ChanElems(Tail(c))
    BY Zenon
  <2>2. PICK k \in 1..Len(c) : v \in Elems(c[k])
    BY Zenon DEF ChanElems
  <2>3. CASE k = 1
    BY <1>1, <2>2, <2>3, Zenon
  <2>4. CASE k # 1
    <3>1. k - 1 \in 1..Len(Tail(c)) /\ v \in Elems(Tail(c)[k - 1])
      BY <1>1, <1>2, <2>2, <2>4, Zenon
    <3> QED
      BY <3>1, Zenon DEF ChanElems
  <2> QED
    BY <2>3, <2>4, Zenon
<1>4. \A k \in 1..(Len(c) - 1) : k + 1 \in 1..Len(c)
  BY <1>1
<1>5. Elems(Head(c)) \union ChanElems(Tail(c)) \subseteq ChanElems(c)
  BY <1>1, <1>4 DEF ChanElems
<1> QED
  BY <1>1, <1>3, <1>5, Zenon

\* A sample that comes after those of its series in the batch.
LEMMA SortedAppend ==
  ASSUME NEW b \in Seq(Smp), NEW x \in Smp, Sorted(b), Before(Elems(b), {x})
  PROVE  Sorted(Append(b, x))
<1> DEFINE d == Append(b, x)
<1>1. /\ Len(d) = Len(b) + 1 /\ Len(b) \in Nat
      /\ \A k \in 1..Len(b) : d[k] = b[k]
      /\ d[Len(b) + 1] = x
  OBVIOUS
<1> HIDE DEF d
<1>2. ASSUME NEW k \in 1..Len(d), NEW l \in 1..Len(d), k < l, d[k][1] = d[l][1]
      PROVE  d[k][2] < d[l][2]
  <2>1. k \in 1..Len(b) /\ d[k] = b[k] /\ b[k] \in Elems(b)
    BY <1>1, <1>2 DEF Elems
  <2>2. CASE l = Len(b) + 1
    BY <1>1, <1>2, <2>1, <2>2, Zenon DEF Before
  <2>3. CASE l \in 1..Len(b)
    BY <1>1, <1>2, <2>1, <2>3, Zenon DEF Sorted
  <2> QED
    BY <1>1, <2>2, <2>3
<1> QED
  BY <1>2, Zenon DEF Sorted, d

\* A batch that comes after the others goes to the end of the channel.
LEMMA LineAppend ==
  ASSUME NEW b \in Seq(Smp), NEW c \in Seq(Seq(Smp)), NEW d \in Seq(Smp),
         LineOK(b, c), Sorted(d), Before(Elems(b) \union ChanElems(c), Elems(d))
  PROVE  LineOK(b, Append(c, d))
<1> DEFINE e == Append(c, d)
<1>1. /\ Len(e) = Len(c) + 1 /\ Len(c) \in Nat
      /\ \A k \in 1..Len(c) : e[k] = c[k]
      /\ e[Len(c) + 1] = d
  OBVIOUS
<1> HIDE DEF e
<1>2. ASSUME NEW k \in 1..Len(e) PROVE Sorted(e[k]) /\ Before(Elems(b), Elems(e[k]))
  <2>1. CASE k = Len(c) + 1
    BY <1>1, <2>1, Zenon DEF Before
  <2>2. CASE k \in 1..Len(c)
    BY <1>1, <2>2, Zenon DEF LineOK
  <2> QED
    BY <1>1, <2>1, <2>2
<1>3. ASSUME NEW k \in 1..Len(e), NEW l \in 1..Len(e), k < l
      PROVE  Before(Elems(e[k]), Elems(e[l]))
  <2>1. k \in 1..Len(c) /\ e[k] = c[k]
    BY <1>1, <1>3
  <2>2. CASE l = Len(c) + 1
    <3>1. Elems(c[k]) \subseteq ChanElems(c)
      BY <2>1, Zenon DEF ChanElems
    <3> QED
      BY <1>1, <2>1, <2>2, <3>1, Zenon DEF Before
  <2>3. CASE l \in 1..Len(c)
    BY <1>1, <1>3, <2>1, <2>3, Zenon DEF LineOK
  <2> QED
    BY <1>1, <2>2, <2>3
<1> QED
  BY <1>2, <1>3, Zenon DEF LineOK, e

\* A shard takes the first batch of the channel.
LEMMA LineReceive ==
  ASSUME NEW b, NEW c \in Seq(Seq(Smp)), c # <<>>, LineOK(b, c)
  PROVE  LineOK(Head(c), Tail(c))
<1> DEFINE e == Tail(c)
<1>1. /\ Len(c) \in Nat \ {0} /\ Len(e) = Len(c) - 1
      /\ \A k \in 1..(Len(c) - 1) : e[k] = c[k + 1]
      /\ Head(c) = c[1]
  OBVIOUS
<1> HIDE DEF e
<1>2. ASSUME NEW k \in 1..Len(e) PROVE Sorted(e[k]) /\ Before(Elems(c[1]), Elems(e[k]))
  <2>1. 1 \in 1..Len(c) /\ k + 1 \in 1..Len(c) /\ e[k] = c[k + 1] /\ 1 < k + 1
    BY <1>1
  <2> QED
    BY <2>1, Zenon DEF LineOK
<1>3. ASSUME NEW k \in 1..Len(e), NEW l \in 1..Len(e), k < l
      PROVE  Before(Elems(e[k]), Elems(e[l]))
  <2>1. k + 1 \in 1..Len(c) /\ e[k] = c[k + 1] /\ l + 1 \in 1..Len(c) /\ e[l] = c[l + 1] /\ k + 1 < l + 1
    BY <1>1, <1>3
  <2> QED
    BY <2>1, Zenon DEF LineOK
<1>4. Sorted(c[1])
  BY <1>1 DEF LineOK
<1> QED
  BY <1>1, <1>2, <1>3, <1>4, Zenon DEF LineOK, e

\* A request ends, or one with a partial batch begins.
LEMMA LineEnds ==
  /\ \A b, c : LineOK(b, c) => LineOK(<<>>, c)
  /\ \A d : Sorted(d) => LineOK(d, <<>>)
<1>1. Elems(<<>>) = {} /\ Sorted(<<>>) /\ \A Y : Before({}, Y)
  BY ElemsEmpty DEF Sorted, Before
<1>2. ASSUME NEW b, NEW c, LineOK(b, c) PROVE LineOK(<<>>, c)
  BY <1>1, <1>2, Zenon DEF LineOK
<1>3. ASSUME NEW d, Sorted(d) PROVE LineOK(d, <<>>)
  BY <1>3 DEF LineOK
<1> QED
  BY <1>2, <1>3, Zenon
-----------------------------------------------------------------------------
\* What is known of one shard.
LEMMA ShardTypes ==
  ASSUME RwInv, NEW i \in Shards
  PROVE  /\ rwQueue[i] \in Queue /\ rwShard[i] \in ShardState
         /\ rwQueue[i].batch \in Seq(Smp) /\ rwQueue[i].chan \in Seq(Seq(Smp)) /\ rwQueue[i].closed \in BOOLEAN
         /\ rwShard[i].batch \in Seq(Smp) /\ rwShard[i].pc \in {"select", "send", "exit"}
         /\ flushing[i] \in FlushState
         /\ Line(rwQueue[i], rwShard[i], flushing[i])
         /\ Gone(rwQueue[i], rwShard[i], flushing[i], sent \union given, settled)
         /\ rwShard[i].pc # "exit" \/ flushing[i] # "no" => i \in Running
         /\ stopper \in {"no", "lock"} => ~rwQueue[i].closed /\ flushing[i] = "no"
<1>1. /\ rwQueue[i] \in Queue /\ rwShard[i] \in ShardState
      /\ flushing[i] \in FlushState
  BY Zenon DEF RwInv, RwTypeOK
<1>2. /\ rwQueue[i].batch \in Seq(Smp) /\ rwQueue[i].chan \in Seq(Seq(Smp)) /\ rwQueue[i].closed \in BOOLEAN
      /\ rwShard[i].batch \in Seq(Smp) /\ rwShard[i].pc \in {"select", "send", "exit"}
  BY <1>1, Zenon DEF Queue, ShardState
<1>3. /\ Line(rwQueue[i], rwShard[i], flushing[i])
      /\ Gone(rwQueue[i], rwShard[i], flushing[i], sent \union given, settled)
  BY Zenon DEF RwInv, LocalInv
<1>4. NoShard.pc = "exit"
  BY Zenon DEF NoShard
<1>5. /\ rwShard[i].pc # "exit" \/ flushing[i] # "no" => i \in Running
      /\ stopper \in {"no", "lock"} => ~rwQueue[i].closed /\ flushing[i] = "no"
  BY <1>4, Zenon DEF RwInv, StopInv
<1> QED
  BY <1>1, <1>2, <1>3, <1>5, Zenon

\* The assignments to fields of a queue, as whole records.
LEMMA QueueRecord ==
  ASSUME NEW q \in Queue, NEW c, NEW b
  PROVE  /\ [q EXCEPT !.chan = c] = [batch |-> q.batch, chan |-> c, closed |-> q.closed]
         /\ [q EXCEPT !.batch = b] = [batch |-> b, chan |-> q.chan, closed |-> q.closed]
         /\ [[q EXCEPT !.batch = b] EXCEPT !.closed = TRUE] = [batch |-> b, chan |-> q.chan, closed |-> TRUE]
<1>1. [q EXCEPT !.chan = c] = [batch |-> q.batch, chan |-> c, closed |-> q.closed]
  BY DEF Queue
<1>2. [q EXCEPT !.batch = b] = [batch |-> b, chan |-> q.chan, closed |-> q.closed]
  BY DEF Queue
<1>3. ASSUME NEW v, NEW r \in [batch : {b}, chan : Seq(Seq(Smp)), closed : BOOLEAN]
      PROVE  [r EXCEPT !.closed = v] = [batch |-> r.batch, chan |-> r.chan, closed |-> v]
  OBVIOUS
<1>4. [batch |-> b, chan |-> q.chan, closed |-> q.closed] \in [batch : {b}, chan : Seq(Seq(Smp)), closed : BOOLEAN]
  BY Zenon DEF Queue
<1>5. ASSUME NEW v
      PROVE  [[batch |-> b, chan |-> q.chan, closed |-> q.closed] EXCEPT !.closed = v] =
               [batch |-> b, chan |-> q.chan, closed |-> v]
  BY <1>3, <1>4, Zenon
<1>6. [[batch |-> b, chan |-> q.chan, closed |-> q.closed] EXCEPT !.closed = TRUE] =
        [batch |-> b, chan |-> q.chan, closed |-> TRUE]
  BY <1>5, Zenon
<1> QED
  BY <1>1, <1>2, <1>6, Zenon

LEMMA QueueFields ==
  ASSUME RwTypeOK, NEW i \in Shards, NEW c, NEW b
  PROVE  /\ [rwQueue EXCEPT ![i].chan = c] =
              [rwQueue EXCEPT ![i] = [batch |-> rwQueue[i].batch, chan |-> c, closed |-> rwQueue[i].closed]]
         /\ [rwQueue EXCEPT ![i].batch = b] =
              [rwQueue EXCEPT ![i] = [batch |-> b, chan |-> rwQueue[i].chan, closed |-> rwQueue[i].closed]]
         /\ [rwQueue EXCEPT ![i].batch = b, ![i].closed = TRUE] =
              [rwQueue EXCEPT ![i] = [batch |-> b, chan |-> rwQueue[i].chan, closed |-> TRUE]]
         /\ [flushing EXCEPT ![i] = flushing[i]] = flushing
         /\ [rwQueue EXCEPT ![i] = rwQueue[i]] = rwQueue
         /\ [rwShard EXCEPT ![i] = rwShard[i]] = rwShard
<1>1. /\ rwQueue \in [Shards -> Queue] /\ rwQueue[i] \in Queue
      /\ rwShard \in [Shards -> ShardState] /\ DOMAIN flushing = Shards
  BY Zenon DEF RwTypeOK
<1>2. /\ [rwQueue[i] EXCEPT !.chan = c] = [batch |-> rwQueue[i].batch, chan |-> c, closed |-> rwQueue[i].closed]
      /\ [rwQueue[i] EXCEPT !.batch = b] = [batch |-> b, chan |-> rwQueue[i].chan, closed |-> rwQueue[i].closed]
      /\ [[rwQueue[i] EXCEPT !.batch = b] EXCEPT !.closed = TRUE] =
           [batch |-> b, chan |-> rwQueue[i].chan, closed |-> TRUE]
  BY <1>1, QueueRecord, Zenon
<1>3. [rwQueue EXCEPT ![i].chan = c] = [rwQueue EXCEPT ![i] = [rwQueue[i] EXCEPT !.chan = c]]
  BY <1>1, Zenon
<1>4. [rwQueue EXCEPT ![i].batch = b] = [rwQueue EXCEPT ![i] = [rwQueue[i] EXCEPT !.batch = b]]
  BY <1>1, Zenon
<1>5. [rwQueue EXCEPT ![i].batch = b, ![i].closed = TRUE] =
        [rwQueue EXCEPT ![i] = [[rwQueue[i] EXCEPT !.batch = b] EXCEPT !.closed = TRUE]]
  BY <1>1, Zenon
<1>6. /\ [flushing EXCEPT ![i] = flushing[i]] = flushing
      /\ [rwQueue EXCEPT ![i] = rwQueue[i]] = rwQueue
      /\ [rwShard EXCEPT ![i] = rwShard[i]] = rwShard
  BY Zenon DEF RwTypeOK
<1> QED
  BY <1>2, <1>3, <1>4, <1>5, <1>6, Zenon

LEMMA RunningShards ==
  ASSUME RwInv
  PROVE  Running \subseteq Shards /\ rwShards \in Nat \ {0}
<1>1. rwShards \in 1..MaxShards /\ MaxShards \in Nat
  BY RwAssumption, Zenon DEF RwInv, RwTypeOK
<1> QED
  BY <1>1 DEF Running, Shards

\* A step of one shard or of its flush that leaves it in order.
LEMMA LocalStep ==
  ASSUME RwInv, NEW i \in Shards, NEW q \in Queue, NEW sh \in ShardState,
         NEW fl \in FlushState,
         rwQueue' = [rwQueue EXCEPT ![i] = q], rwShard' = [rwShard EXCEPT ![i] = sh],
         flushing' = [flushing EXCEPT ![i] = fl],
         sent \subseteq sent', given \subseteq given',
         \A r \in RwSeries : \A n \in 1..appended'[r] : n \in 1..appended[r] \/ <<r, n>> \in AllOf(q, sh),
         settled' \in [RwSeries -> Nat], \A r \in RwSeries : settled[r] <= settled'[r],
         Line(q, sh, fl), Gone(q, sh, fl, sent' \union given', settled'),
         All(i) \subseteq AllOf(q, sh) \union sent' \union given'
  PROVE  /\ rwQueue' \in [Shards -> Queue] /\ rwShard' \in [Shards -> ShardState]
         /\ flushing' \in [Shards -> FlushState]
         /\ LocalInv' /\ KeptInv'
         /\ NextLive(i) = LiveOf(q, sh, fl)
         /\ \A j \in Shards \ {i} : NextLive(j) = Live(j)
<1>1. /\ rwQueue \in [Shards -> Queue] /\ rwShard \in [Shards -> ShardState]
      /\ flushing \in [Shards -> FlushState]
  BY Zenon DEF RwInv, RwTypeOK
<1>2. /\ rwQueue'[i] = q /\ rwShard'[i] = sh /\ flushing'[i] = fl
      /\ \A j \in Shards \ {i} : rwQueue'[j] = rwQueue[j] /\ rwShard'[j] = rwShard[j] /\ flushing'[j] = flushing[j]
  BY <1>1, Zenon
<1>3. ASSUME NEW j \in Shards \ {i}
      PROVE  Gone(rwQueue[j], rwShard[j], flushing[j], sent' \union given', settled')
  <2>1. Gone(rwQueue[j], rwShard[j], flushing[j], sent \union given, settled)
    BY Zenon DEF RwInv, LocalInv
  <2>2. \A x \in Elems(rwQueue[j].batch) : x[2] <= settled[x[1]] => x[2] <= settled'[x[1]]
    <3>1. Elems(rwQueue[j].batch) \subseteq RwSeries \X Nat
      BY ShardTypes, ElemsType, Zenon DEF Smp
    <3>2. settled \in [RwSeries -> Nat]
      BY Zenon DEF RwInv, RwTypeOK
    <3> QED
      BY <3>1, <3>2
  <2> QED
    BY <2>1, <2>2, Zenon DEF Gone
<1>4. LocalInv'
  BY <1>2, <1>3, Zenon DEF RwInv, LocalInv
<1>5. ASSUME NEW j \in Shards PROVE All(j) \subseteq All(j)' \union sent' \union given'
  BY <1>2, Zenon DEF All
<1>6. KeptInv'
  <2> SUFFICES ASSUME NEW r \in RwSeries, NEW n \in 1..appended'[r]
               PROVE  <<r, n>> \in sent' \union given' \union UNION {All(j)' : j \in Shards}
    BY Zenon DEF KeptInv, Shards
  <2>0. CASE <<r, n>> \in AllOf(q, sh)
    BY <1>2, <2>0, Zenon DEF All
  <2>1. n \in 1..appended[r] => <<r, n>> \in sent \union given \union UNION {All(j) : j \in Shards}
    BY Zenon DEF RwInv, KeptInv
  <2>2. CASE <<r, n>> \in sent \union given
    BY <2>2, Zenon
  <2>3. ASSUME NEW j \in Shards, <<r, n>> \in All(j)
        PROVE  <<r, n>> \in sent' \union given' \union UNION {All(k)' : k \in Shards}
    BY <1>5, <2>3, Zenon
  <2> QED
    BY <2>0, <2>1, <2>2, <2>3, Zenon
<1>7. NextLive(i) = LiveOf(q, sh, fl) /\ \A j \in Shards \ {i} : NextLive(j) = Live(j)
  BY <1>2, Zenon DEF Live, NextLive
<1> QED
  BY <1>1, <1>4, <1>6, <1>7, Zenon

\* Such a step is allowed while the shards are stopped.
LEMMA StopStep ==
  ASSUME RwInv, NEW i \in Running, NEW q, NEW sh, NEW fl, UNCHANGED <<rwShards, stopper, hard>>,
         rwQueue' = [rwQueue EXCEPT ![i] = q], rwShard' = [rwShard EXCEPT ![i] = sh],
         flushing' = [flushing EXCEPT ![i] = fl],
         stopper \in {"no", "lock"} => sh.pc # "exit" /\ fl = flushing[i] /\ ~q.closed
  PROVE  StopInv'
<1>1. i \in Shards /\ Running' = Running /\ Running \subseteq Shards
  BY RunningShards, Zenon DEF Running
<1>2. /\ rwShard'[i] = sh /\ flushing'[i] = fl /\ rwQueue'[i] = q
      /\ \A j \in Shards \ {i} : rwQueue'[j] = rwQueue[j] /\ rwShard'[j] = rwShard[j] /\ flushing'[j] = flushing[j]
  BY <1>1, Zenon DEF RwInv, RwTypeOK
<1>3. stopper' = stopper /\ hard' = hard
  BY Zenon
<1>4. stopper \in {"no", "lock"} => \A j \in Shards : flushing'[j] = "no" /\ ~rwQueue'[j].closed
  BY <1>1, <1>2 DEF RwInv, StopInv
<1>5. stopper \in {"no", "lock"} => \A j \in Running : rwShard'[j].pc # "exit"
  BY <1>1, <1>2, Zenon DEF RwInv, StopInv
<1>6. \A j \in Shards \ Running : rwShard'[j] = NoShard /\ rwQueue'[j] = NewQueue /\ flushing'[j] = "no"
  BY <1>1, <1>2, Zenon DEF RwInv, StopInv
<1>7. NoShard' = NoShard /\ NewQueue' = NewQueue /\ Shards' = Shards
  BY Zenon DEF NoShard, NewQueue, Shards
<1>8. hard => stopper \in {"hard", "stopped"}
  BY Zenon DEF RwInv, StopInv
<1> QED
  BY <1>1, <1>3, <1>4, <1>5, <1>6, <1>7, <1>8 DEF StopInv

LEMMA PlaceStep ==
  ASSUME RwInv, \A j \in Shards : NextLive(j) \subseteq Live(j),
         UNCHANGED <<rwShards, appended, settled>>
  PROVE  PlaceInv' /\ Pending' \subseteq Pending
<1>1. PlaceInv'
  BY Zenon DEF RwInv, PlaceInv, Shards, Live, NextLive
<1>2. Pending' \subseteq Pending
  BY Zenon DEF Pending, Shards, Live, NextLive
<1> QED
  BY <1>1, <1>2, Zenon

\* f lists the n elements of S, each once.
Lists(n, S, f) ==
  /\ f \in [1..n -> S]
  /\ \A k, l \in 1..n : f[k] = f[l] => k = l
  /\ \A y \in S : \E k \in 1..n : f[k] = y

\* What the proofs use of numbers and finite sets: LEMMA CountingHolds, at the
\* end of the module.
Counting ==
  /\ \A S \in SUBSET Nat : S # {} => \E x \in S : \A y \in S : x <= y
  /\ IsFiniteSet({}) /\ Cardinality({}) = 0
  /\ \A S : IsFiniteSet(S) => Cardinality(S) \in Nat
  /\ \A S : IsFiniteSet(S) => \A T \in SUBSET S : IsFiniteSet(T) /\ Cardinality(T) <= Cardinality(S)
  /\ \A S, T : IsFiniteSet(S) /\ IsFiniteSet(T) => IsFiniteSet(S \union T)
  /\ \A S, T : IsFiniteSet(S) =>
       IsFiniteSet(S \ T) /\ Cardinality(S \ T) = Cardinality(S) - Cardinality(S \cap T)
  /\ \A S, x : IsFiniteSet(S) =>
       /\ IsFiniteSet(S \union {x})
       /\ Cardinality(S \union {x}) = IF x \in S THEN Cardinality(S) ELSE Cardinality(S) + 1
  /\ \A n \in Nat : \A S, f : Lists(n, S, f) => IsFiniteSet(S) /\ Cardinality(S) = n

LEMMA EmptySize ==
  ASSUME Counting
  PROVE  IsFiniteSet({}) /\ Cardinality({}) = 0
BY Zenon DEF Counting

LEMMA SizeType ==
  ASSUME Counting, NEW S, IsFiniteSet(S)
  PROVE  Cardinality(S) \in Nat
BY Zenon DEF Counting

LEMMA SubsetSize ==
  ASSUME Counting, NEW S, IsFiniteSet(S), NEW T \in SUBSET S
  PROVE  IsFiniteSet(T) /\ Cardinality(T) <= Cardinality(S)
BY Zenon DEF Counting

LEMMA UnionFinite ==
  ASSUME Counting, NEW S, IsFiniteSet(S), NEW T, IsFiniteSet(T)
  PROVE  IsFiniteSet(S \union T)
BY Zenon DEF Counting

LEMMA DifferenceSize ==
  ASSUME Counting, NEW S, NEW T, IsFiniteSet(S)
  PROVE  IsFiniteSet(S \ T) /\ Cardinality(S \ T) = Cardinality(S) - Cardinality(S \cap T)
BY Zenon DEF Counting

LEMMA AddSize ==
  ASSUME Counting, NEW S, NEW x, IsFiniteSet(S)
  PROVE  /\ IsFiniteSet(S \union {x})
         /\ Cardinality(S \union {x}) = IF x \in S THEN Cardinality(S) ELSE Cardinality(S) + 1
BY Zenon DEF Counting

LEMMA ListSize ==
  ASSUME Counting, NEW n \in Nat, NEW S, NEW f, Lists(n, S, f)
  PROVE  IsFiniteSet(S) /\ Cardinality(S) = n
BY Zenon DEF Counting

\* A step after which no more is to be sent than before, and nothing is lost.
LEMMA QuietStep ==
  ASSUME Counting, RwInv, \A j \in Shards : NextLive(j) \subseteq Live(j),
         UNCHANGED <<rwShards, appended, settled, enqueued, reported, lost>>,
         stopper' = stopper \/ lost = {} \/ stopper' \in {"hard", "stopped"}
  PROVE  PlaceInv' /\ CountInv'
<1>1. PlaceInv' /\ Pending' \subseteq Pending
  BY PlaceStep, Zenon
<1>2. Pending' \subseteq Pending /\ lost \union Pending' \subseteq lost \union Pending
  BY <1>1, Zenon
<1>3. IsFiniteSet(Pending) /\ Cardinality(Pending) <= enqueued /\ enqueued \in Int
  BY Zenon DEF RwInv, CountInv, RwTypeOK
<1>4. IsFiniteSet(Pending') /\ Cardinality(Pending') <= enqueued
  <2>1. IsFiniteSet(Pending') /\ Cardinality(Pending') <= Cardinality(Pending)
    BY <1>2, <1>3, SubsetSize, Zenon
  <2>2. Cardinality(Pending') \in Nat /\ Cardinality(Pending) \in Nat
    BY <1>3, <2>1, SizeType, Zenon
  <2> QED
    BY <1>3, <2>1, <2>2
<1>5. CASE lost = {}
  BY <1>1, <1>4, <1>5, Zenon DEF CountInv
<1>6. CASE lost # {}
  <2>1. /\ stopper \in {"hard", "stopped"} /\ IsFiniteSet(lost)
        /\ Cardinality(lost \union Pending) <= reported /\ reported \in Nat
    BY <1>6, Zenon DEF RwInv, CountInv, RwTypeOK
  <2>2. IsFiniteSet(lost \union Pending)
    BY <1>3, <2>1, UnionFinite, Zenon
  <2>3. /\ IsFiniteSet(lost \union Pending')
        /\ Cardinality(lost \union Pending') <= Cardinality(lost \union Pending)
    BY <1>2, <2>2, SubsetSize, Zenon
  <2>4. Cardinality(lost \union Pending') \in Nat /\ Cardinality(lost \union Pending) \in Nat
    BY <2>2, <2>3, SizeType, Zenon
  <2>5. Cardinality(lost \union Pending') <= reported
    BY <2>1, <2>3, <2>4
  <2>6. stopper' \in {"hard", "stopped"}
    BY <1>6, <2>1, Zenon
  <2> QED
    BY <1>1, <1>4, <2>1, <2>5, <2>6, Zenon DEF CountInv
<1> QED
  BY <1>5, <1>6, Zenon

LEMMA LocalQuietStep ==
  ASSUME Counting, RwInv, NEW i \in Running, NEW q \in Queue, NEW sh \in ShardState,
         NEW fl \in FlushState,
         rwQueue' = [rwQueue EXCEPT ![i] = q], rwShard' = [rwShard EXCEPT ![i] = sh],
         flushing' = [flushing EXCEPT ![i] = fl],
         UNCHANGED <<rwShards, stopper, quit, hard, enqueued, reported, appended, settled, lost>>,
         sent \subseteq sent', given \subseteq given',
         Line(q, sh, fl), Gone(q, sh, fl, sent' \union given', settled'),
         All(i) \subseteq AllOf(q, sh) \union sent' \union given',
         LiveOf(q, sh, fl) \subseteq Live(i),
         stopper \in {"no", "lock"} => sh.pc # "exit" /\ fl = flushing[i] /\ ~q.closed
  PROVE  RwInv'
<1>1. i \in Shards
  BY RunningShards, Zenon
<1>2. /\ rwQueue' \in [Shards -> Queue] /\ rwShard' \in [Shards -> ShardState]
      /\ flushing' \in [Shards -> FlushState]
      /\ LocalInv' /\ KeptInv'
      /\ \A j \in Shards : NextLive(j) \subseteq Live(j)
  <2>1. /\ rwQueue' \in [Shards -> Queue] /\ rwShard' \in [Shards -> ShardState]
        /\ flushing' \in [Shards -> FlushState]
        /\ LocalInv' /\ KeptInv'
        /\ NextLive(i) = LiveOf(q, sh, fl)
        /\ \A j \in Shards \ {i} : NextLive(j) = Live(j)
    <3>1. \A r \in RwSeries : \A n \in 1..appended'[r] : n \in 1..appended[r] \/ <<r, n>> \in AllOf(q, sh)
      BY Zenon
    <3>2. settled' \in [RwSeries -> Nat] /\ \A r \in RwSeries : settled[r] <= settled'[r]
      BY DEF RwInv, RwTypeOK
    <3> QED
      BY <1>1, <3>1, <3>2, LocalStep, Zenon
  <2> QED
    BY <2>1, Zenon
<1>3. RwTypeOK'
  BY <1>2, Zenon DEF RwInv, RwTypeOK, Shards, Queue, ShardState, Smp
<1>4. StopInv'
  BY StopStep, Zenon
<1>5. PlaceInv' /\ CountInv'
  BY <1>2, QuietStep, Zenon
<1> QED
  BY <1>2, <1>3, <1>4, <1>5, Zenon DEF RwInv

LEMMA ReceiveBatchStep ==
  ASSUME Counting, RwInv, NEW i \in Shards, receiveBatch(i)
  PROVE  RwInv'
<1> DEFINE old == rwQueue[i]
           q  == [batch |-> old.batch, chan |-> Tail(old.chan), closed |-> old.closed]
           sh == [pc |-> "send", batch |-> Head(old.chan)]
           fl == flushing[i]
<1>1. /\ rwShard[i].pc = "select" /\ old.chan # <<>>
      /\ rwShard' = [rwShard EXCEPT ![i] = sh]
      /\ rwQueue' = [rwQueue EXCEPT ![i] = q]
      /\ flushing' = [flushing EXCEPT ![i] = fl]
      /\ UNCHANGED <<rwShards, stopper, quit, hard, enqueued, reported, appended, settled, lost, sent, given>>
  BY QueueFields, Zenon DEF receiveBatch, RwInv
<1>2. /\ old.batch \in Seq(Smp) /\ old.chan \in Seq(Seq(Smp)) /\ old.closed \in BOOLEAN
      /\ fl \in FlushState
      /\ Line(old, rwShard[i], fl) /\ Gone(old, rwShard[i], fl, sent \union given, settled)
      /\ i \in Running /\ (stopper \in {"no", "lock"} => ~old.closed)
  BY <1>1, ShardTypes, Zenon
<1>3. /\ Head(old.chan) \in Seq(Smp) /\ Tail(old.chan) \in Seq(Seq(Smp))
      /\ ChanElems(old.chan) = Elems(Head(old.chan)) \union ChanElems(Tail(old.chan))
  BY <1>1, <1>2, ChanTail, Zenon
<1>4. LineOK(sh.batch, q.chan)
  BY <1>1, <1>2, LineReceive, Zenon DEF Line
<1>5. rwShard[i].batch = <<>> /\ Elems(rwShard[i].batch) = {}
  BY <1>1, <1>2, ElemsEmpty, Zenon DEF Gone
<1>6. /\ q \in Queue /\ sh \in ShardState
      /\ q.batch = old.batch /\ q.chan = Tail(old.chan) /\ q.closed = old.closed
      /\ sh.batch = Head(old.chan) /\ sh.pc = "send"
  BY <1>2, <1>3, Zenon DEF Queue, ShardState
<1> HIDE DEF q, sh, fl
<1>7. Line(q, sh, fl)
  BY <1>2, <1>3, <1>4, <1>5, <1>6, ZenonT(30) DEF Line
<1>8. Gone(q, sh, fl, sent' \union given', settled')
  BY <1>1, <1>2, <1>3, <1>5, <1>6, Zenon DEF Gone
<1>9. All(i) \subseteq AllOf(q, sh) /\ LiveOf(q, sh, fl) \subseteq Live(i)
  BY <1>3, <1>5, <1>6, Zenon DEF All, AllOf, Live, LiveOf, fl
<1> QED
  BY <1>1, <1>2, <1>6, <1>7, <1>8, <1>9, LocalQuietStep, ZenonT(30) DEF fl

LEMMA BatchStep ==
  ASSUME Counting, "flush" \notin RwRaces, RwInv, NEW i \in Shards, Batch(i)
  PROVE  RwInv'
<1> DEFINE old == rwQueue[i]
           q  == [batch |-> <<>>, chan |-> old.chan, closed |-> old.closed]
           sh == [pc |-> "send", batch |-> old.batch]
           fl == flushing[i]
<1>1. /\ rwShard[i].pc = "select" /\ old.chan = <<>> /\ fl # "close"
      /\ rwShard' = [rwShard EXCEPT ![i] = sh]
      /\ rwQueue' = [rwQueue EXCEPT ![i] = q]
      /\ flushing' = [flushing EXCEPT ![i] = fl]
      /\ UNCHANGED <<rwShards, stopper, quit, hard, enqueued, reported, appended, settled, lost, sent, given>>
  BY QueueFields, Zenon DEF Batch, RwInv
<1>2. /\ old.batch \in Seq(Smp) /\ old.chan \in Seq(Seq(Smp)) /\ old.closed \in BOOLEAN
      /\ fl \in FlushState
      /\ Line(old, rwShard[i], fl) /\ Gone(old, rwShard[i], fl, sent \union given, settled)
      /\ i \in Running /\ (stopper \in {"no", "lock"} => ~old.closed)
  BY <1>1, ShardTypes, Zenon
<1>3. Elems(rwShard[i].batch) = {} /\ Elems(<<>>) = {} /\ ChanElems(old.chan) = {} /\ Sorted(<<>>)
  BY <1>1, <1>2, ElemsEmpty DEF Gone, Sorted
<1>4. LineOK(sh.batch, q.chan)
  BY <1>1, <1>2, LineEnds, Zenon DEF Line
<1>5. /\ q \in Queue /\ sh \in ShardState
      /\ q.batch = <<>> /\ q.chan = old.chan /\ q.closed = old.closed
      /\ sh.batch = old.batch /\ sh.pc = "send"
  BY <1>2 DEF Queue, ShardState
<1> HIDE DEF q, sh, fl
<1>6. Line(q, sh, fl)
  BY <1>3, <1>4, <1>5, Zenon DEF Line, Before
<1>7. Gone(q, sh, fl, sent' \union given', settled')
  BY <1>1, <1>5, Zenon DEF Gone
<1>8. All(i) \subseteq AllOf(q, sh) /\ LiveOf(q, sh, fl) \subseteq Live(i)
  BY <1>1, <1>3, <1>5, Zenon DEF All, AllOf, Live, LiveOf, fl
<1> QED
  BY <1>1, <1>2, <1>5, <1>6, <1>7, <1>8, LocalQuietStep, Zenon DEF fl

LEMMA ExitClosedStep ==
  ASSUME Counting, RwInv, NEW i \in Shards, exitClosed(i)
  PROVE  RwInv'
<1> DEFINE q  == rwQueue[i]
           fl == flushing[i]
<1>1. /\ rwShard[i].pc = "select" /\ q.closed /\ q.chan = <<>>
      /\ rwShard' = [rwShard EXCEPT ![i] = NoShard]
      /\ rwQueue' = [rwQueue EXCEPT ![i] = q]
      /\ flushing' = [flushing EXCEPT ![i] = fl]
      /\ UNCHANGED <<rwShards, stopper, quit, hard, enqueued, reported, appended, settled, lost, sent, given>>
  BY QueueFields, Zenon DEF exitClosed, RwInv
<1>2. /\ q \in Queue /\ fl \in FlushState
      /\ Line(q, rwShard[i], fl) /\ Gone(q, rwShard[i], fl, sent \union given, settled)
      /\ i \in Running
  BY <1>1, ShardTypes, Zenon
<1>3. /\ Elems(rwShard[i].batch) = {} /\ Elems(<<>>) = {} /\ ChanElems(q.chan) = {} /\ Elems(q.batch) = {}
      /\ rwShard[i].batch = <<>>
  BY <1>1, <1>2, ElemsEmpty, Zenon DEF Gone
<1>4. NoShard \in ShardState /\ NoShard.pc = "exit" /\ NoShard.batch = <<>>
  BY DEF NoShard, ShardState
<1>5. Line(q, NoShard, fl)
  BY <1>2, <1>3, <1>4, Zenon DEF Line
<1>6. Gone(q, NoShard, fl, sent' \union given', settled')
  BY <1>1, <1>2, <1>3, <1>4, Zenon DEF Gone
<1>7. All(i) \subseteq AllOf(q, NoShard) /\ LiveOf(q, NoShard, fl) \subseteq Live(i)
  BY <1>3, <1>4, Zenon DEF All, AllOf, Live, LiveOf
<1>8. stopper \notin {"no", "lock"}
  BY <1>1, ShardTypes, Zenon
<1> QED
  BY <1>1, <1>2, <1>4, <1>5, <1>6, <1>7, <1>8, LocalQuietStep, Zenon

LEMMA StoreRetriedStep ==
  ASSUME Counting, RwInv, NEW i \in Shards, StoreRetried(i)
  PROVE  RwInv'
<1> DEFINE q  == rwQueue[i]
           sh == rwShard[i]
           fl == flushing[i]
<1>1. /\ rwShard[i].pc = "send"
      /\ rwShard' = [rwShard EXCEPT ![i] = sh]
      /\ rwQueue' = [rwQueue EXCEPT ![i] = q]
      /\ flushing' = [flushing EXCEPT ![i] = fl]
      /\ UNCHANGED <<rwShards, stopper, quit, hard, enqueued, reported, appended, settled, lost, given>>
      /\ sent \subseteq sent' /\ given \subseteq given'
  BY QueueFields, Zenon DEF StoreRetried, RwInv
<1>2. /\ q \in Queue /\ sh \in ShardState /\ fl \in FlushState
      /\ Line(q, sh, fl) /\ Gone(q, sh, fl, sent \union given, settled)
      /\ i \in Running /\ (stopper \in {"no", "lock"} => ~q.closed)
  BY <1>1, ShardTypes, Zenon
<1>3. Gone(q, sh, fl, sent' \union given', settled')
  BY <1>1, <1>2, Zenon DEF Gone
<1>4. All(i) \subseteq AllOf(q, sh) /\ LiveOf(q, sh, fl) \subseteq Live(i)
  BY Zenon DEF All, Live
<1> HIDE DEF q, sh, fl
<1>5. stopper \in {"no", "lock"} => sh.pc # "exit" /\ fl = flushing[i] /\ ~q.closed
  BY <1>1, <1>2, Zenon DEF sh, fl
<1> QED
  BY <1>1, <1>2, <1>3, <1>4, <1>5, LocalQuietStep, Zenon

LEMMA TryEnqueueingBatchStep ==
  ASSUME Counting, RwInv, NEW i \in Shards, tryEnqueueingBatch(i)
  PROVE  RwInv'
<1> DEFINE old == rwQueue[i]
           sh  == rwShard[i]
<1>1. /\ flushing[i] = "try"
      /\ rwShard' = [rwShard EXCEPT ![i] = sh]
      /\ flushing' = [flushing EXCEPT ![i] = "close"]
      /\ UNCHANGED <<rwShards, stopper, quit, hard, enqueued, reported, appended, settled, lost, sent, given>>
      /\ sent \subseteq sent' /\ given \subseteq given'
  BY QueueFields, Zenon DEF tryEnqueueingBatch, RwInv
<1>2. /\ old \in Queue /\ old.batch \in Seq(Smp) /\ old.chan \in Seq(Seq(Smp)) /\ old.closed \in BOOLEAN
      /\ sh \in ShardState /\ sh.batch \in Seq(Smp) /\ "close" \in FlushState
      /\ Line(old, sh, "try") /\ Gone(old, sh, "try", sent \union given, settled)
      /\ i \in Running /\ stopper \notin {"no", "lock"}
  BY <1>1, ShardTypes, Zenon DEF FlushState
<1>3. CASE (old.batch = <<>> \/ done) /\ UNCHANGED rwQueue
  <2>1. rwQueue' = [rwQueue EXCEPT ![i] = old]
    BY <1>3, QueueFields, Zenon DEF RwInv
  <2>2. old.batch = <<>> \/ sh.pc = "exit"
    BY <1>2, <1>3, Zenon DEF done
  <2>3. Gone(old, sh, "close", sent' \union given', settled')
    BY <1>1, <1>2, <2>2, ElemsEmpty, Zenon DEF Gone
  <2>4. Line(old, sh, "close")
    BY <1>2, Zenon DEF Line
  <2>5. All(i) \subseteq AllOf(old, sh) /\ LiveOf(old, sh, "close") \subseteq Live(i)
    BY Zenon DEF All, Live, LiveOf
  <2> HIDE DEF old, sh
  <2> QED
    BY <1>1, <1>2, <2>1, <2>3, <2>4, <2>5, LocalQuietStep, ZenonT(30)
<1>4. CASE rwQueue' = [rwQueue EXCEPT ![i].chan = Append(@, old.batch)]
  <2> DEFINE q == [batch |-> old.batch, chan |-> Append(old.chan, old.batch), closed |-> old.closed]
  <2>1. rwQueue' = [rwQueue EXCEPT ![i] = q]
    BY <1>4, QueueFields, ZenonT(30) DEF RwInv
  <2>2. /\ Append(old.chan, old.batch) \in Seq(Seq(Smp))
        /\ ChanElems(Append(old.chan, old.batch)) = ChanElems(old.chan) \union Elems(old.batch)
    BY <1>2, ChanAppend, Zenon
  <2>3. /\ q \in Queue /\ q.batch = old.batch /\ q.chan = Append(old.chan, old.batch) /\ q.closed = old.closed
    BY <1>2, <2>2, Zenon DEF Queue
  <2>4. LineOK(sh.batch, q.chan)
    BY <1>2, <2>3, LineAppend, Zenon DEF Line
  <2> HIDE DEF q
  <2>5. Line(q, sh, "close")
    BY <1>2, <2>3, <2>4, Zenon DEF Line
  <2>6. Gone(q, sh, "close", sent' \union given', settled')
    BY <1>1, <1>2, <2>2, <2>3, Zenon DEF Gone
  <2>7. All(i) \subseteq AllOf(q, sh) /\ LiveOf(q, sh, "close") \subseteq Live(i)
    BY <1>1, <2>2, <2>3, Zenon DEF All, AllOf, Live, LiveOf
  <2> HIDE DEF old, sh
  <2> QED
    BY <1>1, <1>2, <2>1, <2>3, <2>5, <2>6, <2>7, LocalQuietStep, ZenonT(30)
<1> QED
  BY <1>3, <1>4, Zenon DEF tryEnqueueingBatch

LEMMA FlushAndShutdownStep ==
  ASSUME Counting, RwInv, NEW i \in Shards, FlushAndShutdown(i)
  PROVE  RwInv'
<1> DEFINE old == rwQueue[i]
           q   == [batch |-> <<>>, chan |-> old.chan, closed |-> TRUE]
           sh  == rwShard[i]
<1>1. /\ flushing[i] = "close"
      /\ rwShard' = [rwShard EXCEPT ![i] = sh]
      /\ rwQueue' = [rwQueue EXCEPT ![i] = q]
      /\ flushing' = [flushing EXCEPT ![i] = "done"]
      /\ UNCHANGED <<rwShards, stopper, quit, hard, enqueued, reported, appended, settled, lost, sent, given>>
      /\ sent \subseteq sent' /\ given \subseteq given'
  BY QueueFields, Zenon DEF FlushAndShutdown, RwInv
<1>2. /\ old.chan \in Seq(Seq(Smp)) /\ sh \in ShardState /\ "done" \in FlushState
      /\ Line(old, sh, "close") /\ Gone(old, sh, "close", sent \union given, settled)
      /\ i \in Running /\ stopper \notin {"no", "lock"}
  BY <1>1, ShardTypes, Zenon DEF FlushState
<1>3. q \in Queue /\ q.batch = <<>> /\ q.chan = old.chan
  BY <1>2 DEF Queue
<1> HIDE DEF q
<1>4. Elems(<<>>) = {} /\ Sorted(<<>>)
  BY ElemsEmpty DEF Sorted
<1>5. Line(q, sh, "done")
  BY <1>2, <1>3, <1>4, Zenon DEF Line, Before
<1>6. Gone(q, sh, "done", sent' \union given', settled')
  BY <1>1, <1>2, <1>3, <1>4, Zenon DEF Gone
<1>7. All(i) \subseteq AllOf(q, sh) \union sent' \union given'
  BY <1>1, <1>2, <1>3, Zenon DEF All, AllOf, Gone
<1>8. LiveOf(q, sh, "done") \subseteq Live(i)
  BY <1>3, <1>4, Zenon DEF Live, LiveOf
<1> HIDE DEF old, sh
<1> QED
  BY <1>1, <1>2, <1>3, <1>5, <1>6, <1>7, <1>8, LocalQuietStep, ZenonT(30)

LEMMA InQueueElems ==
  ASSUME RwInv, NEW i \in Shards
  PROVE  /\ InQueue(i) = ChanElems(rwQueue[i].chan) \union Elems(rwQueue[i].batch)
         /\ InShard(i) = Elems(rwShard[i].batch)
<1> DEFINE c == rwQueue[i].chan
           b == rwQueue[i].batch
           e == Append(c, b)
<1>1. c \in Seq(Seq(Smp)) /\ b \in Seq(Smp) /\ rwShard[i].batch \in Seq(Smp)
  BY ShardTypes, Zenon
<1>2. e \in Seq(Seq(Smp)) /\ ChanElems(e) = ChanElems(c) \union Elems(b)
  BY <1>1, ChanAppend, Zenon
<1> HIDE DEF e
<1>3. DOMAIN e = 1..Len(e) /\ \A k \in 1..Len(e) : e[k] \in Seq(Smp)
  BY <1>2
<1>4. \A k \in 1..Len(e) : DOMAIN e[k] = 1..Len(e[k])
  BY <1>3
<1>5. Samples(e) = ChanElems(e)
  BY <1>3, <1>4 DEF Samples, ChanElems, Elems
<1>6. DOMAIN rwShard[i].batch = 1..Len(rwShard[i].batch)
  BY <1>1
<1>7. InShard(i) = Elems(rwShard[i].batch)
  BY <1>6 DEF InShard, Samples, Elems
<1> QED
  BY <1>2, <1>5, <1>7, Zenon DEF InQueue, e

\* A set that is not larger than one with at most n elements.
LEMMA AtMost ==
  ASSUME Counting, NEW T, IsFiniteSet(T), NEW n \in Int, Cardinality(T) <= n, NEW S, S \subseteq T
  PROVE  IsFiniteSet(S) /\ Cardinality(S) <= n
<1>1. IsFiniteSet(S) /\ Cardinality(S) <= Cardinality(T)
  BY SubsetSize, Zenon
<1>2. Cardinality(S) \in Nat /\ Cardinality(T) \in Nat
  BY <1>1, SizeType, Zenon
<1> QED
  BY <1>1, <1>2

\* A shard that exits in a hard shutdown gives up what its queue holds, and
\* reports it.
LEMMA ExitHardStep ==
  ASSUME Counting, RwInv, NEW i \in Shards, exitHard(i)
  PROVE  RwInv'
<1> DEFINE q    == rwQueue[i]
           fl   == flushing[i]
           left == {x \in InQueue(i) : x[2] > settled[x[1]]}
<1>1. /\ rwShard[i].pc = "select" /\ hard
      /\ rwShard' = [rwShard EXCEPT ![i] = NoShard]
      /\ rwQueue' = [rwQueue EXCEPT ![i] = q]
      /\ flushing' = [flushing EXCEPT ![i] = fl]
      /\ UNCHANGED <<rwShards, stopper, quit, hard, enqueued, appended, settled, sent>>
      /\ reported' = reported + enqueued /\ lost' = lost \union left /\ given' = given \union left
  BY QueueFields, Zenon DEF exitHard, RwInv
<1>2. /\ q \in Queue /\ fl \in FlushState
      /\ Line(q, rwShard[i], fl) /\ Gone(q, rwShard[i], fl, sent \union given, settled)
      /\ i \in Running
      /\ q.batch \in Seq(Smp) /\ q.chan \in Seq(Seq(Smp))
  BY <1>1, ShardTypes, Zenon
<1>3. /\ Elems(rwShard[i].batch) = {} /\ Elems(<<>>) = {} /\ rwShard[i].batch = <<>>
      /\ InQueue(i) = ChanElems(q.chan) \union Elems(q.batch)
  BY <1>1, <1>2, ElemsEmpty, InQueueElems, Zenon DEF Gone
<1>4. NoShard \in ShardState /\ NoShard.pc = "exit" /\ NoShard.batch = <<>>
  BY DEF NoShard, ShardState
<1>5. \A x \in Live(i) : settled[x[1]] < x[2] /\ settled[x[1]] \in Int /\ x[2] \in Int
  <2>1. Live(i) \subseteq Smp
    <3>1. ChanElems(q.chan) \subseteq Smp
      BY <1>2, ElemsType DEF ChanElems
    <3>2. Elems(q.batch) \subseteq Smp
      BY <1>2, ElemsType, Zenon
    <3> QED
      BY <1>3, <3>1, <3>2, Zenon DEF Live, LiveOf
  <2>2. settled \in [RwSeries -> Nat]
    BY Zenon DEF RwInv, RwTypeOK
  <2>3. \A x \in Live(i) : settled[x[1]] < x[2]
    BY Zenon DEF RwInv, PlaceInv
  <2> QED
    BY <2>1, <2>2, <2>3 DEF Smp
<1>6. \A x \in InQueue(i) : x \in Live(i) \/ (x \in sent \union given /\ x[2] <= settled[x[1]])
  BY <1>1, <1>2, <1>3, Zenon DEF Live, LiveOf, Gone
<1>7. InQueue(i) \subseteq sent \union given'
  BY <1>1, <1>5, <1>6, Zenon
<1>8. left \subseteq Live(i)
  <2>1. \A x \in InQueue(i) : x[2] \in Int /\ settled[x[1]] \in Int
    <3>1. ChanElems(q.chan) \subseteq Smp
      BY <1>2, ElemsType DEF ChanElems
    <3>2. Elems(q.batch) \subseteq Smp
      BY <1>2, ElemsType, Zenon
    <3>3. settled \in [RwSeries -> Nat]
      BY Zenon DEF RwInv, RwTypeOK
    <3> QED
      BY <1>3, <3>1, <3>2, <3>3 DEF Smp
  <2> QED
    BY <1>6, <2>1
<1>9. given \subseteq given' /\ sent \subseteq sent' /\ sent' = sent /\ settled' = settled
  BY <1>1, Zenon
<1> HIDE DEF left
<1>10. Line(q, NoShard, fl)
  BY <1>2, <1>3, <1>4, Zenon DEF Line
<1>11. Gone(q, NoShard, fl, sent' \union given', settled')
  BY <1>2, <1>3, <1>4, <1>7, <1>9, Zenon DEF Gone
<1>12. All(i) \subseteq AllOf(q, NoShard) \union sent' \union given' /\ LiveOf(q, NoShard, fl) \subseteq Live(i)
  BY <1>3, <1>4, Zenon DEF All, AllOf, Live, LiveOf
<1>13. stopper \in {"hard", "stopped"}
  BY <1>1, Zenon DEF RwInv, StopInv
<1> HIDE DEF q, fl
<1>14. /\ rwQueue' \in [Shards -> Queue] /\ rwShard' \in [Shards -> ShardState]
       /\ flushing' \in [Shards -> FlushState]
       /\ LocalInv' /\ KeptInv'
       /\ NextLive(i) = LiveOf(q, NoShard, fl)
       /\ \A j \in Shards \ {i} : NextLive(j) = Live(j)
  <2>1. \A r \in RwSeries : \A n \in 1..appended'[r] : n \in 1..appended[r] \/ <<r, n>> \in AllOf(q, NoShard)
    BY <1>1, Zenon
  <2>2. settled' \in [RwSeries -> Nat] /\ \A r \in RwSeries : settled[r] <= settled'[r]
    BY <1>9 DEF RwInv, RwTypeOK
  <2> QED
    BY <1>1, <1>2, <1>4, <1>9, <1>10, <1>11, <1>12, <2>1, <2>2, LocalStep, ZenonT(30)
<1>15. StopInv'
  <2>1. stopper \in {"no", "lock"} => NoShard.pc # "exit" /\ fl = flushing[i] /\ ~q.closed
    BY <1>13, Zenon
  <2> QED
    BY <1>1, <1>2, <2>1, StopStep, Zenon
<1>16. \A j \in Shards : NextLive(j) \subseteq Live(j)
  BY <1>12, <1>14, Zenon
<1>17. PlaceInv' /\ Pending' \subseteq Pending
  BY <1>1, <1>16, PlaceStep, Zenon
<1>18. /\ IsFiniteSet(Pending) /\ Cardinality(Pending) <= enqueued /\ enqueued \in Int
       /\ Cardinality(Pending) \in Nat /\ reported \in Nat
  BY SizeType, Zenon DEF RwInv, CountInv, RwTypeOK
<1>19. reported' \in Nat /\ enqueued <= reported' /\ reported <= reported'
  BY <1>1, <1>18
<1>20. left \subseteq Pending
  BY <1>8, Zenon DEF Pending
<1>21. CountInv'
  <2>1. IsFiniteSet(Pending') /\ Cardinality(Pending') <= enqueued
    BY <1>17, <1>18, AtMost, Zenon
  <2>2. CASE lost = {}
    <3>1. lost' \subseteq Pending /\ lost' \union Pending' \subseteq Pending
      BY <1>1, <1>17, <1>20, <2>2, Zenon
    <3>2. Cardinality(Pending) <= reported'
      BY <1>18, <1>19
    <3>3. IsFiniteSet(lost') /\ Cardinality(lost' \union Pending') <= reported'
      BY <1>18, <1>19, <3>1, <3>2, AtMost
    <3> QED
      BY <1>1, <1>13, <2>1, <3>3, Zenon DEF CountInv
  <2>3. CASE lost # {}
    <3>1. IsFiniteSet(lost) /\ Cardinality(lost \union Pending) <= reported
      BY <2>3, Zenon DEF RwInv, CountInv
    <3>2. IsFiniteSet(lost \union Pending) /\ Cardinality(lost \union Pending) \in Nat
      BY <1>18, <3>1, UnionFinite, SizeType, Zenon
    <3>3. Cardinality(lost \union Pending) <= reported'
      BY <1>18, <1>19, <3>1, <3>2
    <3>4. lost' \subseteq lost \union Pending /\ lost' \union Pending' \subseteq lost \union Pending
      BY <1>1, <1>17, <1>20, Zenon
    <3>5. IsFiniteSet(lost') /\ Cardinality(lost' \union Pending') <= reported'
      BY <1>19, <3>2, <3>3, <3>4, AtMost
    <3> QED
      BY <1>1, <1>13, <2>1, <3>5, Zenon DEF CountInv
  <2> QED
    BY <2>2, <2>3, Zenon
<1>22. RwTypeOK'
  BY <1>1, <1>14, <1>19, Zenon DEF RwInv, RwTypeOK, Shards, Queue, ShardState, Smp
<1> QED
  BY <1>14, <1>15, <1>17, <1>21, <1>22, Zenon DEF RwInv

\* A bounded set of numbers has a greatest one.
LEMMA MaxNat ==
  ASSUME Counting, NEW S, S \subseteq Nat, S # {}, NEW n \in Nat, \A m \in S : m <= n
  PROVE  \E m \in S : \A k \in S : k <= m
<1> DEFINE U == {u \in Nat : \A m \in S : m <= u}
<1>1. n \in U /\ U \in SUBSET Nat
  BY Zenon
<1>2. PICK u \in U : \A v \in U : u <= v
  BY <1>1, Zenon DEF Counting
<1>4. u \in Nat /\ \A m \in S : m <= u
  BY Zenon
<1>5. ASSUME u \notin S PROVE FALSE
  <2>1. \A m \in S : m < u
    BY <1>4, <1>5
  <2>2. u - 1 \in Nat /\ u - 1 < u
    <3>1. PICK m \in S : m < u /\ m \in Nat
      BY <2>1, Zenon
    <3> QED
      BY <1>4, <3>1
  <2>3. u - 1 \in U
    BY <1>4, <2>1, <2>2
  <2>4. u <= u - 1
    BY <1>2, <2>3, Zenon
  <2> QED
    BY <1>4, <2>2, <2>4
<1> QED
  BY <1>4, <1>5, Zenon

\* A sorted batch has as many samples as entries.
LEMMA SortedCount ==
  ASSUME Counting, NEW b \in Seq(Smp), Sorted(b)
  PROVE  IsFiniteSet(Elems(b)) /\ Cardinality(Elems(b)) = Len(b)
<1>1. Len(b) \in Nat /\ DOMAIN b = 1..Len(b) /\ b \in [1..Len(b) -> Smp]
  OBVIOUS
<1>2. b \in [1..Len(b) -> Elems(b)]
  BY <1>1, Zenon DEF Elems
<1>3. ASSUME NEW k \in 1..Len(b), NEW l \in 1..Len(b), b[k] = b[l] PROVE k = l
  <2>1. b[k] \in Smp /\ b[k][2] \in Nat
    BY <1>1, Zenon DEF Smp
  <2>2. ~(k < l) /\ ~(l < k)
    BY <1>3, <2>1 DEF Sorted
  <2> QED
    BY <2>2
<1>4. \A y \in Elems(b) : \E k \in 1..Len(b) : b[k] = y
  BY Zenon DEF Elems
<1> QED
  BY <1>1, <1>2, <1>3, <1>4, ListSize, Zenon DEF Lists

\* The samples that a shard or its queue holds are samples, and those still to
\* be sent are in their place.
LEMMA LiveTypes ==
  ASSUME RwInv, NEW i \in Shards
  PROVE  /\ Elems(rwShard[i].batch) \subseteq Smp /\ ChanElems(rwQueue[i].chan) \subseteq Smp
         /\ Elems(rwQueue[i].batch) \subseteq Smp
         /\ Live(i) \subseteq Smp
         /\ \A x \in Live(i) : x[1] % rwShards = i /\ settled[x[1]] < x[2] /\ x[2] <= appended[x[1]]
<1>1. rwQueue[i].batch \in Seq(Smp) /\ rwQueue[i].chan \in Seq(Seq(Smp)) /\ rwShard[i].batch \in Seq(Smp)
  BY ShardTypes, Zenon
<1>2. ChanElems(rwQueue[i].chan) \subseteq Smp
  BY <1>1, ElemsType DEF ChanElems
<1>3. Elems(rwQueue[i].batch) \subseteq Smp /\ Elems(rwShard[i].batch) \subseteq Smp
  BY <1>1, ElemsType, Zenon
<1>4. Live(i) \subseteq Smp
  BY <1>2, <1>3, Zenon DEF Live, LiveOf
<1>5. \A x \in Live(i) : x[1] % rwShards = i /\ settled[x[1]] < x[2] /\ x[2] <= appended[x[1]]
  BY Zenon DEF RwInv, PlaceInv
<1> QED
  BY <1>2, <1>3, <1>4, <1>5, Zenon

\* What has been settled when the request of a shard ends.
LEMMA SettledAfter ==
  ASSUME Counting, RwInv, NEW i \in Shards, requestEnds(i)
  PROVE  /\ settled' \in [RwSeries -> Nat]
         /\ \A r \in RwSeries : settled[r] <= settled'[r] /\ settled'[r] <= appended[r]
         /\ \A x \in Elems(rwShard[i].batch) : x[2] <= settled'[x[1]]
         /\ \A r \in RwSeries : settled'[r] = settled[r] \/ \E x \in Elems(rwShard[i].batch) : x[1] = r /\ x[2] = settled'[r]
<1> DEFINE E == InShard(i)
           T(r) == {x[2] : x \in {x \in E : x[1] = r}} \union {settled[r]}
<1>1. settled' = [r \in RwSeries |-> CHOOSE n \in T(r) : \A m \in T(r) : m <= n]
  BY Zenon DEF requestEnds
<1>0. E = Elems(rwShard[i].batch)
  BY InQueueElems, Zenon
<1>2. E \subseteq Smp /\ settled \in [RwSeries -> Nat] /\ appended \in [RwSeries -> Nat]
  BY <1>0, LiveTypes, Zenon DEF RwInv, RwTypeOK
<1>3. E \subseteq Live(i)
  BY <1>0, Zenon DEF Live, LiveOf
<1> HIDE DEF E
<1>4. ASSUME NEW r \in RwSeries
      PROVE  /\ settled'[r] \in T(r) /\ \A m \in T(r) : m <= settled'[r]
             /\ T(r) \subseteq Nat /\ \A m \in T(r) : m <= appended[r]
  <2>1. settled[r] \in Nat /\ appended[r] \in Nat /\ settled[r] <= appended[r]
    BY <1>2, Zenon DEF RwInv, PlaceInv
  <2>2. \A x \in E : x[2] \in Nat /\ (x[1] = r => x[2] <= appended[r])
    BY <1>2, <1>3, LiveTypes, Zenon DEF Smp
  <2>3. T(r) \subseteq Nat /\ T(r) # {} /\ \A m \in T(r) : m <= appended[r]
    BY <2>1, <2>2, Zenon
  <2>4. settled'[r] = CHOOSE n \in T(r) : \A m \in T(r) : m <= n
    BY <1>1, Zenon
  <2> HIDE DEF T
  <2>5. \E m \in T(r) : \A k \in T(r) : k <= m
    BY <2>1, <2>3, MaxNat, Zenon
  <2> QED
    BY <2>3, <2>4, <2>5, Zenon
<1>5. settled' \in [RwSeries -> Nat]
  <2>1. DOMAIN settled' = RwSeries /\ settled' = [r \in RwSeries |-> settled'[r]]
    BY <1>1
  <2>2. \A r \in RwSeries : settled'[r] \in Nat
    BY <1>4, Zenon
  <2> QED
    BY <2>1, <2>2, Zenon
<1>6. \A r \in RwSeries : settled[r] <= settled'[r] /\ settled'[r] <= appended[r]
  BY <1>4, Zenon
<1>7. \A x \in E : x[2] <= settled'[x[1]]
  <2> SUFFICES ASSUME NEW x \in E PROVE x[2] <= settled'[x[1]]
    BY Zenon
  <2>1. x[1] \in RwSeries /\ x[2] \in T(x[1])
    BY <1>2, Zenon DEF Smp
  <2> QED
    BY <1>4, <2>1, Zenon
<1>8. \A r \in RwSeries : settled'[r] = settled[r] \/ \E x \in E : x[1] = r /\ x[2] = settled'[r]
  BY <1>4, Zenon
<1> QED
  BY <1>0, <1>5, <1>6, <1>7, <1>8, Zenon

\* A request ends: its samples are settled, and what remains to be sent comes
\* after them.
LEMMA RequestEndsStep ==
  ASSUME Counting, RwInv, NEW i \in Shards, rwShard[i].pc = "send", requestEnds(i),
         sent \subseteq sent', given \subseteq given', InShard(i) \subseteq sent' \union given'
  PROVE  RwInv'
<1> DEFINE q  == rwQueue[i]
           sh == rwShard[i]
           fl == flushing[i]
           E  == Elems(sh.batch)
<1>1. /\ rwShard' = [rwShard EXCEPT ![i] = IdleShard]
      /\ rwQueue' = [rwQueue EXCEPT ![i] = q]
      /\ flushing' = [flushing EXCEPT ![i] = fl]
      /\ UNCHANGED <<rwShards, stopper, quit, hard, reported, appended, lost>>
      /\ enqueued' = enqueued - Len(sh.batch)
  BY QueueFields, Zenon DEF requestEnds, RwInv
<1>2. /\ q \in Queue /\ fl \in FlushState /\ sh.batch \in Seq(Smp)
      /\ Line(q, sh, fl) /\ Gone(q, sh, fl, sent \union given, settled)
      /\ i \in Running /\ (stopper \in {"no", "lock"} => ~q.closed)
  BY ShardTypes, Zenon
<1>3. /\ settled' \in [RwSeries -> Nat]
      /\ \A r \in RwSeries : settled[r] <= settled'[r] /\ settled'[r] <= appended[r]
      /\ \A x \in E : x[2] <= settled'[x[1]]
      /\ \A r \in RwSeries : settled'[r] = settled[r] \/ \E x \in E : x[1] = r /\ x[2] = settled'[r]
  BY SettledAfter, Zenon
<1>4. /\ E \subseteq Smp /\ ChanElems(q.chan) \subseteq Smp /\ Elems(q.batch) \subseteq Smp
      /\ InShard(i) = E
  BY LiveTypes, InQueueElems, Zenon
<1>5. IdleShard \in ShardState /\ IdleShard.pc = "select" /\ IdleShard.batch = <<>>
  BY DEF IdleShard, ShardState
<1>6. Elems(<<>>) = {} /\ settled \in [RwSeries -> Nat]
  BY ElemsEmpty, Zenon DEF RwInv, RwTypeOK
<1>7. Line(q, IdleShard, fl)
  BY <1>2, <1>5, <1>6, LineEnds, Zenon DEF Line, Before
<1>8. Gone(q, IdleShard, fl, sent' \union given', settled')
  <2>1. ASSUME fl = "close", NEW x \in Elems(q.batch)
        PROVE  x \in ChanElems(q.chan) \/ (x \in sent' \union given' /\ x[2] <= settled'[x[1]])
    <3>1. x \in ChanElems(q.chan) \union E \/ (x \in sent \union given /\ x[2] <= settled[x[1]])
      BY <1>2, <2>1, Zenon DEF Gone
    <3>2. x[1] \in RwSeries /\ x[2] \in Nat
      BY <1>4, Zenon DEF Smp
    <3> QED
      BY <1>3, <1>4, <1>6, <3>1, <3>2
  <2> QED
    BY <1>2, <1>5, <2>1, Zenon DEF Gone
<1>9. All(i) \subseteq AllOf(q, IdleShard) \union sent' \union given'
  BY <1>4, <1>5, <1>6, Zenon DEF All, AllOf
<1> HIDE DEF q, sh, fl, E
<1>10. /\ rwQueue' \in [Shards -> Queue] /\ rwShard' \in [Shards -> ShardState]
       /\ flushing' \in [Shards -> FlushState]
       /\ LocalInv' /\ KeptInv'
       /\ NextLive(i) = LiveOf(q, IdleShard, fl)
       /\ \A j \in Shards \ {i} : NextLive(j) = Live(j)
  <2>1. \A r \in RwSeries : \A n \in 1..appended'[r] : n \in 1..appended[r] \/ <<r, n>> \in AllOf(q, IdleShard)
    BY <1>1, Zenon
  <2>2. settled' \in [RwSeries -> Nat] /\ \A r \in RwSeries : settled[r] <= settled'[r]
    BY <1>3, Zenon
  <2> QED
    BY <1>1, <1>2, <1>5, <1>7, <1>8, <1>9, <2>1, <2>2, LocalStep, ZenonT(30)
<1>11. StopInv'
  <2>1. stopper \in {"no", "lock"} => IdleShard.pc # "exit" /\ fl = flushing[i] /\ ~q.closed
    BY <1>2, <1>5, Zenon DEF fl
  <2> QED
    BY <1>1, <1>2, <2>1, StopStep, ZenonT(30)
<1>12. \A y \in E : y \in Live(i) /\ y[1] % rwShards = i
  BY LiveTypes, Zenon DEF Live, LiveOf, E, sh
<1>13. ASSUME NEW j \in Shards, NEW x \in NextLive(j)
       PROVE  x \in Live(j) /\ \A y \in E : x[1] = y[1] => y[2] < x[2]
  <2>1. CASE j = i
    <3>1. x \in ChanElems(q.chan) \/ (fl # "close" /\ x \in Elems(q.batch))
      BY <1>5, <1>6, <1>10, <1>13, <2>1, Zenon DEF LiveOf
    <3>2. Before(E, ChanElems(q.chan)) /\ (fl # "close" => Before(E, Elems(q.batch)))
      BY <1>2, Zenon DEF Line, LineOK, Before, ChanElems, E, sh
    <3>3. x \in Live(i)
      BY <3>1, Zenon DEF Live, LiveOf, q, fl
    <3> QED
      BY <2>1, <3>1, <3>2, <3>3, Zenon DEF Before
  <2>2. CASE j # i
    <3>1. x \in Live(j)
      BY <1>10, <1>13, <2>2, Zenon
    <3>2. x[1] % rwShards = j
      BY <3>1, LiveTypes, Zenon
    <3> QED
      BY <1>12, <2>2, <3>1, <3>2, Zenon
  <2> QED
    BY <2>1, <2>2, Zenon
<1>14. ASSUME NEW j \in Shards, NEW x \in NextLive(j)
       PROVE  x[1] % rwShards = j /\ settled'[x[1]] < x[2] /\ x[2] <= appended[x[1]]
  <2>1. x \in Live(j) /\ \A y \in E : x[1] = y[1] => y[2] < x[2]
    BY <1>13, Zenon
  <2>2. /\ x \in Smp /\ x[1] \in RwSeries
        /\ x[1] % rwShards = j /\ settled[x[1]] < x[2] /\ x[2] <= appended[x[1]]
    BY <2>1, LiveTypes, Zenon DEF Smp
  <2>3. settled'[x[1]] < x[2]
    BY <1>3, <2>1, <2>2, Zenon
  <2> QED
    BY <2>2, <2>3, Zenon
<1>15. PlaceInv'
  <2>1. /\ rwShards' = rwShards /\ appended' = appended /\ Shards' = Shards
        /\ \A j \in Shards : Live(j)' = NextLive(j)
    BY <1>1, Zenon DEF Shards, Live, NextLive
  <2> QED
    BY <1>3, <1>14, <2>1 DEF PlaceInv
<1>16. Pending' \subseteq Pending \ E
  <2>1. \A j \in Shards : NextLive(j) \subseteq Live(j) \ E
    <3> SUFFICES ASSUME NEW j \in Shards, NEW x \in NextLive(j) PROVE x \in Live(j) /\ x \notin E
      BY Zenon
    <3>1. x \in Live(j) /\ (x \in E => x[2] < x[2])
      BY <1>13, Zenon
    <3>2. x[2] \in Nat
      BY <3>1, LiveTypes, Zenon DEF Smp
    <3> QED
      BY <3>1, <3>2
  <2> QED
    BY <2>1, Zenon DEF Pending, Shards, Live, NextLive
<1>17. /\ IsFiniteSet(Pending) /\ Cardinality(Pending) <= enqueued /\ enqueued \in Int
       /\ Cardinality(Pending) \in Nat
  BY SizeType, Zenon DEF RwInv, CountInv, RwTypeOK
<1>18. IsFiniteSet(E) /\ Cardinality(E) = Len(sh.batch) /\ Len(sh.batch) \in Nat
  BY <1>2, SortedCount DEF Line, LineOK, E
<1>19. Pending \cap E = E
  BY <1>12, Zenon DEF Pending
<1>20. IsFiniteSet(Pending \ E) /\ Cardinality(Pending \ E) = Cardinality(Pending) - Cardinality(E)
  BY <1>17, <1>19, DifferenceSize, ZenonT(30)
<1>21. enqueued' \in Int /\ Cardinality(Pending \ E) <= enqueued'
  BY <1>1, <1>17, <1>18, <1>20
<1>22. IsFiniteSet(Pending') /\ Cardinality(Pending') <= enqueued'
  BY <1>16, <1>20, <1>21, AtMost, Zenon
<1>23. CountInv'
  <2>1. CASE lost = {}
    BY <1>1, <1>22, <2>1, Zenon DEF CountInv
  <2>2. CASE lost # {}
    <3>1. /\ IsFiniteSet(lost) /\ Cardinality(lost \union Pending) <= reported /\ reported \in Int
          /\ stopper \in {"hard", "stopped"}
      BY <2>2 DEF RwInv, CountInv, RwTypeOK
    <3>2. IsFiniteSet(lost \union Pending)
      BY <1>17, <3>1, UnionFinite, ZenonT(30)
    <3>3. lost \union Pending' \subseteq lost \union Pending
      BY <1>16, Zenon
    <3>4. Cardinality(lost \union Pending') <= reported
      BY <3>1, <3>2, <3>3, AtMost, Zenon
    <3> QED
      BY <1>1, <1>22, <3>1, <3>4, Zenon DEF CountInv
  <2> QED
    BY <2>1, <2>2, Zenon
<1>24. RwTypeOK'
  BY <1>1, <1>3, <1>10, <1>21, ZenonT(30) DEF RwInv, RwTypeOK, Shards, Queue, ShardState, Smp
<1> QED
  BY <1>10, <1>11, <1>15, <1>23, <1>24, Zenon DEF RwInv

\* The queue of a shard after enqueue of the sample x.
Enqueued(q, x) ==
  LET batch == Append(q.batch, x)
  IN  IF Len(batch) = BatchSize THEN [batch |-> <<>>, chan |-> Append(q.chan, batch), closed |-> q.closed]
      ELSE [batch |-> batch, chan |-> q.chan, closed |-> q.closed]

\* The new sample comes after all others of its series in the shard, whether
\* its batch goes to the channel or not.
LEMMA EnqueuedLine ==
  ASSUME NEW q \in Queue, NEW sh \in ShardState, NEW x \in Smp, Line(q, sh, "no"),
         Before(LiveOf(q, sh, "no"), {x})
  PROVE  /\ Enqueued(q, x) \in Queue
         /\ Line(Enqueued(q, x), sh, "no")
         /\ LiveOf(Enqueued(q, x), sh, "no") = LiveOf(q, sh, "no") \union {x}
         /\ Enqueued(q, x).closed = q.closed
<1> DEFINE batch == Append(q.batch, x)
           e == Enqueued(q, x)
<1>1. q.batch \in Seq(Smp) /\ q.chan \in Seq(Seq(Smp)) /\ q.closed \in BOOLEAN /\ sh.batch \in Seq(Smp)
  BY Zenon DEF Queue, ShardState
<1>2. batch \in Seq(Smp) /\ Elems(batch) = Elems(q.batch) \union {x}
  BY <1>1, ElemsAppend, Zenon
<1>3. Before(Elems(q.batch), {x}) /\ Before(Elems(sh.batch) \union ChanElems(q.chan), {x})
  BY Zenon DEF Before, LiveOf
<1>4. Sorted(batch)
  BY <1>1, <1>3, SortedAppend, Zenon DEF Line
<1>5. Before(Elems(sh.batch) \union ChanElems(q.chan), Elems(batch))
  BY <1>2, <1>3, Zenon DEF Line, Before
<1> HIDE DEF batch
<1>6. CASE Len(batch) = BatchSize
  <2>1. e = [batch |-> <<>>, chan |-> Append(q.chan, batch), closed |-> q.closed]
    BY <1>6, Zenon DEF Enqueued, batch
  <2>2. Append(q.chan, batch) \in Seq(Seq(Smp)) /\ ChanElems(Append(q.chan, batch)) = ChanElems(q.chan) \union Elems(batch)
    BY <1>1, <1>2, ChanAppend, Zenon
  <2>3. LineOK(sh.batch, Append(q.chan, batch))
    BY <1>1, <1>2, <1>4, <1>5, LineAppend, Zenon DEF Line
  <2> HIDE DEF e
  <2>4. e \in Queue /\ e.batch = <<>> /\ e.chan = Append(q.chan, batch) /\ e.closed = q.closed
    <3>1. e.batch = <<>> /\ e.chan = Append(q.chan, batch) /\ e.closed = q.closed
      BY <2>1, Zenon
    <3>2. q.closed \in BOOLEAN /\ <<>> \in Seq(Smp)
      BY DEF Queue
    <3>3. e \in Queue
      BY <2>1, <2>2, <3>2, Zenon DEF Queue
    <3> QED
      BY <3>1, <3>3, Zenon
  <2>5. Elems(<<>>) = {} /\ Sorted(<<>>)
    BY ElemsEmpty DEF Sorted
  <2>6. Line(e, sh, "no")
    BY <2>3, <2>4, <2>5, Zenon DEF Line, Before
  <2>7. LiveOf(e, sh, "no") = LiveOf(q, sh, "no") \union {x}
    BY <1>2, <2>2, <2>4, <2>5, Zenon DEF LiveOf
  <2> QED
    BY <2>4, <2>6, <2>7, Zenon DEF e
<1>7. CASE Len(batch) # BatchSize
  <2>1. e = [batch |-> batch, chan |-> q.chan, closed |-> q.closed]
    BY <1>7, Zenon DEF Enqueued, batch
  <2>2. e \in Queue /\ e.batch = batch /\ e.chan = q.chan /\ e.closed = q.closed
    BY <1>1, <1>2, <2>1 DEF Queue
  <2> HIDE DEF e
  <2>3. Line(e, sh, "no")
    BY <1>4, <1>5, <2>2, Zenon DEF Line
  <2>4. LiveOf(e, sh, "no") = LiveOf(q, sh, "no") \union {x}
    BY <1>2, <2>2, Zenon DEF LiveOf
  <2> QED
    BY <2>2, <2>3, <2>4, Zenon DEF e
<1> QED
  BY <1>6, <1>7, Zenon

\* It is what the two assignments make of it.
LEMMA EnqueuedQueue ==
  ASSUME RwTypeOK, NEW i \in Shards, NEW x
  PROVE  LET batch == Append(rwQueue[i].batch, x)
         IN  [rwQueue EXCEPT ![i] = IF Len(batch) = BatchSize THEN [@ EXCEPT !.batch = <<>>, !.chan = Append(rwQueue[i].chan, batch)]
                                    ELSE [@ EXCEPT !.batch = batch]] =
             [rwQueue EXCEPT ![i] = Enqueued(rwQueue[i], x)]
<1>1. ASSUME NEW q \in Queue, NEW d, NEW b
      PROVE  (IF Len(d) = BatchSize THEN [q EXCEPT !.batch = b, !.chan = Append(q.chan, d)] ELSE [q EXCEPT !.batch = d]) =
             (IF Len(d) = BatchSize THEN [batch |-> b, chan |-> Append(q.chan, d), closed |-> q.closed]
              ELSE [batch |-> d, chan |-> q.chan, closed |-> q.closed])
  <2>1. [q EXCEPT !.batch = b, !.chan = Append(q.chan, d)] = [batch |-> b, chan |-> Append(q.chan, d), closed |-> q.closed]
    <3> DEFINE c == Append(q.chan, d)
    <3> HIDE DEF c
    <3>1. [q EXCEPT !.batch = b] = [batch |-> b, chan |-> q.chan, closed |-> q.closed]
      BY QueueRecord, Zenon
    <3>2. [q EXCEPT !.batch = b] \in [batch : {b}, chan : Seq(Seq(Smp)), closed : BOOLEAN]
      BY <3>1, Zenon DEF Queue
    <3>3. [[q EXCEPT !.batch = b] EXCEPT !.chan = c] = [batch |-> b, chan |-> c, closed |-> q.closed]
      <4>1. ASSUME NEW r \in [batch : {b}, chan : Seq(Seq(Smp)), closed : BOOLEAN]
            PROVE  [r EXCEPT !.chan = c] = [batch |-> r.batch, chan |-> c, closed |-> r.closed]
        OBVIOUS
      <4> DEFINE e == [q EXCEPT !.batch = b]
      <4>2. e.batch = b /\ e.closed = q.closed /\ e \in [batch : {b}, chan : Seq(Seq(Smp)), closed : BOOLEAN]
        BY <3>1, <3>2, Zenon
      <4> HIDE DEF e
      <4>3. [e EXCEPT !.chan = c] = [batch |-> b, chan |-> c, closed |-> q.closed]
        BY <4>1, <4>2, Zenon
      <4> QED
        BY <4>3, Zenon DEF e
    <3>4. [q EXCEPT !.batch = b, !.chan = c] = [[q EXCEPT !.batch = b] EXCEPT !.chan = c]
      BY Zenon DEF Queue
    <3> QED
      BY <3>3, <3>4, Zenon DEF c
  <2>2. [q EXCEPT !.batch = d] = [batch |-> d, chan |-> q.chan, closed |-> q.closed]
    BY QueueRecord, Zenon
  <2> QED
    BY <2>1, <2>2, Zenon
<1>2. rwQueue[i] \in Queue
  BY Zenon DEF RwTypeOK
<1> QED
  BY <1>1, <1>2, Zenon DEF Enqueued

LEMMA EnqueueStep ==
  ASSUME Counting, RwInv, NEW r \in RwSeries, enqueue(r)
  PROVE  RwInv'
<1> DEFINE i  == r % rwShards
           x  == <<r, appended[r] + 1>>
           q  == rwQueue[i]
           sh == rwShard[i]
           e  == Enqueued(q, x)
<1>1. i \in Running /\ i \in Shards
  <2>1. r \in Nat /\ rwShards \in Nat \ {0} /\ Running \subseteq Shards
    BY RwAssumption, RunningShards, Zenon
  <2>2. i \in Running
    BY <2>1 DEF Running
  <2> QED
    BY <2>1, <2>2, Zenon
<1>2. /\ appended \in [RwSeries -> Nat] /\ appended[r] \in Nat /\ x \in Smp
      /\ rwQueue \in [Shards -> Queue] /\ settled \in [RwSeries -> Nat] /\ enqueued \in Int
  BY DEF RwInv, RwTypeOK, Smp
<1>3. /\ stopper = "no"
      /\ appended' = [appended EXCEPT ![r] = @ + 1] /\ enqueued' = enqueued + 1
      /\ UNCHANGED <<rwShards, rwShard, flushing, stopper, quit, hard, reported, settled, sent, given, lost>>
  BY Zenon DEF enqueue
<1>4. /\ q \in Queue /\ sh \in ShardState /\ flushing[i] = "no" /\ ~q.closed
      /\ Line(q, sh, "no") /\ Gone(q, sh, "no", sent \union given, settled)
      /\ sh.pc # "exit"
  <2>1. sh.pc # "exit"
    BY <1>1, <1>3, Zenon DEF RwInv, StopInv
  <2>2. /\ q \in Queue /\ sh \in ShardState /\ flushing[i] = "no" /\ ~q.closed
        /\ Line(q, sh, flushing[i]) /\ Gone(q, sh, flushing[i], sent \union given, settled)
    BY <1>1, <1>3, ShardTypes, Zenon
  <2> QED
    BY <2>1, <2>2, Zenon
<1>5. rwQueue' = [rwQueue EXCEPT ![i] = e]
  <2> DEFINE batch == Append(rwQueue[i].batch, x)
  <2>1. rwQueue' = [rwQueue EXCEPT ![i] = IF Len(batch) = BatchSize THEN [@ EXCEPT !.batch = <<>>, !.chan = Append(rwQueue[i].chan, batch)]
                                          ELSE [@ EXCEPT !.batch = batch]]
    BY Zenon DEF enqueue
  <2> HIDE DEF i, x
  <2> QED
    BY <1>1, <2>1, EnqueuedQueue, ZenonT(30) DEF RwInv
<1>6. Live(i) = LiveOf(q, sh, "no") /\ Live(i) \subseteq Smp /\ \A y \in Live(i) : y[2] <= appended[y[1]]
  BY <1>1, <1>4, LiveTypes, Zenon DEF Live
<1>7. Before(LiveOf(q, sh, "no"), {x})
  BY <1>2, <1>6 DEF Before, Smp
<1>8. /\ e \in Queue /\ Line(e, sh, "no") /\ e.closed = q.closed
      /\ LiveOf(e, sh, "no") = LiveOf(q, sh, "no") \union {x}
  BY <1>2, <1>4, <1>7, EnqueuedLine, ZenonT(30)
<1>9. AllOf(e, sh) = AllOf(q, sh) \union {x}
  BY <1>8, Zenon DEF AllOf, LiveOf
<1>10. flushing' = [flushing EXCEPT ![i] = "no"] /\ rwShard' = [rwShard EXCEPT ![i] = sh]
  BY <1>1, <1>3, <1>4, QueueFields, Zenon DEF RwInv
<1> HIDE DEF e, q, sh
<1>11. Gone(e, sh, "no", sent' \union given', settled')
  BY <1>4, <1>8, Zenon DEF Gone
<1>12. /\ appended' \in [RwSeries -> Nat] /\ appended'[r] = appended[r] + 1
       /\ \A s \in RwSeries : appended[s] <= appended'[s] /\ (s # r => appended'[s] = appended[s])
  BY <1>2, <1>3
<1> HIDE DEF x
<1>13. /\ rwQueue' \in [Shards -> Queue] /\ rwShard' \in [Shards -> ShardState]
       /\ flushing' \in [Shards -> FlushState]
       /\ LocalInv' /\ KeptInv'
       /\ NextLive(i) = LiveOf(e, sh, "no")
       /\ \A j \in Shards \ {i} : NextLive(j) = Live(j)
  <2>1. \A s \in RwSeries : \A n \in 1..appended'[s] : n \in 1..appended[s] \/ <<s, n>> \in AllOf(e, sh)
    <3>1. \A s \in RwSeries : \A n \in 1..appended'[s] : n \in 1..appended[s] \/ <<s, n>> = x
      BY <1>2, <1>12 DEF x
    <3> QED
      BY <1>9, <3>1, Zenon
  <2>2. settled' \in [RwSeries -> Nat] /\ \A s \in RwSeries : settled[s] <= settled'[s]
    BY <1>2, <1>3
  <2>3. "no" \in FlushState /\ sent \subseteq sent' /\ given \subseteq given'
    BY <1>3, Zenon DEF FlushState
  <2>4. All(i) \subseteq AllOf(e, sh) \union sent' \union given'
    BY <1>9, Zenon DEF All, q, sh
  <2> HIDE DEF i
  <2> QED
    BY <1>1, <1>4, <1>5, <1>8, <1>10, <1>11, <2>1, <2>2, <2>3, <2>4, LocalStep, ZenonT(30)
<1>14. StopInv'
  <2>1. stopper \in {"no", "lock"} => sh.pc # "exit" /\ "no" = flushing[i] /\ ~e.closed
    BY <1>4, <1>8, Zenon
  <2>2. UNCHANGED <<rwShards, stopper, hard>>
    BY <1>3, Zenon
  <2> HIDE DEF i
  <2> QED
    BY <1>1, <1>5, <1>10, <2>1, <2>2, StopStep, ZenonT(30)
<1>15. ASSUME NEW j \in Shards, NEW y \in NextLive(j)
       PROVE  y[1] % rwShards = j /\ settled[y[1]] < y[2] /\ y[2] <= appended'[y[1]]
  <2>1. CASE y \in Live(j)
    <3>1. y[1] \in RwSeries /\ y[2] \in Nat /\ y[1] % rwShards = j /\ settled[y[1]] < y[2] /\ y[2] <= appended[y[1]]
      BY <2>1, LiveTypes, Zenon DEF Smp
    <3> QED
      BY <1>2, <1>12, <3>1
  <2>2. CASE y = x /\ j = i
    <3>1. settled[r] <= appended[r] /\ settled[r] \in Nat
      BY <1>2, Zenon DEF RwInv, PlaceInv
    <3> QED
      BY <1>2, <1>12, <2>2, <3>1 DEF x
  <2> QED
    BY <1>6, <1>8, <1>13, <1>15, <2>1, <2>2, Zenon
<1>16. PlaceInv'
  <2>1. /\ rwShards' = rwShards /\ settled' = settled /\ Shards' = Shards
        /\ \A j \in Shards : Live(j)' = NextLive(j)
    BY <1>3, Zenon DEF Shards, Live, NextLive
  <2>2. \A s \in RwSeries : settled[s] <= appended'[s]
    BY <1>2, <1>12 DEF RwInv, PlaceInv
  <2> QED
    BY <1>15, <2>1, <2>2, Zenon DEF PlaceInv
<1>17. Pending' \subseteq Pending \union {x}
  <2>1. \A j \in Shards : NextLive(j) \subseteq Live(j) \union {x}
    BY <1>6, <1>8, <1>13, Zenon
  <2> QED
    BY <2>1, Zenon DEF Pending, Shards, Live, NextLive
<1>18. /\ IsFiniteSet(Pending) /\ Cardinality(Pending) <= enqueued /\ Cardinality(Pending) \in Nat
  BY SizeType, Zenon DEF RwInv, CountInv, RwTypeOK
<1>19. IsFiniteSet(Pending \union {x}) /\ Cardinality(Pending \union {x}) <= Cardinality(Pending) + 1
  <2>1. /\ IsFiniteSet(Pending \union {x})
        /\ Cardinality(Pending \union {x}) = IF x \in Pending THEN Cardinality(Pending) ELSE Cardinality(Pending) + 1
    BY <1>18, AddSize, Zenon
  <2> HIDE DEF Pending
  <2> QED
    BY <1>18, <2>1
<1>20. Cardinality(Pending \union {x}) <= enqueued' /\ enqueued' \in Int
  <2>1. Cardinality(Pending \union {x}) \in Nat
    BY <1>19, SizeType, Zenon
  <2> QED
    BY <1>2, <1>3, <1>18, <1>19, <2>1
<1>21. CountInv'
  <2>1. IsFiniteSet(Pending') /\ Cardinality(Pending') <= enqueued'
    BY <1>17, <1>19, <1>20, AtMost, Zenon
  <2>2. lost' = {}
    BY <1>3, Zenon DEF RwInv, CountInv
  <2> QED
    BY <2>1, <2>2, Zenon DEF CountInv
<1>22. RwTypeOK'
  BY <1>3, <1>12, <1>13, <1>20, ZenonT(30) DEF RwInv, RwTypeOK, Shards, Queue, ShardState, Smp
<1> QED
  BY <1>13, <1>14, <1>16, <1>21, <1>22, Zenon DEF RwInv
-----------------------------------------------------------------------------
\* The stopping begins: the shards and their queues stay as they are, and a
\* flush that begins has moved nothing yet.
LEMMA BeginStopStep ==
  ASSUME Counting, RwInv, stop \/ Stop \/ stopLocked \/ hardShutdown
  PROVE  RwInv'
<1>1. /\ UNCHANGED <<rwShards, rwQueue, rwShard, enqueued, reported, appended, settled, sent, given, lost>>
      /\ hard' \in BOOLEAN /\ quit' \in BOOLEAN /\ stopper' \in {"no", "lock", "flush", "hard", "stopped"}
  BY Zenon DEF RwInv, RwTypeOK, stop, Stop, stopLocked, hardShutdown
<1>2. lost = {}
  BY Zenon DEF stop, Stop, stopLocked, hardShutdown, RwInv, CountInv
<1>3. ASSUME NEW i \in Shards
      PROVE  flushing'[i] \in FlushState /\ (flushing'[i] = "close" <=> flushing[i] = "close")
  BY ShardTypes, Zenon DEF stop, Stop, stopLocked, hardShutdown, FlushState
<1>4. flushing' \in [Shards -> FlushState]
  <2>1. flushing' = flushing \/ flushing' = [i \in Shards |-> IF i \in Running THEN "try" ELSE "no"]
    BY Zenon DEF stop, Stop, stopLocked, hardShutdown
  <2> QED
    BY <2>1, Zenon DEF RwInv, RwTypeOK, FlushState
<1>5. RwTypeOK'
  BY <1>1, <1>4, Zenon DEF RwInv, RwTypeOK, Shards, Queue, ShardState, Smp
<1>6. LocalInv'
  <2> SUFFICES ASSUME NEW i \in Shards
               PROVE  /\ Line(rwQueue[i], rwShard[i], flushing'[i])
                      /\ Gone(rwQueue[i], rwShard[i], flushing'[i], sent \union given, settled)
    BY <1>1, Zenon DEF LocalInv, Shards
  <2>1. Line(rwQueue[i], rwShard[i], flushing[i]) /\ Gone(rwQueue[i], rwShard[i], flushing[i], sent \union given, settled)
    BY ShardTypes, Zenon
  <2> QED
    BY <1>3, <2>1, Zenon DEF Line, Gone
<1>7. \A i \in Shards : NextLive(i) \subseteq Live(i)
  BY <1>1, <1>3, Zenon DEF NextLive, Live, LiveOf
<1>8. PlaceInv' /\ CountInv'
  BY <1>1, <1>2, <1>7, QuietStep, Zenon
<1>9. KeptInv'
  BY <1>1, Zenon DEF RwInv, KeptInv, Shards, All
<1>10. StopInv'
  <2>1. Running' = Running /\ Running \subseteq Shards
    BY <1>1, RunningShards, Zenon DEF Running
  <2>2. CASE stop \/ Stop
    BY <1>1, <2>1, <2>2, Zenon DEF RwInv, StopInv, stop, Stop, Shards, NoShard, NewQueue
  <2>3. CASE stopLocked
    BY <1>1, <2>1, <2>3, Zenon DEF RwInv, StopInv, stopLocked, Shards, NoShard, NewQueue
  <2>4. CASE hardShutdown
    BY <1>1, <2>1, <2>4, Zenon DEF RwInv, StopInv, hardShutdown, Shards, NoShard, NewQueue
  <2> QED
    BY <2>2, <2>3, <2>4, Zenon
<1> QED
  BY <1>5, <1>6, <1>8, <1>9, <1>10, Zenon DEF RwInv

\* Queues that are new, and shards that hold no batch.
LEMMA FreshShards ==
  ASSUME NEW S \in [Shards -> ShardState], \A i \in Shards : S[i].batch = <<>>,
         rwQueue' = [i \in Shards |-> NewQueue], flushing' = [i \in Shards |-> "no"], rwShard' = S,
         rwShards' \in 1..MaxShards, appended' = appended, settled' = settled,
         \A r \in RwSeries : settled[r] <= appended[r]
  PROVE  /\ rwQueue' \in [Shards -> Queue] /\ flushing' \in [Shards -> FlushState]
         /\ LocalInv' /\ PlaceInv' /\ Pending' = {}
<1>1. /\ NewQueue \in Queue /\ NewQueue.batch = <<>> /\ NewQueue.chan = <<>>
      /\ Elems(<<>>) = {} /\ ChanElems(<<>>) = {} /\ Sorted(<<>>) /\ LineOK(<<>>, <<>>)
  <2>1. NewQueue \in Queue /\ NewQueue.batch = <<>> /\ NewQueue.chan = <<>>
    BY DEF NewQueue, Queue
  <2>2. Elems(<<>>) = {} /\ ChanElems(<<>>) = {} /\ Sorted(<<>>)
    BY ElemsEmpty DEF Sorted
  <2> QED
    BY <2>1, <2>2, LineEnds, Zenon
<1>2. ASSUME NEW i \in Shards
      PROVE  /\ Line(NewQueue, S[i], "no") /\ LiveOf(NewQueue, S[i], "no") = {}
             /\ \A out, set : Gone(NewQueue, S[i], "no", out, set)
  BY <1>1, Zenon DEF Line, LiveOf, Gone, Before
<1>3. \A i \in Shards : rwQueue'[i] = NewQueue /\ flushing'[i] = "no" /\ rwShard'[i] = S[i]
  BY Zenon
<1>4. LocalInv'
  BY <1>2, <1>3, Zenon DEF LocalInv, Shards
<1>5. \A i \in Shards : Live(i)' = {}
  BY <1>2, <1>3, Zenon DEF Live, Shards
<1>6. PlaceInv' /\ Pending' = {}
  BY <1>5, Zenon DEF PlaceInv, Pending, Shards
<1>7. rwQueue' \in [Shards -> Queue] /\ flushing' \in [Shards -> FlushState]
  BY <1>1, Zenon DEF FlushState
<1> QED
  BY <1>4, <1>6, <1>7, Zenon

\* Once every shard has exited, every sample that was enqueued has ended.
LEMMA DoneKept ==
  ASSUME RwInv, done
  PROVE  /\ \A r \in RwSeries : \A n \in 1..appended[r] : <<r, n>> \in sent \union given
         /\ \A i \in Shards : rwShard[i].pc = "exit" /\ rwShard[i].batch = <<>>
<1>1. ASSUME NEW i \in Shards
      PROVE  rwShard[i].pc = "exit" /\ rwShard[i].batch = <<>> /\ All(i) \subseteq sent \union given
  <2>1. rwShard[i].pc = "exit"
    BY ShardTypes, Zenon DEF done
  <2>2. /\ rwShard[i].batch = <<>>
        /\ ChanElems(rwQueue[i].chan) \union Elems(rwQueue[i].batch) \subseteq sent \union given
    BY <2>1, ShardTypes, Zenon DEF Gone
  <2> QED
    BY <2>1, <2>2, ElemsEmpty, Zenon DEF All, AllOf
<1>2. \A r \in RwSeries : \A n \in 1..appended[r] : <<r, n>> \in sent \union given
  BY <1>1, Zenon DEF RwInv, KeptInv
<1> QED
  BY <1>1, <1>2, Zenon

\* shards.start, or the return of the last shards.stop.
LEMMA EndStopStep ==
  ASSUME Counting, RwInv, start \/ stopped
  PROVE  RwInv'
<1>1. /\ rwQueue' = [i \in Shards |-> NewQueue] /\ flushing' = [i \in Shards |-> "no"]
      /\ UNCHANGED <<quit, appended, settled, sent, given>> /\ done
  BY Zenon DEF start, stopped
<1>2. /\ \A r \in RwSeries : \A n \in 1..appended[r] : <<r, n>> \in sent \union given
      /\ \A i \in Shards : rwShard[i].pc = "exit" /\ rwShard[i].batch = <<>>
  BY <1>1, DoneKept, Zenon
<1>3. /\ rwShards \in 1..MaxShards /\ \A r \in RwSeries : settled[r] <= appended[r]
      /\ rwShard \in [Shards -> ShardState]
  BY Zenon DEF RwInv, RwTypeOK, PlaceInv
<1>4. /\ IdleShard \in ShardState /\ IdleShard.batch = <<>> /\ IdleShard.pc # "exit"
      /\ NoShard \in ShardState /\ NoShard.batch = <<>>
  BY DEF IdleShard, NoShard, ShardState
<1>5. KeptInv'
  BY <1>1, <1>2, Zenon DEF KeptInv
<1>6. CASE start
  <2>1. PICK n \in 1..MaxShards :
          rwShards' = n /\ rwShard' = [i \in Shards |-> IF i < n THEN IdleShard ELSE NoShard]
    BY <1>6, Zenon DEF start
  <2> DEFINE S == [i \in Shards |-> IF i < n THEN IdleShard ELSE NoShard]
  <2>2. S \in [Shards -> ShardState] /\ \A i \in Shards : S[i].batch = <<>>
    BY <1>4, Zenon
  <2>3. rwShard' = S
    BY <2>1, Zenon
  <2> HIDE DEF S
  <2>4. /\ rwQueue' \in [Shards -> Queue] /\ flushing' \in [Shards -> FlushState]
        /\ LocalInv' /\ PlaceInv' /\ Pending' = {}
    BY <1>1, <1>3, <2>1, <2>2, <2>3, FreshShards, Zenon
  <2>5. stopper' = "no" /\ hard' = FALSE /\ enqueued' = 0 /\ reported' = 0 /\ lost' = {}
    BY <1>6, Zenon DEF start
  <2>6. RwTypeOK'
    <3>1. /\ quit' \in BOOLEAN /\ appended' \in [RwSeries -> Nat] /\ settled' \in [RwSeries -> Nat]
      BY <1>1, Zenon DEF RwInv, RwTypeOK
    <3>2. rwShards' \in 1..MaxShards /\ rwShard' \in [Shards -> ShardState] /\ enqueued' \in Int /\ reported' \in Nat
      BY <2>1, <2>2, <2>3, <2>5
    <3>3. hard' \in BOOLEAN /\ stopper' \in {"no", "lock", "flush", "hard", "stopped"}
      BY <2>5, ZenonT(30)
    <3> QED
      BY <2>4, <3>1, <3>2, <3>3, ZenonT(30) DEF RwTypeOK, Shards, Queue, ShardState, Smp, FlushState
  <2>7. CountInv'
    BY <2>4, <2>5, EmptySize DEF CountInv
  <2>8. StopInv'
    <3>1. Running' = 0..(n - 1) /\ \A i \in Shards : (i \in 0..(n - 1) <=> i < n)
      BY <2>1, RwAssumption DEF Running, Shards
    <3>2. \A i \in Shards : rwQueue'[i] = NewQueue /\ flushing'[i] = "no" /\ ~NewQueue.closed
      BY <1>1, Zenon DEF NewQueue
    <3>3. \A i \in Shards : rwShard'[i] = IF i < n THEN IdleShard ELSE NoShard
      BY <2>1, Zenon
    <3>4. \A i \in 0..(n - 1) : i \in Shards
      BY <2>1, RwAssumption DEF Shards
    <3>5. NoShard' = NoShard /\ NewQueue' = NewQueue /\ Shards' = Shards
      BY Zenon DEF NoShard, NewQueue, Shards
    <3>6. \A i \in 0..(n - 1) : rwShard'[i].pc # "exit"
      BY <1>4, <3>1, <3>3, <3>4, Zenon
    <3>7. \A i \in Shards \ (0..(n - 1)) : rwShard'[i] = NoShard
      BY <3>1, <3>3, Zenon
    <3> QED
      BY <2>5, <3>1, <3>2, <3>5, <3>6, <3>7, Zenon DEF StopInv
  <2> QED
    BY <1>5, <2>4, <2>6, <2>7, <2>8, Zenon DEF RwInv
<1>7. CASE stopped
  <2>1. /\ UNCHANGED <<rwShards, rwShard, hard, enqueued, reported, lost>> /\ stopper' = "stopped"
    BY <1>7, Zenon DEF stopped
  <2>2. /\ rwQueue' \in [Shards -> Queue] /\ flushing' \in [Shards -> FlushState]
        /\ LocalInv' /\ PlaceInv' /\ Pending' = {}
    BY <1>1, <1>2, <1>3, <2>1, FreshShards, Zenon
  <2>3. RwTypeOK'
    BY <1>1, <2>1, <2>2, Zenon DEF RwInv, RwTypeOK, Shards, Queue, ShardState, Smp
  <2>4. CountInv'
    <3>1. \A i \in Shards : NextLive(i) \subseteq Live(i)
      <4>1. \A i \in Shards : Live(i)' = NextLive(i)
        BY Zenon DEF Live, NextLive
      <4>2. Pending' = UNION {NextLive(i) : i \in Shards}
        BY <4>1, Zenon DEF Pending, Shards
      <4> QED
        BY <2>2, <4>2, Zenon
    <3> QED
      BY <1>1, <2>1, <3>1, QuietStep, Zenon
  <2>5. StopInv'
    <3>1. Running' = Running /\ Running \subseteq Shards
      BY <2>1, RunningShards, Zenon DEF Running
    <3> QED
      BY <1>1, <2>1, <3>1, Zenon DEF RwInv, StopInv, Shards, NoShard, NewQueue
  <2> QED
    BY <1>5, <2>2, <2>3, <2>4, <2>5, Zenon DEF RwInv
<1> QED
  BY <1>6, <1>7, Zenon

\* The invariant holds of the first shard, and every step keeps it.
LEMMA RwInitial ==
  ASSUME Counting, RwInit
  PROVE  RwInv
<1>1. /\ IdleShard \in ShardState /\ IdleShard.batch = <<>> /\ IdleShard.pc # "exit"
      /\ NoShard \in ShardState /\ NoShard.batch = <<>>
      /\ NewQueue \in Queue /\ NewQueue.batch = <<>> /\ NewQueue.chan = <<>> /\ ~NewQueue.closed
  BY DEF IdleShard, NoShard, ShardState, NewQueue, Queue
<1>2. /\ Elems(<<>>) = {} /\ ChanElems(<<>>) = {} /\ Sorted(<<>>) /\ LineOK(<<>>, <<>>)
  <2>1. Elems(<<>>) = {} /\ ChanElems(<<>>) = {} /\ Sorted(<<>>)
    BY ElemsEmpty DEF Sorted
  <2> QED
    BY <2>1, LineEnds, Zenon
<1>3. 1 \in 1..MaxShards
  BY RwAssumption
<1>4. /\ \A i \in Shards : rwQueue[i] = NewQueue /\ flushing[i] = "no" /\ rwShard[i] \in {IdleShard, NoShard}
      /\ \A i \in Shards : i < 1 => rwShard[i] = IdleShard
      /\ \A i \in Shards : ~(i < 1) => rwShard[i] = NoShard
  BY Zenon DEF RwInit
<1>5. RwTypeOK
  <2>1. rwQueue \in [Shards -> Queue] /\ rwShard \in [Shards -> ShardState]
    BY <1>1, Zenon DEF RwInit
  <2>2. flushing \in [Shards -> FlushState]
    BY Zenon DEF RwInit, FlushState
  <2>3. appended \in [RwSeries -> Nat] /\ settled \in [RwSeries -> Nat] /\ enqueued \in Int /\ reported \in Nat
    BY DEF RwInit
  <2> QED
    BY <1>3, <2>1, <2>2, <2>3, ZenonT(30) DEF RwInit, RwTypeOK
<1>6. LocalInv
  BY <1>1, <1>2, <1>4, Zenon DEF LocalInv, Line, Gone, Before
<1>7. \A i \in Shards : Live(i) = {}
  BY <1>1, <1>2, <1>4, Zenon DEF Live, LiveOf
<1>8. PlaceInv
  BY <1>7 DEF PlaceInv, RwInit
<1>9. StopInv
  <2>1. /\ \A i \in Running : i \in Shards /\ i < 1
        /\ \A i \in Shards \ Running : ~(i < 1)
    BY RwAssumption DEF RwInit, Running, Shards
  <2> QED
    BY <1>1, <1>4, <2>1, Zenon DEF RwInit, StopInv
<1>10. KeptInv
  BY DEF RwInit, KeptInv
<1>11. CountInv
  <2>1. Pending = {}
    BY <1>7, Zenon DEF Pending
  <2> QED
    BY <2>1, EmptySize DEF RwInit, CountInv
<1> QED
  BY <1>5, <1>6, <1>8, <1>9, <1>10, <1>11, Zenon DEF RwInv

LEMMA RwStep ==
  ASSUME Counting, "flush" \notin RwRaces, RwInv, RwNext
  PROVE  RwInv'
<1>1. ASSUME NEW r \in RwSeries, enqueue(r) PROVE RwInv'
  BY <1>1, EnqueueStep, Zenon
<1>2. ASSUME NEW i \in Shards, shardStep(i) PROVE RwInv'
  BY <1>2, ReceiveBatchStep, BatchStep, ExitClosedStep, ExitHardStep, Zenon DEF shardStep
<1>3. ASSUME NEW i \in Shards, Store(i) \/ StoreFailed(i) PROVE RwInv'
  <2>1. rwShard[i].pc = "send" /\ requestEnds(i)
    BY <1>3, Zenon DEF Store, StoreFailed
  <2>2. sent \subseteq sent' /\ given \subseteq given' /\ InShard(i) \subseteq sent' \union given'
    BY <1>3, Zenon DEF Store, StoreFailed
  <2> QED
    BY <2>1, <2>2, RequestEndsStep, Zenon
<1>4. ASSUME NEW i \in Shards, StoreRetried(i) PROVE RwInv'
  BY <1>4, StoreRetriedStep, Zenon
<1>5. ASSUME NEW i \in Shards, flushStep(i) PROVE RwInv'
  BY <1>5, TryEnqueueingBatchStep, FlushAndShutdownStep, Zenon DEF flushStep
<1>6. CASE stop \/ Stop \/ stopStep
  BY <1>6, BeginStopStep, EndStopStep, Zenon DEF stopStep
<1> QED
  BY <1>1, <1>2, <1>3, <1>4, <1>5, <1>6, Zenon DEF RwNext

LEMMA RwStutter ==
  ASSUME RwInv, UNCHANGED rwVars
  PROVE  RwInv'
<1>1. RwTypeOK' /\ StopInv'
  BY Zenon DEF RwInv, rwVars, RwTypeOK, StopInv, Shards, Queue, ShardState, Smp, FlushState, Running, NoShard, NewQueue
<1>2. LocalInv' /\ PlaceInv' /\ KeptInv'
  BY ZenonT(30) DEF RwInv, rwVars, LocalInv, PlaceInv, KeptInv, Shards, Live, All
<1>3. CountInv'
  BY Zenon DEF RwInv, rwVars, CountInv, Pending, Live, Shards
<1> QED
  BY <1>1, <1>2, <1>3, Zenon DEF RwInv

-----------------------------------------------------------------------------
INSTANCE FiniteSetTheorems

\* The facts of Counting, from the theorems about finite sets and well-founded
\* relations.
LEMMA CountingHolds == Counting
<1>1. \A S \in SUBSET Nat : S # {} => \E x \in S : \A y \in S : x <= y
  <2> SUFFICES ASSUME NEW S \in SUBSET Nat, S # {}
               PROVE  \E x \in S : \A y \in S : x <= y
    BY Zenon
  <2> DEFINE Less == {ss \in Nat \X Nat : ss[1] < ss[2]}
  <2>1. IsWellFoundedOn(Less, Nat)
    BY NatLessThanWellFounded, Zenon DEF OpToRel
  <2> HIDE DEF Less
  <2>2. \E x \in S : \A y \in S : ~(<<y, x>> \in Less)
    BY <2>1, WFMin, Zenon
  <2>3. \A x, y \in Nat : ~(<<y, x>> \in Less) => x <= y
    BY DEF Less
  <2> QED
    BY <2>2, <2>3, Zenon
<1>2. IsFiniteSet({}) /\ Cardinality({}) = 0
  BY FS_EmptySet, Zenon
<1>3. \A S : IsFiniteSet(S) => Cardinality(S) \in Nat
  BY FS_CardinalityType, Zenon
<1>4. \A S : IsFiniteSet(S) => \A T \in SUBSET S : IsFiniteSet(T) /\ Cardinality(T) <= Cardinality(S)
  BY FS_Subset, Zenon
<1>5. \A S, T : IsFiniteSet(S) /\ IsFiniteSet(T) => IsFiniteSet(S \union T)
  BY FS_Union, Zenon
<1>6. \A S, T : IsFiniteSet(S) =>
        IsFiniteSet(S \ T) /\ Cardinality(S \ T) = Cardinality(S) - Cardinality(S \cap T)
  BY FS_Difference, Zenon
<1>7. \A S, x : IsFiniteSet(S) =>
        /\ IsFiniteSet(S \union {x})
        /\ Cardinality(S \union {x}) = IF x \in S THEN Cardinality(S) ELSE Cardinality(S) + 1
  BY FS_AddElement, Zenon
<1>8. ASSUME NEW n \in Nat, NEW S, NEW f, Lists(n, S, f)
      PROVE  IsFiniteSet(S) /\ Cardinality(S) = n
  <2>1. f \in Surjection(1..n, S)
    BY <1>8, Zenon DEF Surjection, Lists
  <2>2. f \in Injection(1..n, S)
    BY <1>8, Zenon DEF Injection, IsInjective, Lists
  <2>3. ExistsBijection(1..n, S)
    BY <2>1, <2>2, Zenon DEF ExistsBijection, Bijection
  <2>4. IsFiniteSet(1..n) /\ Cardinality(1..n) = n
    BY FS_Interval
  <2> QED
    BY <2>3, <2>4, FS_Bijection, Zenon
<1> QED
  BY <1>1, <1>2, <1>3, <1>4, <1>5, <1>6, <1>7, <1>8, ZenonT(30) DEF Counting

\* The invariant of remote write: batches are in order, what is to be sent is
\* in the shard of its series, after what has been settled, and is counted.
THEOREM RwInvariance ==
  ASSUME "flush" \notin RwRaces
  PROVE  RwSpec => []RwInv
<1>1. RwInit => RwInv
  BY CountingHolds, RwInitial, Zenon
<1>2. RwInv /\ [RwNext]_rwVars => RwInv'
  BY CountingHolds, RwStep, RwStutter, Zenon
<1> QED
  BY <1>1, <1>2, PTL DEF RwSpec

\* "we only every deliver samples in order" (reshardLoop): however the shards
\* are stopped, started again with another number or shut down hard, a request
\* of runShard holds samples that come after those of every ended request.
THEOREM SamplesDeliveredInOrder ==
  ASSUME "flush" \notin RwRaces
  PROVE  RwSpec => []DeliveredInOrder
<1>1. RwInv => DeliveredInOrder
  <2> SUFFICES ASSUME RwInv, NEW i \in Shards
               PROVE  LET b == rwShard[i].batch
                      IN  /\ \A k \in DOMAIN b : b[k][2] > settled[b[k][1]]
                          /\ \A k, l \in DOMAIN b : k < l /\ b[k][1] = b[l][1] => b[k][2] < b[l][2]
                          /\ \A j \in Shards \ {i} : {x[1] : x \in InShard(i)} \cap {x[1] : x \in InShard(j)} = {}
    BY Zenon DEF DeliveredInOrder
  <2> DEFINE b == rwShard[i].batch
  <2>1. b \in Seq(Smp) /\ DOMAIN b = 1..Len(b) /\ LineOK(b, rwQueue[i].chan)
    <3>1. b \in Seq(Smp) /\ Line(rwQueue[i], rwShard[i], flushing[i])
      BY ShardTypes, Zenon
    <3>2. LineOK(b, rwQueue[i].chan)
      BY <3>1, Zenon DEF Line
    <3> QED
      BY <3>1, <3>2
  <2>2. ASSUME NEW j \in Shards, NEW x \in InShard(j) PROVE x \in Live(j) /\ x[1] % rwShards = j
    <3>1. x \in Live(j)
      BY InQueueElems, Zenon DEF Live, LiveOf
    <3> QED
      BY <3>1, LiveTypes, Zenon
  <2>3. \A k \in DOMAIN b : b[k] \in Live(i) /\ b[k] \in Smp
    BY <2>1, ElemsType, Zenon DEF Live, LiveOf
  <2>4. \A k \in DOMAIN b : b[k][2] > settled[b[k][1]]
    <3> SUFFICES ASSUME NEW k \in DOMAIN b PROVE b[k][2] > settled[b[k][1]]
      BY Zenon
    <3>1. settled[b[k][1]] < b[k][2]
      BY <2>3, LiveTypes, Zenon
    <3>2. settled[b[k][1]] \in Nat /\ b[k][2] \in Nat
      BY <2>3, Zenon DEF RwInv, RwTypeOK, Smp
    <3> QED
      BY <3>1, <3>2, Zenon
  <2>5. \A k, l \in DOMAIN b : k < l /\ b[k][1] = b[l][1] => b[k][2] < b[l][2]
    BY <2>1, Zenon DEF LineOK, Sorted
  <2>6. \A j \in Shards \ {i} : {x[1] : x \in InShard(i)} \cap {x[1] : x \in InShard(j)} = {}
    BY <2>2, Zenon
  <2> QED
    BY <2>4, <2>5, <2>6, Zenon
<1> QED
  BY <1>1, RwInvariance, PTL

\* A reshard, a retry or a hard shutdown loses no sample unaccounted for, and
\* samplesDroppedOnHardShutdown is never too small when all shards have exited.
THEOREM NoSampleIsLost ==
  ASSUME "flush" \notin RwRaces
  PROVE  RwSpec => []NoSampleLost
<1>1. RwInv => NoSampleLost
  <2> SUFFICES ASSUME RwInv PROVE NoSampleLost
    BY Zenon
  <2>1. \A i \in Shards : All(i) = InQueue(i) \union InShard(i)
    BY InQueueElems, Zenon DEF All, AllOf
  <2>2. \A r \in RwSeries : \A n \in 1..appended[r] :
          <<r, n>> \in sent \union given \union UNION {InQueue(i) \union InShard(i) : i \in Shards}
    BY <2>1, Zenon DEF RwInv, KeptInv
  <2>3. reported >= Cardinality(lost)
    <3>1. reported \in Nat
      BY Zenon DEF RwInv, RwTypeOK
    <3>2. CASE lost = {}
      BY <3>1, <3>2, EmptySize, CountingHolds
    <3>3. CASE lost # {}
      <4>1. IsFiniteSet(lost) /\ IsFiniteSet(Pending) /\ Cardinality(lost \union Pending) <= reported
        BY <3>3, Zenon DEF RwInv, CountInv
      <4>2. IsFiniteSet(lost \union Pending)
        BY <4>1, UnionFinite, CountingHolds, Zenon
      <4>3. Cardinality(lost) <= reported /\ Cardinality(lost) \in Nat
        BY <3>1, <4>1, <4>2, AtMost, SizeType, CountingHolds
      <4> QED
        BY <3>1, <4>3, Zenon
    <3> QED
      BY <3>2, <3>3, Zenon
  <2> QED
    BY <2>2, <2>3, Zenon DEF NoSampleLost
<1> QED
  BY <1>1, RwInvariance, PTL
=============================================================================
