------------------------------ MODULE Exemplars ------------------------------
(***************************************************************************)
(* CircularExemplarStorage (tsdb/exemplar.go): a circular buffer of the    *)
(* exemplars of all series, in which the exemplars of a series are linked  *)
(* from the oldest to the newest, an index of the ends of these chains,    *)
(* and Resize, which moves the exemplars into a buffer of another length   *)
(* while the storage is in use.                                            *)
(*                                                                         *)
(* An exemplar is its timestamp: value and labels only break ties.  Slots  *)
(* are numbered from 0 as in the code.                                     *)
(***************************************************************************)
EXTENDS Integers, Sequences, SequencesExt

CONSTANTS ExSeries,   \* the series
          ExTimes,    \* the timestamps
          MaxLength   \* bound on the length of the buffer

ASSUME ExemplarAssumption == ExTimes \subseteq Nat /\ MaxLength \in Nat

VARIABLES
  exemplars,  \* the buffer: slot i is exemplars[i + 1]
  nextIndex,
  index,      \* for each series with exemplars, its oldest and newest slot
  kept        \* what the storage should hold, in the order of arrival

exVars == <<exemplars, nextIndex, index, kept>>

noExemplar == -1
Empty == [used |-> FALSE]
Entry(s, t, n) == [used |-> TRUE, series |-> s, ts |-> t, next |-> n]

ExInit ==
  /\ \E l \in 0..MaxLength : exemplars = [i \in 1..l |-> Empty]
  /\ nextIndex = 0 /\ index = <<>> /\ kept = <<>>

\* The last n elements of a sequence.
Newest(q, n) == IF Len(q) <= n THEN q ELSE SubSeq(q, Len(q) - n + 1, Len(q))
-----------------------------------------------------------------------------
\* validateExemplar: neither a duplicate of the newest nor older than it.
validateExemplar(s, t) == s \in DOMAIN index => t > exemplars[index[s].newest + 1].ts

\* Mutant: the entry that is overwritten always gives up its series.
AddExemplarDrops(s, t) ==
  /\ exemplars # <<>> /\ validateExemplar(s, t)
  /\ LET prev  == exemplars[nextIndex + 1]
         left  == IF prev.used THEN DOMAIN index \ {prev.series} ELSE DOMAIN index
         start == IF s \in left THEN index[s].oldest ELSE nextIndex
         link  == IF s \in left THEN [exemplars EXCEPT ![index[s].newest + 1].next = nextIndex] ELSE exemplars
     IN  /\ exemplars' = [link EXCEPT ![nextIndex + 1] = Entry(s, t, noExemplar)]
         /\ index' = [q \in left \union {s} |->
                        IF q = s THEN [oldest |-> start, newest |-> nextIndex] ELSE index[q]]
  /\ nextIndex' = (nextIndex + 1) % Len(exemplars)
  /\ kept' = Newest(Append(kept, <<s, t>>), Len(exemplars))

\* AddExemplar: the exemplar is linked behind the newest of its series, and
\* takes the slot of the oldest exemplar of all.
AddExemplar(s, t) ==
  /\ exemplars # <<>> /\ validateExemplar(s, t)
  /\ LET linked == IF s \in DOMAIN index THEN [exemplars EXCEPT ![index[s].newest + 1].next = nextIndex]
                   ELSE exemplars
         prev   == linked[nextIndex + 1]
         own    == IF s \in DOMAIN index THEN index
                   ELSE [q \in DOMAIN index \union {s} |->
                           IF q = s THEN [oldest |-> nextIndex, newest |-> nextIndex] ELSE index[q]]
         freed  == IF ~prev.used THEN own
                   ELSE IF prev.next = noExemplar
                        THEN [q \in DOMAIN own \ {prev.series} |-> own[q]]
                        ELSE [own EXCEPT ![prev.series].oldest = prev.next]
     IN  /\ exemplars' = [linked EXCEPT ![nextIndex + 1] = Entry(s, t, noExemplar)]
         /\ index' = [freed EXCEPT ![s].newest = nextIndex]
  /\ nextIndex' = (nextIndex + 1) % Len(exemplars)
  /\ kept' = Newest(Append(kept, <<s, t>>), Len(exemplars))

\* migrate: st is the new buffer, its next index and the new index.
migrate(st, e) ==
  LET linked == IF e.series \in DOMAIN st.index
                THEN [st.buffer EXCEPT ![st.index[e.series].newest + 1].next = st.next] ELSE st.buffer
      first  == IF e.series \in DOMAIN st.index THEN st.index[e.series].oldest ELSE st.next
  IN  [buffer |-> [linked EXCEPT ![st.next + 1] = Entry(e.series, e.ts, noExemplar)],
       index  |-> [q \in DOMAIN st.index \union {e.series} |->
                     IF q = e.series THEN [oldest |-> first, newest |-> st.next] ELSE st.index[q]],
       next   |-> (st.next + 1) % Len(st.buffer)]

\* Mutant: the entries are moved from the first slot on.
MovedFromStart(l, old) ==
  LET count == IF l < Len(old) THEN l ELSE Len(old)
  IN  IF l = 0 \/ old = <<>> THEN <<>>
      ELSE SelectSeq([i \in 1..count |-> old[i]], LAMBDA e : e.used)

\* The entries that Resize moves, oldest first: the next index of the old
\* buffer is rewound by their number.
Moved(l, old) ==
  LET count == IF l < Len(old) THEN l ELSE Len(old)
      startIndex == (nextIndex - count + Len(old)) % Len(old)
  IN  IF l = 0 \/ old = <<>> THEN <<>>
      ELSE SelectSeq([i \in 1..count |-> old[((startIndex + i - 1) % Len(old)) + 1]], LAMBDA e : e.used)

\* Resize
Resize(l) ==
  /\ l # Len(exemplars)
  /\ LET st == FoldLeft(migrate, [buffer |-> [i \in 1..l |-> Empty], index |-> <<>>, next |-> 0],
                        Moved(l, exemplars))
     IN  exemplars' = st.buffer /\ index' = st.index /\ nextIndex' = st.next
  /\ kept' = Newest(kept, l)

ExNext == \/ \E s \in ExSeries, t \in ExTimes : AddExemplar(s, t)
          \/ \E l \in 0..MaxLength : Resize(l)

ExSpec == ExInit /\ [][ExNext]_exVars
-----------------------------------------------------------------------------
\* IterateExemplars
IterateExemplars ==
  LET l == Len(exemplars)
      turn == [i \in 1..l |-> exemplars[((nextIndex + i - 1) % l) + 1]]
  IN  SelectSeq(turn, LAMBDA e : e.used)

\* Select: the chain of a series, cut after as many links as there are slots.
Select(s) ==
  LET walk[n \in 0..Len(exemplars)] ==
        IF n = 0 THEN <<exemplars[index[s].oldest + 1]>>
        ELSE LET w == walk[n - 1]
                 e == w[Len(w)]
             IN  IF e.next = noExemplar THEN w ELSE Append(w, exemplars[e.next + 1])
  IN  IF s \in DOMAIN index THEN [i \in 1..Len(walk[Len(exemplars)]) |-> walk[Len(exemplars)][i].ts] ELSE <<>>

\* Whatever series the slots that are overwritten belong to and however often
\* the buffer is resized, it holds the last exemplars that arrived, as many
\* as it has had room for since, and a query of a series follows its chain
\* through all of them and through no others (AddExemplar, Resize, Select).
SelectExact ==
  /\ [i \in 1..Len(IterateExemplars) |-> <<IterateExemplars[i].series, IterateExemplars[i].ts>>] = kept
  /\ \A s \in ExSeries :
       LET own == SelectSeq(kept, LAMBDA x : x[1] = s)
       IN  Select(s) = [i \in 1..Len(own) |-> own[i][2]]
=============================================================================
