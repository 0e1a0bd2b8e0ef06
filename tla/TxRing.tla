------------------------------- MODULE TxRing -------------------------------
(***************************************************************************)
(* The ring buffer of append IDs of a series (txRing, tsdb/isolation.go).  *)
(* It starts without room, doubles when it is full and never shrinks; its  *)
(* methods run under the lock of the series.  txIDs is indexed from 0.     *)
(***************************************************************************)
EXTENDS Integers, Sequences

CONSTANTS AppendIDs,  \* the IDs of appends; a low watermark is one of them
          MaxCount    \* bound on the samples a series tracks at a time

ASSUME TxRingAssumption == AppendIDs \subseteq Nat /\ MaxCount \in Nat

VARIABLES
  len,        \* len(txIDs)
  txIDs,      \* the array
  txIDFirst,  \* position of the first ID in the ring
  txIDCount   \* how many IDs are in the ring

ringVars == <<len, txIDs, txIDFirst, txIDCount>>

RingTypeOK ==
  /\ len \in Nat
  /\ txIDs \in [0..(len - 1) -> Nat]
  /\ txIDCount \in 0..len
  /\ txIDFirst \in 0..len /\ (len > 0 => txIDFirst < len)

\* newTxRing(0), as newMemSeries makes it.
newTxRing ==
  /\ len = 0
  /\ txIDs = [i \in 0..(-1) |-> 0]
  /\ txIDFirst = 0
  /\ txIDCount = 0

\* The position of the k-th ID, counted from 0.
Position(k) == (txIDFirst + k) % len
-----------------------------------------------------------------------------
\* Mutant: the array is copied as it lies, the wrapped part first.
GrownUnrotated(newLen) ==
  [i \in 0..(newLen - 1) |-> IF i < len THEN txIDs[i] ELSE 0]

\* make and the two copies: the part from txIDFirst on comes first.
Grown(newLen) ==
  [i \in 0..(newLen - 1) |->
     IF i < len - txIDFirst THEN txIDs[txIDFirst + i]
     ELSE IF i < len THEN txIDs[i - (len - txIDFirst)] ELSE 0]

\* A full ring expands by doubling before it takes the new ID.
addFull(id) ==
  /\ txIDCount = len
  /\ LET newLen == IF txIDCount = 0 THEN 4 ELSE 2 * txIDCount
     IN  /\ len' = newLen
         /\ txIDs' = [Grown(newLen) EXCEPT ![txIDCount] = id]
  /\ txIDFirst' = 0
  /\ txIDCount' = txIDCount + 1

addRoom(id) ==
  /\ txIDCount < len
  /\ txIDs' = [txIDs EXCEPT ![Position(txIDCount)] = id]
  /\ txIDCount' = txIDCount + 1
  /\ UNCHANGED <<len, txIDFirst>>

add(id) == txIDCount < MaxCount /\ (addFull(id) \/ addRoom(id))

\* The loop passes the first n IDs, up to one that is not below the bound.
cleanupAppendIDsBelow(bound) ==
  \/ /\ len = 0
     /\ UNCHANGED ringVars
  \/ /\ len > 0
     /\ \E n \in 0..txIDCount :
          /\ \A k \in 0..(n - 1) : txIDs[Position(k)] < bound
          /\ n < txIDCount => txIDs[Position(n)] >= bound
          /\ txIDFirst' = (txIDFirst + n) % len
          /\ txIDCount' = txIDCount - n
     /\ UNCHANGED <<len, txIDs>>

RingNext == \E id \in AppendIDs : add(id) \/ cleanupAppendIDsBelow(id)

RingSpec == newTxRing /\ [][RingNext]_ringVars
-----------------------------------------------------------------------------
\* txRingIterator.Next; the iterator starts at txIDFirst and never ends.
NextPos(pos) == IF pos + 1 = len THEN 0 ELSE pos + 1

\* The IDs in the ring, oldest first.
Contents == [i \in 1..txIDCount |-> txIDs[Position(i - 1)]]

Queue == INSTANCE TxQueue WITH queue <- Contents

\* The ring is a first-in first-out queue of append IDs: growing it, wrapping
\* around and dropping IDs from its front lose, repeat or reorder nothing.
ImplementsQueue == Queue!QSpec

\* Walking the iterator from txIDFirst visits the positions of the IDs in
\* the order they were added (memSeries.iterator reads them this way).
IteratorInOrder ==
  \A k \in 0..(txIDCount - 2) : NextPos(Position(k)) = Position(k + 1)
=============================================================================
