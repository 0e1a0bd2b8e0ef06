-------------------------- MODULE HeadSeriesProofs --------------------------
(***************************************************************************)
(* The low watermark of isolation is safe, for any number of readers and   *)
(* appends (tsdb/isolation.go); isolated reads of in-order series are      *)
(* right, for any number of series, appends, samples and queries; and the  *)
(* ring of append IDs implements a first-in first-out queue, however far   *)
(* it has grown and wherever it has wrapped.                               *)
(***************************************************************************)
EXTENDS TxRing, HeadSeries, TLAPS

(* Isolation.                                                              *)

\* The open appenders are linked in ID order and are the keys of the map.
AppendListInv ==
  /\ \A i, j \in 1..Len(appendsOpenList) :
       i < j => appendsOpenList[i].appendID < appendsOpenList[j].appendID
  /\ \A i \in 1..Len(appendsOpenList) : appendsOpenList[i].appendID <= lastAppendID
  /\ \A id \in Nat : id \in appendsOpen <=>
       \E i \in 1..Len(appendsOpenList) : appendsOpenList[i].appendID = id

\* An older read has a lower watermark, and no read is above the appends.
ReadListInv ==
  /\ \A i, j \in 1..Len(readsOpen) :
       i < j => readsOpen[j].lowWatermark <= readsOpen[i].lowWatermark
  /\ \A i \in 1..Len(readsOpen) :
       readsOpen[i].lowWatermark <= NextAppendID(appendsOpenList, lastAppendID)

\* What a read hides is at or above its own watermark.
HiddenInv ==
  \A i \in 1..Len(readsOpen) :
    /\ readsOpen[i].lowWatermark <= readsOpen[i].maxAppendID
    /\ \A id \in readsOpen[i].incompleteAppends : readsOpen[i].lowWatermark <= id

\* The watermarks carried by open appends are below the current one.
CarriedInv == \A k \in appendsOpen : cleanupBelow[k] <= lowWatermark

IsoInv == IsoTypeOK /\ AppendListInv /\ ReadListInv /\ HiddenInv /\ CarriedInv
-----------------------------------------------------------------------------
\* The elements of two lists one behind the other.
LEMMA JoinedLists ==
  ASSUME NEW S, NEW a \in Seq(S), NEW b \in Seq(S)
  PROVE  /\ a \o b \in Seq(S) /\ Len(a \o b) = Len(a) + Len(b)
         /\ \A j \in 1..(Len(a) + Len(b)) : (a \o b)[j] = IF j <= Len(a) THEN a[j] ELSE b[j - Len(a)]
OBVIOUS

\* What unlinking element i from a list leaves: one element less, the ones
\* before i in place and the ones after it moved up by one.
LEMMA UnlinkedProperties ==
  ASSUME NEW S, NEW s \in Seq(S), NEW i \in 1..Len(s)
  PROVE  /\ Unlinked(s, i) \in Seq(S)
         /\ Len(Unlinked(s, i)) = Len(s) - 1
         /\ \A j \in 1..(Len(s) - 1) :
              Unlinked(s, i)[j] = IF j < i THEN s[j] ELSE s[j + 1]
<1> DEFINE before == SubSeq(s, 1, i - 1)
           after  == SubSeq(s, i + 1, Len(s))
<1>1. /\ Len(s) \in Nat
      /\ \A j \in 1..Len(s) : s[j] \in S
  OBVIOUS
<1>2. /\ before \in Seq(S)
      /\ Len(before) = i - 1
      /\ \A j \in 1..(i - 1) : before[j] = s[j]
  <2>1. \A j \in 1..(i - 1) : s[j] \in S
    BY <1>1
  <2> QED
    BY <1>1, <2>1
<1>3. /\ after \in Seq(S)
      /\ Len(after) = Len(s) - i
      /\ \A j \in 1..(Len(s) - i) : after[j] = s[i + j]
  <2>1. \A j \in (i + 1)..Len(s) : s[j] \in S
    BY <1>1
  <2> QED
    BY <1>1, <2>1
<1> HIDE DEF before, after
<1>4. /\ before \o after \in Seq(S)
      /\ Len(before \o after) = Len(s) - 1
      /\ \A j \in 1..(Len(s) - 1) :
           (before \o after)[j] = IF j <= i - 1 THEN before[j] ELSE after[j - (i - 1)]
  <2>1. /\ before \o after \in Seq(S)
        /\ Len(before \o after) = Len(before) + Len(after)
        /\ \A j \in 1..(Len(before) + Len(after)) :
             (before \o after)[j] = IF j <= Len(before) THEN before[j] ELSE after[j - Len(before)]
    BY <1>2, <1>3, JoinedLists, Zenon
  <2>2. Len(before) + Len(after) = Len(s) - 1
    BY <1>1, <1>2, <1>3
  <2> QED
    BY <1>2, <2>1, <2>2, Zenon
<1>5. Unlinked(s, i) = before \o after
  BY Zenon DEF Unlinked, before, after
<1> QED
  BY <1>1, <1>2, <1>3, <1>4, <1>5

\* The types of the fields of what the two lists hold.
LEMMA ListElementTypes ==
  ASSUME IsoTypeOK
  PROVE  /\ Len(appendsOpenList) \in Nat
         /\ Len(readsOpen) \in Nat
         /\ \A i \in 1..Len(appendsOpenList) : appendsOpenList[i].appendID \in Nat
         /\ \A i \in 1..Len(readsOpen) :
              /\ readsOpen[i].lowWatermark \in Nat
              /\ readsOpen[i].maxAppendID \in Nat
              /\ readsOpen[i].incompleteAppends \subseteq Nat
<1>1. \A i \in 1..Len(appendsOpenList) : appendsOpenList[i] \in IsolationAppender
  BY DEF IsoTypeOK
<1>2. \A i \in 1..Len(readsOpen) : readsOpen[i] \in IsolationState
  BY DEF IsoTypeOK
<1>3. Len(appendsOpenList) \in Nat /\ Len(readsOpen) \in Nat
  BY DEF IsoTypeOK
<1> QED
  BY <1>1, <1>2, <1>3, Zenon DEF IsolationAppender, IsolationState

LEMMA NatOrder ==
  ASSUME NEW a \in Nat, NEW b \in Nat, NEW c \in Nat, a <= b, b <= c
  PROVE  a <= c
OBVIOUS

\* Positions in a list that is one shorter.
LEMMA ShorterList ==
  ASSUME NEW n \in Nat, NEW i \in 1..(n - 1)
  PROVE  i \in 1..n /\ i + 1 \in 1..n
OBVIOUS

\* Both watermarks are append IDs.
LEMMA WatermarkTypes ==
  ASSUME NEW list \in Seq(IsolationAppender), NEW reads \in Seq(IsolationState),
         NEW last \in Nat
  PROVE  NextAppendID(list, last) \in Nat /\ lowWatermarkOf(reads, list, last) \in Nat
<1>1. list # <<>> => list[1] \in IsolationAppender
  OBVIOUS
<1>2. reads # <<>> => reads[Len(reads)] \in IsolationState
  OBVIOUS
<1> QED
  BY <1>1, <1>2, Zenon DEF NextAppendID, lowWatermarkOf, IsolationAppender, IsolationState

\* The lowest open append, or the last append ID: never above the last one.
LEMMA NextAppendIDBounds ==
  ASSUME IsoTypeOK, AppendListInv
  PROVE  /\ NextAppendID(appendsOpenList, lastAppendID) \in Nat
         /\ NextAppendID(appendsOpenList, lastAppendID) <= lastAppendID
         /\ \A id \in appendsOpen : NextAppendID(appendsOpenList, lastAppendID) <= id
<1>1. CASE appendsOpenList = <<>>
  BY <1>1 DEF IsoTypeOK, AppendListInv, NextAppendID
<1>2. CASE appendsOpenList # <<>>
  <2>1. 1 \in 1..Len(appendsOpenList)
    BY <1>2 DEF IsoTypeOK
  <2>2. \A i \in 1..Len(appendsOpenList) : appendsOpenList[i].appendID \in Nat
    BY ListElementTypes, Zenon
  <2>3. \A i \in 1..Len(appendsOpenList) :
          appendsOpenList[1].appendID <= appendsOpenList[i].appendID
    BY <2>1, <2>2 DEF AppendListInv
  <2> QED
    BY <1>2, <2>1, <2>2, <2>3, Zenon DEF IsoTypeOK, AppendListInv, NextAppendID
<1> QED
  BY <1>1, <1>2, Zenon

\* Without reads the watermark is the lowest open append; with reads it is
\* the watermark of the oldest one, the lowest of all reads.
LEMMA LowWatermarkBounds ==
  ASSUME IsoInv
  PROVE  /\ lowWatermark \in Nat
         /\ lowWatermark <= NextAppendID(appendsOpenList, lastAppendID)
         /\ \A i \in 1..Len(readsOpen) : lowWatermark <= readsOpen[i].lowWatermark
<1>1. CASE readsOpen = <<>> \/ disabled
  BY <1>1, NextAppendIDBounds, ListElementTypes DEF IsoInv, lowWatermark, lowWatermarkOf
<1>2. CASE readsOpen # <<>> /\ ~disabled
  <2>1. Len(readsOpen) \in 1..Len(readsOpen)
    BY <1>2 DEF IsoInv, IsoTypeOK
  <2>2. \A i \in 1..Len(readsOpen) : readsOpen[i].lowWatermark \in Nat
    BY ListElementTypes, Zenon DEF IsoInv
  <2>3. lowWatermark = readsOpen[Len(readsOpen)].lowWatermark
    BY <1>2, Zenon DEF lowWatermark, lowWatermarkOf
  <2> QED
    BY <2>1, <2>2, <2>3 DEF IsoInv, ReadListInv
<1> QED
  BY <1>1, <1>2, Zenon
-----------------------------------------------------------------------------
\* A new append goes to the tail with the highest ID so far: order, map and
\* watermark are kept, and the watermark it carries is the current one.
LEMMA NewAppendIDStep ==
  ASSUME IsoInv, NEW t \in Times, newAppendID(t)
  PROVE  IsoInv' /\ lowWatermark <= lowWatermark'
<1> DEFINE id  == lastAppendID + 1
           app == [appendID |-> id, minTime |-> t]
<1> USE DEF IsoInv
<1>1. /\ lastAppendID \in Nat
      /\ appendsOpenList \in Seq(IsolationAppender)
      /\ app \in IsolationAppender
      /\ app.appendID = id
  BY DEF IsoTypeOK, IsolationAppender
<1>2. /\ lastAppendID' = id
      /\ appendsOpenList' = Append(appendsOpenList, app)
      /\ appendsOpen' = appendsOpen \union {id}
      /\ readsOpen' = readsOpen
      /\ cleanupBelow' = [k \in appendsOpen \union {id} |->
                            IF k = id THEN lowWatermark' ELSE cleanupBelow[k]]
  BY Zenon DEF newAppendID, lowWatermark
<1> HIDE DEF app
<1>3. /\ appendsOpenList' \in Seq(IsolationAppender)
      /\ appendsOpenList' # <<>>
      /\ Len(appendsOpenList') = Len(appendsOpenList) + 1
      /\ \A i \in 1..Len(appendsOpenList) : appendsOpenList'[i] = appendsOpenList[i]
      /\ appendsOpenList'[Len(appendsOpenList) + 1] = app
  BY <1>1, <1>2
<1>4. AppendListInv'
  <2>1. \A i \in 1..Len(appendsOpenList') :
          \/ i \in 1..Len(appendsOpenList) /\ appendsOpenList'[i] = appendsOpenList[i]
          \/ i = Len(appendsOpenList) + 1 /\ appendsOpenList'[i] = app
    BY <1>3, ListElementTypes
  <2>2. ASSUME NEW i \in 1..Len(appendsOpenList'), NEW j \in 1..Len(appendsOpenList'),
               i < j
        PROVE  appendsOpenList'[i].appendID < appendsOpenList'[j].appendID
    <3>1. i \in 1..Len(appendsOpenList) /\ appendsOpenList'[i] = appendsOpenList[i]
      BY <2>1, <2>2, <1>3, ListElementTypes
    <3>2. CASE j \in 1..Len(appendsOpenList) /\ appendsOpenList'[j] = appendsOpenList[j]
      BY <2>2, <3>1, <3>2, Zenon DEF AppendListInv
    <3>3. CASE appendsOpenList'[j] = app
      BY <1>1, <3>1, <3>3, ListElementTypes DEF AppendListInv
    <3> QED
      BY <2>1, <3>2, <3>3, Zenon
  <2>3. \A i \in 1..Len(appendsOpenList') : appendsOpenList'[i].appendID <= lastAppendID'
    BY <1>1, <1>2, <2>1, ListElementTypes DEF AppendListInv
  <2>4. ASSUME NEW k \in Nat
        PROVE  k \in appendsOpen' <=>
                 \E i \in 1..Len(appendsOpenList') : appendsOpenList'[i].appendID = k
    <3>1. CASE k = id
      BY <3>1, <1>1, <1>2, <1>3, ListElementTypes
    <3>2. CASE k # id
      <4>1. k \in appendsOpen' <=> k \in appendsOpen
        BY <3>2, <1>2, Zenon
      <4>2. k \in appendsOpen <=>
              \E i \in 1..Len(appendsOpenList) : appendsOpenList[i].appendID = k
        BY Zenon DEF AppendListInv
      <4>3. ASSUME NEW i \in 1..Len(appendsOpenList), appendsOpenList[i].appendID = k
            PROVE  i \in 1..Len(appendsOpenList') /\ appendsOpenList'[i].appendID = k
        BY <4>3, <1>3, ListElementTypes
      <4>4. ASSUME NEW i \in 1..Len(appendsOpenList'), appendsOpenList'[i].appendID = k
            PROVE  i \in 1..Len(appendsOpenList) /\ appendsOpenList[i].appendID = k
        BY <4>4, <3>2, <2>1, <1>1, Zenon
      <4> QED
        BY <4>1, <4>2, <4>3, <4>4, Zenon
    <3> QED
      BY <3>1, <3>2, Zenon
  <2> QED
    BY <2>2, <2>3, <2>4, Zenon DEF AppendListInv
<1>5. /\ NextAppendID(appendsOpenList, lastAppendID)'
           = IF appendsOpenList = <<>> THEN id ELSE appendsOpenList[1].appendID
      /\ NextAppendID(appendsOpenList, lastAppendID)
           <= NextAppendID(appendsOpenList, lastAppendID)'
  <2>1. CASE appendsOpenList = <<>>
    BY <1>1, <1>2, <1>3, <2>1 DEF NextAppendID
  <2>2. CASE appendsOpenList # <<>>
    <3>1. 1 \in 1..Len(appendsOpenList)
      BY <2>2, <1>1
    <3> QED
      BY <1>2, <1>3, <2>2, <3>1, ListElementTypes DEF NextAppendID
  <2> QED
    BY <2>1, <2>2, Zenon
<1>6. ReadListInv'
  BY <1>2, <1>5, ListElementTypes, NextAppendIDBounds, <1>1, SMTT(30) DEF ReadListInv
<1>7. HiddenInv'
  BY <1>2, Zenon DEF HiddenInv
<1>8. lowWatermark' \in Nat /\ lowWatermark <= lowWatermark'
  <2>1. CASE readsOpen = <<>>
    BY <1>1, <1>2, <1>5, <2>1, ListElementTypes, NextAppendIDBounds
       DEF lowWatermark, lowWatermarkOf, NextAppendID
  <2>2. CASE readsOpen # <<>>
    BY <1>2, <2>2, LowWatermarkBounds DEF lowWatermark, lowWatermarkOf
  <2> QED
    BY <2>1, <2>2, Zenon
<1>9. IsoTypeOK'
  <2>1. id \in Nat
    BY <1>1
  <2>2. lastAppendID' \in Nat /\ appendsOpen' \subseteq Nat /\ readsOpen' \in Seq(IsolationState)
    BY <1>2, <2>1, Zenon DEF IsoTypeOK
  <2>3. appendsOpenList' \in Seq(IsolationAppender)
    BY <1>3, Zenon
  <2>4. cleanupBelow' \in [appendsOpen' -> Nat]
    BY <1>2, <1>8 DEF IsoTypeOK
  <2> QED
    BY <2>2, <2>3, <2>4, Zenon DEF IsoTypeOK
<1>10. CarriedInv'
  <2>1. ASSUME NEW k \in appendsOpen'
        PROVE  cleanupBelow'[k] <= lowWatermark'
    <3>1. CASE k = id
      BY <3>1, <1>2, <1>8
    <3>2. CASE k # id
      <4>1. k \in appendsOpen /\ cleanupBelow'[k] = cleanupBelow[k]
        BY <3>2, <1>2, <2>1, Zenon
      <4>2. cleanupBelow[k] \in Nat /\ cleanupBelow[k] <= lowWatermark
        BY <4>1, Zenon DEF CarriedInv, IsoTypeOK
      <4> QED
        BY <4>1, <4>2, <1>8, LowWatermarkBounds
    <3> QED
      BY <3>1, <3>2, Zenon
  <2> QED
    BY <2>1, Zenon DEF CarriedInv
<1> QED
  BY <1>4, <1>6, <1>7, <1>8, <1>9, <1>10, Zenon

\* A closed append leaves the list in order; the lowest open append, and so
\* the watermark, can only go up.
LEMMA CloseAppendStep ==
  ASSUME IsoInv, NEW id \in appendsOpen, closeAppend(id)
  PROVE  IsoInv' /\ lowWatermark <= lowWatermark'
<1> USE DEF IsoInv
<1>1. PICK x \in 1..Len(appendsOpenList) :
        /\ appendsOpenList[x].appendID = id
        /\ appendsOpenList' = Unlinked(appendsOpenList, x)
  BY DEF closeAppend, IsoTypeOK
<1>2. /\ appendsOpen' = appendsOpen \ {id}
      /\ cleanupBelow' = [k \in appendsOpen \ {id} |-> cleanupBelow[k]]
      /\ lastAppendID' = lastAppendID
      /\ readsOpen' = readsOpen
  BY Zenon DEF closeAppend
<1>3. /\ appendsOpenList' \in Seq(IsolationAppender)
      /\ Len(appendsOpenList') = Len(appendsOpenList) - 1
      /\ \A j \in 1..(Len(appendsOpenList) - 1) :
           appendsOpenList'[j] = IF j < x THEN appendsOpenList[j] ELSE appendsOpenList[j + 1]
  BY <1>1, UnlinkedProperties, Zenon DEF IsoTypeOK
<1>4. IsoTypeOK'
  BY <1>2, <1>3, Zenon DEF IsoTypeOK
<1>5. AppendListInv'
  <2>1. ASSUME NEW i \in 1..Len(appendsOpenList'), NEW j \in 1..Len(appendsOpenList'), i < j
        PROVE  appendsOpenList'[i].appendID < appendsOpenList'[j].appendID
    <3>1. /\ Len(appendsOpenList) \in Nat
          /\ i \in 1..Len(appendsOpenList) /\ i + 1 \in 1..Len(appendsOpenList)
          /\ j \in 1..Len(appendsOpenList) /\ j + 1 \in 1..Len(appendsOpenList)
      BY <1>3, <2>1, ListElementTypes
    <3>2. CASE j < x
      BY <1>3, <2>1, <3>1, <3>2 DEF AppendListInv
    <3>3. CASE i < x /\ ~(j < x)
      <4>1. /\ appendsOpenList'[i] = appendsOpenList[i]
            /\ appendsOpenList'[j] = appendsOpenList[j + 1]
            /\ i < j + 1
        BY <1>3, <2>1, <3>1, <3>3
      <4> QED
        BY <3>1, <4>1, Zenon DEF AppendListInv
    <3>4. CASE ~(i < x)
      <4>1. /\ appendsOpenList'[i] = appendsOpenList[i + 1]
            /\ appendsOpenList'[j] = appendsOpenList[j + 1]
            /\ i + 1 < j + 1
        BY <1>3, <2>1, <3>1, <3>4
      <4> QED
        BY <3>1, <4>1, Zenon DEF AppendListInv
    <3> QED
      BY <2>1, <3>1, <3>2, <3>3, <3>4, Zenon
  <2>2. ASSUME NEW i \in 1..Len(appendsOpenList')
        PROVE  appendsOpenList'[i].appendID <= lastAppendID'
    <3>1. PICK j \in 1..Len(appendsOpenList) : appendsOpenList'[i] = appendsOpenList[j]
      BY <1>3, ListElementTypes
    <3> QED
      BY <1>2, <3>1, Zenon DEF AppendListInv
  <2>3. ASSUME NEW k \in Nat
        PROVE  k \in appendsOpen' <=>
                 \E i \in 1..Len(appendsOpenList') : appendsOpenList'[i].appendID = k
    <3>1. k \in appendsOpen <=>
            \E i \in 1..Len(appendsOpenList) : appendsOpenList[i].appendID = k
      BY Zenon DEF AppendListInv
    <3>2. ASSUME NEW i \in 1..Len(appendsOpenList), appendsOpenList[i].appendID = k, k # id
          PROVE  \E j \in 1..Len(appendsOpenList') : appendsOpenList'[j].appendID = k
      <4>1. CASE i < x
        <5>1. i \in 1..Len(appendsOpenList')
          BY <1>3, <4>1, ListElementTypes
        <5>2. appendsOpenList'[i] = appendsOpenList[i]
          BY <1>3, <4>1, <5>1, Zenon
        <5> QED
          BY <3>2, <5>1, <5>2, Zenon
      <4>2. CASE i > x
        <5>1. /\ i - 1 \in 1..Len(appendsOpenList')
              /\ ~(i - 1 < x)
              /\ (i - 1) + 1 = i
          BY <1>3, <4>2, ListElementTypes
        <5>2. appendsOpenList'[i - 1] = appendsOpenList[i]
          BY <1>3, <5>1, Zenon
        <5> QED
          BY <3>2, <5>1, <5>2, Zenon
      <4> QED
        BY <1>1, <3>2, <4>1, <4>2
    <3>3. ASSUME NEW j \in 1..Len(appendsOpenList'), appendsOpenList'[j].appendID = k
          PROVE  k # id /\ \E i \in 1..Len(appendsOpenList) : appendsOpenList[i].appendID = k
      <4>1. PICK i \in 1..Len(appendsOpenList) : i # x /\ appendsOpenList'[j] = appendsOpenList[i]
        <5>1. Len(appendsOpenList) \in Nat /\ j \in 1..(Len(appendsOpenList) - 1)
          BY <1>3, ListElementTypes, Zenon
        <5>2. CASE j < x
          BY <1>3, <5>1, <5>2
        <5>3. CASE ~(j < x)
          BY <1>3, <5>1, <5>3
        <5> QED
          BY <5>2, <5>3, Zenon
      <4>2. i < x => appendsOpenList[i].appendID < appendsOpenList[x].appendID
        BY Zenon DEF AppendListInv
      <4>3. x < i => appendsOpenList[x].appendID < appendsOpenList[i].appendID
        BY Zenon DEF AppendListInv
      <4> QED
        BY <1>1, <3>3, <4>1, <4>2, <4>3, ListElementTypes
    <3> QED
      BY <1>2, <3>1, <3>2, <3>3, Zenon
  <2> QED
    BY <2>1, <2>2, <2>3, Zenon DEF AppendListInv
<1>6. NextAppendID(appendsOpenList, lastAppendID)
        <= NextAppendID(appendsOpenList, lastAppendID)'
  <2>1. CASE appendsOpenList' = <<>>
    BY <1>2, <2>1, NextAppendIDBounds, Zenon DEF NextAppendID
  <2>2. CASE appendsOpenList' # <<>>
    <3>1. 1 \in 1..Len(appendsOpenList')
      BY <1>3, <2>2
    <3>2. PICK i \in 1..Len(appendsOpenList) : appendsOpenList'[1] = appendsOpenList[i]
      BY <1>3, <3>1, ListElementTypes
    <3>3. appendsOpenList[i].appendID \in appendsOpen
      BY ListElementTypes, Zenon DEF AppendListInv
    <3> QED
      BY <2>2, <3>2, <3>3, NextAppendIDBounds, Zenon DEF NextAppendID
  <2> QED
    BY <2>1, <2>2, Zenon
<1>7. ReadListInv' /\ HiddenInv'
  <2>1. NextAppendID(appendsOpenList, lastAppendID)' \in Nat
    BY <1>4, WatermarkTypes, Zenon DEF IsoTypeOK
  <2> QED
    BY <1>2, <1>6, <2>1, ListElementTypes, NextAppendIDBounds DEF ReadListInv, HiddenInv
<1>8. lowWatermark <= lowWatermark'
  BY <1>2, <1>6, LowWatermarkBounds DEF lowWatermark, lowWatermarkOf
<1>9. CarriedInv'
  <2>1. lowWatermark' \in Nat
    BY <1>4, WatermarkTypes, Zenon DEF IsoTypeOK, lowWatermark
  <2> QED
    <3> SUFFICES ASSUME NEW k \in appendsOpen' PROVE cleanupBelow'[k] <= lowWatermark'
      BY Zenon DEF CarriedInv
    <3>1. k \in appendsOpen /\ cleanupBelow'[k] = cleanupBelow[k] /\ cleanupBelow[k] \in Nat
      BY <1>2, Zenon DEF IsoTypeOK
    <3>2. cleanupBelow[k] <= lowWatermark /\ lowWatermark \in Nat
      BY <3>1, LowWatermarkBounds, Zenon DEF CarriedInv
    <3> QED
      BY <1>8, <2>1, <3>1, <3>2, NatOrder, Zenon
<1> QED
  BY <1>4, <1>5, <1>7, <1>8, <1>9, Zenon

\* A new read takes the lowest open append for its watermark: at or above
\* every older read, and at or below everything it hides.
LEMMA StateStep ==
  ASSUME IsoInv, NEW r \in Readers, NEW mint \in Times, NEW maxt \in Times,
         State(r, mint, maxt)
  PROVE  IsoInv' /\ lowWatermark <= lowWatermark'
<1> USE DEF IsoInv
<1> DEFINE next == NextAppendID(appendsOpenList, lastAppendID)
           read == [reader |-> r, maxAppendID |-> lastAppendID, lowWatermark |-> next,
                    incompleteAppends |-> appendsOpen, mint |-> mint, maxt |-> maxt]
<1>1. /\ readsOpen' = <<read>> \o readsOpen
      /\ lastAppendID' = lastAppendID
      /\ appendsOpen' = appendsOpen
      /\ appendsOpenList' = appendsOpenList
      /\ cleanupBelow' = cleanupBelow
  BY Zenon DEF State
<1>2. /\ next \in Nat
      /\ next <= lastAppendID
      /\ \A id \in appendsOpen : next <= id
  BY NextAppendIDBounds, Zenon
<1>3. /\ read \in IsolationState
      /\ read.lowWatermark = next
      /\ read.maxAppendID = lastAppendID
      /\ read.incompleteAppends = appendsOpen
  BY <1>2, Zenon DEF IsoTypeOK, IsolationState
<1> HIDE DEF read
<1>4. /\ <<read>> \in Seq(IsolationState)
      /\ Len(<<read>>) = 1
      /\ <<read>>[1] = read
      /\ readsOpen \in Seq(IsolationState)
      /\ Len(readsOpen) \in Nat
  BY <1>3, ListElementTypes DEF IsoTypeOK
<1>5. /\ readsOpen' \in Seq(IsolationState)
      /\ Len(readsOpen') = Len(readsOpen) + 1
      /\ \A i \in 1..(Len(readsOpen) + 1) :
           readsOpen'[i] = IF i <= 1 THEN <<read>>[i] ELSE readsOpen[i - 1]
  BY <1>1, <1>4
<1>6. /\ readsOpen'[1] = read
      /\ \A i \in 1..Len(readsOpen') :
           i # 1 => i - 1 \in 1..Len(readsOpen) /\ readsOpen'[i] = readsOpen[i - 1]
  BY <1>4, <1>5
<1>7. IsoTypeOK' /\ AppendListInv'
  BY <1>1, <1>5, Zenon DEF IsoTypeOK, AppendListInv
<1>8. ReadListInv'
  <2>1. ASSUME NEW i \in 1..Len(readsOpen'), NEW j \in 1..Len(readsOpen'), i < j
        PROVE  readsOpen'[j].lowWatermark <= readsOpen'[i].lowWatermark
    <3>1. j # 1 /\ j - 1 \in 1..Len(readsOpen) /\ readsOpen'[j] = readsOpen[j - 1]
      BY <1>6, <2>1
    <3>2. CASE i = 1
      BY <1>3, <1>6, <3>1, <3>2, Zenon DEF ReadListInv
    <3>3. CASE i # 1
      <4>1. /\ i - 1 \in 1..Len(readsOpen) /\ readsOpen'[i] = readsOpen[i - 1]
            /\ i - 1 < j - 1
        BY <1>4, <1>6, <2>1, <3>1, <3>3
      <4> QED
        BY <3>1, <4>1, Zenon DEF ReadListInv
    <3> QED
      BY <3>2, <3>3, Zenon
  <2>2. ASSUME NEW i \in 1..Len(readsOpen')
        PROVE  readsOpen'[i].lowWatermark <= next
    <3>1. CASE i = 1
      BY <1>2, <1>3, <1>6, <3>1
    <3>2. CASE i # 1
      BY <1>6, <3>2, Zenon DEF ReadListInv
    <3> QED
      BY <3>1, <3>2, Zenon
  <2> QED
    BY <1>1, <2>1, <2>2, Zenon DEF ReadListInv
<1>9. HiddenInv'
  <2>1. ASSUME NEW i \in 1..Len(readsOpen')
        PROVE  /\ readsOpen'[i].lowWatermark <= readsOpen'[i].maxAppendID
               /\ \A id \in readsOpen'[i].incompleteAppends : readsOpen'[i].lowWatermark <= id
    <3>1. CASE i = 1
      BY <1>2, <1>3, <1>6, <3>1, Zenon
    <3>2. CASE i # 1
      BY <1>6, <3>2, Zenon DEF HiddenInv
    <3> QED
      BY <3>1, <3>2, Zenon
  <2> QED
    BY <2>1, Zenon DEF HiddenInv
<1>10. lowWatermark' = lowWatermark
  <2>0. SUFFICES ASSUME ~disabled PROVE lowWatermark' = lowWatermark
    BY Zenon DEF lowWatermark, lowWatermarkOf
  <2>1. readsOpen' # <<>> /\ Len(readsOpen') \in 1..Len(readsOpen')
    BY <1>4, <1>5
  <2>2. lowWatermark' = readsOpen'[Len(readsOpen')].lowWatermark
    BY <2>0, <2>1, Zenon DEF lowWatermark, lowWatermarkOf
  <2>3. CASE readsOpen = <<>>
    BY <1>3, <1>4, <1>5, <1>6, <2>2, <2>3 DEF lowWatermark, lowWatermarkOf
  <2>4. CASE readsOpen # <<>>
    <3>1. Len(readsOpen') # 1 /\ Len(readsOpen') - 1 = Len(readsOpen)
      BY <1>4, <1>5, <2>4
    <3> QED
      BY <1>6, <2>1, <2>2, <2>4, <3>1, Zenon DEF lowWatermark, lowWatermarkOf
  <2> QED
    BY <2>3, <2>4, Zenon
<1> QED
  BY <1>1, <1>7, <1>8, <1>9, <1>10, LowWatermarkBounds DEF CarriedInv

\* A read may end in any order.  Closing the oldest one lets the watermark
\* rise to the next oldest read, or to the lowest open append.
LEMMA CloseStep ==
  ASSUME IsoInv, NEW r \in Readers, Close(r)
  PROVE  IsoInv' /\ lowWatermark <= lowWatermark'
<1> USE DEF IsoInv
<1>1. PICK x \in 1..Len(readsOpen) : readsOpen' = Unlinked(readsOpen, x)
  BY DEF Close, IsoTypeOK
<1>2. /\ lastAppendID' = lastAppendID
      /\ appendsOpen' = appendsOpen
      /\ appendsOpenList' = appendsOpenList
      /\ cleanupBelow' = cleanupBelow
  BY Zenon DEF Close
<1>3. /\ readsOpen' \in Seq(IsolationState)
      /\ Len(readsOpen') = Len(readsOpen) - 1
      /\ \A j \in 1..(Len(readsOpen) - 1) :
           readsOpen'[j] = IF j < x THEN readsOpen[j] ELSE readsOpen[j + 1]
  BY <1>1, UnlinkedProperties, Zenon DEF IsoTypeOK
<1>4. IsoTypeOK' /\ AppendListInv'
  BY <1>2, <1>3, Zenon DEF IsoTypeOK, AppendListInv
<1>5. \A j \in 1..Len(readsOpen') : \E i \in 1..Len(readsOpen) : readsOpen'[j] = readsOpen[i]
  BY <1>3, ListElementTypes
<1>6. ReadListInv'
  <2>1. ASSUME NEW i \in 1..Len(readsOpen'), NEW j \in 1..Len(readsOpen'), i < j
        PROVE  readsOpen'[j].lowWatermark <= readsOpen'[i].lowWatermark
    <3>1. /\ Len(readsOpen) \in Nat
          /\ i \in 1..Len(readsOpen) /\ i + 1 \in 1..Len(readsOpen)
          /\ j \in 1..Len(readsOpen) /\ j + 1 \in 1..Len(readsOpen)
      BY <1>3, <2>1, ListElementTypes, ShorterList, Zenon
    <3>2. CASE j < x
      BY <1>3, <2>1, <3>1, <3>2 DEF ReadListInv
    <3>3. CASE i < x /\ ~(j < x)
      <4>1. readsOpen'[i] = readsOpen[i] /\ readsOpen'[j] = readsOpen[j + 1] /\ i < j + 1
        BY <1>3, <2>1, <3>1, <3>3
      <4> QED
        BY <3>1, <4>1, Zenon DEF ReadListInv
    <3>4. CASE ~(i < x)
      <4>1. readsOpen'[i] = readsOpen[i + 1] /\ readsOpen'[j] = readsOpen[j + 1] /\ i + 1 < j + 1
        BY <1>3, <2>1, <3>1, <3>4
      <4> QED
        BY <3>1, <4>1, Zenon DEF ReadListInv
    <3> QED
      BY <2>1, <3>1, <3>2, <3>3, <3>4, Zenon
  <2>2. \A i \in 1..Len(readsOpen') :
          readsOpen'[i].lowWatermark <= NextAppendID(appendsOpenList, lastAppendID)
    BY <1>5, Zenon DEF ReadListInv
  <2> QED
    BY <1>2, <2>1, <2>2, Zenon DEF ReadListInv
<1>7. HiddenInv'
  BY <1>5, Zenon DEF HiddenInv
<1>8. lowWatermark' \in Nat
  BY <1>4, WatermarkTypes, Zenon DEF IsoTypeOK, lowWatermark
<1>9. lowWatermark <= lowWatermark'
  <2>1. CASE readsOpen' = <<>>
    BY <1>2, <2>1, LowWatermarkBounds DEF lowWatermark, lowWatermarkOf
  <2>2. CASE readsOpen' # <<>>
    <3>1. Len(readsOpen') \in 1..Len(readsOpen')
      BY <1>3, <2>2
    <3>2. PICK i \in 1..Len(readsOpen) : readsOpen'[Len(readsOpen')] = readsOpen[i]
      BY <1>5, <3>1, Zenon
    <3> QED
      BY <2>2, <3>2, LowWatermarkBounds DEF lowWatermark, lowWatermarkOf
  <2> QED
    BY <2>1, <2>2, Zenon
<1>10. CarriedInv'
  <2>1. ASSUME NEW k \in appendsOpen PROVE cleanupBelow[k] <= lowWatermark'
    <3>1. cleanupBelow[k] \in Nat /\ cleanupBelow[k] <= lowWatermark
      BY Zenon DEF CarriedInv, IsoTypeOK
    <3>2. lowWatermark \in Nat
      BY LowWatermarkBounds, Zenon
    <3> QED
      BY <1>8, <1>9, <3>1, <3>2
  <2> QED
    BY <1>2, <2>1, Zenon DEF CarriedInv
<1> QED
  BY <1>4, <1>6, <1>7, <1>9, <1>10, Zenon

\* A step that changes nothing keeps everything.
LEMMA IsoStutter ==
  ASSUME IsoInv, UNCHANGED isoVars
  PROVE  IsoInv' /\ lowWatermark <= lowWatermark'
<1>1. IsoInv'
  BY Zenon DEF isoVars, IsoInv, IsoTypeOK, AppendListInv, ReadListInv, HiddenInv, CarriedInv,
         lowWatermark
<1>2. lowWatermark' = lowWatermark
  BY Zenon DEF isoVars, lowWatermark
<1> QED
  BY <1>1, <1>2, LowWatermarkBounds

\* Every step of the component, put together.
LEMMA IsoStep ==
  ASSUME IsoInv, [IsoNext]_isoVars
  PROVE  IsoInv' /\ lowWatermark <= lowWatermark'
<1>1. CASE \E t \in Times : newAppendID(t)
  BY <1>1, NewAppendIDStep, Zenon
<1>2. CASE \E id \in appendsOpen : closeAppend(id)
  BY <1>2, CloseAppendStep, Zenon
<1>3. CASE \E r \in Readers, mint, maxt \in Times : mint <= maxt /\ State(r, mint, maxt)
  BY <1>3, StateStep, Zenon
<1>4. CASE \E r \in Readers : Close(r)
  BY <1>4, CloseStep, Zenon
<1>5. CASE UNCHANGED isoVars
  BY <1>5, IsoStutter, Zenon
<1> QED
  BY <1>1, <1>2, <1>3, <1>4, <1>5, Zenon DEF IsoNext

\* The invariant holds of the isolation state at all times, whatever number
\* of readers and appends the head serves.
THEOREM IsoInvariance == IsoSpec => []IsoInv
<1>1. newIsolation => IsoInv
  BY DEF newIsolation, IsoInv, IsoTypeOK, AppendListInv, ReadListInv, HiddenInv, CarriedInv
<1>2. IsoInv /\ [IsoNext]_isoVars => IsoInv'
  BY IsoStep, Zenon
<1> QED
  BY <1>1, <1>2, PTL DEF IsoSpec

\* Forgetting an append ID below a watermark, the current one or one an
\* appender took with it, never exposes a sample an open read must not see
\* (isolation.lowWatermark, used by memSeries.cleanupAppendIDsBelow).
THEOREM CleanupIsSafeForReads == IsoSpec => []WatermarkBelowHidden
<1>1. ASSUME IsoInv PROVE WatermarkBelowHidden
  <2>1. SUFFICES ASSUME NEW i \in 1..Len(readsOpen), NEW id \in 1..(lastAppendID + 1),
                        Hides(readsOpen[i], id)
                 PROVE  /\ lowWatermark <= id
                        /\ \A k \in appendsOpen : cleanupBelow[k] <= id
    <3>1. DOMAIN readsOpen = 1..Len(readsOpen)
      BY <1>1 DEF IsoInv, IsoTypeOK
    <3> QED
      BY <3>1, Zenon DEF WatermarkBelowHidden, OpenReads
  <2>2. readsOpen[i].lowWatermark <= id
    <3>1. /\ readsOpen[i].lowWatermark \in Nat /\ readsOpen[i].maxAppendID \in Nat
          /\ readsOpen[i].lowWatermark <= readsOpen[i].maxAppendID
      BY <1>1, ListElementTypes, Zenon DEF IsoInv, HiddenInv
    <3>2. id \in Nat
      BY <1>1 DEF IsoInv, IsoTypeOK
    <3>3. CASE id > readsOpen[i].maxAppendID
      BY <3>1, <3>2, <3>3
    <3>4. CASE id \in readsOpen[i].incompleteAppends
      BY <1>1, <3>4, Zenon DEF IsoInv, HiddenInv
    <3> QED
      BY <2>1, <3>3, <3>4, Zenon DEF Hides
  <2>3. lowWatermark <= id
    BY <1>1, <2>2, LowWatermarkBounds, ListElementTypes DEF IsoInv, IsoTypeOK
  <2> QED
    BY <1>1, <2>3, LowWatermarkBounds DEF IsoInv, CarriedInv, IsoTypeOK
<1> QED
  BY <1>1, IsoInvariance, PTL

\* ... nor one a later read must not see: every append still open is at or
\* above every watermark handed out.
THEOREM CleanupIsSafeForOpenAppends == IsoSpec => []WatermarkBelowOpen
<1>1. ASSUME IsoInv PROVE WatermarkBelowOpen
  <2>1. SUFFICES ASSUME NEW id \in appendsOpen
                 PROVE  /\ lowWatermark <= id
                        /\ \A k \in appendsOpen : cleanupBelow[k] <= id
    BY Zenon DEF WatermarkBelowOpen
  <2>2. id \in Nat /\ lowWatermark <= id
    BY <1>1, LowWatermarkBounds, NextAppendIDBounds DEF IsoInv, IsoTypeOK
  <2> QED
    BY <1>1, <2>2, LowWatermarkBounds DEF IsoInv, CarriedInv, IsoTypeOK
<1> QED
  BY <1>1, IsoInvariance, PTL

\* So a series may always forget the append IDs below a watermark.
THEOREM CleanupIsSafe == IsoSpec => []WatermarkSafe
  BY CleanupIsSafeForReads, CleanupIsSafeForOpenAppends, PTL DEF WatermarkSafe

\* The low watermark never moves back, in whatever order reads and appends
\* are closed.
THEOREM WatermarkNeverMovesBack == IsoSpec => WatermarkMonotone
<1>1. IsoInv /\ [IsoNext]_isoVars => [lowWatermark <= lowWatermark']_isoVars
  BY IsoStep, Zenon
<1> QED
  BY <1>1, IsoInvariance, PTL DEF IsoSpec, WatermarkMonotone
-----------------------------------------------------------------------------
SeriesTypeOK ==
  /\ history \in [Series -> Seq(Sample)]
  /\ ends \in [Series -> Seq(Nat)]
  /\ removed \in [Series -> Nat]
  /\ mmapped \in [Series -> Nat]
  /\ firstChunkID \in [Series -> Nat]
  /\ txs \in [Series -> Seq(Nat)]
  /\ pending \in [appendsOpen -> Seq(Series \X Times)]
  /\ phase \in [appendsOpen -> {"open", "commit", "rollback"}]

\* The chunks that end at e cover the samples of h after the first r without
\* a gap, and these samples are in time order.
Covered(h, e, r) ==
  /\ r <= Len(h)
  /\ \A i, j \in 1..Len(e) : i < j => e[i] < e[j]
  /\ \A i \in 1..Len(e) : r < e[i] /\ e[i] <= Len(h)
  /\ Len(e) # 0 => e[Len(e)] = Len(h)
  /\ Len(e) = 0 => r = Len(h)
  /\ \A p, q \in (r + 1)..Len(h) : p < q => h[p].t < h[q].t

\* The ring x has the append IDs of the newest samples of h, and the IDs of
\* those that it has forgotten are below w.
Remembered(h, x, w) ==
  /\ Len(x) <= Len(h)
  /\ \A i \in 1..Len(x) : x[i] = h[Len(h) - Len(x) + i].id
  /\ \A p \in 1..(Len(h) - Len(x)) : h[p].id < w

ChunkInv == \A s \in Series : Covered(history[s], ends[s], removed[s])

TxInv == \A s \in Series : Remembered(history[s], txs[s], lowWatermark)

SeriesInv == IsoInv /\ SeriesTypeOK /\ ChunkInv /\ TxInv
-----------------------------------------------------------------------------
\* What a read hides is at or above the watermark, whatever the append ID.
LEMMA HiddenAboveWatermark ==
  ASSUME IsoInv, NEW read \in OpenReads, NEW id \in Nat, Hides(read, id)
  PROVE  lowWatermark <= id
<1>1. PICK i \in 1..Len(readsOpen) : read = readsOpen[i]
  BY DEF OpenReads, IsoInv, IsoTypeOK
<1>2. /\ read.lowWatermark \in Nat /\ read.maxAppendID \in Nat /\ read.incompleteAppends \subseteq Nat
      /\ lowWatermark \in Nat /\ lowWatermark <= read.lowWatermark
  BY <1>1, ListElementTypes, LowWatermarkBounds, Zenon DEF IsoInv
<1>3. /\ read.lowWatermark <= read.maxAppendID
      /\ \A k \in read.incompleteAppends : read.lowWatermark <= k
  BY <1>1, Zenon DEF IsoInv, HiddenInv
<1> QED
  BY <1>2, <1>3 DEF Hides

\* g is h with x appended.
Appended(h, g, x) ==
  /\ Len(h) \in Nat /\ Len(g) = Len(h) + 1
  /\ \A p \in 1..Len(h) : g[p] = h[p]
  /\ g[Len(h) + 1] = x

\* f is e without its first n elements.
Dropped(e, f, n) ==
  /\ Len(e) \in Nat /\ n \in 0..Len(e) /\ Len(f) = Len(e) - n
  /\ \A i \in 1..Len(f) : f[i] = e[n + i]

\* f is e with its last element set to x.
LastSet(e, f, x) ==
  /\ Len(e) \in Nat /\ Len(e) # 0 /\ Len(f) = Len(e)
  /\ \A i \in 1..Len(e) : f[i] = IF i = Len(e) THEN x ELSE e[i]

\* e is a list of natural numbers, h of samples.
Numbers(e) == Len(e) \in Nat /\ \A i \in 1..Len(e) : e[i] \in Nat
Samples(h) == Len(h) \in Nat /\ \A p \in 1..Len(h) : h[p].t \in Int /\ h[p].id \in Nat

LEMMA AppendAppended ==
  ASSUME NEW S, NEW h \in Seq(S), NEW x \in S
  PROVE  Append(h, x) \in Seq(S) /\ Appended(h, Append(h, x), x)
BY DEF Appended

LEMMA SubSeqDropped ==
  ASSUME NEW S, NEW e \in Seq(S), NEW n \in 0..Len(e)
  PROVE  SubSeq(e, n + 1, Len(e)) \in Seq(S) /\ Dropped(e, SubSeq(e, n + 1, Len(e)), n)
<1>1. Len(e) \in Nat /\ \A i \in 1..Len(e) : e[i] \in S
  OBVIOUS
<1>2. \A i \in (n + 1)..Len(e) : e[i] \in S
  BY <1>1
<1>3. /\ SubSeq(e, n + 1, Len(e)) \in Seq(S)
      /\ Len(SubSeq(e, n + 1, Len(e))) = Len(e) - n
      /\ \A i \in 1..(Len(e) - n) : SubSeq(e, n + 1, Len(e))[i] = e[n + i]
  BY <1>1, <1>2
<1> QED
  BY <1>1, <1>3, Zenon DEF Dropped

\* Appending a sample that is in order, to a new chunk or to the open one.
LEMMA AppendCovered ==
  ASSUME NEW h, NEW g, NEW x, NEW e, NEW f, NEW r \in Nat,
         Covered(h, e, r), Appended(h, g, x), Numbers(e), Samples(g),
         Len(e) # 0 => x.t > h[Len(h)].t,
         Appended(e, f, Len(h) + 1) \/ LastSet(e, f, Len(h) + 1)
  PROVE  Covered(g, f, r)
<1>1. ASSUME NEW p \in (r + 1)..Len(g), NEW q \in (r + 1)..Len(g), p < q
      PROVE  g[p].t < g[q].t
  <2>1. CASE q <= Len(h)
    <3>1. p \in (r + 1)..Len(h) /\ q \in (r + 1)..Len(h) /\ g[p] = h[p] /\ g[q] = h[q]
      BY <2>1, <1>1 DEF Appended
    <3>2. h[p].t < h[q].t
      BY <3>1, <1>1, Zenon DEF Covered
    <3> QED
      BY <3>1, <3>2, Zenon
  <2>2. CASE q = Len(h) + 1
    <3>1. p \in (r + 1)..Len(h) /\ Len(h) \in (r + 1)..Len(h) /\ Len(e) # 0
      BY <1>1, <2>2 DEF Covered, Appended
    <3>2. g[q] = x /\ g[p] = h[p] /\ g[Len(h)] = h[Len(h)]
      BY <2>2, <3>1 DEF Appended
    <3>3. p < Len(h) => h[p].t < h[Len(h)].t
      BY <3>1, Zenon DEF Covered
    <3> QED
      BY <3>1, <3>2, <3>3 DEF Appended, Samples
  <2> QED
    BY <2>1, <2>2 DEF Appended
<1>2. CASE Appended(e, f, Len(h) + 1)
  <2>1. ASSUME NEW i \in 1..Len(f), NEW j \in 1..Len(f), i < j PROVE f[i] < f[j]
    <3>1. i \in 1..Len(e) /\ f[i] = e[i] /\ e[i] <= Len(h) /\ e[i] \in Nat
      BY <1>2, <2>1 DEF Covered, Appended, Numbers
    <3>2. CASE j = Len(e) + 1
      BY <1>2, <3>1, <3>2 DEF Appended
    <3>3. CASE j \in 1..Len(e)
      <4>1. e[i] < e[j]
        BY <2>1, <3>1, <3>3, Zenon DEF Covered
      <4> QED
        BY <1>2, <3>1, <3>3, <4>1, Zenon DEF Appended
    <3> QED
      BY <1>2, <3>2, <3>3 DEF Appended
  <2>2. \A i \in 1..Len(f) : r < f[i] /\ f[i] <= Len(g)
    BY <1>2 DEF Covered, Appended, Numbers
  <2>3. r <= Len(g) /\ Len(f) # 0 /\ f[Len(f)] = Len(g)
    BY <1>2 DEF Covered, Appended
  <2> QED
    BY <1>1, <2>1, <2>2, <2>3, Zenon DEF Covered
<1>3. CASE LastSet(e, f, Len(h) + 1)
  <2>1. \A i, j \in 1..Len(f) : i < j => f[i] < f[j]
    BY <1>3 DEF Covered, Appended, LastSet, Numbers
  <2>2. \A i \in 1..Len(f) : r < f[i] /\ f[i] <= Len(g)
    BY <1>3 DEF Covered, Appended, LastSet, Numbers
  <2>3. r <= Len(g) /\ Len(f) # 0 /\ f[Len(f)] = Len(g)
    BY <1>3 DEF Covered, Appended, LastSet
  <2> QED
    BY <1>1, <2>1, <2>2, <2>3, Zenon DEF Covered
<1> QED
  BY <1>2, <1>3, Zenon

\* Dropping the oldest n chunks.
LEMMA TruncateCovered ==
  ASSUME NEW h, NEW e, NEW f, NEW r \in Nat, NEW n \in 1..Len(e),
         Covered(h, e, r), Dropped(e, f, n),
         Len(h) \in Nat, Numbers(e)
  PROVE  Covered(h, f, e[n])
<1>1. ASSUME NEW i \in 1..Len(f), NEW j \in 1..Len(f), i < j PROVE f[i] < f[j]
  <2>1. n + i \in 1..Len(e) /\ n + j \in 1..Len(e) /\ n + i < n + j
    BY <1>1 DEF Dropped
  <2>2. e[n + i] < e[n + j]
    BY <2>1, Zenon DEF Covered
  <2> QED
    BY <2>2, Zenon DEF Dropped
<1>2. ASSUME NEW i \in 1..Len(f) PROVE e[n] < f[i] /\ f[i] <= Len(h)
  <2>1. n + i \in 1..Len(e) /\ n < n + i
    BY <1>2 DEF Dropped
  <2>2. e[n] < e[n + i] /\ e[n + i] <= Len(h)
    BY <2>1, Zenon DEF Covered
  <2> QED
    BY <2>2, Zenon DEF Dropped
<1>3. /\ e[n] <= Len(h)
      /\ Len(f) # 0 => f[Len(f)] = Len(h)
      /\ Len(f) = 0 => e[n] = Len(h)
  BY SMTT(30) DEF Covered, Dropped, Numbers
<1>4. \A p, q \in (e[n] + 1)..Len(h) : p < q => h[p].t < h[q].t
  BY DEF Covered, Numbers
<1> QED
  BY <1>1, <1>2, <1>3, <1>4, Zenon DEF Covered

\* The ID of an appended sample goes to the end of the ring.
LEMMA AppendRemembered ==
  ASSUME NEW h, NEW g, NEW x, NEW y, NEW w, NEW smp,
         Remembered(h, x, w), Appended(h, g, smp), Appended(x, y, smp.id)
  PROVE  Remembered(g, y, w)
<1>1. ASSUME NEW i \in 1..Len(y) PROVE y[i] = g[Len(g) - Len(y) + i].id
  <2>1. CASE i = Len(x) + 1
    BY <2>1 DEF Remembered, Appended
  <2>2. CASE i \in 1..Len(x)
    <3>1. Len(h) - Len(x) + i \in 1..Len(h) /\ Len(g) - Len(y) + i = Len(h) - Len(x) + i
      BY <2>2 DEF Remembered, Appended
    <3>2. y[i] = x[i] /\ g[Len(h) - Len(x) + i] = h[Len(h) - Len(x) + i]
      BY <2>2, <3>1, Zenon DEF Appended
    <3>3. x[i] = h[Len(h) - Len(x) + i].id
      BY <2>2, Zenon DEF Remembered
    <3> QED
      BY <3>1, <3>2, <3>3, Zenon
  <2> QED
    BY <2>1, <2>2 DEF Appended
<1>2. ASSUME NEW p \in 1..(Len(g) - Len(y)) PROVE g[p].id < w
  <2>1. p \in 1..(Len(h) - Len(x)) /\ p \in 1..Len(h)
    BY DEF Appended
  <2>2. g[p] = h[p]
    BY <2>1, Zenon DEF Appended
  <2> QED
    BY <2>1, <2>2, Zenon DEF Remembered
<1>3. Len(y) <= Len(g)
  BY DEF Remembered, Appended
<1> QED
  BY <1>1, <1>2, <1>3, Zenon DEF Remembered

\* Forgetting the oldest IDs, which are below a bound at most the watermark.
LEMMA CleanupRemembered ==
  ASSUME NEW h, NEW x, NEW y, NEW w \in Nat, NEW bound \in Nat, NEW n,
         Remembered(h, x, w), Dropped(x, y, n),
         Len(h) \in Nat, Numbers(x), bound <= w, \A j \in 1..n : x[j] < bound
  PROVE  Remembered(h, y, w)
<1>1. ASSUME NEW p \in 1..(Len(h) - Len(y)) PROVE h[p].id < w
  <2>1. CASE p <= Len(h) - Len(x)
    BY <2>1 DEF Remembered, Dropped
  <2>2. CASE p > Len(h) - Len(x)
    <3> DEFINE j == p - (Len(h) - Len(x))
    <3>1. j \in 1..n /\ p = Len(h) - Len(x) + j
      BY <2>2 DEF Remembered, Dropped
    <3>2. x[j] < bound /\ x[j] \in Nat /\ x[j] = h[p].id
      BY <3>1, SMTT(30) DEF Remembered, Dropped, Numbers
    <3> QED
      BY <3>2
  <2> QED
    BY <2>1, <2>2 DEF Dropped
<1>2. ASSUME NEW i \in 1..Len(y) PROVE y[i] = h[Len(h) - Len(y) + i].id
  <2>1. n + i \in 1..Len(x) /\ y[i] = x[n + i] /\ Len(h) - Len(y) + i = Len(h) - Len(x) + (n + i)
    BY DEF Dropped
  <2> QED
    BY <2>1, Zenon DEF Remembered
<1>3. Len(y) <= Len(h)
  BY DEF Remembered, Dropped
<1> QED
  BY <1>1, <1>2, <1>3, Zenon DEF Remembered

\* The shapes of the lists of one series.
LEMMA SeriesTypes ==
  ASSUME SeriesTypeOK, NEW s \in Series
  PROVE  /\ history[s] \in Seq(Sample) /\ Samples(history[s])
         /\ ends[s] \in Seq(Nat) /\ Numbers(ends[s])
         /\ txs[s] \in Seq(Nat) /\ Numbers(txs[s])
         /\ removed[s] \in Nat
<1>1. history[s] \in Seq(Sample) /\ ends[s] \in Seq(Nat) /\ txs[s] \in Seq(Nat) /\ removed[s] \in Nat
  BY Zenon DEF SeriesTypeOK
<1>2. Numbers(ends[s]) /\ Numbers(txs[s])
  BY <1>1, SMTT(30) DEF Numbers
<1>3. Samples(history[s])
  <2>1. Len(history[s]) \in Nat /\ \A p \in 1..Len(history[s]) : history[s][p] \in Sample
    BY <1>1
  <2> QED
    BY <2>1, IsolationAssumption, Zenon DEF Samples, Sample
<1> QED
  BY <1>1, <1>2, <1>3, Zenon

\* memSeries.cleanupAppendIDsBelow with a bound that is safe to clean up to.
LEMMA CleanupStep ==
  ASSUME NEW s \in Series, NEW h \in Seq(Sample), NEW ids \in Seq(Nat), NEW bound \in Nat,
         NEW w \in Nat, bound <= w, Remembered(h, ids, w),
         seriesCleanupAppendIDs(s, ids, bound)
  PROVE  \E y \in Seq(Nat) : Remembered(h, y, w) /\ txs' = [txs EXCEPT ![s] = y]
<1>1. PICK n \in 0..Len(ids) :
        /\ \A j \in 1..n : ids[j] < bound
        /\ txs' = [txs EXCEPT ![s] = SubSeq(ids, n + 1, Len(ids))]
  BY Zenon DEF seriesCleanupAppendIDs
<1> DEFINE y == SubSeq(ids, n + 1, Len(ids))
<1>2. y \in Seq(Nat) /\ Dropped(ids, y, n)
  BY SubSeqDropped, Zenon
<1>3. Numbers(ids) /\ Len(h) \in Nat
  BY DEF Numbers
<1>4. Remembered(h, y, w)
  BY <1>1, <1>2, <1>3, CleanupRemembered, Zenon
<1> QED
  BY <1>1, <1>2, <1>4, Zenon

\* A step that changes one series, into one that is right.
LEMMA SeriesSet ==
  ASSUME SeriesInv, NEW s \in Series,
         NEW h \in Seq(Sample), NEW f \in Seq(Nat), NEW r \in Nat, NEW y \in Seq(Nat),
         Covered(h, f, r), Remembered(h, y, lowWatermark), UNCHANGED lowWatermark,
         history' = [history EXCEPT ![s] = h], ends' = [ends EXCEPT ![s] = f],
         removed' = [removed EXCEPT ![s] = r], txs' = [txs EXCEPT ![s] = y]
  PROVE  /\ history' \in [Series -> Seq(Sample)] /\ ends' \in [Series -> Seq(Nat)]
         /\ removed' \in [Series -> Nat] /\ txs' \in [Series -> Seq(Nat)]
         /\ ChunkInv' /\ TxInv'
<1>1. /\ history \in [Series -> Seq(Sample)] /\ ends \in [Series -> Seq(Nat)]
      /\ removed \in [Series -> Nat] /\ txs \in [Series -> Seq(Nat)]
  BY Zenon DEF SeriesInv, SeriesTypeOK
<1>2. ASSUME NEW u \in Series
      PROVE  Covered(history'[u], ends'[u], removed'[u]) /\ Remembered(history'[u], txs'[u], lowWatermark')
  <2>1. CASE u = s
    BY <1>1, <2>1, Zenon
  <2>2. CASE u # s
    BY <1>1, <2>2, Zenon DEF SeriesInv, ChunkInv, TxInv
  <2> QED
    BY <2>1, <2>2, Zenon
<1> QED
  BY <1>1, <1>2, Zenon DEF ChunkInv, TxInv

\* The chunks of e but the last one end where they do in f.
KeepsEnds(e, f) == \A i \in 1..(Len(e) - 1) : f[i] = e[i]

LEMMA ExtendedKeepsEnds ==
  ASSUME NEW e, NEW f, NEW x, Appended(e, f, x) \/ LastSet(e, f, x)
  PROVE  KeepsEnds(e, f)
<1>1. CASE Appended(e, f, x)
  BY <1>1 DEF Appended, KeepsEnds
<1>2. CASE LastSet(e, f, x)
  BY <1>2 DEF LastSet, KeepsEnds
<1> QED
  BY <1>1, <1>2, Zenon

\* One turn of the loop of commitSamples.
LEMMA CommitSampleStep ==
  ASSUME SeriesInv, NEW id \in appendsOpen, commitSample(id)
  PROVE  /\ SeriesTypeOK' /\ ChunkInv' /\ TxInv'
         /\ UNCHANGED <<removed, firstChunkID>>
         /\ \A u \in Series : KeepsEnds(ends[u], ends'[u])
<1> DEFINE s == Head(pending[id])[1]
           t == Head(pending[id])[2]
           x == [t |-> t, id |-> id]
<1>1. /\ pending[id] \in Seq(Series \X Times) /\ pending[id] # <<>>
      /\ pending \in [appendsOpen -> Seq(Series \X Times)]
      /\ pending' = [pending EXCEPT ![id] = Tail(@)]
      /\ UNCHANGED phase
  BY Zenon DEF SeriesInv, SeriesTypeOK, commitSample
<1>2. s \in Series /\ t \in Times /\ Tail(pending[id]) \in Seq(Series \X Times)
  <2>1. Head(pending[id]) \in Series \X Times /\ Tail(pending[id]) \in Seq(Series \X Times)
    BY <1>1
  <2> QED
    BY <2>1, Zenon
<1>3. UNCHANGED <<appendsOpen, lowWatermark>>
  BY Zenon DEF commitSample, isoVars, lowWatermark
<1>4. /\ cleanupBelow[id] \in Nat /\ cleanupBelow[id] <= lowWatermark /\ lowWatermark \in Nat
      /\ id \in Nat /\ x \in Sample /\ x.id = id /\ x.t = t
  BY <1>2, LowWatermarkBounds, Zenon DEF SeriesInv, IsoInv, IsoTypeOK, CarriedInv, Sample
<1>5. /\ history[s] \in Seq(Sample) /\ ends[s] \in Seq(Nat) /\ Numbers(ends[s]) /\ removed[s] \in Nat
      /\ txs[s] \in Seq(Nat)
      /\ Covered(history[s], ends[s], removed[s])
      /\ Remembered(history[s], txs[s], lowWatermark)
  BY <1>2, SeriesTypes, Zenon DEF SeriesInv, ChunkInv, TxInv
<1>6. /\ pending' \in [appendsOpen' -> Seq(Series \X Times)]
      /\ phase' \in [appendsOpen' -> {"open", "commit", "rollback"}]
  BY <1>1, <1>2, <1>3, Zenon DEF SeriesInv, SeriesTypeOK
<1>7. UNCHANGED <<removed, mmapped, firstChunkID>>
  BY Zenon DEF commitSample, append
<1>8. \/ /\ InOrder(s, t) /\ append(s, t, id)
         /\ seriesCleanupAppendIDs(s, Append(txs[s], id), cleanupBelow[id])
      \/ /\ seriesCleanupAppendIDs(s, txs[s], cleanupBelow[id])
         /\ UNCHANGED <<history, ends>>
  BY Zenon DEF commitSample
<1> HIDE DEF s, t, x
<1>9. \E h, f, y :
        /\ h \in Seq(Sample) /\ f \in Seq(Nat) /\ y \in Seq(Nat)
        /\ Covered(h, f, removed[s]) /\ Remembered(h, y, lowWatermark)
        /\ history' = [history EXCEPT ![s] = h]
        /\ ends' = [ends EXCEPT ![s] = f] /\ KeepsEnds(ends[s], f)
        /\ txs' = [txs EXCEPT ![s] = y]
  <2>1. CASE /\ InOrder(s, t) /\ append(s, t, id)
             /\ seriesCleanupAppendIDs(s, Append(txs[s], id), cleanupBelow[id])
    <3> DEFINE h == Append(history[s], x)
    <3>1. h \in Seq(Sample) /\ Appended(history[s], h, x)
      BY <1>4, <1>5, AppendAppended, Zenon
    <3>2. history' = [history EXCEPT ![s] = h]
      BY <2>1, Zenon DEF append, x
    <3> HIDE DEF h
    <3>3. Append(txs[s], id) \in Seq(Nat) /\ Appended(txs[s], Append(txs[s], id), id)
      BY <1>4, <1>5, AppendAppended, Zenon
    <3>4. PICK f \in Seq(Nat) :
            /\ ends' = [ends EXCEPT ![s] = f]
            /\ \/ Appended(ends[s], f, Len(history[s]) + 1)
               \/ LastSet(ends[s], f, Len(history[s]) + 1)
      <4>1. CASE cutNewHeadChunk(s)
        <5>1. Len(history[s]) + 1 \in Nat
          BY <1>5
        <5>2. Append(ends[s], Len(history[s]) + 1) \in Seq(Nat)
              /\ Appended(ends[s], Append(ends[s], Len(history[s]) + 1), Len(history[s]) + 1)
          BY <1>5, <5>1, AppendAppended, Zenon
        <5> QED
          BY <4>1, <5>2, Zenon DEF cutNewHeadChunk
      <4>2. CASE ends[s] # <<>> /\ ends' = [ends EXCEPT ![s][Len(ends[s])] = @ + 1]
        <5> DEFINE n == Len(ends[s])
                   f == [ends[s] EXCEPT ![n] = @ + 1]
        <5>1. n \in Nat /\ n # 0 /\ n \in 1..n /\ ends[s][n] \in Nat
          BY <1>5, <4>2 DEF Numbers
        <5>2. ends[s][n] = Len(history[s])
          BY <1>5, <5>1, Zenon DEF Covered
        <5>3. /\ f \in Seq(Nat) /\ Len(f) = n
              /\ \A i \in 1..n : f[i] = IF i = n THEN ends[s][n] + 1 ELSE ends[s][i]
          BY <1>5, <5>1
        <5>4. LastSet(ends[s], f, Len(history[s]) + 1)
          BY <5>1, <5>2, <5>3, Zenon DEF LastSet
        <5>5. ends' = [ends EXCEPT ![s] = f]
          BY <4>2, Zenon
        <5> QED
          BY <5>3, <5>4, <5>5, Zenon
      <4> QED
        BY <2>1, <4>1, <4>2, Zenon DEF append
    <3>5. Samples(h)
      <4>1. Len(h) \in Nat /\ \A p \in 1..Len(h) : h[p] \in Sample
        BY <3>1
      <4> QED
        BY <4>1, IsolationAssumption, Zenon DEF Samples, Sample
    <3>6. Len(ends[s]) # 0 => x.t > history[s][Len(history[s])].t
      BY <1>4, <1>5, <2>1 DEF InOrder
    <3>7. Covered(h, f, removed[s])
      BY <1>5, <3>1, <3>4, <3>5, <3>6, AppendCovered, Zenon
    <3>8. Remembered(h, Append(txs[s], id), lowWatermark)
      BY <1>4, <1>5, <3>1, <3>3, AppendRemembered, Zenon
    <3>9. \E y \in Seq(Nat) : Remembered(h, y, lowWatermark) /\ txs' = [txs EXCEPT ![s] = y]
      BY <1>2, <1>4, <2>1, <3>1, <3>3, <3>8, CleanupStep, Zenon
    <3>10. KeepsEnds(ends[s], f)
      BY <3>4, ExtendedKeepsEnds, Zenon
    <3> QED
      BY <3>1, <3>2, <3>4, <3>7, <3>9, <3>10, Zenon
  <2>2. CASE /\ seriesCleanupAppendIDs(s, txs[s], cleanupBelow[id])
             /\ UNCHANGED <<history, ends>>
    <3>1. \E y \in Seq(Nat) : Remembered(history[s], y, lowWatermark) /\ txs' = [txs EXCEPT ![s] = y]
      BY <1>2, <1>4, <1>5, <2>2, CleanupStep
    <3>2. history' = [history EXCEPT ![s] = history[s]] /\ ends' = [ends EXCEPT ![s] = ends[s]]
      BY <1>2, <2>2, Zenon DEF SeriesInv, SeriesTypeOK
    <3> QED
      BY <1>5, <3>1, <3>2, Zenon DEF KeepsEnds
  <2> QED
    BY <1>8, <2>1, <2>2, Zenon
<1>10. removed' = [removed EXCEPT ![s] = removed[s]]
  BY <1>2, <1>7, Zenon DEF SeriesInv, SeriesTypeOK
<1>11. /\ history' \in [Series -> Seq(Sample)] /\ ends' \in [Series -> Seq(Nat)]
       /\ removed' \in [Series -> Nat] /\ txs' \in [Series -> Seq(Nat)]
       /\ ChunkInv' /\ TxInv'
  BY <1>2, <1>3, <1>5, <1>9, <1>10, SeriesSet, Zenon
<1>12. \A u \in Series : KeepsEnds(ends[u], ends'[u])
  BY <1>2, <1>9, Zenon DEF SeriesInv, SeriesTypeOK, KeepsEnds
<1> QED
  BY <1>6, <1>7, <1>11, <1>12, Zenon DEF SeriesInv, SeriesTypeOK

\* One turn of the loop of Rollback.
LEMMA RollbackSampleStep ==
  ASSUME SeriesInv, NEW id \in appendsOpen, rollbackSample(id)
  PROVE  SeriesTypeOK' /\ ChunkInv' /\ TxInv'
<1> DEFINE s == Head(pending[id])[1]
<1>1. /\ pending[id] \in Seq(Series \X Times) /\ pending[id] # <<>>
      /\ pending \in [appendsOpen -> Seq(Series \X Times)]
      /\ pending' = [pending EXCEPT ![id] = Tail(@)]
      /\ UNCHANGED <<phase, history, ends, removed, mmapped, firstChunkID>>
      /\ seriesCleanupAppendIDs(s, txs[s], cleanupBelow[id])
  BY Zenon DEF SeriesInv, SeriesTypeOK, rollbackSample
<1>2. s \in Series /\ Tail(pending[id]) \in Seq(Series \X Times)
  <2>1. Head(pending[id]) \in Series \X Times /\ Tail(pending[id]) \in Seq(Series \X Times)
    BY <1>1
  <2> QED
    BY <2>1, Zenon
<1>3. UNCHANGED <<appendsOpen, lowWatermark>>
  BY Zenon DEF rollbackSample, isoVars, lowWatermark
<1>4. cleanupBelow[id] \in Nat /\ cleanupBelow[id] <= lowWatermark /\ lowWatermark \in Nat
  BY LowWatermarkBounds, Zenon DEF SeriesInv, IsoInv, IsoTypeOK, CarriedInv
<1>5. /\ history[s] \in Seq(Sample) /\ ends[s] \in Seq(Nat) /\ removed[s] \in Nat
      /\ txs[s] \in Seq(Nat)
      /\ Covered(history[s], ends[s], removed[s])
      /\ Remembered(history[s], txs[s], lowWatermark)
  BY <1>2, SeriesTypes, Zenon DEF SeriesInv, ChunkInv, TxInv
<1>6. /\ pending' \in [appendsOpen' -> Seq(Series \X Times)]
      /\ phase' \in [appendsOpen' -> {"open", "commit", "rollback"}]
  BY <1>1, <1>2, <1>3, Zenon DEF SeriesInv, SeriesTypeOK
<1> HIDE DEF s
<1>7. PICK y \in Seq(Nat) : Remembered(history[s], y, lowWatermark) /\ txs' = [txs EXCEPT ![s] = y]
  BY <1>1, <1>2, <1>4, <1>5, CleanupStep, Zenon
<1>8. /\ history' = [history EXCEPT ![s] = history[s]] /\ ends' = [ends EXCEPT ![s] = ends[s]]
      /\ removed' = [removed EXCEPT ![s] = removed[s]]
  BY <1>1, <1>2, Zenon DEF SeriesInv, SeriesTypeOK
<1>9. /\ history' \in [Series -> Seq(Sample)] /\ ends' \in [Series -> Seq(Nat)]
      /\ removed' \in [Series -> Nat] /\ txs' \in [Series -> Seq(Nat)]
      /\ ChunkInv' /\ TxInv'
  BY <1>2, <1>3, <1>5, <1>7, <1>8, SeriesSet, Zenon
<1> QED
  BY <1>1, <1>6, <1>9, Zenon DEF SeriesInv, SeriesTypeOK

\* The truncation of a series drops whole chunks, and moves the ID of the
\* oldest chunk along.
LEMMA TruncateStep ==
  ASSUME SeriesInv, NEW s \in Series, NEW mint \in Times, truncateChunksBefore(s, mint)
  PROVE  /\ SeriesTypeOK' /\ ChunkInv' /\ TxInv'
         /\ \E n \in 1..Len(ends[s]) :
              /\ Dropped(ends[s], ends'[s], n)
              /\ removed'[s] = ends[s][n]
              /\ firstChunkID'[s] = firstChunkID[s] + n
         /\ \A u \in Series \ {s} : ends'[u] = ends[u] /\ removed'[u] = removed[u]
                                    /\ firstChunkID'[u] = firstChunkID[u]
<1>1. PICK n \in 1..Len(ends[s]) :
        /\ ends' = [ends EXCEPT ![s] = SubSeq(@, n + 1, Len(@))]
        /\ removed' = [removed EXCEPT ![s] = ends[s][n]]
        /\ mmapped' = [mmapped EXCEPT ![s] = IF n < @ THEN @ - n ELSE 0]
        /\ firstChunkID' = [firstChunkID EXCEPT ![s] = @ + n]
        /\ UNCHANGED <<isoVars, history, txs, pending, phase>>
  BY Zenon DEF truncateChunksBefore
<1>2. /\ history[s] \in Seq(Sample) /\ ends[s] \in Seq(Nat) /\ removed[s] \in Nat
      /\ txs[s] \in Seq(Nat) /\ Numbers(ends[s]) /\ Len(history[s]) \in Nat
      /\ Covered(history[s], ends[s], removed[s])
      /\ Remembered(history[s], txs[s], lowWatermark)
  BY SeriesTypes, Zenon DEF SeriesInv, ChunkInv, TxInv, Samples
<1> DEFINE f == SubSeq(ends[s], n + 1, Len(ends[s]))
<1>3. n \in 0..Len(ends[s]) /\ ends[s][n] \in Nat
  BY <1>2 DEF Numbers
<1>4. f \in Seq(Nat) /\ Dropped(ends[s], f, n)
  BY <1>2, <1>3, SubSeqDropped, Zenon
<1>5. ends' = [ends EXCEPT ![s] = f]
  BY <1>1, Zenon
<1> HIDE DEF f
<1>6. Covered(history[s], f, ends[s][n])
  BY <1>2, <1>4, TruncateCovered, Zenon
<1>7. UNCHANGED <<appendsOpen, lowWatermark>>
  BY <1>1, Zenon DEF isoVars, lowWatermark
<1>8. history' = [history EXCEPT ![s] = history[s]] /\ txs' = [txs EXCEPT ![s] = txs[s]]
  BY <1>1, Zenon DEF SeriesInv, SeriesTypeOK
<1>9. /\ history' \in [Series -> Seq(Sample)] /\ ends' \in [Series -> Seq(Nat)]
      /\ removed' \in [Series -> Nat] /\ txs' \in [Series -> Seq(Nat)]
      /\ ChunkInv' /\ TxInv'
  BY <1>1, <1>2, <1>3, <1>4, <1>5, <1>6, <1>7, <1>8, SeriesSet, Zenon
<1>10. /\ mmapped' \in [Series -> Nat] /\ firstChunkID' \in [Series -> Nat]
       /\ firstChunkID'[s] = firstChunkID[s] + n
  <2>1. mmapped \in [Series -> Nat] /\ firstChunkID \in [Series -> Nat] /\ n \in Nat
    BY <1>2, <1>3 DEF SeriesInv, SeriesTypeOK, Numbers
  <2> QED
    BY <1>1, <2>1
<1>11. SeriesTypeOK'
  BY <1>1, <1>7, <1>9, <1>10, Zenon DEF SeriesInv, SeriesTypeOK
<1>12. ends'[s] = f /\ removed'[s] = ends[s][n]
  BY <1>1, <1>5, Zenon DEF SeriesInv, SeriesTypeOK
<1>13. \A u \in Series \ {s} : ends'[u] = ends[u] /\ removed'[u] = removed[u]
                               /\ firstChunkID'[u] = firstChunkID[u]
  BY <1>1, <1>5, Zenon DEF SeriesInv, SeriesTypeOK
<1> QED
  BY <1>4, <1>9, <1>10, <1>11, <1>12, <1>13, Zenon

\* A step of the series is a step of the isolation state, or leaves it alone.
LEMMA SeriesIsoStep ==
  ASSUME [Next]_vars
  PROVE  [IsoNext]_isoVars
<1>1. CASE Appender(Min(Times))
  BY <1>1, HeadSeriesAssumption, Zenon DEF Appender, IsoNext
<1>2. ASSUME NEW id \in appendsOpen, finish(id) PROVE IsoNext
  BY <1>2, Zenon DEF finish, IsoNext
<1>3. ASSUME NEW r \in Readers, Querier(r, Max(Times), Max(Times)) PROVE IsoNext
  <2>1. Max(Times) \in Int
    BY HeadSeriesAssumption, IsolationAssumption, Zenon
  <2>2. Max(Times) <= Max(Times)
    BY <2>1
  <2> QED
    BY <1>3, <2>2, HeadSeriesAssumption, Zenon DEF Querier, IsoNext
<1>4. ASSUME NEW r \in Readers, CloseQuerier(r) PROVE IsoNext
  BY <1>4, Zenon DEF CloseQuerier, IsoNext
<1>5. ASSUME NEW id \in appendsOpen, commitSample(id) \/ rollbackSample(id) PROVE UNCHANGED isoVars
  BY <1>5, Zenon DEF commitSample, rollbackSample
<1>6. ASSUME NEW id \in appendsOpen, Commit(id) \/ Rollback(id) PROVE UNCHANGED isoVars
  BY <1>6, Zenon DEF Commit, Rollback
<1>7. ASSUME NEW id \in appendsOpen, NEW s \in Series, NEW t \in Times, AppendSample(id, s, t)
      PROVE  UNCHANGED isoVars
  BY <1>7, Zenon DEF AppendSample
<1>8. ASSUME NEW s \in Series, mmapChunks(s) PROVE UNCHANGED isoVars
  BY <1>8, Zenon DEF mmapChunks
<1>9. ASSUME NEW s \in Series, NEW mint \in Times, truncateChunksBefore(s, mint) PROVE UNCHANGED isoVars
  BY <1>9, Zenon DEF truncateChunksBefore
<1>10. CASE UNCHANGED vars
  BY <1>10, Zenon DEF vars
<1> QED
  BY <1>1, <1>2, <1>3, <1>4, <1>5, <1>6, <1>7, <1>8, <1>9, <1>10, Zenon DEF Next

\* A step that leaves the samples alone, whatever happens to the watermark.
LEMMA QuietStep ==
  ASSUME SeriesInv, UNCHANGED <<history, ends, removed, txs>>,
         lowWatermark <= lowWatermark', lowWatermark \in Nat, lowWatermark' \in Nat
  PROVE  ChunkInv' /\ TxInv'
<1>1. ASSUME NEW s \in Series PROVE Remembered(history[s], txs[s], lowWatermark')
  <2>1. Remembered(history[s], txs[s], lowWatermark)
    BY Zenon DEF SeriesInv, TxInv
  <2>2. Samples(history[s]) /\ Numbers(txs[s])
    BY SeriesTypes, Zenon DEF SeriesInv
  <2>3. ASSUME NEW p \in 1..(Len(history[s]) - Len(txs[s])) PROVE history[s][p].id < lowWatermark'
    <3>1. history[s][p].id < lowWatermark
      BY <2>1, Zenon DEF Remembered
    <3>2. history[s][p].id \in Nat
      BY <2>2 DEF Samples, Numbers
    <3> QED
      BY <3>1, <3>2
  <2> QED
    BY <2>1, <2>3, Zenon DEF Remembered
<1> QED
  BY <1>1, Zenon DEF SeriesInv, ChunkInv, TxInv

\* The appender map: a new append has nothing pending, one that ends goes.
LEMMA OtherTypes ==
  ASSUME SeriesInv, [Next]_vars,
         \A id \in appendsOpen : ~commitSample(id) /\ ~rollbackSample(id),
         \A s \in Series, mint \in Times : ~truncateChunksBefore(s, mint)
  PROVE  SeriesTypeOK' /\ UNCHANGED <<history, ends, removed, firstChunkID, txs>>
<1> USE DEF SeriesInv, SeriesTypeOK
<1>1. CASE Appender(Min(Times))
  <2>1. /\ pending' = [id \in appendsOpen' |-> IF id \in appendsOpen THEN pending[id] ELSE <<>>]
        /\ phase' = [id \in appendsOpen' |-> IF id \in appendsOpen THEN phase[id] ELSE "open"]
        /\ UNCHANGED seriesVars
    BY <1>1, Zenon DEF Appender
  <2>2. pending' \in [appendsOpen' -> Seq(Series \X Times)]
    BY <2>1
  <2>3. phase' \in [appendsOpen' -> {"open", "commit", "rollback"}]
    BY <2>1, Zenon
  <2> QED
    BY <2>1, <2>2, <2>3, Zenon DEF seriesVars
<1>2. ASSUME NEW id \in appendsOpen, NEW s \in Series, NEW t \in Times, AppendSample(id, s, t)
      PROVE  SeriesTypeOK' /\ UNCHANGED <<history, ends, removed, firstChunkID, txs>>
  <2>1. pending' = [pending EXCEPT ![id] = Append(@, <<s, t>>)] /\ UNCHANGED <<isoVars, seriesVars, phase>>
    BY <1>2, Zenon DEF AppendSample
  <2>2. Append(pending[id], <<s, t>>) \in Seq(Series \X Times)
    <3>1. <<s, t>> \in Series \X Times /\ pending[id] \in Seq(Series \X Times)
      BY Zenon
    <3> QED
      BY <3>1
  <2> QED
    BY <2>1, <2>2, Zenon DEF seriesVars, isoVars
<1>3. ASSUME NEW id \in appendsOpen, Commit(id) \/ Rollback(id)
      PROVE  SeriesTypeOK' /\ UNCHANGED <<history, ends, removed, firstChunkID, txs>>
  BY <1>3, Zenon DEF Commit, Rollback, seriesVars, isoVars
<1>4. ASSUME NEW id \in appendsOpen, finish(id)
      PROVE  SeriesTypeOK' /\ UNCHANGED <<history, ends, removed, firstChunkID, txs>>
  <2>1. /\ appendsOpen' \subseteq appendsOpen
        /\ pending' = [k \in appendsOpen' |-> pending[k]]
        /\ phase' = [k \in appendsOpen' |-> phase[k]]
        /\ UNCHANGED seriesVars
    BY <1>4, Zenon DEF finish, closeAppend
  <2> QED
    BY <2>1, Zenon DEF seriesVars
<1>5. ASSUME NEW r \in Readers, Querier(r, Max(Times), Max(Times)) \/ CloseQuerier(r)
      PROVE  SeriesTypeOK' /\ UNCHANGED <<history, ends, removed, firstChunkID, txs>>
  BY <1>5, Zenon DEF Querier, CloseQuerier, State, Close, seriesVars
<1>6. ASSUME NEW s \in Series, mmapChunks(s)
      PROVE  SeriesTypeOK' /\ UNCHANGED <<history, ends, removed, firstChunkID, txs>>
  <2>1. /\ Len(ends[s]) > mmapped[s] + 1
        /\ mmapped' = [mmapped EXCEPT ![s] = Len(ends[s]) - 1]
        /\ UNCHANGED <<isoVars, history, ends, removed, firstChunkID, txs, pending, phase>>
    BY <1>6, Zenon DEF mmapChunks
  <2>2. Len(ends[s]) - 1 \in Nat
    <3>1. Len(ends[s]) \in Nat /\ mmapped[s] \in Nat
      OBVIOUS
    <3> QED
      BY <2>1, <3>1
  <2> QED
    BY <2>1, <2>2, Zenon DEF isoVars
<1>7. CASE UNCHANGED vars
  BY <1>7, Zenon DEF vars, seriesVars, isoVars
<1> QED
  BY <1>1, <1>2, <1>3, <1>4, <1>5, <1>6, <1>7, Zenon DEF Next

LEMMA SeriesStep ==
  ASSUME SeriesInv, [Next]_vars
  PROVE  SeriesInv'
<1>1. IsoInv' /\ lowWatermark <= lowWatermark' /\ lowWatermark \in Nat /\ lowWatermark' \in Nat
  <2>1. IsoInv' /\ lowWatermark <= lowWatermark'
    BY SeriesIsoStep, IsoStep, Zenon DEF SeriesInv
  <2>2. lowWatermark \in Nat
    BY LowWatermarkBounds, Zenon DEF SeriesInv
  <2>3. lowWatermark' \in Nat
    BY <2>1, WatermarkTypes, Zenon DEF IsoInv, IsoTypeOK, lowWatermark
  <2> QED
    BY <2>1, <2>2, <2>3, Zenon
<1>2. CASE \E id \in appendsOpen : commitSample(id)
  BY <1>1, <1>2, CommitSampleStep, Zenon DEF SeriesInv
<1>3. CASE \E id \in appendsOpen : rollbackSample(id)
  BY <1>1, <1>3, RollbackSampleStep, Zenon DEF SeriesInv
<1>4. CASE \E s \in Series, mint \in Times : truncateChunksBefore(s, mint)
  BY <1>1, <1>4, TruncateStep, Zenon DEF SeriesInv
<1>5. CASE /\ \A id \in appendsOpen : ~commitSample(id) /\ ~rollbackSample(id)
           /\ \A s \in Series, mint \in Times : ~truncateChunksBefore(s, mint)
  BY <1>1, <1>5, OtherTypes, QuietStep, Zenon DEF SeriesInv
<1> QED
  BY <1>2, <1>3, <1>4, <1>5, Zenon

\* The appenders, the queries and the truncation of the head use the isolation
\* state only as its specification allows (Head.appender, headAppender.Commit
\* and Rollback, Head.Querier), so its theorems hold of the head.
THEOREM SeriesImplementsIsolation == Spec => IsoSpec
<1>1. Init => newIsolation
  BY Zenon DEF Init
<1>2. [Next]_vars => [IsoNext]_isoVars
  BY SeriesIsoStep, Zenon
<1> QED
  BY <1>1, <1>2, PTL DEF Spec, IsoSpec

\* A series without samples has nothing to remember.
LEMMA NothingRemembered ==
  ASSUME NEW h, NEW x, NEW w, Len(h) = 0, Len(x) = 0
  PROVE  Remembered(h, x, w)
<1>1. 1..0 = {} /\ 1..(0 - 0) = {}
  OBVIOUS
<1> QED
  BY <1>1 DEF Remembered

\* The inductive invariant of the series holds of every state of the head.
THEOREM SeriesInvariance == Spec => []SeriesInv
<1>1. Init => SeriesInv
  <2> SUFFICES ASSUME Init PROVE SeriesInv
    BY Zenon
  <2>1. IsoInv
    BY DEF Init, newIsolation, IsoInv, IsoTypeOK, AppendListInv, ReadListInv, HiddenInv, CarriedInv
  <2>2. SeriesTypeOK
    BY DEF Init, newIsolation, SeriesTypeOK
  <2>3. ASSUME NEW s \in Series
        PROVE  /\ Len(history[s]) = 0 /\ Len(ends[s]) = 0 /\ Len(txs[s]) = 0 /\ removed[s] = 0
    BY Zenon DEF Init
  <2>4. ChunkInv
    BY <2>3 DEF ChunkInv, Covered
  <2>5. TxInv
    BY <2>3, NothingRemembered, Zenon DEF TxInv
  <2> QED
    BY <2>1, <2>2, <2>4, <2>5, Zenon DEF SeriesInv
<1>2. SeriesInv /\ [Next]_vars => SeriesInv'
  BY SeriesStep, Zenon
<1> QED
  BY <1>1, <1>2, PTL DEF Spec

\* The samples of a series in memory are in time order, however many
\* appenders race to commit to it (headAppender.commitSamples).
THEOREM SamplesStayInOrder == Spec => []SamplesInOrder
<1>1. SeriesInv => SamplesInOrder
  BY Zenon DEF SeriesInv, ChunkInv, Covered, SamplesInOrder
<1> QED
  BY <1>1, SeriesInvariance, PTL

\* A HeadChunkID that a query got names the same chunk for as long as the
\* chunk is in memory (memSeries.headChunkID, truncateChunksBefore).
THEOREM ChunkIDsStayStable == Spec => ChunkIDsStable
<1> DEFINE Stable == \A s \in Series : \A c \in Chunks(s), d \in 1..Len(ends'[s]) :
                       firstChunkID[s] + c = firstChunkID'[s] + d =>
                         Start(s, c) = IF d = 1 THEN removed'[s] ELSE ends'[s][d - 1]
<1>1. SeriesInv /\ [Next]_vars => Stable
  <2> SUFFICES ASSUME SeriesInv, [Next]_vars, NEW s \in Series, NEW c \in 1..Len(ends[s]),
                      NEW d \in 1..Len(ends'[s]), firstChunkID[s] + c = firstChunkID'[s] + d
               PROVE  Start(s, c) = IF d = 1 THEN removed'[s] ELSE ends'[s][d - 1]
    BY Zenon DEF Chunks
  <2>1. /\ Len(ends[s]) \in Nat /\ firstChunkID[s] \in Nat
        /\ Len(ends'[s]) \in Nat
    <3>1. SeriesTypeOK /\ SeriesTypeOK'
      BY SeriesStep, Zenon DEF SeriesInv
    <3>2. /\ ends[s] \in Seq(Nat) /\ firstChunkID[s] \in Nat
          /\ ends'[s] \in Seq(Nat)
      BY <3>1, Zenon DEF SeriesTypeOK
    <3> QED
      BY <3>2, SMTT(30)
  <2>2. CASE \E id \in appendsOpen : commitSample(id)
    <3>1. /\ UNCHANGED <<removed, firstChunkID>>
          /\ KeepsEnds(ends[s], ends'[s])
      BY <2>2, CommitSampleStep, Zenon
    <3>2. c = d
      BY <2>1, <3>1
    <3> QED
      BY <2>1, <3>1, <3>2 DEF KeepsEnds, Start
  <2>3. CASE \E u \in Series, mint \in Times : truncateChunksBefore(u, mint)
    <3>1. PICK u \in Series, mint \in Times : truncateChunksBefore(u, mint)
      BY <2>3, Zenon
    <3>2. CASE u = s
      <4>1. PICK n \in 1..Len(ends[s]) :
              /\ Dropped(ends[s], ends'[s], n)
              /\ removed'[s] = ends[s][n]
              /\ firstChunkID'[s] = firstChunkID[s] + n
        BY <3>1, <3>2, TruncateStep, Zenon
      <4>2. c = n + d /\ c # 1 /\ c - 1 = n + (d - 1)
        <5>1. firstChunkID[s] + c = firstChunkID[s] + n + d
          BY <4>1, Zenon
        <5> QED
          BY <2>1, <5>1
      <4>3. Start(s, c) = ends[s][c - 1]
        BY <4>2, Zenon DEF Start
      <4>4. CASE d = 1
        <5>1. c - 1 = n
          BY <2>1, <4>2, <4>4
        <5> QED
          BY <4>1, <4>3, <4>4, <5>1, Zenon
      <4>5. CASE d # 1
        <5>1. d - 1 \in 1..Len(ends'[s])
          BY <2>1, <4>5
        <5>2. ends'[s][d - 1] = ends[s][n + (d - 1)]
          BY <4>1, <5>1, Zenon DEF Dropped
        <5> QED
          BY <4>2, <4>3, <4>5, <5>2, Zenon
      <4> QED
        BY <4>4, <4>5, Zenon
    <3>3. CASE u # s
      <4>1. ends'[s] = ends[s] /\ removed'[s] = removed[s] /\ firstChunkID'[s] = firstChunkID[s]
        BY <3>1, <3>3, TruncateStep, Zenon
      <4> QED
        BY <2>1, <4>1 DEF Start
    <3> QED
      BY <3>2, <3>3, Zenon
  <2>4. CASE UNCHANGED <<ends, removed, firstChunkID>>
    BY <2>1, <2>4 DEF Start
  <2>5. CASE \E id \in appendsOpen : rollbackSample(id)
    BY <2>4, <2>5, Zenon DEF rollbackSample
  <2>6. CASE /\ \A id \in appendsOpen : ~commitSample(id) /\ ~rollbackSample(id)
             /\ \A u \in Series, mint \in Times : ~truncateChunksBefore(u, mint)
    BY <2>4, <2>6, OtherTypes, Zenon
  <2> QED
    BY <2>2, <2>3, <2>5, <2>6, Zenon
<1>2. SeriesInv /\ [Next]_vars => [Stable]_vars
  BY <1>1, Zenon
<1> QED
  BY <1>2, SeriesInvariance, PTL DEF Spec, ChunkIDsStable
-----------------------------------------------------------------------------
\* Positions 1..H of which the last L are numbered 1..L: if none of the others
\* is in a set, and none of the first k numbered ones, then none up to these.
LEMMA NoneUpTo ==
  ASSUME NEW H \in Nat, NEW L \in Nat, L <= H, NEW bad, \A p \in 1..(H - L) : p \notin bad,
         NEW k \in Int, k <= L, \A i \in 1..L : i <= k => H - L + i \notin bad
  PROVE  \A p \in 1..(H - L + k) : p \notin bad
<1> SUFFICES ASSUME NEW p \in 1..(H - L + k), p > H - L
             PROVE  p \notin bad
  OBVIOUS
<1>1. p - (H - L) \in 1..L /\ p - (H - L) <= k /\ H - L + (p - (H - L)) = p
  OBVIOUS
<1> QED
  BY <1>1, Zenon

\* How far a read of n samples gets that stops in front of number j, when the
\* last sample it was to read has number N.
LEMMA StopDistance ==
  ASSUME NEW H \in Nat, NEW L \in Nat, NEW B \in Nat, NEW n \in Nat, L <= H, B + n <= H, NEW j \in 1..L,
         NEW N \in Int, N = L - (H - (B + n)), j <= N
  PROVE  /\ H - L + j \in 1..H /\ H - L + j <= B + n
         /\ n - (N - (j - 1)) = (H - L + j) - 1 - B
OBVIOUS

\* Every set of natural numbers that is not empty has a least element: LEMMA
\* NaturalsWellOrdered, at the end of the module.
WellOrdered == \A S \in SUBSET Nat : S # {} => \E x \in S : \A y \in S : x <= y

LEMMA MinNat ==
  ASSUME WellOrdered, NEW S \in SUBSET Nat, S # {}
  PROVE  Min(S) \in S /\ \A y \in S : Min(S) <= y
<1>1. \E x \in S : \A y \in S : x <= y
  BY Zenon DEF WellOrdered
<1> QED
  BY <1>1, Zenon DEF Min

\* Where a read of n samples of a chunk stops, as a position in the history
\* of the series: in front of the oldest sample it hides among those whose
\* append ID the ring still has.
LEMMA StopPosition ==
  ASSUME WellOrdered, SeriesInv, NEW s \in Series, NEW read \in OpenReads, NEW c \in Chunks(s), NEW n \in Sizes(s, c)
  PROVE  /\ Start(s, c) \in Nat /\ n \in Nat /\ Start(s, c) + n <= Len(history[s])
         /\ \A p \in 1..(Len(history[s]) - Len(txs[s])) : ~Hides(read, history[s][p].id)
         /\ \/ /\ stopAfter(s, c, n, read) = n
               /\ \A p \in 1..(Start(s, c) + n) : ~Hides(read, history[s][p].id)
            \/ \E m \in 1..Len(history[s]) :
                 /\ Hides(read, history[s][m].id)
                 /\ \A p \in 1..(m - 1) : ~Hides(read, history[s][p].id)
                 /\ m <= Start(s, c) + n
                 /\ stopAfter(s, c, n, read) = IF m - 1 < Start(s, c) THEN 0 ELSE m - 1 - Start(s, c)
<1> DEFINE H == Len(history[s])
           L == Len(txs[s])
           B == Start(s, c)
           N == L - (H - (B + n))
           hidden == {i \in 1..L : i <= N /\ Hides(read, txs[s][i])}
<1>1. /\ H \in Nat /\ L \in Nat /\ Samples(history[s]) /\ Numbers(txs[s]) /\ Numbers(ends[s])
      /\ removed[s] \in Nat /\ Covered(history[s], ends[s], removed[s])
      /\ Remembered(history[s], txs[s], lowWatermark)
  BY SeriesTypes, Zenon DEF SeriesInv, ChunkInv, TxInv, Samples, Numbers
<1>2. B \in Nat /\ n \in Nat /\ B + n <= H /\ L <= H
  <2>1. c \in 1..Len(ends[s]) /\ ends[s][c] \in Nat /\ ends[s][c] <= H
    BY <1>1, Zenon DEF Chunks, Numbers, Covered
  <2>2. B \in Nat
    BY <1>1, <2>1 DEF Start, Numbers
  <2> QED
    BY <1>1, <2>1, <2>2 DEF Sizes, Remembered
<1>3. appendIDsToConsider(s, c, n) = N
  BY <1>1, <1>2 DEF appendIDsToConsider
<1>4. stopAfter(s, c, n, read) =
        IF hidden = {} THEN n ELSE IF n - (N - (Min(hidden) - 1)) < 0 THEN 0 ELSE n - (N - (Min(hidden) - 1))
  BY <1>3, Zenon DEF stopAfter
<1> HIDE DEF H, L, B, N, hidden
<1>5. ASSUME NEW p \in 1..(H - L) PROVE ~Hides(read, history[s][p].id)
  <2>1. history[s][p].id < lowWatermark /\ history[s][p].id \in Nat
    BY <1>1, <1>2 DEF Remembered, Samples, H, L
  <2>2. lowWatermark \in Nat
    BY LowWatermarkBounds, Zenon DEF SeriesInv
  <2> QED
    BY <2>1, <2>2, HiddenAboveWatermark DEF SeriesInv
<1>6. N \in Int /\ N <= L /\ H - L + N = B + n /\ N = L - (H - (B + n))
  BY <1>1, <1>2 DEF N
<1> DEFINE bad == {p \in 1..H : Hides(read, history[s][p].id)}
<1>7. \A i \in 1..L : H - L + i \in 1..H /\ txs[s][i] = history[s][H - L + i].id
  <2>1. \A i \in 1..L : txs[s][i] = history[s][H - L + i].id
    BY <1>1, Zenon DEF Remembered, H, L
  <2>2. \A i \in 1..L : H - L + i \in 1..H
    BY <1>1, <1>2
  <2> QED
    BY <2>1, <2>2, Zenon
<1>8. \A i \in 1..L : i \in hidden <=> i <= N /\ H - L + i \in bad
  BY <1>7, Zenon DEF hidden
<1>9. \A p \in 1..(H - L) : p \notin bad
  BY <1>5, Zenon
<1>10. ASSUME NEW m \in 1..(H + 1), \A p \in 1..(m - 1) : p \notin bad
       PROVE  \A p \in 1..(m - 1) : ~Hides(read, history[s][p].id)
  <2>1. \A p \in 1..(m - 1) : p \in 1..H
    BY <1>1
  <2> QED
    BY <1>10, <2>1, Zenon
<1> HIDE DEF bad
<1>11. CASE hidden = {}
  <2>1. \A i \in 1..L : i <= N => H - L + i \notin bad
    BY <1>8, <1>11, Zenon
  <2>2. \A p \in 1..(H - L + N) : p \notin bad
    BY <1>1, <1>2, <1>6, <1>9, <2>1, NoneUpTo, ZenonT(30)
  <2>3. B + n + 1 \in 1..(H + 1) /\ (B + n + 1) - 1 = H - L + N /\ B + n = H - L + N
    BY <1>1, <1>2, <1>6
  <2>4. \A p \in 1..(B + n) : ~Hides(read, history[s][p].id)
    BY <1>10, <2>2, <2>3, Zenon
  <2>5. stopAfter(s, c, n, read) = n
    BY <1>4, <1>11, Zenon
  <2> QED
    BY <1>2, <1>5, <2>4, <2>5, Zenon DEF H, L, B
<1>12. CASE hidden # {}
  <2>1. hidden \in SUBSET Nat
    BY <1>1 DEF hidden
  <2>2. PICK j : j = Min(hidden) /\ j \in hidden /\ \A y \in hidden : j <= y
    BY <1>12, <2>1, MinNat, Zenon
  <2>3. j \in 1..L /\ j <= N /\ H - L + j \in bad
    <3>1. j \in 1..L
      BY <2>2, Zenon DEF hidden
    <3> QED
      BY <1>8, <2>2, <3>1, Zenon
  <2>4. PICK m : m = H - L + j
    BY Zenon
  <2>5. m \in 1..H /\ m <= B + n /\ n - (N - (j - 1)) = m - 1 - B
    BY <1>1, <1>2, <1>6, <2>3, <2>4, StopDistance
  <2>6. Hides(read, history[s][m].id)
    BY <2>3, <2>4, Zenon DEF bad
  <2>7. \A i \in 1..L : i <= j - 1 => H - L + i \notin bad
    <3>1. ASSUME NEW i \in 1..L, i <= j - 1 PROVE i \notin hidden /\ i <= N
      BY <1>1, <1>6, <2>2, <2>3, <3>1
    <3> QED
      BY <1>8, <3>1, Zenon
  <2>8. j - 1 \in Int /\ j - 1 <= L /\ H - L + (j - 1) = m - 1
    BY <1>1, <2>3, <2>4
  <2>9. \A p \in 1..(m - 1) : p \notin bad
    BY <1>1, <1>2, <1>9, <2>7, <2>8, NoneUpTo, ZenonT(30)
  <2>10. \A p \in 1..(m - 1) : ~Hides(read, history[s][p].id)
    <3>1. m \in 1..(H + 1)
      BY <1>1, <2>5
    <3> QED
      BY <1>10, <2>9, <3>1, ZenonT(30)
  <2>11. stopAfter(s, c, n, read) = IF m - 1 - B < 0 THEN 0 ELSE m - 1 - B
    BY <1>4, <1>12, <2>2, <2>5, ZenonT(30)
  <2>12. stopAfter(s, c, n, read) = IF m - 1 < B THEN 0 ELSE m - 1 - B
    BY <1>2, <2>5, <2>11
  <2> QED
    BY <1>2, <1>5, <2>5, <2>6, <2>10, <2>12, ZenonT(30) DEF H, L, B
<1> QED
  BY <1>11, <1>12, Zenon

-----------------------------------------------------------------------------
(* The ring of append IDs of a series.                                     *)

\* Reducing an index that overshoots by less than the length of the ring.
LEMMA Wrap ==
  ASSUME NEW n \in Nat, n > 0, NEW a \in Nat, a < 2 * n
  PROVE  a % n = IF a < n THEN a ELSE a - n
<1>1. CASE a < n
  BY <1>1
<1>2. CASE a >= n
  BY <1>2
<1> QED
  BY <1>1, <1>2

\* The positions of the IDs in the ring are slots of the array, and no two
\* of them are the same slot.
LEMMA Positions ==
  ASSUME RingTypeOK, len > 0
  PROVE  /\ \A k \in 0..len : Position(k) = IF txIDFirst + k < len
                                             THEN txIDFirst + k ELSE txIDFirst + k - len
         /\ \A k \in 0..len : Position(k) \in 0..(len - 1)
         /\ \A j, k \in 0..(len - 1) : Position(j) = Position(k) => j = k
<1>1. \A k \in 0..len : Position(k) = IF txIDFirst + k < len
                                       THEN txIDFirst + k ELSE txIDFirst + k - len
  <2>1. SUFFICES ASSUME NEW k \in 0..len
                 PROVE  Position(k) = IF txIDFirst + k < len
                                       THEN txIDFirst + k ELSE txIDFirst + k - len
    BY Zenon
  <2> QED
    BY Wrap DEF RingTypeOK, Position
<1>2. ASSUME NEW k \in 0..len PROVE Position(k) \in 0..(len - 1)
  <2>1. len \in Nat /\ txIDFirst \in 0..(len - 1)
    BY DEF RingTypeOK
  <2> QED
    BY <1>1, <2>1
<1>3. ASSUME NEW j \in 0..(len - 1), NEW k \in 0..(len - 1), Position(j) = Position(k)
      PROVE  j = k
  <2>1. j \in 0..len /\ k \in 0..len /\ len \in Nat /\ txIDFirst \in 0..(len - 1)
    BY DEF RingTypeOK
  <2> QED
    BY <1>1, <1>3, <2>1
<1> QED
  BY <1>1, <1>2, <1>3, Zenon

\* Lists of the same length with the same elements are the same.
LEMMA SameList ==
  ASSUME NEW s \in Seq(Nat), NEW t \in Seq(Nat), Len(s) = Len(t), \A i \in 1..Len(s) : s[i] = t[i]
  PROVE  s = t
OBVIOUS

\* When one list is another with one more ID behind it.
LEMMA AppendOne ==
  ASSUME NEW s \in Seq(Nat), NEW n \in Nat, Len(s) = n, NEW id \in Nat, NEW f,
         \A i \in 1..(n + 1) : f[i] = IF i <= n THEN s[i] ELSE id,
         f = [i \in 1..(n + 1) |-> f[i]]
  PROVE  f = Append(s, id)
<1>1. \A i \in 1..(n + 1) : f[i] \in Nat
  OBVIOUS
<1>2. f \in Seq(Nat) /\ Len(f) = n + 1
  BY <1>1, SMTT(30)
<1>3. \A i \in 1..Len(f) : f[i] = Append(s, id)[i]
  BY <1>2
<1>4. Append(s, id) \in Seq(Nat) /\ Len(Append(s, id)) = n + 1
  OBVIOUS
<1> QED
  BY <1>2, <1>3, <1>4, SameList, Zenon

\* The contents are a sequence of append IDs.
LEMMA ContentsType ==
  ASSUME RingTypeOK
  PROVE  /\ Contents \in Seq(Nat)
         /\ Len(Contents) = txIDCount
         /\ DOMAIN Contents = 1..txIDCount
         /\ \A i \in 1..txIDCount : Contents[i] = txIDs[Position(i - 1)]
<1>1. \A i \in 1..txIDCount : txIDs[Position(i - 1)] \in Nat
  <2>1. SUFFICES ASSUME NEW i \in 1..txIDCount
                 PROVE  txIDs[Position(i - 1)] \in Nat
    BY Zenon
  <2>2. len > 0 /\ i - 1 \in 0..len
    BY <2>1 DEF RingTypeOK
  <2> QED
    BY <2>2, Positions, Zenon DEF RingTypeOK
<1>2. txIDCount \in Nat
  BY DEF RingTypeOK
<1> QED
  BY <1>1, <1>2 DEF Contents

\* An ID added to a ring with room goes behind the others.
LEMMA AddRoomStep ==
  ASSUME RingTypeOK, NEW id \in AppendIDs, addRoom(id)
  PROVE  RingTypeOK' /\ Contents' = Append(Contents, id)
<1>1. /\ len \in Nat /\ len > 0 /\ len' = len /\ txIDFirst' = txIDFirst
      /\ txIDCount \in Nat /\ txIDCount < len /\ txIDCount' = txIDCount + 1
      /\ id \in Nat
  BY TxRingAssumption DEF RingTypeOK, addRoom
<1>2. Position(txIDCount) \in 0..(len - 1)
  BY <1>1, Positions
<1>3. RingTypeOK'
  BY <1>1, <1>2 DEF RingTypeOK, addRoom
<1>4. \A k \in Nat : Position(k)' = Position(k)
  BY <1>1, Zenon DEF Position
<1>5. \A i \in 1..txIDCount : txIDs'[Position(i - 1)] = txIDs[Position(i - 1)]
  <2>1. SUFFICES ASSUME NEW i \in 1..txIDCount
                 PROVE  txIDs'[Position(i - 1)] = txIDs[Position(i - 1)]
    BY Zenon
  <2>2. Position(i - 1) # Position(txIDCount) /\ Position(i - 1) \in 0..(len - 1)
    BY <1>1, Positions
  <2> QED
    BY <1>2, <2>2, Zenon DEF RingTypeOK, addRoom
<1>6. txIDs'[Position(txIDCount)] = id
  BY <1>2, Zenon DEF RingTypeOK, addRoom
<1>7. Contents' = [i \in 1..(txIDCount + 1) |-> txIDs'[Position(i - 1)]]
  BY <1>1, <1>4 DEF Contents
<1>8. ASSUME NEW i \in 1..(txIDCount + 1)
      PROVE  Contents'[i] = IF i <= txIDCount THEN Contents[i] ELSE id
  <2>1. CASE i <= txIDCount
    <3>1. i \in 1..txIDCount
      BY <1>1, <2>1
    <3> QED
      BY <1>1, <1>5, <1>7, <2>1, <3>1, ContentsType, Zenon
  <2>2. CASE i = txIDCount + 1
    <3>1. i - 1 = txIDCount
      BY <1>1, <2>2
    <3> QED
      BY <1>1, <1>6, <1>7, <2>2, <3>1
  <2> QED
    BY <1>1, <2>1, <2>2
<1>9. Contents' = [i \in 1..(txIDCount + 1) |-> Contents'[i]]
  BY <1>7, Zenon
<1>10. Contents \in Seq(Nat) /\ Len(Contents) = txIDCount
  BY ContentsType, Zenon
<1> QED
  BY <1>1, <1>3, <1>8, <1>9, <1>10, AppendOne

\* A full ring moves its IDs, oldest first, to the start of an array twice
\* as long, and the new ID goes behind them.
LEMMA AddFullStep ==
  ASSUME RingTypeOK, NEW id \in AppendIDs, addFull(id)
  PROVE  RingTypeOK' /\ Contents' = Append(Contents, id)
<1> DEFINE newLen == IF txIDCount = 0 THEN 4 ELSE 2 * txIDCount
<1>1. /\ len \in Nat /\ txIDCount = len /\ newLen \in Nat /\ len < newLen
      /\ len' = newLen /\ txIDFirst' = 0 /\ txIDCount' = txIDCount + 1
      /\ txIDs' = [Grown(newLen) EXCEPT ![txIDCount] = id]
      /\ id \in Nat
  BY TxRingAssumption DEF RingTypeOK, addFull
<1> HIDE DEF newLen
<1>2. Grown(newLen) \in [0..(newLen - 1) -> Nat]
  <2>1. SUFFICES ASSUME NEW i \in 0..(newLen - 1)
                 PROVE  (IF i < len - txIDFirst THEN txIDs[txIDFirst + i]
                         ELSE IF i < len THEN txIDs[i - (len - txIDFirst)] ELSE 0) \in Nat
    BY Zenon DEF Grown
  <2> QED
    BY <1>1 DEF RingTypeOK
<1>3. RingTypeOK'
  BY <1>1, <1>2 DEF RingTypeOK
<1>4. \A k \in 0..txIDCount : Position(k)' = k
  BY <1>1, Wrap DEF Position
<1>5. \A i \in 1..txIDCount : txIDs'[i - 1] = txIDs[Position(i - 1)]
  <2>1. SUFFICES ASSUME NEW i \in 1..txIDCount
                 PROVE  Grown(newLen)[i - 1] = txIDs[Position(i - 1)]
    BY <1>1, <1>2
  <2>2. len > 0 /\ i - 1 \in 0..(len - 1) /\ i - 1 \in 0..len /\ i - 1 \in 0..(newLen - 1)
    BY <1>1
  <2>3. Position(i - 1) = IF txIDFirst + (i - 1) < len
                          THEN txIDFirst + (i - 1) ELSE txIDFirst + (i - 1) - len
    BY <2>2, Positions, Zenon
  <2>4. Grown(newLen)[i - 1] = IF i - 1 < len - txIDFirst THEN txIDs[txIDFirst + (i - 1)]
                               ELSE txIDs[(i - 1) - (len - txIDFirst)]
    <3>1. Grown(newLen)[i - 1] = IF i - 1 < len - txIDFirst THEN txIDs[txIDFirst + (i - 1)]
                                 ELSE IF i - 1 < len THEN txIDs[(i - 1) - (len - txIDFirst)] ELSE 0
      BY <2>2, Zenon DEF Grown
    <3> QED
      BY <1>1, <2>2, <3>1 DEF RingTypeOK
  <2> QED
    BY <2>2, <2>3, <2>4 DEF RingTypeOK
<1>6. txIDs'[txIDCount] = id
  BY <1>1, <1>2
<1>7. Contents' = [i \in 1..(txIDCount + 1) |-> txIDs'[i - 1]]
  <2>1. \A i \in 1..(txIDCount + 1) : Position(i - 1)' = i - 1
    BY <1>1, <1>4
  <2> QED
    BY <1>1, <2>1 DEF Contents
<1>8. ASSUME NEW i \in 1..(txIDCount + 1)
      PROVE  Contents'[i] = IF i <= txIDCount THEN Contents[i] ELSE id
  <2>1. CASE i <= txIDCount
    <3>1. i \in 1..txIDCount
      BY <1>1, <2>1
    <3> QED
      BY <1>1, <1>5, <1>7, <2>1, <3>1, ContentsType, ZenonT(30)
  <2>2. CASE i = txIDCount + 1
    <3>1. i - 1 = txIDCount
      BY <1>1, <2>2
    <3> QED
      BY <1>1, <1>6, <1>7, <2>2, <3>1
  <2> QED
    BY <1>1, <2>1, <2>2
<1>9. Contents' = [i \in 1..(txIDCount + 1) |-> Contents'[i]]
  BY <1>7, Zenon
<1>10. Contents \in Seq(Nat) /\ Len(Contents) = txIDCount
  BY ContentsType, Zenon
<1> QED
  BY <1>1, <1>3, <1>8, <1>9, <1>10, AppendOne, ZenonT(30)

\* A cleanup takes the longest run of IDs below the bound off the front.
LEMMA RingCleanupStep ==
  ASSUME RingTypeOK, NEW bound \in AppendIDs, cleanupAppendIDsBelow(bound)
  PROVE  RingTypeOK' /\ Queue!CleanupBelow(bound)
<1>1. CASE len = 0 /\ UNCHANGED ringVars
  <2>1. RingTypeOK' /\ Contents' = Contents /\ Len(Contents) = 0 /\ Contents \in Seq(Nat)
    BY <1>1, ContentsType DEF RingTypeOK, ringVars, Contents, Position
  <2>2. SubSeq(Contents, 0 + 1, Len(Contents)) = Contents
    BY <2>1
  <2> QED
    BY <2>1, <2>2 DEF Queue!CleanupBelow
<1>2. ASSUME NEW n \in 0..txIDCount, len > 0,
             \A k \in 0..(n - 1) : txIDs[Position(k)] < bound,
             n < txIDCount => txIDs[Position(n)] >= bound,
             txIDFirst' = (txIDFirst + n) % len,
             txIDCount' = txIDCount - n,
             UNCHANGED <<len, txIDs>>
      PROVE  RingTypeOK' /\ Queue!CleanupBelow(bound)
  <2>1. /\ len \in Nat /\ txIDCount \in Nat /\ txIDCount <= len /\ n \in Nat
        /\ n <= txIDCount /\ txIDFirst \in Nat /\ txIDFirst < len
        /\ txIDFirst' = IF txIDFirst + n < len THEN txIDFirst + n ELSE txIDFirst + n - len
    BY <1>2, Wrap DEF RingTypeOK
  <2>2. RingTypeOK'
    BY <1>2, <2>1 DEF RingTypeOK
  <2>3. \A k \in 0..(txIDCount - n - 1) : Position(k)' = Position(n + k)
    <3>1. SUFFICES ASSUME NEW k \in 0..(txIDCount - n - 1)
                   PROVE  Position(k)' = Position(n + k)
      BY Zenon
    <3>2. Position(k)' = IF txIDFirst' + k < len THEN txIDFirst' + k ELSE txIDFirst' + k - len
      <4>1. txIDFirst' + k \in Nat /\ txIDFirst' + k < 2 * len
        BY <2>1, <3>1
      <4>2. Position(k)' = (txIDFirst' + k) % len
        BY <1>2, Zenon DEF Position
      <4> QED
        BY <1>2, <2>1, <4>1, <4>2, Wrap
    <3>3. Position(n + k) = IF txIDFirst + (n + k) < len
                            THEN txIDFirst + (n + k) ELSE txIDFirst + (n + k) - len
      BY <1>2, <2>1, Positions
    <3> QED
      BY <2>1, <3>2, <3>3
  <2>4. Contents' = [i \in 1..(txIDCount - n) |-> Contents[n + i]]
    <3>1. \A i \in 1..(txIDCount - n) :
            Position(i - 1)' = Position(n + i - 1) /\ Contents[n + i] = txIDs[Position(n + i - 1)]
      <4>1. SUFFICES ASSUME NEW i \in 1..(txIDCount - n)
                     PROVE  /\ Position(i - 1)' = Position(n + i - 1)
                            /\ Contents[n + i] = txIDs[Position(n + i - 1)]
        BY Zenon
      <4>2. n + (i - 1) = n + i - 1 /\ i - 1 \in 0..(txIDCount - n - 1) /\ n + i \in 1..txIDCount
        BY <2>1
      <4> QED
        BY <2>3, <4>2, ContentsType, SMTT(30)
    <3> QED
      BY <1>2, <3>1, Zenon DEF Contents
  <2>5. SubSeq(Contents, n + 1, Len(Contents)) = [i \in 1..(txIDCount - n) |-> Contents[n + i]]
    <3>1. /\ Contents \in Seq(Nat) /\ Len(Contents) = txIDCount
      BY ContentsType, Zenon
    <3>2. SubSeq(Contents, n + 1, Len(Contents))
            = [i \in 1..(Len(Contents) - (n + 1) + 1) |-> Contents[i + (n + 1) - 1]]
      BY <2>1, <3>1
    <3> QED
      BY <2>1, <3>1, <3>2
  <2>6. /\ \A j \in 1..n : Contents[j] < bound
        /\ n < Len(Contents) => Contents[n + 1] >= bound
    <3>1. ASSUME NEW j \in 1..n PROVE Contents[j] < bound
      <4>1. j - 1 \in 0..(n - 1) /\ j \in 1..txIDCount
        BY <2>1
      <4> QED
        BY <1>2, <4>1, ContentsType, Zenon
    <3>2. ASSUME n < txIDCount PROVE Contents[n + 1] >= bound
      <4>1. (n + 1) - 1 = n /\ n + 1 \in 1..txIDCount
        BY <2>1, <3>2
      <4> QED
        BY <1>2, <3>2, <4>1, ContentsType, Zenon
    <3> QED
      BY <3>1, <3>2, ContentsType, Zenon
  <2>7. n \in 0..Len(Contents)
    BY <1>2, ContentsType, Zenon
  <2> QED
    BY <2>2, <2>4, <2>5, <2>6, <2>7, Zenon DEF Queue!CleanupBelow
<1> QED
  BY <1>1, <1>2, Zenon DEF cleanupAppendIDsBelow

\* The fields of the ring stay within the array, whatever is added and
\* cleaned up.
THEOREM RingTypeCorrect == RingSpec => []RingTypeOK
<1>1. newTxRing => RingTypeOK
  BY DEF newTxRing, RingTypeOK
<1>2. RingTypeOK /\ [RingNext]_ringVars => RingTypeOK'
  <2>1. SUFFICES ASSUME RingTypeOK, [RingNext]_ringVars PROVE RingTypeOK'
    BY Zenon
  <2>2. CASE UNCHANGED ringVars
    BY <2>1, <2>2, Zenon DEF RingTypeOK, ringVars
  <2> QED
    BY <2>1, <2>2, AddRoomStep, AddFullStep, RingCleanupStep, Zenon DEF RingNext, add
<1> QED
  BY <1>1, <1>2, PTL DEF RingSpec

\* The ring implements the queue: every step of txRing is, seen through
\* Contents, a step of the queue, for every capacity it grows to.
THEOREM RingImplementsQueue == RingSpec => ImplementsQueue
<1>1. newTxRing => Queue!QInit
  BY DEF newTxRing, Queue!QInit, Contents
<1>2. RingTypeOK /\ [RingNext]_ringVars => [Queue!QNext]_Contents
  <2>1. SUFFICES ASSUME RingTypeOK, [RingNext]_ringVars PROVE [Queue!QNext]_Contents
    BY Zenon
  <2>2. CASE UNCHANGED ringVars
    BY <2>2, Zenon DEF ringVars, Contents, Position
  <2>3. ASSUME NEW id \in AppendIDs, add(id) PROVE Queue!QNext
    BY <2>1, <2>3, AddRoomStep, AddFullStep, Zenon DEF add, Queue!QNext, Queue!Add
  <2>4. ASSUME NEW id \in AppendIDs, cleanupAppendIDsBelow(id) PROVE Queue!QNext
    BY <2>1, <2>4, RingCleanupStep, Zenon DEF Queue!QNext
  <2> QED
    BY <2>1, <2>2, <2>3, <2>4, Zenon DEF RingNext
<1> QED
  BY <1>1, <1>2, RingTypeCorrect, PTL DEF RingSpec, ImplementsQueue, Queue!QSpec

\* Stepping the iterator visits the IDs in the order they were added.
THEOREM IteratorVisitsInOrder == RingSpec => []IteratorInOrder
<1>1. ASSUME RingTypeOK PROVE IteratorInOrder
  <2>1. SUFFICES ASSUME NEW k \in 0..(txIDCount - 2)
                 PROVE  NextPos(Position(k)) = Position(k + 1)
    BY Zenon DEF IteratorInOrder
  <2>2. /\ len \in Nat /\ len > 0 /\ txIDFirst \in 0..(len - 1)
        /\ k \in 0..len /\ k + 1 \in 0..len /\ k + 1 < len
    BY <1>1, <2>1 DEF RingTypeOK
  <2>3. /\ Position(k) = IF txIDFirst + k < len THEN txIDFirst + k ELSE txIDFirst + k - len
        /\ Position(k + 1) = IF txIDFirst + (k + 1) < len
                              THEN txIDFirst + (k + 1) ELSE txIDFirst + (k + 1) - len
    BY <1>1, <2>2, Positions, Zenon
  <2> QED
    BY <2>2, <2>3 DEF NextPos
<1> QED
  BY <1>1, RingTypeCorrect, PTL
-----------------------------------------------------------------------------
INSTANCE WellFoundedInduction

\* The naturals are well-ordered by <.
LEMMA NaturalsWellOrdered == WellOrdered
<1> SUFFICES ASSUME NEW S \in SUBSET Nat, S # {}
             PROVE  \E x \in S : \A y \in S : x <= y
  BY Zenon DEF WellOrdered
<1> DEFINE Less == {ss \in Nat \X Nat : ss[1] < ss[2]}
<1>1. IsWellFoundedOn(Less, Nat)
  BY NatLessThanWellFounded, Zenon DEF OpToRel
<1> HIDE DEF Less
<1>2. \E x \in S : \A y \in S : ~(<<y, x>> \in Less)
  BY <1>1, WFMin, Zenon
<1>3. \A x, y \in Nat : ~(<<y, x>> \in Less) => x <= y
  BY DEF Less
<1> QED
  BY <1>2, <1>3, Zenon

\* A query never gets a sample of an append that was still open, or had not
\* begun, when the query started (memSeries.iterator), although the series
\* forgets append IDs (cleanupAppendIDsBelow).
THEOREM NoReadIsDirty == Spec => []NoDirtyRead
<1>1. SeriesInv => NoDirtyRead
  <2> SUFFICES ASSUME SeriesInv, NEW s \in Series, NEW read \in OpenReads, NEW c \in Chunks(s),
                      NEW n \in Sizes(s, c), NEW p \in 1..stopAfter(s, c, n, read)
               PROVE  ~Hides(read, history[s][Start(s, c) + p].id)
    BY Zenon DEF NoDirtyRead
  <2>1. Start(s, c) \in Nat /\ n \in Nat
    BY NaturalsWellOrdered, StopPosition, Zenon
  <2>2. CASE /\ stopAfter(s, c, n, read) = n
             /\ \A q \in 1..(Start(s, c) + n) : ~Hides(read, history[s][q].id)
    <3>1. Start(s, c) + p \in 1..(Start(s, c) + n)
      BY <2>1, <2>2
    <3> QED
      BY <2>2, <3>1, Zenon
  <2>3. ASSUME NEW m \in 1..Len(history[s]),
               \A q \in 1..(m - 1) : ~Hides(read, history[s][q].id),
               stopAfter(s, c, n, read) = IF m - 1 < Start(s, c) THEN 0 ELSE m - 1 - Start(s, c)
        PROVE  ~Hides(read, history[s][Start(s, c) + p].id)
    <3>1. Start(s, c) + p \in 1..(m - 1)
      BY <2>1, <2>3
    <3> QED
      BY <2>3, <3>1, Zenon
  <2> QED
    BY <2>2, <2>3, NaturalsWellOrdered, StopPosition, Zenon
<1> QED
  BY <1>1, SeriesInvariance, PTL

\* A query that gets less than a chunk holds has a reason to: the next
\* sample, or an older one of the series, is hidden from it.
THEOREM WithheldForAReason == Spec => []WithheldBehindHidden
<1>1. SeriesInv => WithheldBehindHidden
  <2> SUFFICES ASSUME SeriesInv, NEW s \in Series, NEW read \in OpenReads, NEW c \in Chunks(s),
                      NEW n \in Sizes(s, c), stopAfter(s, c, n, read) < n
               PROVE  \E p \in 1..(Start(s, c) + stopAfter(s, c, n, read) + 1) :
                        Hides(read, history[s][p].id)
    BY Zenon DEF WithheldBehindHidden
  <2>1. Start(s, c) \in Nat /\ n \in Nat
    BY NaturalsWellOrdered, StopPosition, ZenonT(30)
  <2>2. PICK m \in 1..Len(history[s]) :
          /\ Hides(read, history[s][m].id)
          /\ stopAfter(s, c, n, read) = IF m - 1 < Start(s, c) THEN 0 ELSE m - 1 - Start(s, c)
    BY <2>1, NaturalsWellOrdered, StopPosition, SMTT(30)
  <2>3. m \in 1..(Start(s, c) + stopAfter(s, c, n, read) + 1)
    BY <2>1, <2>2
  <2> QED
    BY <2>2, <2>3, Zenon
<1> QED
  BY <1>1, SeriesInvariance, PTL
=============================================================================
