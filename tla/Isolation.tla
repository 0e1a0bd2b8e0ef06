----------------------------- MODULE Isolation -----------------------------
(***************************************************************************)
(* The global isolation state of the head (tsdb/isolation.go): which       *)
(* appends are in progress, which reads are open, and the low watermark    *)
(* below which a series need not remember which append wrote a sample.     *)
(*                                                                         *)
(* Every method takes appendMtx (and readMtx inside it), so each one is an *)
(* atomic action.  The two doubly linked lists are sequences: appenders    *)
(* are linked in at the tail, reads at the front.                          *)
(***************************************************************************)
EXTENDS Integers, Sequences

CONSTANTS Readers,      \* the queries that may hold an isolationState
          Times,        \* timestamps, the values of minTime, mint and maxt
          MaxAppendID,  \* bound on the append IDs a behaviour hands out
          disabled      \* HeadOptions.IsolationDisabled

ASSUME IsolationAssumption ==
  /\ MaxAppendID \in Nat
  /\ disabled \in BOOLEAN
  /\ Times \subseteq Int

VARIABLES
  lastAppendID,     \* appendsOpenList.appendID: the list head keeps it
  appendsOpen,      \* the keys of the map of appends in progress
  appendsOpenList,  \* the list of open isolationAppenders, oldest first
  readsOpen,        \* the list of open isolationStates, newest first
  cleanupBelow      \* headAppender.cleanupAppendIDsBelow of each open append

isoVars == <<lastAppendID, appendsOpen, appendsOpenList, readsOpen, cleanupBelow>>

IsolationAppender == [appendID : Nat, minTime : Times]

IsolationState ==
  [reader : Readers, maxAppendID : Nat, lowWatermark : Nat,
   incompleteAppends : SUBSET Nat, mint : Times, maxt : Times]

IsoTypeOK ==
  /\ lastAppendID \in Nat
  /\ appendsOpen \subseteq Nat
  /\ appendsOpenList \in Seq(IsolationAppender)
  /\ readsOpen \in Seq(IsolationState)
  /\ cleanupBelow \in [appendsOpen -> Nat]

newIsolation ==
  /\ lastAppendID = 0
  /\ appendsOpen = {}
  /\ appendsOpenList = <<>>
  /\ readsOpen = <<>>
  /\ cleanupBelow = [id \in {} |-> 0]
-----------------------------------------------------------------------------
\* appendsOpenList.next.appendID: the lowest open append, or the last ID
\* handed out when the list is empty and next is the list head itself.
NextAppendID(list, last) == IF list = <<>> THEN last ELSE list[1].appendID

\* Mutant: the newest read decides, from the wrong end of the list.
lowWatermarkOfNewest(reads, list, last) ==
  IF reads # <<>> THEN reads[1].lowWatermark ELSE NextAppendID(list, last)

\* The oldest open read decides; without reads the oldest open append does.
lowWatermarkOf(reads, list, last) ==
  IF disabled THEN 0 ELSE IF reads # <<>> THEN reads[Len(reads)].lowWatermark ELSE NextAppendID(list, last)

lowWatermark == lowWatermarkOf(readsOpen, appendsOpenList, lastAppendID)

OpenReads == {readsOpen[i] : i \in DOMAIN readsOpen}

\* Does a read hide the samples of an append?
Hides(read, id) == id > read.maxAppendID \/ id \in read.incompleteAppends
-----------------------------------------------------------------------------
newAppendID(minTime) ==
  /\ ~disabled
  /\ lastAppendID < MaxAppendID
  /\ LET id   == lastAppendID + 1
         list == Append(appendsOpenList, [appendID |-> id, minTime |-> minTime])
     IN  /\ lastAppendID' = id
         /\ appendsOpenList' = list
         /\ appendsOpen' = appendsOpen \union {id}
         /\ cleanupBelow' = [k \in appendsOpen \union {id} |->
                               IF k = id THEN lowWatermarkOf(readsOpen, list, id)
                                         ELSE cleanupBelow[k]]
  /\ UNCHANGED readsOpen

\* A doubly linked list without its element i.
Unlinked(list, i) == SubSeq(list, 1, i - 1) \o SubSeq(list, i + 1, Len(list))

\* Commit and Rollback close the append they were given.
closeAppend(id) ==
  /\ id \in appendsOpen
  /\ \E i \in DOMAIN appendsOpenList :
       /\ appendsOpenList[i].appendID = id
       /\ appendsOpenList' = Unlinked(appendsOpenList, i)
  /\ appendsOpen' = appendsOpen \ {id}
  /\ cleanupBelow' = [k \in appendsOpen \ {id} |-> cleanupBelow[k]]
  /\ UNCHANGED <<lastAppendID, readsOpen>>

State(r, mint, maxt) ==
  /\ \A s \in OpenReads : s.reader # r
  /\ readsOpen' = <<[reader            |-> r,
                     maxAppendID       |-> lastAppendID,
                     lowWatermark      |-> NextAppendID(appendsOpenList, lastAppendID),
                     incompleteAppends |-> appendsOpen,
                     mint              |-> mint,
                     maxt              |-> maxt]>> \o readsOpen
  /\ UNCHANGED <<lastAppendID, appendsOpen, appendsOpenList, cleanupBelow>>

Close(r) ==
  /\ \E i \in DOMAIN readsOpen :
       /\ readsOpen[i].reader = r
       /\ readsOpen' = Unlinked(readsOpen, i)
  /\ UNCHANGED <<lastAppendID, appendsOpen, appendsOpenList, cleanupBelow>>

IsoNext ==
  \/ \E t \in Times : newAppendID(t)
  \/ \E id \in appendsOpen : closeAppend(id)
  \/ \E r \in Readers, mint, maxt \in Times : mint <= maxt /\ State(r, mint, maxt)
  \/ \E r \in Readers : Close(r)

IsoSpec == newIsolation /\ [][IsoNext]_isoVars
-----------------------------------------------------------------------------
\* An append ID below the low watermark, the current one or one an open
\* append still carries from the time it was created, is an append that no
\* open read hides: commitSamples may forget which samples it wrote.
WatermarkBelowHidden ==
  \A read \in OpenReads : \A id \in 1..(lastAppendID + 1) :
    Hides(read, id) => /\ lowWatermark <= id
                       /\ \A k \in appendsOpen : cleanupBelow[k] <= id

\* ... nor will a read opened later hide it: the appends still open, and
\* the ones to come, are all at or above every watermark handed out.
WatermarkBelowOpen ==
  \A id \in appendsOpen : /\ lowWatermark <= id
                          /\ \A k \in appendsOpen : cleanupBelow[k] <= id

\* A watermark is safe to clean up to: commitSamples, which drops from a
\* series the append IDs below it, drops none that a query needs.
WatermarkSafe == WatermarkBelowHidden /\ WatermarkBelowOpen

\* The watermark never moves back, whatever order reads and appends end in,
\* so a value captured by an appender stays safe until its commit.
WatermarkMonotone == [][lowWatermark <= lowWatermark']_isoVars
=============================================================================
