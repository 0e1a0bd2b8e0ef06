---------------------------- MODULE BlocksProofs ----------------------------
(***************************************************************************)
(* No sample is lost or hidden while blocks are written, merged, reloaded, *)
(* retired and deleted, whatever crashes and failures there are, for any   *)
(* number of samples, blocks, queries and faults (tsdb/db.go, compact.go). *)
(***************************************************************************)
EXTENDS BlocksStepProofs

\* An operation that fails takes away what it wrote.
LEMMA AbandonStep ==
  ASSUME BInv, UNCHANGED <<headVars, held, accepted, deleted, newest>>,
         op.pc \in {"ooo", "reload", "delete"}, op.kind # "clean", op.gone = FALSE,
         disk' = Restrict(disk, DOMAIN disk \ op.new), op' = Abandoned,
         loaded' = IF op.kind = "open" THEN NoBlocks ELSE loaded
  PROVE  BInv'
<1>1. head' = head /\ hmin' = hmin /\ hmax' = hmax /\ ooo' = ooo /\ held' = held
      /\ accepted' = accepted /\ deleted' = deleted /\ newest' = newest
  BY Zenon DEF headVars
<1>2. /\ op'.pc = (IF op.kind = "open" THEN "down" ELSE "idle") /\ op'.kind = "tick"
      /\ op'.new = {} /\ op'.todo = {} /\ op'.gone = FALSE
      /\ op' \in [pc : {"idle", "down"}, kind : {"tick"}, new : {{}}, todo : {{}}, gone : {FALSE}]
  BY Zenon DEF Abandoned, Idle
<1>3. /\ disk' \in [DOMAIN disk' -> Block] /\ DOMAIN disk' = DOMAIN disk \ op.new
      /\ \A b \in DOMAIN disk' : disk'[b] = disk[b] /\ Live(disk'[b]) = Live(disk[b])
  BY RestrictIs, Zenon
<1>4. loaded' \in [DOMAIN loaded' -> Block] /\ DOMAIN loaded' \subseteq DOMAIN loaded
      /\ \A b \in DOMAIN loaded' : loaded'[b] = loaded[b]
  BY Zenon DEF NoBlocks, BInv, TypeInv
<1>5. TypeInv'
  <2>1. op' \in [pc : Resting \union {"ooo", "reload", "delete"}, kind : Kinds,
                 new : SUBSET Ids, todo : SUBSET Nat, gone : BOOLEAN]
    BY <1>2, Zenon DEF Resting, Kinds
  <2>2. DOMAIN disk' \subseteq Ids /\ DOMAIN loaded' \subseteq Ids
    BY <1>3, <1>4, Zenon DEF BInv, TypeInv
  <2> QED
    BY <1>1, <1>3, <1>4, <2>1, <2>2, Zenon DEF BInv, TypeInv
<1>6. OpInv'
  BY <1>2, Zenon DEF OpInv, Resting
<1>7. HeadInv'
  BY <1>1, Zenon DEF BInv, HeadInv, rangeForTimestamp
<1>8. WellFormed(disk)' /\ WellFormed(loaded)'
  <2>1. WellFormed(disk)'
    BY <1>1, <1>3, Zenon DEF BInv, WellFormed
  <2>2. WellFormed(loaded)'
    BY <1>1, <1>4, Zenon DEF BInv, WellFormed
  <2> QED
    BY <2>1, <2>2, Zenon
<1>9. SameBlocks'
  <2>1. \A b \in DOMAIN loaded' \ DOMAIN disk' : loaded[b].tomb = {}
    <3>1. ASSUME NEW b \in DOMAIN loaded', b \notin DOMAIN disk' PROVE loaded[b].tomb = {}
      <4>1. b \in DOMAIN loaded
        BY <1>4, Zenon
      <4>2. CASE b \in DOMAIN disk
        BY <1>3, <3>1, <4>1, <4>2, Zenon DEF BInv, SameBlocks, NewRedundant
      <4>3. CASE b \notin DOMAIN disk
        BY <4>1, <4>3, Zenon DEF BInv, SameBlocks
      <4> QED
        BY <4>2, <4>3, Zenon
    <3> QED
      BY <3>1, Zenon
  <2>2. \A b \in DOMAIN loaded' \intersect DOMAIN disk' :
          b \in DOMAIN loaded \intersect DOMAIN disk /\ loaded'[b] = loaded[b] /\ disk'[b] = disk[b]
    BY <1>3, <1>4, Zenon
  <2>3. \A b \in DOMAIN loaded' \ DOMAIN disk' : loaded'[b].tomb = {}
    BY <1>4, <2>1, Zenon
  <2> QED
    BY <2>2, <2>3, SameFrom, Zenon DEF BInv
<1>10. HeadBlocks'
  BY <1>1, <1>2, <1>3, Zenon DEF BInv, HeadBlocks
<1>11. ParentInv'
  <2>1. Merged' \subseteq Merged /\ Merged' \intersect op.new = {}
    BY <1>3, Zenon DEF Merged
  <2>2. op.kind # "open" => Merged' = {}
    BY <2>1, Zenon DEF BInv, ParentInv
  <2> QED
    BY <1>2, <1>3, <2>1, <2>2, ZenonT(30) DEF BInv, ParentInv
<1>12. FlagInv'
  BY <1>3, <1>4, Zenon DEF BInv, FlagInv
<1>13. NewRedundant' /\ Settled'
  BY <1>2, Zenon DEF NewRedundant, Settled
<1>14. Kept' = Kept
  BY <1>1, Zenon DEF Kept
<1>15. SamplesDurable'
  <2>1. ASSUME NEW t \in Stored(disk), t \notin head, t \notin ooo PROVE t \in Stored(disk')
    <3>1. PICK b \in DOMAIN disk : t \in Live(disk[b])
      BY <2>1, Zenon DEF Stored
    <3>2. CASE b \in op.new
      <4>1. t \in StoredIn(disk, DOMAIN disk \ op.new)
        BY <2>1, <3>1, <3>2, Zenon DEF BInv, NewRedundant, Live
      <4> QED
        BY <1>3, <4>1, ZenonT(30) DEF StoredIn, Stored
    <3>3. CASE b \notin op.new
      BY <1>3, <3>1, <3>3, Zenon DEF Stored
    <3> QED
      BY <3>2, <3>3, Zenon
  <2> QED
    BY <1>1, <1>14, <2>1, Zenon DEF BInv, SamplesDurable
<1>16. SamplesVisible'
  BY <1>1, <1>2, <1>14 DEF BInv, SamplesVisible, Stored, Live
<1> QED
  BY <1>5, <1>6, <1>7, <1>8, <1>9, <1>10, <1>11, <1>12, <1>13, <1>15, <1>16, Zenon DEF BInv

LEMMA FailStep ==
  ASSUME BInv, SafeSchedules,
         reloadFails \/ compactOOOFails \/ \E b \in op.todo, gone \in BOOLEAN : deleteFails(b, gone)
  PROVE  BInv'
<1>1. CASE reloadFails
  <2>1. /\ op.pc = "reload" /\ op.kind \in FailingReloads /\ loaded' = loaded
        /\ disk' = Restrict(disk, DOMAIN disk \ op.new) /\ op' = Abandoned
        /\ UNCHANGED <<headVars, held, accepted, deleted, newest>>
    BY <1>1, Zenon DEF reloadFails
  <2>2. op.kind # "clean" /\ op.gone = FALSE /\ (op.kind = "open" => loaded = NoBlocks)
    BY <2>1, Zenon DEF SafeSchedules, BInv, OpInv
  <2> QED
    BY <2>1, <2>2, AbandonStep, Zenon
<1>2. CASE compactOOOFails
  <2>1. /\ op.pc = "ooo" /\ loaded' = loaded /\ disk' = Restrict(disk, DOMAIN disk \ op.new) /\ op' = Idle
        /\ UNCHANGED <<headVars, held, accepted, deleted, newest>>
    BY <1>2, Zenon DEF compactOOOFails
  <2>2. op.kind = "ooo" /\ op.gone = FALSE
    BY <2>1, Zenon DEF BInv, OpInv
  <2>3. op' = Abandoned
    BY <2>1, <2>2, Zenon DEF Abandoned
  <2> QED
    BY <2>1, <2>2, <2>3, AbandonStep, Zenon
<1>3. CASE \E b \in op.todo, gone \in BOOLEAN : deleteFails(b, gone)
  <2>1. PICK b \in op.todo, gone \in BOOLEAN : deleteFails(b, gone)
    BY <1>3, Zenon
  <2>2. /\ op.pc = "delete" /\ op.kind \in FailingReloads /\ (op.gone \/ gone => PartialDeletes)
        /\ disk' = Restrict(disk, DOMAIN disk \ (op.new \union IF gone THEN {b} ELSE {}))
        /\ loaded' = (IF op.kind = "open" THEN NoBlocks ELSE loaded) /\ op' = Abandoned
        /\ UNCHANGED <<headVars, held, accepted, deleted, newest>>
    BY <2>1, Zenon DEF deleteFails
  <2>3. op.gone \in BOOLEAN
    BY Zenon DEF BInv, TypeInv
  <2>4. op.gone = FALSE /\ gone = FALSE /\ op.kind # "clean"
    BY <2>2, <2>3, Zenon DEF SafeSchedules
  <2>5. disk' = Restrict(disk, DOMAIN disk \ op.new)
    BY <2>2, <2>4, Zenon
  <2> QED
    BY <2>2, <2>4, <2>5, AbandonStep, ZenonT(30)
<1> QED
  BY <1>1, <1>2, <1>3, Zenon

\* The end of an operation: the blocks are as they should be, and the head
\* gives up what they have.
LEMMA DoneStep ==
  ASSUME BInv, UNCHANGED <<disk, loaded, held, accepted, deleted, newest>>,
         op.pc = "delete", op.todo = {},
         op' \in [pc : {"idle", "heads", "blocks"}, kind : {"tick"}, new : {{}}, todo : {{}}, gone : {FALSE}],
         head' \subseteq head, ooo' \subseteq ooo, hmin' \in Nat, hmax' = hmax,
         \A h \in head' : hmin' <= h, hmax # -1 => hmax \in head',
         \A t \in HeadAfter : t \in head' \/ t \in ooo' \/ t \in StoredIn(disk, DOMAIN disk),
         \A b \in DOMAIN disk : \A h \in head' : disk[b].maxt <= h
  PROVE  BInv'
<1>1. /\ disk' = disk /\ loaded' = loaded /\ held' = held /\ accepted' = accepted
      /\ deleted' = deleted /\ newest' = newest
  BY Zenon
<1>2. /\ op'.pc \in {"idle", "heads", "blocks"} /\ op'.kind = "tick" /\ op'.new = {} /\ op'.todo = {}
      /\ op'.gone = FALSE
  BY Zenon
<1>3. DOMAIN loaded = DOMAIN disk /\ \A n \in DOMAIN disk : disk[n].parents \intersect DOMAIN disk = {}
  BY Zenon DEF BInv, OpInv, ParentInv
<1>4. TypeInv'
  <2>1. op' \in [pc : Resting \union {"ooo", "reload", "delete"}, kind : Kinds,
                 new : SUBSET Ids, todo : SUBSET Nat, gone : BOOLEAN]
    BY <1>2, Zenon DEF Resting, Kinds
  <2> QED
    BY <1>1, <2>1, Zenon DEF BInv, TypeInv
<1>5. OpInv'
  BY <1>2, Zenon DEF OpInv, Resting
<1>6. HeadInv'
  <2>1. \A h \in head : hmin' \in Int /\ h \in Int
    BY DEF BInv, TypeInv
  <2>2. \A o \in ooo' : \A h \in head' : rangeForTimestamp(o) <= h
    BY Zenon DEF BInv, HeadInv
  <2>3. \A t \in accepted : t <= hmax
    BY Zenon DEF BInv, HeadInv
  <2> QED
    BY <1>1, <2>1, <2>2, <2>3, Zenon DEF HeadInv, rangeForTimestamp
<1>7. WellFormed(disk)' /\ WellFormed(loaded)'
  <2>1. WellFormed(disk)'
    BY <1>1, Zenon DEF BInv, WellFormed
  <2>2. WellFormed(loaded)'
    BY <1>1, Zenon DEF BInv, WellFormed
  <2> QED
    BY <2>1, <2>2, Zenon
<1>8. SameBlocks'
  BY <1>1 DEF BInv, SameBlocks
<1>9. HeadBlocks'
  <2>1. \A b \in DOMAIN disk : \A h \in head' : ~(h < disk[b].maxt)
    BY DEF BInv, TypeInv, Block
  <2> QED
    BY <1>1, <1>2, <2>1, Zenon DEF HeadBlocks
<1>10. ParentInv'
  <2>1. Merged' = {}
    BY <1>1, <1>3, Zenon DEF Merged
  <2> QED
    BY <1>1, <1>2, <1>3, <2>1, Zenon DEF ParentInv
<1>11. FlagInv'
  BY <1>1, <1>3, Zenon DEF BInv, FlagInv, Live
<1>12. NewRedundant' /\ Settled'
  BY <1>2, Zenon DEF NewRedundant, Settled
<1>13. Kept' = Kept
  BY <1>1, Zenon DEF Kept
<1>14. \A t \in Kept : t \in head' \/ t \in ooo' \/ t \in StoredIn(disk, DOMAIN disk)
  <2>1. DOMAIN disk \ op.todo = DOMAIN disk
    BY Zenon
  <2>2. Kept \subseteq HeadAfter \union StoredIn(disk, DOMAIN disk)
    BY <2>1, Zenon DEF BInv, Settled
  <2> QED
    BY <2>2, Zenon
<1>15. SamplesDurable'
  BY <1>1, <1>13, <1>14, Zenon DEF SamplesDurable, StoredIn, Stored, Live
<1>16. SamplesVisible'
  <2>1. \A b \in DOMAIN disk : Live(loaded[b]) = Live(disk[b])
    BY <1>3, Zenon DEF BInv, SameBlocks, Live
  <2>2. StoredIn(disk, DOMAIN disk) = Stored(loaded')
    BY <1>1, <1>3, <2>1, Zenon DEF StoredIn, Stored
  <2> QED
    BY <1>13, <1>14, <2>2 DEF SamplesVisible
<1> QED
  BY <1>4, <1>5, <1>6, <1>7, <1>8, <1>9, <1>10, <1>11, <1>12, <1>15, <1>16, Zenon DEF BInv

\* The head is truncated to the ranges that no block has.
LEMMA TruncateHeadIs ==
  ASSUME BInv, Extrema, compactable, TruncateHead(rangeForTimestamp(hmin))
  PROVE  /\ head' = {h \in head : h >= rangeForTimestamp(hmin)} /\ ooo' = ooo /\ hmax' = hmax
         /\ hmin' \in Nat /\ (\A h \in head' : hmin' <= h) /\ hmax \in head'
<1> DEFINE mint  == rangeForTimestamp(hmin)
           left  == {t \in head : t >= mint}
           low   == hmax - chunkRange \div 2
           valid == Max({mint, low})
<1>1. /\ head' = left /\ hmax' = hmax /\ ooo' = ooo
      /\ hmin' = IF left # {} /\ Min(left) < valid THEN Min(left) ELSE valid
  BY Zenon DEF TruncateHead
<1>2. hmin \in Nat /\ hmax \in Int /\ mint \in Nat /\ hmin < mint /\ mint <= hmax /\ head \in SUBSET Nat
  BY RangeOf, CompactableRange, Zenon DEF BInv, TypeInv
<1>3. hmax \in head
  BY <1>2 DEF BInv, HeadInv
<1> HIDE DEF mint
<1>4. hmax \in left /\ left \in SUBSET Nat /\ left # {}
  BY <1>2, <1>3, Zenon
<1> HIDE DEF left
<1>5. PICK m \in left : m = Min(left) /\ \A x \in left : m <= x
  BY <1>4, Zenon DEF Extrema
<1>6. low \in Int
  <2>1. chunkRange \in Nat
    BY <1>2, RangeOf, Zenon
  <2>2. chunkRange \div 2 \in Int
    BY <2>1
  <2> QED
    BY <1>2, <2>2
<1> HIDE DEF low
<1>7. valid \in {mint, low} /\ \A x \in {mint, low} : x <= valid
  <2>1. PICK top \in Int : mint <= top /\ low <= top
    BY <1>2, <1>6
  <2>2. {mint, low} \in SUBSET Int /\ {mint, low} # {} /\ \A x \in {mint, low} : x <= top
    BY <1>2, <1>6, <2>1
  <2> QED
    BY <2>1, <2>2, Zenon DEF Extrema
<1> HIDE DEF valid
<1>8. valid \in Nat
  BY <1>2, <1>6, <1>7
<1>9. hmin' = IF m < valid THEN m ELSE valid
  BY <1>1, <1>4, <1>5, Zenon
<1>10. hmin' \in Nat /\ hmin' <= m /\ m \in Nat
  BY <1>4, <1>8, <1>9
<1>11. \A h \in left : hmin' <= h
  BY <1>4, <1>5, <1>10
<1> QED
  BY <1>1, <1>4, <1>10, <1>11, Zenon DEF left, mint

\* A restart finds the head from the last block of samples in order on.
LEMMA InitHeadIs ==
  ASSUME BInv, Extrema, op.pc = "delete", op.todo = {}, InitHead
  PROVE  /\ head' \subseteq head /\ ooo' = ooo /\ hmax' = hmax
         /\ hmin' \in Nat /\ (\A h \in head' : hmin' <= h) /\ (hmax # -1 => hmax \in head')
         /\ \A b \in DOMAIN disk : \A h \in head' : disk[b].maxt <= h
         /\ \A h \in head : h \in head' \/ h \in StoredIn(disk, DOMAIN disk)
<1> DEFINE S    == {0} \union {loaded[b].maxt : b \in {c \in DOMAIN loaded : ~loaded[c].ooo}}
           maxt == inOrderBlocksMaxTime
           left == {t \in head : t >= maxt}
           T    == {IF maxt > 0 THEN maxt ELSE -1} \union left
<1>1. /\ head' = left /\ ooo' = ooo /\ hmax' = Max(T)
      /\ hmin' = IF maxt > 0 THEN maxt ELSE IF left = {} THEN 0 ELSE Min(left)
  BY Zenon DEF InitHead
<1>2. /\ DOMAIN loaded = DOMAIN disk /\ hmax \in Int /\ head \in SUBSET Nat
      /\ \A b \in DOMAIN disk : /\ disk[b].maxt \in Nat /\ disk[b].ooo \in BOOLEAN /\ disk[b].maxt <= hmax
                                /\ loaded[b].maxt = disk[b].maxt /\ loaded[b].ooo = disk[b].ooo
  BY Zenon DEF BInv, OpInv, TypeInv, WellFormed, SameBlocks, Block
<1>3. hmax = -1 => head = {} /\ DOMAIN disk = {}
  <2>1. SUFFICES ASSUME hmax = -1 PROVE accepted = {}
    BY Zenon DEF BInv, TypeInv, WellFormed
  <2>2. \A t \in accepted : t \in Nat /\ t <= -1
    BY <2>1, Zenon DEF BInv, HeadInv, TypeInv
  <2> QED
    BY <2>2
<1>4. hmax # -1 => hmax \in head /\ \A t \in head : t <= hmax
  BY Zenon DEF BInv, HeadInv, TypeInv
<1>5. maxt \in S /\ \A x \in S : x <= maxt
  <2>1. PICK top \in Int : 0 <= top /\ hmax <= top
    BY <1>2
  <2>2. S \in SUBSET Int /\ S # {} /\ \A x \in S : x <= top
    BY <1>2, <2>1
  <2>3. maxt = Max(S)
    BY Zenon DEF inOrderBlocksMaxTime
  <2> HIDE DEF maxt, S
  <2> QED
    BY <2>1, <2>2, <2>3, Zenon DEF Extrema
<1>6. maxt \in Nat /\ (\A b \in DOMAIN disk : ~disk[b].ooo => disk[b].maxt <= maxt)
      /\ (maxt # 0 => \E b \in DOMAIN disk : maxt = disk[b].maxt)
  BY <1>2, <1>5
<1> HIDE DEF S, maxt
<1>7. hmax # -1 => maxt <= hmax /\ hmax \in left
  BY <1>2, <1>4, <1>6
<1>8. hmax = -1 => maxt = 0 /\ left = {}
  BY <1>3, <1>6, Zenon
<1>9. left \in SUBSET Nat /\ (\A h \in left : h <= hmax /\ maxt <= h)
  BY <1>2, <1>3, <1>4, <1>6, Zenon
<1> HIDE DEF left
<1>10. hmax' = hmax
  <2>1. T \in SUBSET Int /\ T # {} /\ hmax \in T /\ \A x \in T : x <= hmax
    BY <1>2, <1>6, <1>7, <1>8, <1>9
  <2> HIDE DEF T
  <2>2. hmax' \in T /\ \A x \in T : x <= hmax'
    BY <1>1, <1>2, <2>1, Zenon DEF Extrema
  <2>3. hmax' \in Int /\ hmax' <= hmax /\ hmax <= hmax'
    BY <2>1, <2>2, Zenon
  <2> QED
    BY <1>2, <2>3
<1>11. hmin' \in Nat /\ \A h \in left : hmin' <= h
  <2>1. CASE maxt > 0
    BY <1>1, <1>6, <1>9, <2>1, Zenon
  <2>2. CASE ~(maxt > 0) /\ left = {}
    BY <1>1, <2>2, Zenon
  <2>3. CASE ~(maxt > 0) /\ left # {}
    <3>1. Min(left) \in left /\ \A x \in left : Min(left) <= x
      BY <1>9, <2>3, Zenon DEF Extrema
    <3> QED
      BY <1>1, <1>9, <2>3, <3>1, Zenon
  <2> QED
    BY <2>1, <2>2, <2>3, Zenon
<1>12. \A b \in DOMAIN disk : \A h \in left : disk[b].maxt <= h
  <2>1. ASSUME NEW b \in DOMAIN disk, NEW h \in left PROVE disk[b].maxt <= h
    <3>1. h \in head /\ maxt <= h /\ h \in Nat
      BY <1>9, Zenon DEF left
    <3>2. CASE disk[b].ooo
      BY <3>1, <3>2, Zenon DEF BInv, HeadBlocks
    <3>3. CASE ~disk[b].ooo
      BY <1>2, <1>6, <3>1, <3>3
    <3> QED
      BY <3>2, <3>3, Zenon
  <2> QED
    BY <2>1, Zenon
<1>13. \A h \in head : h \in left \/ h \in StoredIn(disk, DOMAIN disk)
  <2>1. ASSUME NEW h \in head, h \notin left PROVE h \in StoredIn(disk, DOMAIN disk)
    <3>1. h < maxt /\ h \in Nat
      BY <1>2, <1>6, <2>1 DEF left
    <3>2. PICK b \in DOMAIN disk : maxt = disk[b].maxt
      BY <1>6, <3>1
    <3>3. h \in Live(disk[b])
      BY <3>1, <3>2, Zenon DEF BInv, HeadBlocks
    <3> QED
      BY <3>3, Zenon DEF StoredIn
  <2> QED
    BY <2>1, Zenon
<1> QED
  BY <1>1, <1>7, <1>10, <1>11, <1>12, <1>13, Zenon DEF left

\* The end of an operation, and that no sample of the head is lost by it.
LEMMA ReloadDoneStep ==
  ASSUME BInv, Extrema, reloadDone
  PROVE  BInv' /\ \A h \in head : h \in head' \/ h \in StoredIn(disk, DOMAIN disk)
<1>1. /\ op.pc = "delete" /\ op.todo = {} /\ UNCHANGED <<disk, loaded, held, accepted, deleted, newest>>
      /\ op' = CASE op.kind = "head" -> [Idle EXCEPT !.pc = "heads"]
                 [] op.kind \in {"ooo", "blocks"} -> [Idle EXCEPT !.pc = "blocks"]
                 [] OTHER -> Idle
  BY Zenon DEF reloadDone
<1>2. op' \in [pc : {"idle", "heads", "blocks"}, kind : {"tick"}, new : {{}}, todo : {{}}, gone : {FALSE}]
  BY <1>1, Zenon DEF Idle
<1>3. \A h \in head : hmin <= h
  BY Zenon DEF BInv, HeadInv
<1>4. hmin \in Nat /\ (hmax # -1 => hmax \in head)
  BY Zenon DEF BInv, HeadInv, TypeInv
<1>5. op.kind \notin {"open", "head"} => \A b \in DOMAIN disk : \A h \in head : disk[b].maxt <= h
  BY <1>1, Zenon DEF BInv, HeadBlocks
<1>6. CASE op.kind = "head"
  <2>1. TruncateHead(rangeForTimestamp(hmin)) /\ compactable
    BY <1>6, Zenon DEF reloadDone, BInv, OpInv
  <2>2. /\ head' = {h \in head : h >= rangeForTimestamp(hmin)} /\ ooo' = ooo /\ hmax' = hmax
        /\ hmin' \in Nat /\ (\A h \in head' : hmin' <= h) /\ hmax \in head'
    BY <2>1, TruncateHeadIs, Zenon
  <2>3. \A t \in HeadAfter : t \in head' \/ t \in ooo'
    BY <1>6, <2>2, Zenon DEF HeadAfter
  <2>4. \A b \in DOMAIN disk : \A h \in head' : disk[b].maxt <= h
    <3>1. rangeForTimestamp(hmin) \in Nat /\ head \in SUBSET Nat
      BY <1>4, RangeOf, Zenon DEF BInv, TypeInv
    <3> QED
      BY <1>1, <1>6, <2>2, <3>1, Zenon DEF BInv, HeadBlocks
  <2>5. \A h \in head : h \in head' \/ h \in StoredIn(disk, DOMAIN disk)
    <3>1. \A h \in head : h >= rangeForTimestamp(hmin) \/ h < rangeForTimestamp(hmin)
      BY <1>4, RangeOf DEF BInv, TypeInv
    <3>2. \A h \in head : h < rangeForTimestamp(hmin) => \E n \in DOMAIN disk : h \in Live(disk[n])
      BY <1>6, Zenon DEF BInv, Settled
    <3> QED
      BY <2>2, <3>1, <3>2, Zenon DEF StoredIn
  <2> QED
    BY <1>1, <1>2, <2>2, <2>3, <2>4, <2>5, DoneStep, Zenon
<1>7. CASE op.kind = "ooo"
  <2>1. ooo' = {} /\ head' = head /\ hmin' = hmin /\ hmax' = hmax
    BY <1>7, Zenon DEF reloadDone
  <2>2. HeadAfter = head
    BY <1>7, Zenon DEF HeadAfter
  <2> QED
    BY <1>1, <1>2, <1>3, <1>4, <1>5, <1>7, <2>1, <2>2, DoneStep, Zenon
<1>8. CASE op.kind = "open"
  <2>1. InitHead
    BY <1>8, Zenon DEF reloadDone
  <2>2. /\ head' \subseteq head /\ ooo' = ooo /\ hmax' = hmax
        /\ hmin' \in Nat /\ (\A h \in head' : hmin' <= h) /\ (hmax # -1 => hmax \in head')
        /\ \A b \in DOMAIN disk : \A h \in head' : disk[b].maxt <= h
        /\ \A h \in head : h \in head' \/ h \in StoredIn(disk, DOMAIN disk)
    BY <1>1, <2>1, InitHeadIs, Zenon
  <2>3. HeadAfter = head \union ooo
    BY <1>8, Zenon DEF HeadAfter
  <2> QED
    BY <1>1, <1>2, <2>2, <2>3, DoneStep, Zenon
<1>9. CASE op.kind \notin {"head", "ooo", "open"}
  <2>1. ooo' = ooo /\ head' = head /\ hmin' = hmin /\ hmax' = hmax
    BY <1>9, Zenon DEF reloadDone, headVars
  <2>2. HeadAfter = head \union ooo
    BY <1>9, Zenon DEF HeadAfter
  <2> QED
    BY <1>1, <1>2, <1>3, <1>4, <1>5, <1>9, <2>1, <2>2, DoneStep, Zenon
<1> QED
  BY <1>6, <1>7, <1>8, <1>9, Zenon

-----------------------------------------------------------------------------
\* Deleted samples stay deleted.

\* Steps that leave the blocks alone.
LEMMA DeletedSame ==
  ASSUME DeletedInv, UNCHANGED <<disk, loaded, deleted>>,
         \A t \in deleted : t \in head' \/ t \in ooo' => t \in head \/ t \in ooo,
         \/ op' = op \/ op'.kind = "open"
         \/ DOMAIN loaded = DOMAIN disk /\ op'.pc # "delete"
         \/ op.pc \in {"idle", "heads", "blocks"} /\ op.kind = "tick" /\ op.new = {} /\ op'.pc # "delete"
  PROVE  DeletedInv'
<1>1. disk' = disk /\ loaded' = loaded /\ deleted' = deleted
  BY Zenon
<1>2. Stored(disk') = Stored(disk) /\ Stored(loaded') = Stored(loaded)
  BY <1>1, Zenon
<1>3. deleted' \intersect (head' \union ooo' \union Stored(disk') \union Stored(loaded')) = {}
  BY <1>1, <1>2, Zenon DEF DeletedInv
<1>4. CASE op' = op \/ op'.kind = "open"
  BY <1>1, <1>3, <1>4, Zenon DEF DeletedInv, Live
<1>5. CASE DOMAIN loaded = DOMAIN disk /\ op'.pc # "delete"
  BY <1>1, <1>3, <1>5, Zenon DEF DeletedInv
<1>6. CASE op.pc \in {"idle", "heads", "blocks"} /\ op.kind = "tick" /\ op.new = {} /\ op'.pc # "delete"
  <2>1. \A b \in DOMAIN disk \ DOMAIN loaded : \A s \in Live(disk[b]) :
          \E c \in DOMAIN loaded \ DOMAIN disk : s \in loaded[c].smp
    BY <1>6, Zenon DEF DeletedInv
  <2> QED
    BY <1>1, <1>3, <1>6, <2>1, Zenon DEF DeletedInv
<1> QED
  BY <1>4, <1>5, <1>6, Zenon

LEMMA DeleteDeleted ==
  ASSUME BInv, DeletedInv, Extrema, NEW t, Delete(t)
  PROVE  DeletedInv'
<1>1. /\ op.pc = "idle" /\ t \notin head /\ t \notin ooo /\ op' = op
      /\ head' = head /\ ooo' = ooo /\ deleted' = deleted \union {t}
  BY Zenon DEF Delete, headVars
<1>2. PICK has \in SUBSET DOMAIN loaded :
        /\ has \subseteq DOMAIN disk /\ Marks(disk, disk', has, t) /\ Marks(loaded, loaded', has, t)
        /\ \A b \in DOMAIN loaded : t \in loaded[b].smp => b \in has
  BY DeleteIs, Zenon
<1>3. /\ DOMAIN disk' = DOMAIN disk
      /\ \A b \in DOMAIN disk : disk'[b].smp = disk[b].smp /\ (b \in has => disk'[b].tomb = disk[b].tomb \union {t})
                                /\ (b \notin has => disk'[b].tomb = disk[b].tomb)
  BY <1>2, Zenon DEF Marks
<1>4. /\ DOMAIN loaded' = DOMAIN loaded
      /\ \A b \in DOMAIN loaded : loaded'[b].smp = loaded[b].smp /\ (b \in has => loaded'[b].tomb = loaded[b].tomb \union {t})
                                  /\ (b \notin has => loaded'[b].tomb = loaded[b].tomb)
  BY <1>2, Zenon DEF Marks
<1>5. op.kind = "tick" /\ op.new = {}
  BY <1>1, RestFacts, Zenon
<1>6. \A b \in DOMAIN disk \ DOMAIN loaded : \A s \in Live(disk[b]) :
        \E c \in DOMAIN loaded \ DOMAIN disk : s \in loaded[c].smp
  BY <1>1, <1>5, Zenon DEF DeletedInv
<1>7. \A b \in DOMAIN disk \intersect DOMAIN loaded : disk[b].smp = loaded[b].smp
  BY Zenon DEF BInv, SameBlocks
<1>8. \A b \in DOMAIN loaded : ~(t \in loaded'[b].smp /\ t \notin loaded'[b].tomb)
  BY <1>2, <1>4, Zenon
<1>9. \A b \in DOMAIN disk : ~(t \in disk'[b].smp /\ t \notin disk'[b].tomb)
  <2>1. ASSUME NEW b \in DOMAIN disk, t \in disk'[b].smp, t \notin disk'[b].tomb PROVE FALSE
    <3>1. b \notin has /\ t \in Live(disk[b])
      BY <1>3, <2>1, Zenon DEF Live
    <3>2. CASE b \in DOMAIN loaded
      BY <1>2, <1>7, <3>1, <3>2, Zenon DEF Live
    <3>3. CASE b \notin DOMAIN loaded
      <4>1. PICK c \in DOMAIN loaded \ DOMAIN disk : t \in loaded[c].smp
        BY <1>6, <3>1, <3>3, Zenon
      <4> QED
        BY <1>2, <4>1, Zenon
    <3> QED
      BY <3>2, <3>3, Zenon
  <2> QED
    BY <2>1, Zenon
<1>10. t \notin Stored(disk') /\ t \notin Stored(loaded')
  BY <1>3, <1>4, <1>8, <1>9, StoredIs, Zenon
<1>11. \A s \in Stored(disk') : s \in Stored(disk)
  BY <1>3, StoredIs
<1>12. \A s \in Stored(loaded') : s \in Stored(loaded)
  BY <1>4, StoredIs
<1>13. deleted' \intersect (head' \union ooo' \union Stored(disk') \union Stored(loaded')) = {}
  BY <1>1, <1>10, <1>11, <1>12, Zenon DEF DeletedInv
<1>14. \A b \in DOMAIN disk : Live(disk'[b]) \subseteq Live(disk[b])
  BY <1>3, Zenon DEF Live
<1>15. \A b \in DOMAIN disk' \ DOMAIN loaded' : \A s \in Live(disk'[b]) :
         \E c \in DOMAIN loaded' \ DOMAIN disk' : s \in loaded'[c].smp
  BY <1>3, <1>4, <1>6, <1>14, Zenon
<1> QED
  BY <1>1, <1>13, <1>15, Zenon DEF DeletedInv

LEMMA ReloadDeleted ==
  ASSUME BInv, DeletedInv, Extrema, reloadBlocks
  PROVE  DeletedInv'
<1>1. op.pc = "reload" /\ head' = head /\ ooo' = ooo /\ disk' = disk /\ deleted' = deleted
  BY Zenon DEF reloadBlocks, headVars
<1>2. PICK gone :
        /\ Retires(gone)
        /\ op' = [op EXCEPT !.pc = "delete", !.todo = gone \intersect DOMAIN disk]
        /\ loaded' \in [DOMAIN disk \ gone -> Block]
        /\ \A b \in DOMAIN disk \ gone : loaded'[b].smp = disk[b].smp /\ loaded'[b].tomb = disk[b].tomb
  BY ReloadIs, ZenonT(30)
<1>3. /\ op'.pc = "delete" /\ op'.kind = op.kind /\ op'.new = op.new
      /\ op'.todo = gone \intersect DOMAIN disk /\ DOMAIN loaded' = DOMAIN disk \ gone
  BY <1>1, <1>2, Zenon DEF BInv, TypeInv
<1>4. \A s \in Stored(loaded') : s \in Stored(disk)
  BY <1>2, <1>3, StoredIs
<1>5. deleted' \intersect (head' \union ooo' \union Stored(disk') \union Stored(loaded')) = {}
  BY <1>1, <1>4, Zenon DEF DeletedInv
<1>6. ASSUME op.kind # "open", RetentionDuration = 0, NEW b \in gone \intersect DOMAIN disk, NEW s \in Live(disk[b])
      PROVE  \E n \in op.new \intersect DOMAIN loaded' : s \in loaded'[n].smp
  <2>1. PICK n \in DOMAIN disk \ gone : b \in disk[n].parents /\ s \in Live(disk[n])
    BY <1>2, <1>6, Survives, Zenon
  <2>2. n \in Merged
    BY <2>1, Zenon DEF Merged
  <2>3. n \in op.new
    BY <1>1, <1>6, <2>2, Zenon DEF BInv, ParentInv
  <2> QED
    BY <1>2, <1>3, <2>1, <2>3, Zenon DEF Live
<1> QED
  BY <1>1, <1>3, <1>5, <1>6, Zenon DEF DeletedInv

LEMMA DeleteBlocksDeleted ==
  ASSUME BInv, DeletedInv, NEW b, deleteBlocks(b)
  PROVE  DeletedInv'
<1>1. /\ op.pc = "delete" /\ b \in op.todo /\ head' = head /\ ooo' = ooo
      /\ loaded' = loaded /\ deleted' = deleted
      /\ disk' = Restrict(disk, DOMAIN disk \ {b}) /\ op' = [op EXCEPT !.todo = @ \ {b}, !.gone = TRUE]
  BY Zenon DEF deleteBlocks, headVars
<1>2. /\ DOMAIN disk' = DOMAIN disk \ {b}
      /\ \A c \in DOMAIN disk' : disk'[c] = disk[c] /\ Live(disk'[c]) = Live(disk[c])
  BY <1>1, RestrictIs, Zenon
<1>3. op'.pc = op.pc /\ op'.kind = op.kind /\ op'.new = op.new /\ op'.todo = op.todo \ {b}
  BY <1>1, Zenon DEF BInv, TypeInv
<1>4. \A s \in Stored(disk') : s \in Stored(disk)
  BY <1>2, StoredIs, Zenon
<1>5. deleted' \intersect (head' \union ooo' \union Stored(disk') \union Stored(loaded')) = {}
  BY <1>1, <1>4, Zenon DEF DeletedInv
<1>6. op.todo \subseteq DOMAIN disk
  BY <1>1, Zenon DEF BInv, OpInv
<1> QED
  BY <1>1, <1>2, <1>3, <1>5, <1>6 DEF DeletedInv

\* When an operation fails, what it wrote may be in memory without a
\* directory; deletions of its samples fail from then on.
LEMMA AbandonDeleted ==
  ASSUME BInv, DeletedInv, UNCHANGED <<headVars, deleted>>,
         op.pc \in {"ooo", "reload", "delete"}, op.pc = "delete" => RetentionDuration = 0,
         disk' = Restrict(disk, DOMAIN disk \ op.new), op' = Abandoned,
         loaded' = IF op.kind = "open" THEN NoBlocks ELSE loaded
  PROVE  DeletedInv'
<1>1. head' = head /\ ooo' = ooo /\ deleted' = deleted
  BY Zenon DEF headVars
<1>2. op'.pc = (IF op.kind = "open" THEN "down" ELSE "idle") /\ op'.new = {}
  BY Zenon DEF Abandoned, Idle
<1>3. /\ DOMAIN disk' = DOMAIN disk \ op.new
      /\ \A b \in DOMAIN disk' : disk'[b] = disk[b] /\ Live(disk'[b]) = Live(disk[b])
  BY RestrictIs, Zenon
<1>4. \A s \in Stored(disk') : s \in Stored(disk)
  <2>1. SUFFICES ASSUME NEW s \in Stored(disk')
                 PROVE  s \in Stored(disk)
    BY Zenon
  <2>2. PICK b \in DOMAIN disk' : s \in disk'[b].smp /\ s \notin disk'[b].tomb
    BY <2>1, StoredIs, Zenon
  <2>3. b \in DOMAIN disk /\ s \in disk[b].smp /\ s \notin disk[b].tomb
    BY <1>3, <2>2, Zenon
  <2> QED
    BY <2>3, StoredIs, Zenon
<1>5. \A s \in Stored(loaded') : s \in Stored(loaded)
  <2>1. Stored(NoBlocks) = {}
    <3>1. DOMAIN NoBlocks = {}
      BY Zenon DEF NoBlocks
    <3> QED
      BY <3>1, Zenon DEF Stored
  <2>2. loaded' = NoBlocks \/ loaded' = loaded
    BY Zenon
  <2> QED
    BY <2>1, <2>2, Zenon
<1>6. deleted' \intersect (head' \union ooo' \union Stored(disk') \union Stored(loaded')) = {}
  BY <1>1, <1>4, <1>5, Zenon DEF DeletedInv
<1>7. CASE op.kind = "open"
  BY <1>2, <1>6, <1>7, Zenon DEF DeletedInv
<1>8. CASE op.kind # "open"
  <2>1. loaded' = loaded
    BY <1>8, Zenon
  <2>2. ASSUME NEW b \in DOMAIN disk' \ DOMAIN loaded, NEW s \in Live(disk'[b])
        PROVE  \E c \in DOMAIN loaded \ DOMAIN disk' : s \in loaded[c].smp
    <3>1. b \in DOMAIN disk /\ b \notin op.new /\ s \in Live(disk[b])
      BY <1>3, <2>2, Zenon
    <3>2. CASE op.pc = "delete"
      <4>1. b \in op.todo
        BY <2>2, <3>1, <3>2, Zenon DEF BInv, OpInv
      <4>2. PICK n \in op.new \intersect DOMAIN loaded : s \in loaded[n].smp
        BY <1>8, <3>1, <3>2, <4>1, Zenon DEF DeletedInv
      <4> QED
        BY <1>3, <4>2, Zenon
    <3>3. CASE op.pc # "delete"
      <4>1. PICK c \in DOMAIN loaded \ DOMAIN disk : s \in loaded[c].smp
        BY <1>8, <2>2, <3>1, <3>3, Zenon DEF DeletedInv
      <4> QED
        BY <1>3, <4>1, Zenon
    <3> QED
      BY <3>2, <3>3, Zenon
  <2> QED
    BY <1>2, <1>6, <1>8, <2>1, <2>2, Zenon DEF DeletedInv
<1> QED
  BY <1>7, <1>8, Zenon

\* A block beyond the retention whose deletion has failed is on disk and not in
\* memory, and nothing else has its samples.
SafeDeletes == FailingReloads = {} \/ RetentionDuration = 0

LEMMA FailDeleted ==
  ASSUME BInv, DeletedInv, SafeSchedules, SafeDeletes,
         reloadFails \/ compactOOOFails \/ \E b \in op.todo, gone \in BOOLEAN : deleteFails(b, gone)
  PROVE  DeletedInv'
<1>1. CASE reloadFails
  <2>1. /\ op.pc = "reload" /\ loaded' = loaded
        /\ disk' = Restrict(disk, DOMAIN disk \ op.new) /\ op' = Abandoned
        /\ UNCHANGED <<headVars, deleted>>
    BY <1>1, Zenon DEF reloadFails
  <2>2. op.kind = "open" => loaded = NoBlocks
    BY <2>1, Zenon DEF BInv, OpInv
  <2> QED
    BY <2>1, <2>2, AbandonDeleted, Zenon
<1>2. CASE compactOOOFails
  <2>1. /\ op.pc = "ooo" /\ loaded' = loaded /\ disk' = Restrict(disk, DOMAIN disk \ op.new) /\ op' = Idle
        /\ UNCHANGED <<headVars, deleted>>
    BY <1>2, Zenon DEF compactOOOFails
  <2>2. op.kind = "ooo"
    BY <2>1, Zenon DEF BInv, OpInv
  <2>3. op' = Abandoned
    BY <2>1, <2>2, Zenon DEF Abandoned
  <2> QED
    BY <2>1, <2>2, <2>3, AbandonDeleted, Zenon
<1>3. CASE \E b \in op.todo, gone \in BOOLEAN : deleteFails(b, gone)
  <2>1. PICK b \in op.todo, gone \in BOOLEAN : deleteFails(b, gone)
    BY <1>3, Zenon
  <2>2. /\ op.pc = "delete" /\ op.kind \in FailingReloads /\ (op.gone \/ gone => PartialDeletes)
        /\ disk' = Restrict(disk, DOMAIN disk \ (op.new \union IF gone THEN {b} ELSE {}))
        /\ loaded' = (IF op.kind = "open" THEN NoBlocks ELSE loaded) /\ op' = Abandoned
        /\ UNCHANGED <<headVars, deleted>>
    BY <2>1, Zenon DEF deleteFails
  <2>3. gone = FALSE /\ RetentionDuration = 0
    BY <2>2, Zenon DEF SafeSchedules, SafeDeletes
  <2>4. disk' = Restrict(disk, DOMAIN disk \ op.new)
    BY <2>2, <2>3, Zenon
  <2> QED
    BY <2>2, <2>3, <2>4, AbandonDeleted, Zenon
<1> QED
  BY <1>1, <1>2, <1>3, Zenon

LEMMA CrashDeleted ==
  ASSUME DeletedInv, crash
  PROVE  DeletedInv'
<1>1. /\ op'.pc = "down" /\ head' = head /\ ooo' = ooo /\ disk' = disk /\ deleted' = deleted
      /\ loaded' = NoBlocks
  BY Zenon DEF crash, headVars, Idle
<1>2. Stored(loaded') = {}
  <2>1. DOMAIN NoBlocks = {}
    BY Zenon DEF NoBlocks
  <2> QED
    BY <1>1, <2>1, Zenon DEF Stored
<1>3. deleted' \intersect (head' \union ooo' \union Stored(disk') \union Stored(loaded')) = {}
  BY <1>1, <1>2, Zenon DEF DeletedInv
<1> QED
  BY <1>1, <1>3, Zenon DEF DeletedInv
-----------------------------------------------------------------------------
\* The steps together.

\* The steps of operations at rest that only move on.
LEMMA IdleSteps ==
  ASSUME BInv, compactBlocksDone \/ tick
  PROVE  BInv' /\ (DeletedInv => DeletedInv')
<1>1. PICK p \in {"idle", "reload"} :
        /\ op' = [Idle EXCEPT !.pc = p] /\ op.pc \in {"idle", "blocks"}
        /\ UNCHANGED <<headVars, disk, loaded, held, accepted, deleted, newest>>
  <2>1. CASE tick
    BY <2>1, Zenon DEF tick
  <2>2. CASE compactBlocksDone
    <3>1. Idle = [Idle EXCEPT !.pc = "idle"]
      BY DEF Idle
    <3> QED
      BY <2>2, <3>1, Zenon DEF compactBlocksDone
  <2> QED
    BY <2>1, <2>2, Zenon
<1>2. op'.pc # "delete"
  BY <1>1, Zenon DEF Idle
<1>3. head' = head /\ ooo' = ooo
  BY <1>1, Zenon DEF headVars
<1>4. op.kind = "tick" /\ op.new = {}
  BY <1>1, RestFacts, Zenon
<1>5. DeletedInv => DeletedInv'
  BY <1>1, <1>2, <1>3, <1>4, DeletedSame, Zenon
<1> QED
  BY <1>1, <1>5, RestStep, Zenon

LEMMA GrowDeleted ==
  ASSUME BInv, DeletedInv, NEW t, append(t) \/ insert(t)
  PROVE  DeletedInv'
<1>1. /\ UNCHANGED <<disk, loaded, deleted>> /\ op' = op /\ t \notin accepted
      /\ \A s \in head' : s \in head \/ s = t
      /\ \A s \in ooo' : s \in ooo \/ s = t
  <2>1. \A s \in accepted : s <= hmax /\ s \in Nat
    BY Zenon DEF BInv, HeadInv, TypeInv
  <2>2. hmax \in Int /\ Times \subseteq Nat
    BY BlocksAssumption, Zenon DEF BInv, TypeInv
  <2>3. CASE append(t)
    BY <2>1, <2>2, <2>3 DEF append
  <2>4. CASE insert(t)
    BY <2>4, Zenon DEF insert
  <2> QED
    BY <2>3, <2>4, Zenon
<1>2. t \notin deleted
  BY <1>1, Zenon DEF BInv, TypeInv
<1> QED
  BY <1>1, <1>2, DeletedSame, Zenon

LEMMA StayDeleted ==
  ASSUME BInv, DeletedInv,
         compactOOOHead \/ reloadDone \/ open \/ \E r \in Readers : Querier(r) \/ CloseQuerier(r)
  PROVE  DeletedInv'
<1>1. CASE compactOOOHead
  <2>1. /\ UNCHANGED <<headVars, disk, loaded, deleted>> /\ op'.pc # "delete" /\ op.pc = "heads"
    BY <1>1, Zenon DEF compactOOOHead, Idle
  <2>2. op.kind = "tick" /\ op.new = {}
    BY <2>1, RestFacts, Zenon
  <2> QED
    BY <2>1, <2>2, DeletedSame, Zenon DEF headVars
<1>2. CASE reloadDone
  <2>1. /\ UNCHANGED <<disk, loaded, deleted>> /\ op.pc = "delete" /\ op.todo = {} /\ op'.pc # "delete"
    BY <1>2, Zenon DEF reloadDone, Idle
  <2>2. DOMAIN loaded = DOMAIN disk
    BY <2>1, Zenon DEF BInv, OpInv
  <2>3. \A s : s \in head' \/ s \in ooo' => s \in head \/ s \in ooo
    BY <1>2, Zenon DEF reloadDone, TruncateHead, InitHead, headVars
  <2> QED
    BY <2>1, <2>2, <2>3, DeletedSame, Zenon
<1>3. CASE open
  <2>1. UNCHANGED <<headVars, disk, loaded, deleted>> /\ op'.kind = "open"
    BY <1>3, Zenon DEF open, Idle
  <2> QED
    BY <2>1, DeletedSame, Zenon DEF headVars
<1>4. CASE \E r \in Readers : Querier(r) \/ CloseQuerier(r)
  <2>1. UNCHANGED <<headVars, disk, loaded, deleted, op>>
    BY <1>4, Zenon DEF Querier, CloseQuerier
  <2> QED
    BY <2>1, DeletedSame, Zenon DEF headVars
<1> QED
  BY <1>1, <1>2, <1>3, <1>4, Zenon

LEMMA BlocksStep ==
  ASSUME BInv, SafeSchedules, Extrema, Planned, BlocksNext
  PROVE  BInv' /\ (SafeDeletes /\ DeletedInv => DeletedInv')
<1>1. CASE \E t \in Times : append(t) \/ insert(t)
  BY <1>1, AppendStep, InsertStep, GrowDeleted, Zenon
<1>2. CASE \E t \in Times : Delete(t)
  BY <1>2, DeleteStep, DeleteDeleted, Zenon
<1>3. CASE compactHead \/ compactOOO
  BY <1>3, CompactHeadStep, CompactOOOStep, Zenon
<1>4. CASE compactOOOHead \/ open \/ reloadDone
  BY <1>4, CompactOOOHeadStep, OpenStep, ReloadDoneStep, StayDeleted, Zenon
<1>5. CASE compactBlocks \/ CleanTombstones \/ compactFails
  BY <1>5, CompactBlocksStep, CleanTombstonesStep, CompactFailsStep, Zenon
<1>6. CASE compactBlocksDone \/ tick
  BY <1>6, IdleSteps, Zenon
<1>7. CASE reloadBlocks
  BY <1>7, ReloadBlocksStep, ReloadDeleted, Zenon
<1>8. CASE \E b \in op.todo : deleteBlocks(b)
  BY <1>8, DeleteBlocksStep, DeleteBlocksDeleted, Zenon
<1>9. CASE reloadFails \/ compactOOOFails \/ \E b \in op.todo, gone \in BOOLEAN : deleteFails(b, gone)
  BY <1>9, FailStep, FailDeleted, Zenon
<1>10. CASE crash
  BY <1>10, CrashStep, CrashDeleted, Zenon
<1>11. CASE \E r \in Readers : Querier(r) \/ CloseQuerier(r)
  BY <1>11, QueryStep, StayDeleted, Zenon
<1> QED
  BY <1>1, <1>2, <1>3, <1>4, <1>5, <1>6, <1>7, <1>8, <1>9, <1>10, <1>11, Zenon DEF BlocksNext, Operation

LEMMA BlocksStutter ==
  ASSUME BInv, UNCHANGED blocksVars
  PROVE  BInv' /\ (DeletedInv => DeletedInv')
<1>1. /\ head' = head /\ hmin' = hmin /\ hmax' = hmax /\ ooo' = ooo /\ disk' = disk /\ op' = op
      /\ loaded' = loaded /\ accepted' = accepted /\ deleted' = deleted /\ newest' = newest /\ held' = held
  BY Zenon DEF blocksVars, headVars
<1>2. DeletedInv => DeletedInv'
  BY <1>1, DeletedSame, Zenon
<1>3. /\ HeadInv' /\ WellFormed(disk)' /\ WellFormed(loaded)' /\ SameBlocks' /\ FlagInv'
      /\ SamplesDurable' /\ Merged' = Merged /\ Kept' = Kept
  BY <1>1, Unmoved, Zenon DEF headVars
<1>4. TypeInv' /\ OpInv'
  <2>1. TypeInv'
    BY <1>1, Zenon DEF BInv, TypeInv
  <2>2. compactable' = compactable
    BY <1>1, Zenon DEF compactable
  <2>3. OpInv'
    BY <1>1, <2>2, ZenonT(30) DEF BInv, OpInv
  <2> QED
    BY <2>1, <2>3, Zenon
<1>5. HeadBlocks' /\ ParentInv' /\ NewRedundant' /\ SamplesVisible'
  BY <1>1, <1>3 DEF BInv, HeadBlocks, ParentInv, NewRedundant, SamplesVisible, Live, StoredIn, Stored
<1>6. Settled'
  BY <1>1, <1>3 DEF BInv, Settled, HeadAfter, StoredIn, Live
<1> QED
  BY <1>2, <1>3, <1>4, <1>5, <1>6, Zenon DEF BInv

LEMMA BlocksStart ==
  ASSUME BlocksInit
  PROVE  BInv /\ DeletedInv
<1>1. /\ head = {} /\ hmin = 0 /\ hmax = -1 /\ ooo = {} /\ accepted = {} /\ deleted = {} /\ newest = 0
      /\ disk = NoBlocks /\ loaded = NoBlocks
      /\ op.pc = "idle" /\ op.kind = "tick" /\ op.new = {} /\ op.todo = {} /\ op.gone = FALSE
  BY Zenon DEF BlocksInit, Idle
<1>2. DOMAIN disk = {} /\ DOMAIN loaded = {} /\ Stored(disk) = {} /\ Stored(loaded) = {} /\ Kept = {}
  BY <1>1, Zenon DEF NoBlocks, Stored, Kept
<1>3. TypeInv
  <2>1. op \in [pc : Resting \union {"ooo", "reload", "delete"}, kind : Kinds,
                new : SUBSET Ids, todo : SUBSET Nat, gone : BOOLEAN]
    BY Zenon DEF BlocksInit, Idle, Resting, Kinds
  <2>2. held \in [Readers -> SUBSET Ids]
    BY Zenon DEF BlocksInit
  <2>3. disk \in [DOMAIN disk -> Block] /\ loaded \in [DOMAIN loaded -> Block]
    BY <1>1, Zenon DEF NoBlocks
  <2> QED
    BY <1>1, <1>2, <2>1, <2>2, <2>3 DEF TypeInv
<1>4. OpInv /\ HeadInv /\ WellFormed(disk) /\ WellFormed(loaded) /\ SameBlocks
  BY <1>1, <1>2, Zenon DEF OpInv, HeadInv, WellFormed, SameBlocks, Resting
<1>5. HeadBlocks /\ ParentInv /\ FlagInv /\ NewRedundant
  BY <1>1, <1>2, Zenon DEF HeadBlocks, ParentInv, FlagInv, NewRedundant, Merged
<1>6. Settled /\ SamplesDurable /\ SamplesVisible /\ DeletedInv
  BY <1>1, <1>2, Zenon DEF Settled, SamplesDurable, SamplesVisible, DeletedInv
<1> QED
  BY <1>3, <1>4, <1>5, <1>6, Zenon DEF BInv

-----------------------------------------------------------------------------
\* What queries read stays, whatever fails.

OpRecord == [pc : Resting \union {"ooo", "reload", "delete"}, kind : Kinds,
             new : SUBSET Ids, todo : SUBSET Nat, gone : BOOLEAN]

\* No query reads a block that the running operation wrote.
HeldInv ==
  /\ ooo \subseteq Nat /\ DOMAIN disk \subseteq Ids /\ DOMAIN loaded \subseteq Ids
  /\ op \in OpRecord /\ held \in [Readers -> SUBSET Ids]
  /\ op.pc = "delete" => op.todo \subseteq Ids
  /\ op.pc # "delete" => op.new \intersect DOMAIN loaded = {}
  /\ \A r \in Readers : op.new \intersect held[r] = {}

HeldStay == \A r \in Readers : held[r] \intersect DOMAIN disk \subseteq DOMAIN disk'

\* A block that is written has a new name.
LEMMA WrittenNames ==
  ASSUME Extrema, FreshIds # {}, NEW block
  PROVE  /\ DOMAIN Written(block) = DOMAIN disk \union Uids(block)
         /\ Uids(block) \subseteq Ids /\ Uids(block) \intersect DOMAIN loaded = {}
         /\ \A r \in Readers : Uids(block) \intersect held[r] = {}
<1>1. NewId \in FreshIds
  BY NewIdFresh, Zenon
<1>2. NewId \in Ids /\ NewId \notin DOMAIN loaded /\ \A r \in Readers : NewId \notin held[r]
  BY <1>1, Zenon DEF FreshIds
<1>3. CASE block.smp = {}
  BY <1>3, Zenon DEF Written, Uids
<1>4. CASE block.smp # {}
  BY <1>2, <1>4, Zenon DEF Written, Uids
<1> QED
  BY <1>3, <1>4, Zenon

LEMMA HeldWrite ==
  ASSUME HeldInv, Extrema, FreshIds # {}, NEW block, NEW k \in Kinds,
         DOMAIN disk' = DOMAIN disk \union Uids(block), DOMAIN loaded' = DOMAIN loaded,
         held' = held, ooo' = ooo, op' = [Idle EXCEPT !.pc = "reload", !.kind = k, !.new = Uids(block)]
  PROVE  HeldInv' /\ HeldStay
<1>1. /\ Uids(block) \subseteq Ids /\ Uids(block) \intersect DOMAIN loaded = {}
      /\ \A r \in Readers : Uids(block) \intersect held[r] = {}
  BY WrittenNames, Zenon
<1>2. op'.new = Uids(block) /\ op'.pc = "reload"
  BY Zenon DEF Idle
<1>3. op' \in OpRecord
  BY <1>1, ZenonT(30) DEF Idle, OpRecord, Resting
<1> QED
  BY <1>1, <1>2, <1>3, Zenon DEF HeldInv, HeldStay

LEMMA HeldWrites ==
  ASSUME HeldInv, Extrema, compactHead \/ compactBlocks \/ CleanTombstones
  PROVE  HeldInv' /\ HeldStay
<1>1. CASE compactHead
  <2>1. PICK block :
          /\ disk' = Written(block) /\ FreshIds # {}
          /\ op' = [Idle EXCEPT !.pc = "reload", !.kind = "head", !.new = Uids(block)]
    BY <1>1, Zenon DEF compactHead
  <2>2. UNCHANGED <<loaded, held, ooo>>
    BY <1>1, Zenon DEF compactHead, headVars
  <2> QED
    BY <2>1, <2>2, WrittenNames, HeldWrite, ZenonT(30) DEF Kinds
<1>2. CASE compactBlocks
  <2>1. PICK dirs, block :
          /\ FreshIds # {}
          /\ disk' = IF block.smp = {} THEN Flag(disk, dirs, "deletable") ELSE Written(block)
          /\ loaded' = IF block.smp = {} THEN Flag(loaded, dirs, "deletable") ELSE loaded
          /\ op' = [Idle EXCEPT !.pc = "reload", !.kind = "blocks", !.new = Uids(block)]
    BY <1>2, ZenonT(30) DEF compactBlocks
  <2>2. UNCHANGED <<held, ooo>>
    BY <1>2, Zenon DEF compactBlocks, headVars
  <2>3. DOMAIN disk' = DOMAIN disk \union Uids(block) /\ DOMAIN loaded' = DOMAIN loaded
    BY <2>1, WrittenNames, ZenonT(30) DEF Flag, Uids
  <2> QED
    BY <2>1, <2>2, <2>3, HeldWrite, ZenonT(30) DEF Kinds
<1>3. CASE CleanTombstones
  <2>1. PICK pb, block :
          /\ FreshIds # {} /\ disk' = Written(block) /\ loaded' = Flag(loaded, {pb}, "deletable")
          /\ op' = [Idle EXCEPT !.pc = "reload", !.kind = "clean", !.new = Uids(block)]
    BY <1>3, ZenonT(30) DEF CleanTombstones
  <2>2. UNCHANGED <<held, ooo>>
    BY <1>3, Zenon DEF CleanTombstones, headVars
  <2>3. DOMAIN disk' = DOMAIN disk \union Uids(block) /\ DOMAIN loaded' = DOMAIN loaded
    BY <2>1, WrittenNames, Zenon DEF Flag
  <2> QED
    BY <2>1, <2>2, <2>3, HeldWrite, Zenon DEF Kinds
<1> QED
  BY <1>1, <1>2, <1>3, Zenon

LEMMA HeldCompactOOO ==
  ASSUME HeldInv, Extrema, compactOOO
  PROVE  HeldInv' /\ HeldStay
<1> DEFINE mint  == Min(op.todo)
           maxt  == mint + chunkRange
           block == NewBlock(mint, maxt, {}, TRUE, {t \in ooo : mint <= t /\ t < maxt})
           left  == op.todo \ {mint}
           p     == IF left = {} THEN "reload" ELSE "ooo"
<1>1. /\ op.pc = "ooo" /\ FreshIds # {} /\ disk' = Written(block)
      /\ op' = [op EXCEPT !.pc = p, !.todo = left, !.new = @ \union Uids(block)]
  BY Zenon DEF compactOOO
<1>0. p \in {"reload", "ooo"} /\ left \subseteq op.todo
  BY Zenon
<1> HIDE DEF block, left, p
<1>2. loaded' = loaded /\ held' = held /\ ooo' = ooo
  BY Zenon DEF compactOOO, headVars
<1>3. /\ DOMAIN disk' = DOMAIN disk \union Uids(block)
      /\ Uids(block) \subseteq Ids /\ Uids(block) \intersect DOMAIN loaded = {}
      /\ \A r \in Readers : Uids(block) \intersect held[r] = {}
  BY <1>1, WrittenNames, Zenon
<1>4. op \in OpRecord
  BY Zenon DEF HeldInv
<1>5. op'.new = op.new \union Uids(block) /\ op'.pc = p
  BY <1>1, <1>4, Zenon DEF OpRecord
<1>6. op' \in OpRecord
  BY <1>0, <1>1, <1>3, <1>4, Zenon DEF OpRecord, Resting
<1> QED
  BY <1>0, <1>1, <1>2, <1>3, <1>5, <1>6, Zenon DEF HeldInv, HeldStay

LEMMA HeldReload ==
  ASSUME HeldInv, reloadBlocks \/ \E b \in op.todo : deleteBlocks(b)
  PROVE  HeldInv' /\ HeldStay
<1>1. op \in OpRecord
  BY Zenon DEF HeldInv
<1>2. CASE reloadBlocks
  <2> DEFINE f    == [b \in DOMAIN disk |-> IF b \in DOMAIN loaded THEN loaded[b] ELSE disk[b]]
             gone == deletableBlocks(f) \union Replaced(f)
  <2>1. /\ op' = [op EXCEPT !.pc = "delete", !.todo = gone \intersect DOMAIN disk]
        /\ loaded' = Restrict(f, DOMAIN f \ gone)
    BY <1>2, Zenon DEF reloadBlocks
  <2>0. DOMAIN f = DOMAIN disk
    BY Zenon
  <2> HIDE DEF f, gone
  <2>2. disk' = disk /\ held' = held /\ ooo' = ooo
    BY <1>2, Zenon DEF reloadBlocks, headVars
  <2>3. DOMAIN loaded' \subseteq DOMAIN disk
    BY <2>0, <2>1, Zenon DEF Restrict
  <2>4. op'.new = op.new /\ op'.pc = "delete" /\ op'.todo = gone \intersect DOMAIN disk
    BY <1>1, <2>1, Zenon DEF OpRecord
  <2>5. op' \in OpRecord
    BY <1>1, <2>1, BlocksAssumption, Zenon DEF OpRecord, HeldInv
  <2> QED
    BY <2>2, <2>3, <2>4, <2>5, Zenon DEF HeldInv, HeldStay
<1>3. CASE \E b \in op.todo : deleteBlocks(b)
  <2>1. PICK b \in op.todo : deleteBlocks(b)
    BY <1>3, Zenon
  <2>2. /\ \A r \in Readers : b \notin held[r]
        /\ op.pc = "delete" /\ op' = [op EXCEPT !.todo = @ \ {b}, !.gone = TRUE]
        /\ disk' = Restrict(disk, DOMAIN disk \ {b})
        /\ loaded' = loaded /\ held' = held /\ ooo' = ooo
    BY <2>1, Zenon DEF deleteBlocks, headVars
  <2>3. DOMAIN disk' = DOMAIN disk \ {b}
    BY <2>2, Zenon DEF Restrict
  <2>4. op'.new = op.new /\ op'.pc = "delete" /\ op'.todo = op.todo \ {b} /\ op' \in OpRecord
    BY <1>1, <2>2, Zenon DEF OpRecord
  <2> QED
    BY <2>2, <2>3, <2>4, Zenon DEF HeldInv, HeldStay
<1> QED
  BY <1>2, <1>3, Zenon

\* Steps after which the operation has written nothing.
LEMMA HeldRest ==
  ASSUME HeldInv, ooo' \subseteq Nat, op' \in OpRecord, op'.new = {}, op'.pc # "delete",
         DOMAIN disk' \subseteq Ids, DOMAIN loaded' \subseteq Ids, held' \in [Readers -> SUBSET Ids],
         \A r \in Readers : held[r] \intersect DOMAIN disk \subseteq DOMAIN disk'
  PROVE  HeldInv' /\ HeldStay
BY Zenon DEF HeldInv, HeldStay

LEMMA HeldFails ==
  ASSUME HeldInv, \/ reloadFails \/ compactOOOFails \/ compactFails
                  \/ \E b \in op.todo, gone \in BOOLEAN : deleteFails(b, gone)
  PROVE  HeldInv' /\ HeldStay
<1>1. /\ Abandoned \in OpRecord /\ Abandoned.new = {} /\ Abandoned.pc # "delete"
      /\ Idle \in OpRecord /\ Idle.new = {} /\ Idle.pc # "delete"
  BY Zenon DEF Abandoned, Idle, OpRecord, Resting, Kinds
<1>2. CASE reloadFails \/ compactOOOFails
  <2>1. /\ op' \in {Abandoned, Idle} /\ disk' = Restrict(disk, DOMAIN disk \ op.new)
        /\ loaded' = loaded /\ held' = held /\ ooo' = ooo
    BY <1>2, Zenon DEF reloadFails, compactOOOFails, headVars
  <2>2. DOMAIN disk' = DOMAIN disk \ op.new
    BY <2>1, Zenon DEF Restrict
  <2> QED
    BY <1>1, <2>1, <2>2, HeldRest, Zenon DEF HeldInv
<1>3. CASE compactFails
  <2>1. PICK dirs : disk' = Flag(disk, dirs, "failed") /\ loaded' = Flag(loaded, dirs, "failed")
    BY <1>3, Zenon DEF compactFails
  <2>2. op' = Idle /\ held' = held /\ ooo' = ooo
    BY <1>3, Zenon DEF compactFails, headVars
  <2>3. DOMAIN disk' = DOMAIN disk /\ DOMAIN loaded' = DOMAIN loaded
    BY <2>1, Zenon DEF Flag
  <2> QED
    BY <1>1, <2>2, <2>3, HeldRest, Zenon DEF HeldInv
<1>4. CASE \E b \in op.todo, gone \in BOOLEAN : deleteFails(b, gone)
  <2>1. PICK b \in op.todo, gone \in BOOLEAN : deleteFails(b, gone)
    BY <1>4, Zenon
  <2>2. /\ \A r \in Readers : b \notin held[r]
        /\ disk' = Restrict(disk, DOMAIN disk \ (op.new \union IF gone THEN {b} ELSE {}))
        /\ loaded' = (IF op.kind = "open" THEN NoBlocks ELSE loaded)
        /\ op' = Abandoned /\ held' = held /\ ooo' = ooo
    BY <2>1, Zenon DEF deleteFails, headVars
  <2>3. /\ DOMAIN disk' \subseteq DOMAIN disk
        /\ \A c \in DOMAIN disk : c \in DOMAIN disk' \/ c = b \/ c \in op.new
    BY <2>2, Zenon DEF Restrict
  <2>4. DOMAIN loaded' \subseteq DOMAIN loaded
    <3>1. DOMAIN NoBlocks = {}
      BY Zenon DEF NoBlocks
    <3> QED
      BY <2>2, <3>1, Zenon
  <2> QED
    BY <1>1, <2>2, <2>3, <2>4, HeldRest, Zenon DEF HeldInv
<1> QED
  BY <1>2, <1>3, <1>4, Zenon

LEMMA HeldIdles ==
  ASSUME HeldInv, \/ compactBlocksDone \/ tick \/ reloadDone \/ crash \/ open \/ compactOOOHead
  PROVE  HeldInv' /\ HeldStay
<1>1. ASSUME NEW p \in {"idle", "heads", "blocks", "reload", "down"}, NEW k \in Kinds
      PROVE  LET o == [Idle EXCEPT !.pc = p, !.kind = k]
             IN  o \in OpRecord /\ o.new = {} /\ o.pc # "delete"
  BY Zenon DEF Idle, OpRecord, Resting
<1>2. ASSUME NEW p \in {"idle", "heads", "blocks", "reload", "down"}
      PROVE  LET o == [Idle EXCEPT !.pc = p]
             IN  o \in OpRecord /\ o.new = {} /\ o.pc # "delete"
  BY Zenon DEF Idle, OpRecord, Resting, Kinds
<1>3. Idle \in OpRecord /\ Idle.new = {} /\ Idle.pc # "delete"
  BY Zenon DEF Idle, OpRecord, Resting, Kinds
<1>4. CASE compactBlocksDone \/ tick \/ open
  <2>1. op' \in OpRecord /\ op'.new = {} /\ op'.pc # "delete"
    BY <1>1, <1>2, <1>3, <1>4, Zenon DEF compactBlocksDone, tick, open, Kinds
  <2>2. disk' = disk /\ loaded' = loaded /\ held' = held /\ ooo' = ooo
    BY <1>4, Zenon DEF compactBlocksDone, tick, open, headVars
  <2> QED
    BY <2>1, <2>2, HeldRest, Zenon DEF HeldInv
<1>5. CASE reloadDone
  <2>1. op' \in OpRecord /\ op'.new = {} /\ op'.pc # "delete"
    BY <1>2, <1>3, <1>5, Zenon DEF reloadDone
  <2>2. disk' = disk /\ loaded' = loaded /\ held' = held /\ ooo' \subseteq ooo
    BY <1>5, Zenon DEF reloadDone, headVars, TruncateHead, InitHead
  <2> QED
    BY <2>1, <2>2, HeldRest, Zenon DEF HeldInv
<1>6. CASE crash
  <2>1. /\ op' = [Idle EXCEPT !.pc = "down"] /\ held' = [r \in Readers |-> {}]
        /\ loaded' = NoBlocks /\ disk' = disk /\ ooo' = ooo
    BY <1>6, Zenon DEF crash, headVars
  <2>2. op' \in OpRecord /\ op'.new = {} /\ op'.pc # "delete" /\ held' \in [Readers -> SUBSET Ids]
    BY <1>2, <2>1, Zenon
  <2>3. DOMAIN loaded' = {}
    BY <2>1, Zenon DEF NoBlocks
  <2> QED
    BY <2>1, <2>2, <2>3, HeldRest, Zenon DEF HeldInv
<1>7. CASE compactOOOHead
  <2>1. disk' = disk /\ loaded' = loaded /\ held' = held /\ ooo' = ooo
    BY <1>7, Zenon DEF compactOOOHead, headVars
  <2>2. \A t \in ooo : chunkRange * (t \div chunkRange) \in Nat
    BY RangeOf, Zenon DEF HeldInv
  <2>3. op' \in OpRecord /\ op'.new = {} /\ op'.pc # "delete"
    <3>1. CASE ooo = {}
      BY <1>2, <1>7, <3>1, Zenon DEF compactOOOHead
    <3>2. CASE ooo # {}
      <4>1. op' = [Idle EXCEPT !.pc = "ooo", !.kind = "ooo",
                               !.todo = {chunkRange * (t \div chunkRange) : t \in ooo}]
        BY <1>7, <3>2, Zenon DEF compactOOOHead
      <4>2. {chunkRange * (t \div chunkRange) : t \in ooo} \in SUBSET Nat
        BY <2>2, Zenon
      <4> QED
        BY <4>1, <4>2, Zenon DEF Idle, OpRecord, Kinds
    <3> QED
      BY <3>1, <3>2, Zenon
  <2> QED
    BY <2>1, <2>3, HeldRest, Zenon DEF HeldInv
<1> QED
  BY <1>4, <1>5, <1>6, <1>7, Zenon

LEMMA HeldQueries ==
  ASSUME HeldInv, NEW r \in Readers, Querier(r) \/ CloseQuerier(r)
  PROVE  HeldInv' /\ HeldStay
<1>1. disk' = disk /\ loaded' = loaded /\ op' = op /\ ooo' = ooo
  BY Zenon DEF Querier, CloseQuerier, headVars
<1>2. PICK S \in SUBSET Ids : held' = [held EXCEPT ![r] = S] /\ op.new \intersect S = {}
  <2>1. CASE Querier(r)
    <3>1. held' = [held EXCEPT ![r] = DOMAIN loaded] /\ op.pc # "delete"
      BY <2>1, Zenon DEF Querier
    <3>2. DOMAIN loaded \in SUBSET Ids /\ op.new \intersect DOMAIN loaded = {}
      BY <3>1, Zenon DEF HeldInv
    <3> QED
      BY <3>1, <3>2, Zenon
  <2>2. CASE CloseQuerier(r)
    <3>1. held' = [held EXCEPT ![r] = {}]
      BY <2>2, Zenon DEF CloseQuerier
    <3>2. {} \in SUBSET Ids /\ op.new \intersect {} = {}
      BY Zenon
    <3> QED
      BY <3>1, <3>2, Zenon
  <2> QED
    BY <2>1, <2>2, Zenon
<1>3. held' \in [Readers -> SUBSET Ids] /\ \A q \in Readers : op.new \intersect held'[q] = {}
  BY <1>2, Zenon DEF HeldInv
<1> QED
  BY <1>1, <1>3, Zenon DEF HeldInv, HeldStay

LEMMA HeldStep ==
  ASSUME HeldInv, Extrema, BlocksNext
  PROVE  HeldInv' /\ HeldStay
<1>1. CASE \E t \in Times : append(t) \/ insert(t) \/ Delete(t)
  <2>1. PICK t \in Times : append(t) \/ insert(t) \/ Delete(t)
    BY <1>1, Zenon
  <2>2. t \in Nat
    BY BlocksAssumption, Zenon
  <2>3. op' = op /\ held' = held /\ ooo' \subseteq ooo \union {t}
    BY <2>1, Zenon DEF append, insert, Delete, headVars
  <2>4. DOMAIN disk' = DOMAIN disk /\ DOMAIN loaded' = DOMAIN loaded
    BY <2>1, Zenon DEF append, insert, Delete
  <2> QED
    BY <2>2, <2>3, <2>4, Zenon DEF HeldInv, HeldStay
<1>2. CASE compactHead \/ compactBlocks \/ CleanTombstones
  BY <1>2, HeldWrites, Zenon
<1>3. CASE compactOOO
  BY <1>3, HeldCompactOOO, Zenon
<1>4. CASE reloadBlocks \/ \E b \in op.todo : deleteBlocks(b)
  BY <1>4, HeldReload, Zenon
<1>5. CASE \/ reloadFails \/ compactOOOFails \/ compactFails
           \/ \E b \in op.todo, gone \in BOOLEAN : deleteFails(b, gone)
  BY <1>5, HeldFails, Zenon
<1>6. CASE compactBlocksDone \/ tick \/ reloadDone \/ crash \/ open \/ compactOOOHead
  BY <1>6, HeldIdles, Zenon
<1>7. CASE \E r \in Readers : Querier(r) \/ CloseQuerier(r)
  BY <1>7, HeldQueries, Zenon
<1> QED
  BY <1>1, <1>2, <1>3, <1>4, <1>5, <1>6, <1>7, Zenon DEF BlocksNext, Operation

LEMMA HeldStart ==
  ASSUME BlocksInit
  PROVE  HeldInv
<1>1. DOMAIN NoBlocks = {}
  BY Zenon DEF NoBlocks
<1>2. op \in OpRecord /\ op.new = {} /\ op.pc = "idle"
  BY Zenon DEF BlocksInit, Idle, OpRecord, Resting, Kinds
<1> QED
  BY <1>1, <1>2, Zenon DEF BlocksInit, HeldInv

-----------------------------------------------------------------------------
\* What leaves the head is in a block.
LEMMA HeadStep ==
  ASSUME BInv, Extrema, BlocksNext
  PROVE  head \subseteq head' \union Stored(disk')
<1>1. CASE reloadDone
  <2>1. disk' = disk /\ StoredIn(disk, DOMAIN disk) = Stored(disk)
    BY <1>1, Zenon DEF reloadDone, StoredIn, Stored
  <2> QED
    BY <1>1, <2>1, ReloadDoneStep, Zenon
<1>2. CASE ~reloadDone
  <2>1. CASE \E t \in Times : append(t) \/ insert(t) \/ Delete(t)
    BY <2>1, Zenon DEF append, insert, Delete, headVars
  <2>2. CASE Operation
    <3>1. UNCHANGED headVars
      BY <1>2, <2>2, ZenonT(30) DEF Operation, compactHead, compactOOOHead, compactOOO, compactBlocks, compactBlocksDone,
                       reloadBlocks, deleteBlocks, open
    <3> QED
      BY <3>1, Zenon DEF headVars
  <2>3. CASE ~Operation /\ ~ \E t \in Times : append(t) \/ insert(t) \/ Delete(t)
    <3>1. UNCHANGED headVars
      BY <2>3, Zenon DEF BlocksNext, CleanTombstones, tick, reloadFails, deleteFails, compactFails,
                  compactOOOFails, crash, Querier, CloseQuerier
    <3> QED
      BY <3>1, Zenon DEF headVars
  <2> QED
    BY <2>1, <2>2, <2>3, Zenon
<1> QED
  BY <1>1, <1>2, Zenon

\* A step adds one directory at most.
LEMMA OneMore ==
  ASSUME BlocksNext
  PROVE  \E id : DOMAIN disk' \subseteq DOMAIN disk \union {id}
<1>1. \A block : DOMAIN Written(block) \subseteq DOMAIN disk \union {NewId}
  BY Zenon DEF Written
<1>2. \A dirs, field : DOMAIN Flag(disk, dirs, field) = DOMAIN disk
  BY Zenon DEF Flag
<1>3. CASE \E t \in Times : append(t) \/ insert(t) \/ Delete(t)
  <2>1. DOMAIN disk' = DOMAIN disk
    BY <1>3, Zenon DEF append, insert, Delete
  <2> QED
    BY <2>1, Zenon
<1>4. CASE compactHead \/ compactOOO \/ CleanTombstones
  <2>1. \E block : disk' = Written(block)
    BY <1>4, Zenon DEF compactHead, compactOOO, CleanTombstones
  <2> QED
    BY <1>1, <2>1, Zenon
<1>5. CASE compactBlocks
  <2>1. \E dirs, block : disk' = Flag(disk, dirs, "deletable") \/ disk' = Written(block)
    BY <1>5, Zenon DEF compactBlocks
  <2> QED
    BY <1>1, <1>2, <2>1, Zenon
<1>6. CASE compactFails
  <2>1. \E dirs : disk' = Flag(disk, dirs, "failed")
    BY <1>6, Zenon DEF compactFails
  <2> QED
    BY <1>2, <2>1, Zenon
<1>7. CASE \/ compactOOOHead \/ compactBlocksDone \/ reloadBlocks \/ reloadDone \/ open \/ tick \/ crash
           \/ \E r \in Readers : Querier(r) \/ CloseQuerier(r)
  <2>1. disk' = disk
    BY <1>7, Zenon DEF compactOOOHead, compactBlocksDone, reloadBlocks, reloadDone, open, tick, crash,
                Querier, CloseQuerier
  <2> QED
    BY <2>1, Zenon
<1>8. CASE \/ reloadFails \/ compactOOOFails \/ \E b \in op.todo : deleteBlocks(b)
           \/ \E b \in op.todo, gone \in BOOLEAN : deleteFails(b, gone)
  <2>1. \E S : disk' = Restrict(disk, DOMAIN disk \ S)
    BY <1>8, Zenon DEF reloadFails, compactOOOFails, deleteBlocks, deleteFails
  <2>2. DOMAIN disk' \subseteq DOMAIN disk
    BY <2>1, Zenon DEF Restrict
  <2> QED
    BY <2>2, Zenon
<1> QED
  BY <1>3, <1>4, <1>5, <1>6, <1>7, <1>8, Zenon DEF BlocksNext, Operation
-----------------------------------------------------------------------------
\* Plan returns directories that exist.

LEMMA OverlappingIn ==
  ASSUME NEW S, NEW ds \in Seq(S)
  PROVE  selectOverlappingDirs(ds) \subseteq S
<1>1. \A i \in 2..Len(ds) : ds[i - 1] \in S /\ ds[i] \in S
  OBVIOUS
<1> QED
  BY <1>1, Zenon DEF selectOverlappingDirs

LEMMA TombstonesIn ==
  ASSUME Extrema, NEW S, NEW ds \in Seq(S)
  PROVE  selectTombstones(ds) \subseteq S
<1>1. ASSUME NEW hits \in SUBSET DOMAIN ds, hits # {}
      PROVE  ds[Max(hits)] \in S
  <2>1. /\ hits \in SUBSET Int /\ Len(ds) \in Int /\ \A x \in hits : x <= Len(ds)
        /\ DOMAIN ds = 1..Len(ds)
    BY <1>1
  <2>2. Max(hits) \in hits
    BY <1>1, <2>1, Zenon DEF Extrema
  <2> QED
    BY <1>1, <2>2
<1> QED
  BY <1>1, Zenon DEF selectTombstones

\* The first of some pairs of positions is one of them.
LEMMA FirstPair ==
  ASSUME Extrema, NEW n \in Nat, NEW found \in SUBSET ((1..n) \X (1..n)), found # {},
         NEW p, p = CHOOSE q \in found : \A r \in found : q[1] <= r[1]
  PROVE  p \in found
<1> DEFINE starts == {q[1] : q \in found}
<1>1. starts \in SUBSET Nat /\ starts # {}
  OBVIOUS
<1>2. Min(starts) \in starts /\ \A x \in starts : Min(starts) <= x
  BY <1>1, Zenon DEF Extrema
<1>3. PICK m : m \in starts /\ \A x \in starts : m <= x
  BY <1>2, Zenon
<1>4. PICK q \in found : q[1] = m
  BY <1>3, Zenon
<1>5. \A r \in found : q[1] <= r[1]
  BY <1>3, <1>4, Zenon
<1> QED
  BY <1>5, Zenon

LEMMA DirsIn ==
  ASSUME Extrema, NEW S, NEW ds \in Seq(S)
  PROVE  selectDirs(ds) \subseteq S
<1>1. DOMAIN ds = 1..Len(ds) /\ Len(ds) \in Nat
  OBVIOUS
<1>2. ASSUME NEW found \in SUBSET ((DOMAIN ds) \X (DOMAIN ds)), found # {}
      PROVE  LET p == CHOOSE q \in found : \A r \in found : q[1] <= r[1]
             IN  {ds[i] : i \in p[1]..p[2]} \subseteq S
  <2> DEFINE p == CHOOSE q \in found : \A r \in found : q[1] <= r[1]
  <2>1. p \in found
    BY <1>1, <1>2, FirstPair, Zenon
  <2> HIDE DEF p
  <2>2. p[1] \in 1..Len(ds) /\ p[2] \in 1..Len(ds)
    BY <1>1, <1>2, <2>1, Zenon
  <2>3. \A i \in p[1]..p[2] : i \in 1..Len(ds) /\ ds[i] \in S
    BY <1>1, <2>2
  <2>4. {ds[i] : i \in p[1]..p[2]} \subseteq S
    BY <2>3, Zenon
  <2> QED
    BY <2>4, Zenon DEF p
<1>3. \A iv : splitByRange(ds, iv) \in SUBSET ((DOMAIN ds) \X (DOMAIN ds))
  BY Zenon DEF splitByRange
<1> DEFINE eligible(p, iv) ==
             /\ p[1] < p[2]
             /\ \A i \in p[1]..p[2] : ~disk[ds[i]].failed
             /\ \/ disk[ds[p[2]]].maxt - disk[ds[p[1]]].mint = iv
                \/ disk[ds[p[2]]].maxt <= disk[ds[Len(ds)]].mint
           found(iv) == {p \in splitByRange(ds, iv) : eligible(p, iv)}
           first(k)  == /\ \A l \in 2..(k - 1) : found(ranges[l]) = {}
                        /\ found(ranges[k]) # {}
           dirs(k)   == LET p == CHOOSE q \in found(ranges[k]) : \A r \in found(ranges[k]) : q[1] <= r[1]
                        IN  {ds[i] : i \in p[1]..p[2]}
<1>4. selectDirs(ds) = UNION {dirs(k) : k \in {l \in 2..Len(ranges) : first(l)}}
  BY Zenon DEF selectDirs
<1>5. \A k : found(ranges[k]) \in SUBSET ((DOMAIN ds) \X (DOMAIN ds))
  BY <1>3, Zenon
<1> HIDE DEF found
<1>6. \A k : first(k) => dirs(k) \subseteq S
  BY <1>2, <1>5, Zenon
<1> HIDE DEF first, dirs
<1> QED
  BY <1>4, <1>6, Zenon

LEMMA PlansIn ==
  ASSUME Extrema, NEW S, NEW ds \in Seq(S), ds # <<>>
  PROVE  plan(ds) \subseteq S
<1>1. SubSeq(ds, 1, Len(ds) - 1) \in Seq(S)
  OBVIOUS
<1> QED
  BY <1>1, OverlappingIn, DirsIn, TombstonesIn, Zenon DEF plan
-----------------------------------------------------------------------------
INSTANCE FiniteSetTheorems

\* Sets of natural numbers have a least element.
LEMMA LeastOf ==
  ASSUME NEW S \in SUBSET Nat, S # {}
  PROVE  \E x \in S : \A y \in S : x <= y
<1> DEFINE Less == {ss \in Nat \X Nat : ss[1] < ss[2]}
<1>1. IsWellFoundedOn(Less, Nat)
  BY NatLessThanWellFounded, Zenon DEF OpToRel
<1> HIDE DEF Less
<1>2. \E x \in S : \A y \in S : ~(<<y, x>> \in Less)
  BY <1>1, WFMin, ZenonT(30)
<1>3. \A x, y \in Nat : ~(<<y, x>> \in Less) => x <= y
  BY DEF Less
<1> QED
  BY <1>2, <1>3, ZenonT(30)

\* The facts of Extrema, for any finite set of numbers.
LEMMA Extremes == Extrema
<1>1. ASSUME NEW S \in SUBSET Nat, S # {}
      PROVE  Min(S) \in S /\ \A x \in S : Min(S) <= x
  BY <1>1, LeastOf, Zenon DEF Min
<1>2. ASSUME NEW S \in SUBSET Int, NEW m \in Int, S # {}, \A x \in S : x <= m
      PROVE  Max(S) \in S /\ \A x \in S : x <= Max(S)
  <2> DEFINE T == {m - x : x \in S}
  <2>0. \A x \in S : m - x \in Nat
    BY <1>2
  <2>1. T \in SUBSET Nat /\ T # {}
    BY <1>2, <2>0, ZenonT(30)
  <2>2. PICK d \in T : \A e \in T : d <= e
    BY <2>1, LeastOf, Zenon
  <2>3. PICK y \in S : d = m - y
    BY <2>2, Zenon
  <2>4. \A x \in S : y >= x
    BY <2>2, <2>3
  <2>5. Max(S) \in S /\ \A x \in S : Max(S) >= x
    BY <2>4, Zenon DEF Max
  <2>6. \A x, z \in Int : z >= x => x <= z
    BY Zenon
  <2> QED
    BY <2>5, <2>6, Zenon
<1> QED
  BY <1>1, <1>2, Zenon DEF Extrema

\* The blocks on disk, in the order of their MinTime.
LEMMA OrderedIs ==
  ASSUME NEW f, IsFiniteSet(DOMAIN f), DOMAIN f \subseteq Nat, \A b \in DOMAIN f : f[b].mint \in Nat
  PROVE  ByMinTime(f) \in Seq(DOMAIN f)
<1> DEFINE S      == DOMAIN f
           n      == Cardinality(S)
           pre(b) == {a \in S : Before(f, a, b)}
           rank   == [b \in S |-> Cardinality(pre(b))]
<1>1. n \in Nat
  BY FS_CardinalityType, Zenon
<1>2. ASSUME NEW b \in S
      PROVE  IsFiniteSet(pre(b)) /\ Cardinality(pre(b)) \in Nat /\ Cardinality(pre(b)) < n
  <2>1. pre(b) \in SUBSET S /\ b \notin pre(b)
    BY DEF Before
  <2>2. /\ IsFiniteSet(pre(b)) /\ Cardinality(pre(b)) <= n
        /\ Cardinality(S) = Cardinality(pre(b)) => S = pre(b)
    BY <2>1, FS_Subset, Zenon
  <2>3. Cardinality(pre(b)) \in Nat
    BY <2>2, FS_CardinalityType, Zenon
  <2> QED
    BY <1>1, <2>1, <2>2, <2>3, SMTT(30)
<1>3. ASSUME NEW a \in S, NEW b \in S, Before(f, a, b)
      PROVE  Cardinality(pre(a)) < Cardinality(pre(b))
  <2>1. pre(a) \in SUBSET pre(b) /\ a \in pre(b) /\ a \notin pre(a)
    BY <1>3 DEF Before
  <2>2. /\ Cardinality(pre(a)) <= Cardinality(pre(b))
        /\ Cardinality(pre(b)) = Cardinality(pre(a)) => pre(b) = pre(a)
    BY <1>2, <2>1, FS_Subset, ZenonT(30)
  <2> HIDE DEF pre
  <2> QED
    BY <1>2, <2>1, <2>2, SMTT(30)
<1>4. \A a, b \in S : a # b => Before(f, a, b) \/ Before(f, b, a)
  BY DEF Before
<1> HIDE DEF pre
<1>5. rank \in [S -> 0..(n - 1)]
  BY <1>1, <1>2
<1>6. \A a, b \in S : rank[a] = rank[b] => a = b
  <2>1. \A a, b \in S : Before(f, a, b) => rank[a] # rank[b]
    BY <1>2, <1>3
  <2> QED
    BY <1>4, <2>1, Zenon
<1>7. rank \in Injection(S, 0..(n - 1))
  <2> HIDE DEF rank
  <2> QED
    BY <1>5, <1>6, Zenon DEF Injection, IsInjective
<1>8. IsFiniteSet(0..(n - 1)) /\ Cardinality(0..(n - 1)) = n
  BY <1>1, FS_Interval, SMTT(30)
<1>9. rank \in Surjection(S, 0..(n - 1))
  BY <1>7, <1>8, FS_Injection, Zenon
<1>10. ASSUME NEW i \in 1..n
       PROVE  ByMinTime(f)[i] \in S
  <2>1. i - 1 \in 0..(n - 1)
    BY <1>1
  <2>2. PICK b \in S : rank[b] = i - 1
    BY <1>9, <2>1, Zenon DEF Surjection
  <2>3. \E c \in S : Cardinality(pre(c)) = i - 1
    BY <2>2, Zenon
  <2>4. ByMinTime(f)[i] = CHOOSE c \in S : Cardinality(pre(c)) = i - 1
    BY Zenon DEF ByMinTime, pre
  <2> QED
    BY <2>3, <2>4, Zenon
<1>11. ByMinTime(f) \in [1..n -> S]
  BY <1>10, Zenon DEF ByMinTime
<1> QED
  BY <1>1, <1>11

LEMMA PlanOnDisk ==
  ASSUME TypeInv, IsFiniteSet(DOMAIN disk)
  PROVE  Planned
<1>1. DOMAIN disk \subseteq Nat /\ \A b \in DOMAIN disk : disk[b].mint \in Nat
  BY BlocksAssumption, Zenon DEF TypeInv, Block
<1>2. ByMinTime(disk) \in Seq(DOMAIN disk)
  BY <1>1, OrderedIs, Zenon
<1>3. \A ds \in Seq(DOMAIN disk) : ds # <<>> => plan(ds) \subseteq DOMAIN disk
  BY Extremes, PlansIn, Zenon
<1> QED
  BY <1>2, <1>3, Zenon DEF Planned, Plan

LEMMA FiniteStep ==
  ASSUME IsFiniteSet(DOMAIN disk), BlocksNext
  PROVE  IsFiniteSet(DOMAIN disk')
<1>1. PICK id : DOMAIN disk' \subseteq DOMAIN disk \union {id}
  BY OneMore, Zenon
<1>2. IsFiniteSet(DOMAIN disk \union {id})
  BY FS_AddElement, Zenon
<1> QED
  BY <1>1, <1>2, FS_Subset, Zenon

-----------------------------------------------------------------------------
\* The invariant, with the finitely many directories that Plan can sort.
BlocksInv == BInv /\ IsFiniteSet(DOMAIN disk)

LEMMA BlocksInvariant ==
  ASSUME SafeSchedules
  PROVE  BlocksSpec => []BlocksInv
<1>1. BlocksInit => BlocksInv
  <2>1. DOMAIN NoBlocks = {}
    BY Zenon DEF NoBlocks
  <2>2. BlocksInit => disk = NoBlocks
    BY Zenon DEF BlocksInit
  <2> QED
    BY <2>1, <2>2, BlocksStart, FS_EmptySet, Zenon DEF BlocksInv
<1>2. BlocksInv /\ [BlocksNext]_blocksVars => BlocksInv'
  <2> SUFFICES ASSUME BInv, IsFiniteSet(DOMAIN disk), [BlocksNext]_blocksVars
               PROVE  BInv' /\ IsFiniteSet(DOMAIN disk')
    BY Zenon DEF BlocksInv
  <2>1. Planned
    BY PlanOnDisk, Zenon DEF BInv
  <2>2. CASE BlocksNext
    BY <2>1, <2>2, Extremes, BlocksStep, FiniteStep, ZenonT(30)
  <2>3. CASE UNCHANGED blocksVars
    <3>1. disk' = disk
      BY <2>3, Zenon DEF blocksVars
    <3> QED
      BY <2>3, <3>1, BlocksStutter, Zenon
  <2> QED
    BY <2>2, <2>3, Zenon
<1> QED
  BY <1>1, <1>2, PTL DEF BlocksSpec

\* No sample is lost: at all times, also between the steps of a compaction, a
\* reload or a restart, a sample that was appended, is not deleted and is
\* within the retention is in the head's logs or in a block on disk (DB.Compact,
\* DB.CleanTombstones, DB.reloadBlocks, DB.deleteBlocks).
THEOREM SamplesStayDurable ==
  ASSUME SafeSchedules
  PROVE  BlocksSpec => []SamplesDurable
<1>1. BlocksInv => SamplesDurable
  BY Zenon DEF BInv, BlocksInv
<1> QED
  BY <1>1, BlocksInvariant, PTL

\* No sample is hidden: while the database is open, the head and the blocks in
\* memory have it at every step at which a query may begin (DB.reloadBlocks
\* swaps db.blocks before the head is truncated, DB.compactHead, DB.Querier).
THEOREM SamplesStayVisible ==
  ASSUME SafeSchedules
  PROVE  BlocksSpec => []SamplesVisible
<1>1. BlocksInv => SamplesVisible
  BY Zenon DEF BInv, BlocksInv
<1> QED
  BY <1>1, BlocksInvariant, PTL

\* A deleted sample does not come back, from a parent left behind by a crash
\* or by a failed deletion or from the merge of blocks (DB.Delete,
\* DB.reloadBlocks, LeveledCompactor.CompactWithBlockPopulator).
THEOREM DeletedStaysGone ==
  ASSUME SafeSchedules, SafeDeletes
  PROVE  BlocksSpec => []DeletedGone
<1>1. BlocksInit => DeletedInv
  BY BlocksStart, Zenon
<1>2. BlocksInv /\ DeletedInv /\ [BlocksNext]_blocksVars => DeletedInv'
  <2> SUFFICES ASSUME BInv, IsFiniteSet(DOMAIN disk), DeletedInv, [BlocksNext]_blocksVars
               PROVE  DeletedInv'
    BY Zenon DEF BlocksInv
  <2>1. Planned
    BY PlanOnDisk, Zenon DEF BInv
  <2>2. CASE BlocksNext
    BY <2>1, <2>2, Extremes, BlocksStep, ZenonT(30)
  <2>3. CASE UNCHANGED blocksVars
    BY <2>3, BlocksStutter, Zenon
  <2> QED
    BY <2>2, <2>3, Zenon
<1>3. DeletedInv => DeletedGone
  BY Zenon DEF DeletedInv, DeletedGone
<1> QED
  BY <1>1, <1>2, <1>3, BlocksInvariant, PTL DEF BlocksSpec

\* What a restart or a truncation drops from the head is in a block on disk
\* (Head.Init from inOrderBlocksMaxTime, Head.truncateMemory).
THEOREM HeadIsPersisted ==
  ASSUME SafeSchedules
  PROVE  BlocksSpec => HeadLeavesToBlocks
<1>1. BlocksInv /\ [BlocksNext]_blocksVars
        => [head \subseteq head' \union Stored(disk')]_blocksVars
  BY Extremes, HeadStep, Zenon DEF BlocksInv
<1> QED
  BY <1>1, BlocksInvariant, PTL DEF BlocksSpec, HeadLeavesToBlocks

\* Whatever fails, no step deletes the directory of a block that a query reads
\* (Block.Close waits for the readers, DB.reloadBlocks, and the directories an
\* operation removes when it fails are its own, which no query has).
THEOREM QueriesKeepBlocks == BlocksSpec => HeldBlocksStay
<1>1. BlocksInit => HeldInv
  BY HeldStart, Zenon
<1>2. HeldInv /\ [BlocksNext]_blocksVars => HeldInv'
  <2> SUFFICES ASSUME HeldInv, [BlocksNext]_blocksVars
               PROVE  HeldInv'
    BY Zenon
  <2>1. CASE BlocksNext
    BY <2>1, Extremes, HeldStep, ZenonT(30)
  <2>2. CASE UNCHANGED blocksVars
    BY <2>2, Zenon DEF blocksVars, headVars, HeldInv
  <2> QED
    BY <2>1, <2>2, Zenon
<1>3. HeldInv /\ [BlocksNext]_blocksVars
        => [\A r \in Readers : held[r] \intersect DOMAIN disk \subseteq DOMAIN disk']_blocksVars
  BY Extremes, HeldStep, Zenon DEF HeldStay
<1> QED
  BY <1>1, <1>2, <1>3, PTL DEF BlocksSpec, HeldBlocksStay
=============================================================================
