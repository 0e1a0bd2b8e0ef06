-------------------------- MODULE BlocksStepProofs --------------------------
(***************************************************************************)
(* The inductive invariant of Blocks, and that the operations on blocks    *)
(* keep it: opening, appending, writing the head and the late samples,     *)
(* merging, marking, reloading and deleting (tsdb/db.go, compact.go).      *)
(* BlocksProofs has the ends of the operations and the theorems.           *)
(***************************************************************************)
EXTENDS Blocks, TLAPS

\* The schedules for which the model has shown the code to lose samples: a
\* reload of CleanTombstones that fails, a deletion that fails half-way, and
\* late samples in a range that is still in the head.
SafeSchedules ==
  /\ "clean" \notin FailingReloads
  /\ PartialDeletes = FALSE
  /\ OOOInHeadRange = FALSE

Kinds == {"tick", "head", "ooo", "blocks", "clean", "open"}
Resting == {"idle", "heads", "blocks", "down"}

Block == [mint : Nat, maxt : Nat, parents : SUBSET Nat, ooo : BOOLEAN, failed : BOOLEAN,
          deletable : BOOLEAN, smp : SUBSET Nat, tomb : SUBSET Nat]

TypeInv ==
  /\ accepted \in SUBSET Nat /\ head \subseteq accepted /\ ooo \subseteq accepted
  /\ deleted \subseteq accepted
  /\ hmin \in Nat /\ hmax \in Int /\ newest \in Nat
  /\ disk \in [DOMAIN disk -> Block] /\ DOMAIN disk \subseteq Ids
  /\ loaded \in [DOMAIN loaded -> Block] /\ DOMAIN loaded \subseteq Ids
  /\ held \in [Readers -> SUBSET Ids]
  /\ op \in [pc : Resting \union {"ooo", "reload", "delete"}, kind : Kinds,
             new : SUBSET Ids, todo : SUBSET Nat, gone : BOOLEAN]

\* What an operation has at each of its steps.
OpInv ==
  /\ op.pc \in Resting => op.kind = "tick" /\ op.new = {}
  /\ op.pc = "ooo" => op.kind = "ooo" /\ op.todo # {}
  /\ op.pc # "delete" => op.gone = FALSE
  /\ op.pc \notin {"ooo", "delete"} => op.todo = {}
  /\ op.pc # "delete" => op.new \intersect DOMAIN loaded = {}
  /\ \A r \in Readers : op.new \intersect held[r] = {}
  /\ op.pc = "down" \/ (op.pc = "reload" /\ op.kind = "open") => loaded = NoBlocks
  /\ op.pc = "delete" => op.todo \subseteq DOMAIN disk /\ DOMAIN loaded = DOMAIN disk \ op.todo
  /\ op.kind = "open" => op.new = {}
  /\ op.kind = "head" => compactable

\* The head holds the newest sample, and all late ones are of ranges below it.
HeadInv ==
  /\ \A h \in head : hmin <= h
  /\ \A t \in accepted : t <= hmax
  /\ hmax = -1 \/ (hmax \in head /\ hmin <= hmax)
  /\ \A o \in ooo : \A h \in head : rangeForTimestamp(o) <= h

WellFormed(f) ==
  \A b \in DOMAIN f :
    /\ f[b].smp # {} /\ f[b].smp \subseteq accepted
    /\ \A t \in f[b].smp : f[b].mint <= t /\ t < f[b].maxt
    /\ f[b].maxt <= hmax

\* What is in memory is what is on disk, but for the flags.
SameBlocks ==
  /\ \A b \in DOMAIN loaded \intersect DOMAIN disk :
       /\ loaded[b].smp = disk[b].smp /\ loaded[b].tomb = disk[b].tomb
       /\ loaded[b].mint = disk[b].mint /\ loaded[b].maxt = disk[b].maxt
       /\ loaded[b].parents = disk[b].parents /\ loaded[b].ooo = disk[b].ooo
  /\ \A b \in DOMAIN loaded \ DOMAIN disk : loaded[b].tomb = {}

\* A block that reaches into the head has the samples of the head it covers;
\* but for the block being written, none does while the process is up.
HeadBlocks ==
  /\ \A b \in DOMAIN disk : \A h \in head : h < disk[b].maxt => h \in Live(disk[b])
  /\ \A b \in DOMAIN disk : disk[b].ooo => \A h \in head : disk[b].maxt <= h
  /\ op.pc # "down" /\ op.kind # "open" =>
       \A b \in DOMAIN disk : \/ \A h \in head : disk[b].maxt <= h
                              \/ op.kind = "head" /\ b \in op.new
  /\ op.kind = "head" => \A b \in op.new \intersect DOMAIN disk :
                           disk[b].maxt = rangeForTimestamp(hmin)

\* The blocks that replace blocks still on disk.
Merged == {n \in DOMAIN disk : disk[n].parents \intersect DOMAIN disk # {}}

ParentInv ==
  /\ \A n \in DOMAIN disk : \A p \in disk[n].parents \intersect DOMAIN disk :
       Live(disk[p]) \subseteq Live(disk[n])
  /\ \A n \in Merged : \A m \in DOMAIN disk : n \notin disk[m].parents
  /\ op.pc = "down" \/ op.kind = "open" \/ Merged = {}
       \/ (op.kind \in {"blocks", "clean"} /\ Merged \subseteq op.new)
  /\ op.pc = "delete" => \A n \in DOMAIN disk : disk[n].parents \intersect DOMAIN disk \subseteq op.todo
  /\ op.pc # "delete" => \A n \in op.new : \A m \in DOMAIN disk : n \notin disk[m].parents

\* A block flagged deletable has nothing to lose, or is the one CleanTombstones
\* has replaced.
FlagInv ==
  /\ \A b \in DOMAIN disk : disk[b].deletable => Live(disk[b]) = {}
  /\ \A b \in DOMAIN disk \intersect DOMAIN loaded : loaded[b].deletable =>
       \/ Live(disk[b]) = {}
       \/ op.kind = "clean" /\ \E n \in DOMAIN disk : b \in disk[n].parents

StoredIn(f, ids) == UNION {Live(f[b]) : b \in ids}

\* What an operation wrote is still where it was read from, until the first of
\* the old blocks is deleted.
NewRedundant ==
  \A n \in op.new \intersect DOMAIN disk :
    /\ disk[n].tomb = {}
    /\ ~op.gone => disk[n].smp \subseteq head \union ooo \union StoredIn(disk, DOMAIN disk \ op.new)

\* What the head keeps when the operation is done.
HeadAfter ==
  CASE op.kind = "head" -> {h \in head : h >= rangeForTimestamp(hmin)} \union ooo
    [] op.kind = "ooo"  -> head
    [] OTHER -> head \union ooo

\* The samples of the head an operation takes over are written, and blocks are
\* deleted only when the remaining ones have all that is to be kept.
Settled ==
  /\ op.pc \in {"reload", "delete"} => Kept \subseteq HeadAfter \union StoredIn(disk, DOMAIN disk \ op.todo)
  /\ op.pc = "ooo" => /\ op.todo \subseteq {chunkRange * (t \div chunkRange) : t \in ooo}
                      /\ \A o \in ooo : \/ chunkRange * (o \div chunkRange) \in op.todo
                                        \/ o \in StoredIn(disk, DOMAIN disk)
  /\ op.kind = "head" => \A h \in head : h < rangeForTimestamp(hmin) =>
       \E n \in (op.new \intersect DOMAIN disk) \ op.todo : h \in Live(disk[n])

BInv ==
  /\ TypeInv /\ OpInv /\ HeadInv /\ WellFormed(disk) /\ WellFormed(loaded) /\ SameBlocks
  /\ HeadBlocks /\ ParentInv /\ FlagInv /\ NewRedundant /\ Settled
  /\ SamplesDurable /\ SamplesVisible

\* Deletions reach every block that has the sample: one that is on disk and
\* not in memory is covered by one that is in memory and no longer on disk, for
\* which Delete fails.
DeletedInv ==
  /\ deleted \intersect (head \union ooo \union Stored(disk) \union Stored(loaded)) = {}
  /\ op.pc \notin {"delete", "down"} /\ op.kind # "open" =>
       \A b \in DOMAIN disk \ (DOMAIN loaded \union op.new) : \A s \in Live(disk[b]) :
         \E c \in DOMAIN loaded \ DOMAIN disk : s \in loaded[c].smp
  /\ op.pc = "delete" /\ op.kind # "open" /\ RetentionDuration = 0 =>
       \A b \in op.todo : \A s \in Live(disk[b]) :
         \E n \in op.new \intersect DOMAIN loaded : s \in loaded[n].smp
-----------------------------------------------------------------------------
\* Sets of natural numbers have a least element, and bounded sets of numbers a
\* greatest one: LEMMA Extremes of BlocksProofs.
Extrema ==
  /\ \A S \in SUBSET Nat : S # {} => Min(S) \in S /\ \A x \in S : Min(S) <= x
  /\ \A S \in SUBSET Int : \A m \in Int :
       S # {} /\ (\A x \in S : x <= m) => Max(S) \in S /\ \A x \in S : x <= Max(S)

\* The aligned range of length c that has t.
LEMMA Aligned ==
  ASSUME NEW c \in Nat, c > 0, NEW t \in Nat
  PROVE  /\ (t \div c) * c <= t /\ t < (t \div c) * c + c
         /\ (t \div c) * c = c * (t \div c) /\ c * (t \div c) \in Nat
<1>1. t = ((t \div c) * c) + (t % c) /\ t % c \in 0..(c - 1) /\ t \div c \in Int
  OBVIOUS
<1>2. t \div c >= 0
  OBVIOUS
<1> QED
  BY <1>1, <1>2

\* The range of the head a time is in.
LEMMA RangeOf ==
  ASSUME NEW t \in Nat
  PROVE  /\ chunkRange \in Nat /\ chunkRange > 0
         /\ chunkRange * (t \div chunkRange) \in Nat /\ rangeForTimestamp(t) \in Nat
         /\ chunkRange * (t \div chunkRange) <= t /\ t < rangeForTimestamp(t)
         /\ rangeForTimestamp(t) = chunkRange * (t \div chunkRange) + chunkRange
         /\ rangeForTimestamp(t) <= t + chunkRange
<1>1. chunkRange \in Nat /\ chunkRange > 0
  BY BlocksAssumption DEF chunkRange
<1> QED
  BY <1>1, Aligned DEF rangeForTimestamp

\* The end of the first range of a compactable head is in the head.
LEMMA CompactableRange ==
  ASSUME hmin \in Nat, hmax \in Int, compactable
  PROVE  rangeForTimestamp(hmin) <= hmax
<1>1. chunkRange \in Nat /\ chunkRange > 0 /\ rangeForTimestamp(hmin) \in Nat
      /\ rangeForTimestamp(hmin) <= hmin + chunkRange
  BY RangeOf, Zenon
<1>2. (chunkRange \div 2) * 3 >= chunkRange - 1
  BY <1>1
<1> QED
  BY <1>1, <1>2 DEF compactable

\* The fields of an operation.
LEMMA OpFields ==
  ASSUME NEW p, NEW k, NEW n, NEW td
  PROVE  LET o == [Idle EXCEPT !.pc = p, !.kind = k, !.new = n, !.todo = td]
         IN  o.pc = p /\ o.kind = k /\ o.new = n /\ o.todo = td /\ o.gone = FALSE
BY Zenon DEF Idle

\* What a flag leaves alone.
LEMMA Flagged ==
  ASSUME NEW f, f \in [DOMAIN f -> Block], NEW dirs, NEW field \in {"deletable", "failed"},
         NEW g, g = Flag(f, dirs, field)
  PROVE  /\ g \in [DOMAIN f -> Block] /\ DOMAIN g = DOMAIN f
         /\ \A b \in DOMAIN f :
              /\ g[b].smp = f[b].smp /\ g[b].tomb = f[b].tomb /\ g[b].mint = f[b].mint
              /\ g[b].maxt = f[b].maxt /\ g[b].parents = f[b].parents /\ g[b].ooo = f[b].ooo
              /\ g[b].deletable => f[b].deletable \/ (field = "deletable" /\ b \in dirs)
BY ZenonT(30) DEF Flag, Block

\* A stored sample is a live sample of a block.
LEMMA StoredIs ==
  ASSUME NEW f, NEW t
  PROVE  t \in Stored(f) <=> \E b \in DOMAIN f : t \in f[b].smp /\ t \notin f[b].tomb
BY DEF Stored, Live

LEMMA StoredInIs ==
  ASSUME NEW f, NEW ids, NEW t
  PROVE  t \in StoredIn(f, ids) <=> \E b \in ids : t \in f[b].smp /\ t \notin f[b].tomb
BY DEF StoredIn, Live

\* The ULID of a new block is fresh.
LEMMA NewIdFresh ==
  ASSUME Extrema, FreshIds # {}
  PROVE  NewId \in FreshIds
<1>1. FreshIds \in SUBSET Nat
  BY BlocksAssumption, Zenon DEF FreshIds
<1> QED
  BY <1>1, Zenon DEF NewId, Extrema

-----------------------------------------------------------------------------
\* Steps that leave the head and the blocks alone.
LEMMA Unmoved ==
  ASSUME BInv, UNCHANGED <<headVars, disk, loaded, accepted, deleted, newest>>,
         op.kind = "tick" \/ op' = op
  PROVE  /\ HeadInv' /\ WellFormed(disk)' /\ WellFormed(loaded)' /\ SameBlocks' /\ FlagInv'
         /\ SamplesDurable' /\ Merged' = Merged /\ Kept' = Kept
<1>1. head' = head /\ hmin' = hmin /\ hmax' = hmax /\ ooo' = ooo /\ disk' = disk
      /\ loaded' = loaded /\ accepted' = accepted /\ deleted' = deleted /\ newest' = newest
  BY Zenon DEF headVars
<1>2. HeadInv'
  BY <1>1, Zenon DEF BInv, HeadInv, rangeForTimestamp
<1>3. WellFormed(disk)' /\ WellFormed(loaded)'
  BY <1>1, Zenon DEF BInv, WellFormed
<1>4. SameBlocks' /\ FlagInv'
  BY <1>1 DEF BInv, SameBlocks, FlagInv, Live
<1>5. Merged' = Merged /\ Kept' = Kept
  BY <1>1, Zenon DEF Merged, Kept
<1>6. SamplesDurable'
  BY <1>1, <1>5, Zenon DEF BInv, SamplesDurable, Stored, Live
<1> QED
  BY <1>2, <1>3, <1>4, <1>5, <1>6, Zenon

\* Between operations no block replaces another one on disk, and none reaches
\* into the head.
LEMMA RestFacts ==
  ASSUME BInv, op.pc \in {"idle", "heads", "blocks"}
  PROVE  /\ Merged = {} /\ op.new = {} /\ op.todo = {} /\ op.gone = FALSE /\ op.kind = "tick"
         /\ \A b \in DOMAIN disk : \A h \in head : disk[b].maxt <= h
<1>1. op.new = {} /\ op.todo = {} /\ op.gone = FALSE /\ op.kind = "tick"
  BY Zenon DEF BInv, OpInv, Resting
<1>2. Merged = {}
  BY <1>1, Zenon DEF BInv, ParentInv
<1> QED
  BY <1>1, <1>2, Zenon DEF BInv, HeadBlocks

\* An operation begins or ends without having written anything.
LEMMA RestStep ==
  ASSUME BInv, UNCHANGED <<headVars, disk, loaded, held, accepted, deleted, newest>>,
         op.pc \in {"idle", "heads", "blocks"}, NEW p \in {"idle", "heads", "blocks", "reload"},
         op' = [Idle EXCEPT !.pc = p]
  PROVE  BInv'
<1>1. head' = head /\ hmin' = hmin /\ hmax' = hmax /\ ooo' = ooo /\ disk' = disk /\ held' = held
      /\ loaded' = loaded /\ accepted' = accepted /\ deleted' = deleted /\ newest' = newest
  BY Zenon DEF headVars
<1>2. op'.pc = p /\ op'.kind = "tick" /\ op'.new = {} /\ op'.todo = {} /\ op'.gone = FALSE
  BY Zenon DEF Idle
<1>3. /\ HeadInv' /\ WellFormed(disk)' /\ WellFormed(loaded)' /\ SameBlocks' /\ FlagInv'
      /\ SamplesDurable' /\ Merged' = Merged /\ Kept' = Kept
  BY Unmoved, RestFacts, Zenon
<1>4. Merged = {} /\ \A b \in DOMAIN disk : \A h \in head : disk[b].maxt <= h
  BY RestFacts, Zenon
<1>5. TypeInv'
  <2>1. op' \in [pc : Resting \union {"ooo", "reload", "delete"}, kind : Kinds,
                 new : SUBSET Ids, todo : SUBSET Nat, gone : BOOLEAN]
    BY Zenon DEF Idle, Resting, Kinds
  <2> QED
    BY <1>1, <2>1, Zenon DEF BInv, TypeInv
<1>6. OpInv'
  BY <1>2, Zenon DEF OpInv
<1>7. HeadBlocks'
  BY <1>1, <1>2, <1>4, Zenon DEF BInv, HeadBlocks, Live
<1>8. ParentInv'
  BY <1>1, <1>2, <1>3, <1>4, Zenon DEF BInv, ParentInv, Live
<1>9. NewRedundant'
  BY <1>2, Zenon DEF NewRedundant
<1>10. Settled'
  <2>1. Kept' \subseteq head' \union ooo' \union StoredIn(disk, DOMAIN disk)'
    BY <1>3, Zenon DEF SamplesDurable, Stored, StoredIn
  <2>2. HeadAfter' = head' \union ooo' /\ (DOMAIN disk \ op.todo)' = (DOMAIN disk)'
    BY <1>2, Zenon DEF HeadAfter
  <2> QED
    BY <1>2, <2>1, <2>2, Zenon DEF Settled
<1>11. SamplesVisible'
  BY <1>1, <1>3, RestFacts, Zenon DEF BInv, SamplesVisible, Stored, Live
<1> QED
  BY <1>3, <1>5, <1>6, <1>7, <1>8, <1>9, <1>10, <1>11, Zenon DEF BInv

LEMMA OpenStep ==
  ASSUME BInv, open
  PROVE  BInv'
<1>1. head' = head /\ hmin' = hmin /\ hmax' = hmax /\ ooo' = ooo /\ disk' = disk /\ held' = held
      /\ loaded' = loaded /\ accepted' = accepted /\ deleted' = deleted /\ newest' = newest
      /\ op.pc = "down" /\ op' = [Idle EXCEPT !.pc = "reload", !.kind = "open"]
  BY Zenon DEF open, headVars
<1>2. op'.pc = "reload" /\ op'.kind = "open" /\ op'.new = {} /\ op'.todo = {} /\ op'.gone = FALSE
  BY <1>1, Zenon DEF Idle
<1>3. /\ HeadInv' /\ WellFormed(disk)' /\ WellFormed(loaded)' /\ SameBlocks' /\ FlagInv'
      /\ SamplesDurable' /\ Merged' = Merged /\ Kept' = Kept
  <2>1. op.kind = "tick"
    BY <1>1, Zenon DEF BInv, OpInv, Resting
  <2> QED
    BY <1>1, <2>1, Unmoved, Zenon DEF headVars
<1>5. TypeInv'
  <2>1. op' \in [pc : Resting \union {"ooo", "reload", "delete"}, kind : Kinds,
                 new : SUBSET Ids, todo : SUBSET Nat, gone : BOOLEAN]
    BY <1>1, Zenon DEF Idle, Resting, Kinds
  <2> QED
    BY <1>1, <2>1, Zenon DEF BInv, TypeInv
<1>6. OpInv'
  BY <1>1, <1>2, Zenon DEF BInv, OpInv, Resting
<1>7. HeadBlocks'
  BY <1>1, <1>2, Zenon DEF BInv, HeadBlocks, Live
<1>8. ParentInv'
  BY <1>1, <1>2, <1>3, ZenonT(30) DEF BInv, ParentInv, Live
<1>9. NewRedundant'
  BY <1>2, Zenon DEF NewRedundant
<1>10. Settled'
  <2>1. Kept' \subseteq head' \union ooo' \union StoredIn(disk, DOMAIN disk)'
    BY <1>3, Zenon DEF SamplesDurable, Stored, StoredIn
  <2>2. HeadAfter' = head' \union ooo' /\ (DOMAIN disk \ op.todo)' = (DOMAIN disk)'
    BY <1>2, Zenon DEF HeadAfter
  <2> QED
    BY <1>2, <2>1, <2>2, Zenon DEF Settled
<1>11. SamplesVisible'
  BY <1>2, Zenon DEF SamplesVisible
<1> QED
  BY <1>3, <1>5, <1>6, <1>7, <1>8, <1>9, <1>10, <1>11, Zenon DEF BInv

LEMMA CompactOOOHeadStep ==
  ASSUME BInv, compactOOOHead
  PROVE  BInv'
<1>0. /\ UNCHANGED <<headVars, disk, loaded, held, accepted, deleted, newest>>
      /\ op.pc = "heads"
  BY Zenon DEF compactOOOHead
<1>a. CASE ooo = {}
  <2>1. op' = [Idle EXCEPT !.pc = "blocks"]
    BY <1>a, Zenon DEF compactOOOHead
  <2> QED
    BY <1>0, <2>1, RestStep, Zenon
<1>b. CASE ooo # {}
  <2> DEFINE todo == {chunkRange * (t \div chunkRange) : t \in ooo}
  <2>1. head' = head /\ hmin' = hmin /\ hmax' = hmax /\ ooo' = ooo /\ disk' = disk /\ held' = held
        /\ loaded' = loaded /\ accepted' = accepted /\ deleted' = deleted /\ newest' = newest
    BY <1>0, Zenon DEF headVars
  <2>2. op' = [Idle EXCEPT !.pc = "ooo", !.kind = "ooo", !.todo = todo]
    BY <1>b, Zenon DEF compactOOOHead
  <2>3. todo \in SUBSET Nat
    BY RangeOf DEF BInv, TypeInv
  <2>4. op'.pc = "ooo" /\ op'.kind = "ooo" /\ op'.new = {} /\ op'.todo = todo /\ op'.gone = FALSE
    BY <2>2, Zenon DEF Idle
  <2>5. /\ HeadInv' /\ WellFormed(disk)' /\ WellFormed(loaded)' /\ SameBlocks' /\ FlagInv'
        /\ SamplesDurable' /\ Merged' = Merged /\ Kept' = Kept
    BY <1>0, Unmoved, RestFacts, Zenon
  <2>6. Merged = {} /\ \A b \in DOMAIN disk : \A h \in head : disk[b].maxt <= h
    BY <1>0, RestFacts, Zenon
  <2>7. TypeInv'
    <3>1. op' \in [pc : Resting \union {"ooo", "reload", "delete"}, kind : Kinds,
                   new : SUBSET Ids, todo : SUBSET Nat, gone : BOOLEAN]
      BY <2>2, <2>3, Zenon DEF Idle, Resting, Kinds
    <3> QED
      BY <2>1, <3>1, Zenon DEF BInv, TypeInv
  <2>8. OpInv'
    BY <1>b, <2>4, Zenon DEF OpInv, Resting
  <2>9. HeadBlocks'
    BY <2>1, <2>4, <2>6, Zenon DEF BInv, HeadBlocks, Live
  <2>10. ParentInv'
    BY <2>1, <2>4, <2>5, <2>6, Zenon DEF BInv, ParentInv, Live
  <2>11. NewRedundant'
    BY <2>4, Zenon DEF NewRedundant
  <2>12. Settled'
    BY <2>1, <2>4, Zenon DEF Settled, chunkRange
  <2>13. SamplesVisible'
    BY <1>0, <2>1, <2>5, RestFacts, Zenon DEF BInv, SamplesVisible, Stored, Live
  <2> QED
    BY <2>5, <2>7, <2>8, <2>9, <2>10, <2>11, <2>12, <2>13, Zenon DEF BInv
<1> QED
  BY <1>a, <1>b, Zenon

\* Queries hold blocks that are loaded.
LEMMA QueryStep ==
  ASSUME BInv, NEW r \in Readers, Querier(r) \/ CloseQuerier(r)
  PROVE  BInv'
<1>1. head' = head /\ hmin' = hmin /\ hmax' = hmax /\ ooo' = ooo /\ disk' = disk /\ op' = op
      /\ loaded' = loaded /\ accepted' = accepted /\ deleted' = deleted /\ newest' = newest
  BY Zenon DEF Querier, CloseQuerier, headVars
<1>2. /\ HeadInv' /\ WellFormed(disk)' /\ WellFormed(loaded)' /\ SameBlocks' /\ FlagInv'
      /\ SamplesDurable' /\ Merged' = Merged /\ Kept' = Kept
  BY <1>1, Unmoved, Zenon DEF headVars
<1>3. /\ held' \in [Readers -> SUBSET Ids]
      /\ \A q \in Readers : held'[q] = held[q] \/ held'[q] = {}
                              \/ (held'[q] = DOMAIN loaded /\ op.pc # "delete")
  BY Zenon DEF BInv, TypeInv, Querier, CloseQuerier
<1>4. TypeInv'
  BY <1>1, <1>3, Zenon DEF BInv, TypeInv
<1>5. OpInv'
  BY <1>1, <1>3, Zenon DEF BInv, OpInv, compactable, chunkRange
<1>6. HeadBlocks'
  BY <1>1, Zenon DEF BInv, HeadBlocks, Live, rangeForTimestamp
<1>7. ParentInv'
  BY <1>1, <1>2 DEF BInv, ParentInv, Live
<1>8. NewRedundant'
  BY <1>1 DEF BInv, NewRedundant, StoredIn, Live
<1>9. Settled'
  BY <1>1, <1>2 DEF BInv, Settled, Live, StoredIn, HeadAfter, rangeForTimestamp
<1>10. SamplesVisible'
  BY <1>1, <1>2, Zenon DEF BInv, SamplesVisible, Stored, Live
<1> QED
  BY <1>2, <1>4, <1>5, <1>6, <1>7, <1>8, <1>9, <1>10, Zenon DEF BInv

LEMMA CrashStep ==
  ASSUME BInv, crash
  PROVE  BInv'
<1>1. head' = head /\ hmin' = hmin /\ hmax' = hmax /\ ooo' = ooo /\ disk' = disk
      /\ accepted' = accepted /\ deleted' = deleted /\ newest' = newest
      /\ loaded' = NoBlocks /\ held' = [r \in Readers |-> {}]
      /\ op' = [Idle EXCEPT !.pc = "down"]
  BY Zenon DEF crash, headVars
<1>2. /\ op'.pc = "down" /\ op'.kind = "tick" /\ op'.new = {} /\ op'.todo = {}
      /\ op'.gone = FALSE /\ DOMAIN loaded' = {}
  BY <1>1, Zenon DEF Idle, NoBlocks
<1>3. HeadInv' /\ WellFormed(disk)'
  BY <1>1, Zenon DEF BInv, HeadInv, WellFormed, rangeForTimestamp
<1>4. WellFormed(loaded)' /\ SameBlocks' /\ FlagInv'
  BY <1>1, <1>2, Zenon DEF BInv, WellFormed, SameBlocks, FlagInv, Live
<1>5. Merged' = Merged /\ Kept' = Kept
  BY <1>1, Zenon DEF Merged, Kept
<1>6. SamplesDurable'
  BY <1>1, <1>5, Zenon DEF BInv, SamplesDurable, Stored, Live
<1>7. TypeInv'
  <2>1. op' \in [pc : Resting \union {"ooo", "reload", "delete"}, kind : Kinds,
                 new : SUBSET Ids, todo : SUBSET Nat, gone : BOOLEAN]
    BY <1>1, Zenon DEF Idle, Resting, Kinds
  <2>2. loaded' \in [DOMAIN loaded' -> Block] /\ DOMAIN loaded' \subseteq Ids
        /\ held' \in [Readers -> SUBSET Ids]
    BY <1>1, <1>2, Zenon DEF NoBlocks
  <2> QED
    BY <1>1, <2>1, <2>2, Zenon DEF BInv, TypeInv
<1>8. OpInv'
  BY <1>1, <1>2, Zenon DEF OpInv
<1>9. HeadBlocks'
  BY <1>1, <1>2, Zenon DEF BInv, HeadBlocks, Live
<1>10. ParentInv'
  BY <1>1, <1>2, <1>5, Zenon DEF BInv, ParentInv, Live
<1>11. NewRedundant' /\ Settled' /\ SamplesVisible'
  BY <1>2, Zenon DEF NewRedundant, Settled, SamplesVisible
<1> QED
  BY <1>3, <1>4, <1>6, <1>7, <1>8, <1>9, <1>10, <1>11, Zenon DEF BInv

\* Between operations samples are added to the head.
LEMMA GrowStep ==
  ASSUME BInv, op.pc = "idle", NEW t \in Nat, hmin' \in Nat, hmax' \in Int, hmax <= hmax', t <= hmax',
         hmax' = -1 \/ (hmax' \in head' /\ hmin' <= hmax'),
         accepted' = accepted \union {t}, head \subseteq head', ooo \subseteq ooo',
         t \in head' \/ t \in ooo', head' \subseteq accepted', ooo' \subseteq accepted',
         \A h \in head' : hmin' <= h /\ (h \in head \/ hmax < h),
         \A o \in ooo' : \A h \in head' : rangeForTimestamp(o) <= h,
         UNCHANGED <<disk, loaded, op, held, deleted, newest>>
  PROVE  BInv'
<1>1. disk' = disk /\ loaded' = loaded /\ op' = op /\ held' = held /\ deleted' = deleted
      /\ newest' = newest
  BY Zenon
<1>2. /\ op.new = {} /\ op.todo = {} /\ op.gone = FALSE /\ op.kind = "tick"
      /\ \A b \in DOMAIN disk : \A h \in head : disk[b].maxt <= h
  BY RestFacts, Zenon
<1>3. TypeInv'
  BY <1>1, Zenon DEF BInv, TypeInv
<1>4. OpInv'
  BY <1>1, <1>2, Zenon DEF BInv, OpInv
<1>5. \A a \in accepted : a <= hmax'
  BY DEF BInv, HeadInv, TypeInv
<1>6. HeadInv'
  BY <1>5, Zenon DEF HeadInv, rangeForTimestamp
<1>7. WellFormed(disk)' /\ WellFormed(loaded)'
  BY <1>1 DEF BInv, WellFormed, TypeInv, Block
<1>8. SameBlocks' /\ FlagInv' /\ ParentInv'
  BY <1>1 DEF BInv, SameBlocks, FlagInv, ParentInv, Merged, Live
<1>9. \A b \in DOMAIN disk : \A h \in head' : disk[b].maxt <= h
  <2>1. ASSUME NEW b \in DOMAIN disk, NEW h \in head' PROVE disk[b].maxt <= h
    <3>1. disk[b].maxt \in Nat /\ disk[b].maxt <= hmax /\ hmax \in Int
      BY Zenon DEF BInv, TypeInv, Block, WellFormed
    <3>2. h \in Nat
      BY Zenon DEF BInv, TypeInv
    <3> QED
      BY <1>2, <3>1, <3>2
  <2> QED
    BY <2>1, Zenon
<1>10. HeadBlocks'
  <2>1. ASSUME NEW b \in DOMAIN disk, NEW h \in head' PROVE ~(h < disk[b].maxt)
    <3>1. disk[b].maxt \in Nat /\ h \in Nat
      BY Zenon DEF BInv, TypeInv, Block
    <3> QED
      BY <1>9, <3>1
  <2> QED
    BY <1>1, <1>2, <1>9, <2>1, Zenon DEF HeadBlocks
<1>11. NewRedundant' /\ Settled'
  BY <1>1, <1>2, Zenon DEF NewRedundant, Settled
<1>12. Kept' \subseteq Kept \union {t}
  BY <1>1, Zenon DEF Kept
<1>13. SamplesDurable' /\ SamplesVisible'
  BY <1>1, <1>2, <1>12, ZenonT(30) DEF BInv, SamplesDurable, SamplesVisible, Stored, Live
<1> QED
  BY <1>3, <1>4, <1>6, <1>7, <1>8, <1>10, <1>11, <1>13, Zenon DEF BInv

LEMMA AppendStep ==
  ASSUME BInv, NEW t \in Times, append(t)
  PROVE  BInv'
<1>1. t \in Nat /\ hmax \in Int /\ hmin \in Nat
  BY BlocksAssumption, Zenon DEF BInv, TypeInv
<1>2. /\ op.pc = "idle" /\ t > hmax /\ head' = head \union {t} /\ ooo' = ooo
      /\ hmin' = (IF hmax = -1 THEN t ELSE hmin) /\ hmax' = t
      /\ accepted' = accepted \union {t} /\ UNCHANGED <<disk, loaded, op, held, deleted, newest>>
  BY Zenon DEF append
<1>3. \A h \in head : hmin <= h /\ h <= hmax /\ h \in Nat
  BY Zenon DEF BInv, HeadInv, TypeInv
<1>4. hmax = -1 => head = {} /\ ooo = {}
  BY DEF BInv, HeadInv, TypeInv
<1>5. hmax # -1 => hmin <= hmax /\ \A o \in ooo : rangeForTimestamp(o) <= hmax
  BY Zenon DEF BInv, HeadInv
<1>6. \A o \in ooo : rangeForTimestamp(o) \in Nat
  BY RangeOf, Zenon DEF BInv, TypeInv
<1>7. \A o \in ooo' : \A h \in head' : rangeForTimestamp(o) <= h
  BY <1>1, <1>2, <1>4, <1>5, <1>6 DEF BInv, HeadInv
<1>8. \A h \in head' : hmin' <= h /\ (h \in head \/ hmax < h)
  BY <1>1, <1>2, <1>3, <1>4, <1>5
<1>9. hmin' \in Nat /\ hmax' \in Int /\ hmax <= hmax' /\ t <= hmax' /\ hmin' <= hmax' /\ hmax' \in head'
  BY <1>1, <1>2 DEF BInv, HeadInv
<1>10. head \subseteq head' /\ ooo \subseteq ooo' /\ t \in head' /\ head' \subseteq accepted' /\ ooo' \subseteq accepted'
  BY <1>2, Zenon DEF BInv, TypeInv
<1> QED
  BY <1>1, <1>2, <1>7, <1>8, <1>9, <1>10, GrowStep, Zenon

LEMMA InsertStep ==
  ASSUME BInv, SafeSchedules, NEW t \in Times, insert(t)
  PROVE  BInv'
<1>1. t \in Nat /\ hmax \in Int /\ hmin \in Nat
  BY BlocksAssumption, Zenon DEF BInv, TypeInv
<1>2. /\ op.pc = "idle" /\ t < hmax /\ head' = head /\ ooo' = ooo \union {t}
      /\ rangeForTimestamp(t) <= hmin /\ hmin' = hmin /\ hmax' = hmax
      /\ accepted' = accepted \union {t} /\ UNCHANGED <<disk, loaded, op, held, deleted, newest>>
  BY Zenon DEF insert, SafeSchedules
<1>3. \A h \in head : hmin <= h /\ h \in Nat
  BY Zenon DEF BInv, HeadInv, TypeInv
<1>4. rangeForTimestamp(t) \in Nat
  BY <1>1, RangeOf, Zenon
<1>5. \A o \in ooo' : \A h \in head' : rangeForTimestamp(o) <= h
  BY <1>1, <1>2, <1>3, <1>4 DEF BInv, HeadInv
<1>6. hmax' \in head' /\ hmin' <= hmax'
  BY <1>1, <1>2 DEF BInv, HeadInv
<1>7. head \subseteq head' /\ ooo \subseteq ooo' /\ t \in ooo' /\ head' \subseteq accepted' /\ ooo' \subseteq accepted'
  BY <1>2, Zenon DEF BInv, TypeInv
<1> QED
  BY <1>1, <1>2, <1>3, <1>5, <1>6, <1>7, GrowStep

-----------------------------------------------------------------------------
\* Steps that write a block.

\* What is true of a ULID that is fresh.
LEMMA FreshIs ==
  ASSUME NEW n \in FreshIds
  PROVE  /\ n \in Ids /\ n \notin DOMAIN disk /\ n \notin DOMAIN loaded /\ n \notin op.new
         /\ \A r \in Readers : n \notin held[r]
         /\ \A b \in DOMAIN disk : n \notin disk[b].parents
         /\ \A b \in DOMAIN loaded : n \notin loaded[b].parents
BY Zenon DEF FreshIds

\* The directories after a block was written, if it has samples.
LEMMA WrittenIs ==
  ASSUME Extrema, TypeInv, FreshIds # {}, NEW block \in Block
  PROVE  /\ Written(block) \in [DOMAIN Written(block) -> Block]
         /\ DOMAIN Written(block) = DOMAIN disk \union Uids(block)
         /\ \A b \in DOMAIN disk : Written(block)[b] = disk[b]
         /\ Uids(block) \in SUBSET FreshIds
         /\ \A n \in Uids(block) : Written(block)[n] = block /\ block.smp # {}
         /\ block.smp # {} => \E n : n \in Uids(block)
<1>1. NewId \in FreshIds /\ NewId \notin DOMAIN disk
  BY NewIdFresh, FreshIs, Zenon
<1>2. CASE block.smp = {}
  BY <1>2, Zenon DEF Written, Uids, TypeInv
<1>3. CASE block.smp # {}
  <2>1. Written(block) = [b \in DOMAIN disk \union {NewId} |-> IF b = NewId THEN block ELSE disk[b]]
        /\ Uids(block) = {NewId}
    BY <1>3, Zenon DEF Written, Uids
  <2> QED
    BY <1>1, <1>3, <2>1, ZenonT(30) DEF TypeInv
<1> QED
  BY <1>2, <1>3, Zenon

\* A block that may be written: it has what its parents have and, where it
\* reaches into the head, what the head has.
GoodBlock(block) ==
  /\ block \in Block /\ block.tomb = {} /\ block.deletable = FALSE
  /\ block.smp \subseteq accepted /\ \A t \in block.smp : block.mint <= t /\ t < block.maxt
  /\ block.maxt <= hmax
  /\ \A h \in head : h < block.maxt => h \in block.smp
  /\ block.ooo => \A h \in head : block.maxt <= h
  /\ \A p \in block.parents : p \in DOMAIN disk /\ Live(disk[p]) \subseteq block.smp

\* What the blocks in memory have is the same, but for flags.
SameLoaded ==
  /\ loaded' \in [DOMAIN loaded -> Block]
  /\ \A b \in DOMAIN loaded :
       /\ loaded'[b].smp = loaded[b].smp /\ loaded'[b].tomb = loaded[b].tomb
       /\ loaded'[b].mint = loaded[b].mint /\ loaded'[b].maxt = loaded[b].maxt
       /\ loaded'[b].parents = loaded[b].parents /\ loaded'[b].ooo = loaded[b].ooo

\* The step of an operation that writes a block, up to what it settles.
Writes(block, new) ==
  /\ UNCHANGED <<headVars, held, accepted, deleted, newest>>
  /\ op.pc \in {"idle", "heads", "blocks", "ooo"}
  /\ new \in SUBSET FreshIds
  /\ disk' \in [DOMAIN disk' -> Block] /\ DOMAIN disk' = DOMAIN disk \union new
  /\ \A b \in DOMAIN disk : disk'[b] = disk[b]
  /\ \A n \in new : disk'[n] = block /\ block.smp # {}
  /\ SameLoaded
  /\ \A b \in DOMAIN loaded : loaded'[b].deletable =>
       \/ loaded[b].deletable
       \/ b \in block.parents /\ op'.kind = "clean" /\ (new # {} \/ block.smp = {})
  /\ op' \in [pc : {"ooo", "reload"}, kind : {"head", "ooo", "blocks", "clean"},
              new : {op.new \union new}, todo : SUBSET Nat, gone : {FALSE}]
  /\ op.pc = "ooo" \/ op'.pc = "ooo" => op'.kind = "ooo"
  /\ op'.pc = "reload" <=> op'.todo = {}
  /\ op'.kind = "head" => compactable /\ block.maxt = rangeForTimestamp(hmin) /\ op.new = {}
  /\ op'.kind # "head" => \A h \in head : block.maxt <= h
  /\ block.parents # {} => op'.kind \in {"blocks", "clean"}
  /\ block.smp \subseteq head \union ooo \union StoredIn(disk, DOMAIN disk \ op.new)

LEMMA WriteStep ==
  ASSUME BInv, NEW block, GoodBlock(block), NEW new, Writes(block, new), Settled'
  PROVE  BInv'
<1>1. head' = head /\ hmin' = hmin /\ hmax' = hmax /\ ooo' = ooo /\ held' = held
      /\ accepted' = accepted /\ deleted' = deleted /\ newest' = newest
  BY Zenon DEF Writes, headVars
<1>2. /\ disk' \in [DOMAIN disk' -> Block] /\ DOMAIN disk' = DOMAIN disk \union new
      /\ \A b \in DOMAIN disk : disk'[b] = disk[b]
      /\ \A n \in new : disk'[n] = block /\ block.smp # {}
      /\ DOMAIN loaded' = DOMAIN loaded /\ SameLoaded
  BY Zenon DEF Writes, SameLoaded
<1>3. /\ \A n \in new : n \in Ids /\ n \notin DOMAIN disk /\ n \notin DOMAIN loaded /\ n \notin op.new
      /\ \A n \in new : \A r \in Readers : n \notin held[r]
      /\ \A n \in new : \A b \in DOMAIN disk : n \notin disk[b].parents
      /\ \A n \in new : \A b \in DOMAIN loaded : n \notin loaded[b].parents
  BY FreshIs, Zenon DEF Writes
<1>4. /\ op'.pc \in {"ooo", "reload"} /\ op'.kind \in {"head", "ooo", "blocks", "clean"}
      /\ op'.new = op.new \union new /\ op'.todo \in SUBSET Nat /\ op'.gone = FALSE
      /\ op' \in [pc : {"ooo", "reload"}, kind : {"head", "ooo", "blocks", "clean"},
                  new : {op.new \union new}, todo : SUBSET Nat, gone : {FALSE}]
  BY Zenon DEF Writes
<1>a. block.smp \subseteq head \union ooo \union StoredIn(disk, DOMAIN disk \ op.new)
  BY Zenon DEF Writes
<1>5. op.kind \in {"tick", "ooo"} /\ op.gone = FALSE /\ Merged = {}
      /\ \A b \in DOMAIN disk : \A h \in head : disk[b].maxt <= h
  BY Zenon DEF Writes, BInv, OpInv, Resting, ParentInv, HeadBlocks
<1>6. Live(block) = block.smp /\ \A b \in DOMAIN disk : Live(disk'[b]) = Live(disk[b])
  BY <1>2, Zenon DEF GoodBlock, Live
<1>7. TypeInv'
  <2>1. op' \in [pc : Resting \union {"ooo", "reload", "delete"}, kind : Kinds,
                 new : SUBSET Ids, todo : SUBSET Nat, gone : BOOLEAN]
    BY <1>3, <1>4, Zenon DEF BInv, TypeInv, Kinds
  <2>2. DOMAIN disk' \subseteq Ids /\ loaded' \in [DOMAIN loaded' -> Block] /\ DOMAIN loaded' \subseteq Ids
    BY <1>2, <1>3, Zenon DEF BInv, TypeInv, SameLoaded
  <2> QED
    BY <1>1, <1>2, <2>1, <2>2, Zenon DEF BInv, TypeInv
<1>8. HeadInv'
  BY <1>1, Zenon DEF BInv, HeadInv, rangeForTimestamp
<1>9. WellFormed(disk)' /\ WellFormed(loaded)'
  <2>1. WellFormed(disk)'
    BY <1>1, <1>2, Zenon DEF BInv, WellFormed, GoodBlock
  <2>2. WellFormed(loaded)'
    BY <1>1, <1>2, ZenonT(30) DEF BInv, WellFormed, SameLoaded
  <2> QED
    BY <2>1, <2>2, Zenon
<1>10. SameBlocks'
  BY <1>2, <1>3 DEF BInv, SameBlocks, SameLoaded
<1>11. OpInv'
  <2>1. op'.new \intersect DOMAIN loaded' = {} /\ \A r \in Readers : op'.new \intersect held'[r] = {}
    BY <1>1, <1>2, <1>3, <1>4, Zenon DEF BInv, OpInv, Writes
  <2>2. compactable' = compactable
    BY <1>1, Zenon DEF compactable, chunkRange
  <2> QED
    BY <1>4, <2>1, <2>2, Zenon DEF OpInv, Writes, Resting
<1>12. HeadBlocks'
  BY <1>1, <1>2, <1>4, <1>5, <1>6 DEF BInv, HeadBlocks, GoodBlock, Writes, rangeForTimestamp
<1>13. \A n \in DOMAIN disk' : disk'[n].parents \intersect DOMAIN disk' # {} => n \in new
  BY <1>2, <1>3, <1>5, Zenon DEF Merged
<1>14. \A m \in DOMAIN disk' : disk'[m].parents \intersect op'.new = {}
  <2>1. \A n \in new : n \notin block.parents
    BY <1>3, Zenon DEF GoodBlock
  <2>2. \A n \in op.new : n \notin block.parents
    BY Zenon DEF GoodBlock, Writes, BInv, OpInv, Resting
  <2> QED
    BY <1>2, <1>3, <1>4, <2>1, <2>2 DEF BInv, ParentInv, Writes
<1>15. ParentInv'
  BY <1>2, <1>4, <1>6, <1>13, <1>14 DEF ParentInv, Merged, GoodBlock, Writes
<1>16. FlagInv'
  <2>1. \A b \in DOMAIN disk' : disk'[b].deletable => Live(disk'[b]) = {}
    BY <1>2, <1>6, Zenon DEF BInv, FlagInv, GoodBlock
  <2>2. ASSUME NEW b \in DOMAIN disk' \intersect DOMAIN loaded', loaded'[b].deletable
        PROVE  \/ Live(disk'[b]) = {}
               \/ op'.kind = "clean" /\ \E n \in DOMAIN disk' : b \in disk'[n].parents
    <3>1. b \in DOMAIN loaded /\ b \in DOMAIN disk /\ Live(disk'[b]) = Live(disk[b])
      BY <1>2, <1>3, <1>6, Zenon
    <3>2. CASE loaded[b].deletable
      BY <1>5, <3>1, <3>2, Zenon DEF BInv, FlagInv
    <3>3. CASE b \in block.parents /\ op'.kind = "clean" /\ (new # {} \/ block.smp = {})
      BY <1>2, <3>1, <3>3, Zenon DEF GoodBlock
    <3> QED
      BY <2>2, <3>1, <3>2, <3>3, Zenon DEF Writes
  <2> QED
    BY <2>1, <2>2, Zenon DEF FlagInv
<1>17. NewRedundant'
  <2>1. SUFFICES ASSUME NEW n \in op'.new \intersect DOMAIN disk', NEW s \in disk'[n].smp
                 PROVE  s \in head \union ooo \union StoredIn(disk', DOMAIN disk' \ op'.new)
    <3>1. \A n \in op'.new \intersect DOMAIN disk' : disk'[n].tomb = {}
      BY <1>2, <1>3, <1>4, Zenon DEF BInv, NewRedundant, GoodBlock
    <3> QED
      BY <1>1, <3>1, Zenon DEF NewRedundant
  <2>2. s \in head \/ s \in ooo \/ s \in StoredIn(disk, DOMAIN disk \ op.new)
    <3>1. CASE n \in new
      BY <1>2, <1>6, <1>a, <2>1, <3>1, Zenon
    <3>2. CASE n \in op.new
      BY <1>2, <1>3, <1>5, <1>6, <3>2, ZenonT(30) DEF BInv, NewRedundant
    <3> QED
      BY <1>4, <3>1, <3>2, Zenon
  <2> QED
    BY <1>2, <1>3, <1>4, <2>2, StoredInIs
<1>18. Kept' = Kept
  BY <1>1, Zenon DEF Kept
<1>19. SamplesDurable'
  BY <1>1, <1>2, <1>6, <1>18 DEF BInv, SamplesDurable, Stored
<1>20. SamplesVisible'
  BY <1>1, <1>2, <1>5, <1>18 DEF BInv, SamplesVisible, Stored, Live, SameLoaded, Writes
<1> QED
  BY <1>7, <1>8, <1>9, <1>10, <1>11, <1>12, <1>15, <1>16, <1>17, <1>19, <1>20, Zenon DEF BInv

\* A deleted sample is not written again.
LEMMA WriteDeleted ==
  ASSUME BInv, DeletedInv, NEW block, GoodBlock(block), NEW new, Writes(block, new)
  PROVE  DeletedInv'
<1>1. /\ head' = head /\ ooo' = ooo /\ deleted' = deleted
      /\ op.pc \in {"idle", "heads", "blocks", "ooo"} /\ op'.pc \in {"ooo", "reload"}
      /\ op'.new = op.new \union new
  BY Zenon DEF Writes, headVars
<1>2. /\ DOMAIN disk' = DOMAIN disk \union new /\ DOMAIN loaded' = DOMAIN loaded
      /\ \A b \in DOMAIN disk : disk'[b] = disk[b]
      /\ \A n \in new : disk'[n] = block
      /\ \A b \in DOMAIN loaded : loaded'[b].smp = loaded[b].smp /\ loaded'[b].tomb = loaded[b].tomb
  BY Zenon DEF Writes, SameLoaded
<1>3. \A n \in new : n \notin DOMAIN loaded
  BY FreshIs, Zenon DEF Writes
<1>4. op.kind # "open"
  BY <1>1, Zenon DEF BInv, OpInv, Resting
<1>5. \A s \in deleted : s \notin head /\ s \notin ooo /\ s \notin Stored(disk) /\ s \notin Stored(loaded)
  BY Zenon DEF DeletedInv
<1>6. \A s \in Stored(loaded') : s \in Stored(loaded)
  BY <1>2, Zenon DEF Stored, Live
<1>7. \A s \in Stored(disk') : s \in head \/ s \in ooo \/ s \in Stored(disk)
  <2>1. block.smp \subseteq head \union ooo \union StoredIn(disk, DOMAIN disk \ op.new)
    BY Zenon DEF Writes
  <2>2. \A s \in block.smp : s \in head \/ s \in ooo \/ s \in Stored(disk)
    BY <2>1, StoredIs, StoredInIs
  <2>3. ASSUME NEW s \in Stored(disk') PROVE s \in head \/ s \in ooo \/ s \in Stored(disk)
    <3>1. PICK b \in DOMAIN disk' : s \in disk'[b].smp /\ s \notin disk'[b].tomb
      BY <2>3, StoredIs, Zenon
    <3>2. CASE b \in DOMAIN disk
      BY <1>2, <3>1, <3>2, StoredIs, Zenon
    <3>3. CASE b \in new
      BY <1>2, <2>2, <3>1, <3>3, Zenon
    <3> QED
      BY <1>2, <3>2, <3>3, Zenon
  <2> QED
    BY <2>3, Zenon
<1>8. ASSUME NEW b \in DOMAIN disk' \ (DOMAIN loaded' \union op'.new), NEW s \in Live(disk'[b])
      PROVE  \E c \in DOMAIN loaded' \ DOMAIN disk' : s \in loaded'[c].smp
  <2>1. b \in DOMAIN disk \ (DOMAIN loaded \union op.new) /\ s \in Live(disk[b])
    BY <1>1, <1>2, <1>8, Zenon
  <2>2. PICK c \in DOMAIN loaded \ DOMAIN disk : s \in loaded[c].smp
    BY <1>1, <1>4, <2>1, Zenon DEF DeletedInv
  <2> QED
    BY <1>2, <1>3, <2>2, Zenon
<1> QED
  BY <1>1, <1>5, <1>6, <1>7, <1>8, Zenon DEF DeletedInv

\* Nothing is lost where blocks are only added.
LEMMA StillStored ==
  ASSUME BInv, UNCHANGED <<headVars, accepted, deleted, newest>>,
         \A b \in DOMAIN disk : b \in DOMAIN disk' /\ disk'[b] = disk[b]
  PROVE  \A t \in Kept' : t \in head \/ t \in ooo \/ t \in StoredIn(disk', DOMAIN disk')
<1>1. Kept' = Kept
  BY Zenon DEF Kept
<1>2. \A t \in Kept : t \in head \/ t \in ooo \/ t \in Stored(disk)
  BY Zenon DEF BInv, SamplesDurable
<1> QED
  BY <1>1, <1>2, StoredIs, StoredInIs

LEMMA CompactHeadStep ==
  ASSUME BInv, Extrema, compactHead
  PROVE  BInv' /\ (DeletedInv => DeletedInv')
<1> DEFINE maxt  == rangeForTimestamp(hmin)
           smp   == {t \in head : hmin <= t /\ t < maxt}
           block == NewBlock(hmin, maxt, {}, FALSE, smp)
           new   == Uids(block)
<1>1. /\ op.pc \in {"idle", "heads"} /\ compactable /\ FreshIds # {} /\ disk' = Written(block)
      /\ op' = [Idle EXCEPT !.pc = "reload", !.kind = "head", !.new = new]
      /\ UNCHANGED <<headVars, loaded, held, accepted, deleted, newest>>
  BY Zenon DEF compactHead
<1>2. hmin \in Nat /\ maxt \in Nat /\ hmax \in Int /\ maxt <= hmax /\ smp \in SUBSET Nat /\ TypeInv
  BY <1>1, RangeOf, CompactableRange, Zenon DEF BInv, TypeInv
<1>3. /\ block \in Block /\ block.mint = hmin /\ block.maxt = maxt /\ block.parents = {} /\ block.ooo = FALSE
      /\ block.smp = smp /\ block.tomb = {} /\ block.deletable = FALSE
  <2> HIDE DEF smp, maxt
  <2> QED
    BY <1>2, Zenon DEF NewBlock, Block
<1> HIDE DEF block
<1>4. GoodBlock(block)
  BY <1>2, <1>3, Zenon DEF GoodBlock, BInv, HeadInv, TypeInv
<1>5. /\ disk' \in [DOMAIN disk' -> Block] /\ DOMAIN disk' = DOMAIN disk \union new
      /\ \A b \in DOMAIN disk : disk'[b] = disk[b]
      /\ new \in SUBSET FreshIds /\ (smp # {} => \E n : n \in new)
      /\ \A n \in new : disk'[n] = block /\ block.smp # {}
  BY <1>1, <1>2, <1>3, WrittenIs, Zenon
<1>6. op.new = {}
  BY <1>1, RestFacts, Zenon
<1> HIDE DEF new
<1>7. /\ op'.pc = "reload" /\ op'.kind = "head" /\ op'.new = new /\ op'.todo = {}
      /\ op' \in [pc : {"ooo", "reload"}, kind : {"head", "ooo", "blocks", "clean"},
                  new : {op.new \union new}, todo : SUBSET Nat, gone : {FALSE}]
  BY <1>1, <1>6, Zenon DEF Idle
<1>8. SameLoaded /\ loaded' = loaded
  BY <1>1, Zenon DEF SameLoaded, BInv, TypeInv
<1>9. Writes(block, new)
  BY <1>1, <1>3, <1>5, <1>6, <1>7, <1>8, Zenon DEF Writes
<1>10. \A h \in head : h < maxt => \E n \in new : n \in DOMAIN disk' /\ h \in Live(disk'[n])
  <2>1. \A h \in head : h < maxt => h \in smp
    BY Zenon DEF BInv, HeadInv
  <2> QED
    BY <1>3, <1>5, <2>1, Zenon DEF Live
<1>11. Settled'
  <2>1. rangeForTimestamp(hmin)' = maxt /\ head' = head /\ ooo' = ooo /\ maxt \in Nat
    BY <1>1, <1>2, Zenon DEF rangeForTimestamp, headVars, chunkRange
  <2>2. HeadAfter' = {h \in head : h >= maxt} \union ooo
    BY <1>7, <2>1, Zenon DEF HeadAfter
  <2>3. \A t \in Kept' : t \in head \/ t \in ooo \/ t \in StoredIn(disk', DOMAIN disk')
    BY <1>1, <1>5, StillStored, Zenon
  <2>4. \A h \in head : h < maxt => h \in StoredIn(disk', DOMAIN disk')
    BY <1>10, StoredInIs, Zenon DEF Live
  <2>5. \A h \in head : h \in Nat
    BY <1>2, Zenon DEF TypeInv
  <2>6. Kept' \subseteq HeadAfter' \union StoredIn(disk', DOMAIN disk' \ op'.todo)
    BY <1>7, <2>1, <2>2, <2>3, <2>4, <2>5
  <2> QED
    BY <1>7, <1>10, <2>1, <2>6, Zenon DEF Settled
<1> QED
  BY <1>4, <1>9, <1>11, WriteStep, WriteDeleted, Zenon

LEMMA CompactOOOStep ==
  ASSUME BInv, Extrema, compactOOO
  PROVE  BInv' /\ (DeletedInv => DeletedInv')
<1> DEFINE mint  == Min(op.todo)
           maxt  == mint + chunkRange
           smp   == {t \in ooo : mint <= t /\ t < maxt}
           block == NewBlock(mint, maxt, {}, TRUE, smp)
           new   == Uids(block)
           left  == op.todo \ {mint}
<1>1. /\ op.pc = "ooo" /\ FreshIds # {} /\ disk' = Written(block)
      /\ op' = [op EXCEPT !.pc = IF left = {} THEN "reload" ELSE "ooo", !.todo = left,
                          !.new = @ \union new]
      /\ UNCHANGED <<headVars, loaded, held, accepted, deleted, newest>>
  BY Zenon DEF compactOOO
<1>2. TypeInv /\ op.kind = "ooo" /\ op.gone = FALSE /\ op.todo # {} /\ op.todo \in SUBSET Nat /\ ooo \in SUBSET Nat
      /\ op.todo \subseteq {chunkRange * (t \div chunkRange) : t \in ooo}
  BY <1>1, Zenon DEF BInv, OpInv, Settled, TypeInv
<1>3. mint \in op.todo
  BY <1>2, Zenon DEF Extrema
<1>4. PICK o \in ooo : mint = chunkRange * (o \div chunkRange)
  BY <1>2, <1>3, Zenon
<1>5. mint \in Nat /\ maxt \in Nat /\ maxt = rangeForTimestamp(o)
  BY <1>2, <1>4, RangeOf, Zenon
<1> HIDE DEF mint
<1>6. \A h \in head : maxt <= h
  BY <1>4, <1>5, Zenon DEF BInv, HeadInv
<1>7. maxt <= hmax
  BY <1>2, <1>4, <1>6 DEF BInv, HeadInv, TypeInv
<1>8. /\ block \in Block /\ block.mint = mint /\ block.maxt = maxt /\ block.parents = {} /\ block.ooo = TRUE
      /\ block.smp = smp /\ block.tomb = {} /\ block.deletable = FALSE
  <2>1. smp \in SUBSET Nat
    BY <1>2, Zenon
  <2> HIDE DEF smp, maxt
  <2> QED
    BY <1>5, <2>1, Zenon DEF NewBlock, Block
<1> HIDE DEF block
<1>9. GoodBlock(block)
  <2>1. \A h \in head : ~(h < maxt)
    BY <1>5, <1>6 DEF BInv, TypeInv
  <2> QED
    BY <1>2, <1>5, <1>6, <1>7, <1>8, <2>1, Zenon DEF GoodBlock, TypeInv
<1>10. /\ disk' \in [DOMAIN disk' -> Block] /\ DOMAIN disk' = DOMAIN disk \union new
       /\ \A b \in DOMAIN disk : disk'[b] = disk[b]
       /\ new \in SUBSET FreshIds /\ (smp # {} => \E n : n \in new)
       /\ \A n \in new : disk'[n] = block /\ block.smp # {}
  <2> HIDE DEF smp
  <2> QED
    BY <1>1, <1>2, <1>8, WrittenIs, ZenonT(30)
<1> HIDE DEF new
<1>11. /\ op'.pc = (IF left = {} THEN "reload" ELSE "ooo") /\ op'.kind = "ooo"
       /\ op'.new = op.new \union new /\ op'.todo = left
       /\ op' \in [pc : {"ooo", "reload"}, kind : {"head", "ooo", "blocks", "clean"},
                   new : {op.new \union new}, todo : SUBSET Nat, gone : {FALSE}]
  BY <1>1, <1>2, Zenon DEF TypeInv
<1>12. SameLoaded /\ loaded' = loaded
  BY <1>1, Zenon DEF SameLoaded, BInv, TypeInv
<1>13. Writes(block, new)
  <2>1. op'.pc = "reload" <=> op'.todo = {}
    BY <1>11, Zenon
  <2>2. block.smp \subseteq head \union ooo \union StoredIn(disk, DOMAIN disk \ op.new)
    BY <1>8, Zenon
  <2>3. \A b \in DOMAIN loaded : loaded'[b].deletable => loaded[b].deletable
    BY <1>12, Zenon
  <2> HIDE DEF left, smp, maxt
  <2> QED
    BY <1>1, <1>6, <1>8, <1>10, <1>11, <1>12, <2>1, <2>2, <2>3, ZenonT(30) DEF Writes
<1>14. \A t \in ooo : \/ chunkRange * (t \div chunkRange) \in left
                      \/ t \in StoredIn(disk', DOMAIN disk')
  <2>1. \A t \in ooo : chunkRange * (t \div chunkRange) = mint => t \in smp
    BY <1>2, <1>5, RangeOf, Zenon
  <2>2. \A t \in ooo : t \in smp => t \in StoredIn(disk', DOMAIN disk')
    BY <1>8, <1>10, StoredInIs
  <2>3. \A t \in StoredIn(disk, DOMAIN disk) : t \in StoredIn(disk', DOMAIN disk')
    BY <1>10, StoredInIs
  <2> QED
    BY <1>1, <2>1, <2>2, <2>3, Zenon DEF BInv, Settled
<1>15. Settled'
  <2>1. head' = head /\ ooo' = ooo /\ chunkRange' = chunkRange
    BY <1>1, Zenon DEF headVars, chunkRange
  <2>2. CASE left = {}
    <3>1. HeadAfter' = head /\ op'.pc = "reload" /\ DOMAIN disk' \ op'.todo = DOMAIN disk'
      BY <1>11, <2>1, <2>2, Zenon DEF HeadAfter
    <3>2. \A t \in Kept' : t \in head \/ t \in ooo \/ t \in StoredIn(disk', DOMAIN disk')
      BY <1>1, <1>10, StillStored, Zenon
    <3>3. Kept' \subseteq HeadAfter' \union StoredIn(disk', DOMAIN disk' \ op'.todo)
      BY <1>14, <2>2, <3>1, <3>2, Zenon
    <3> QED
      BY <1>11, <3>1, <3>3, Zenon DEF Settled
  <2>3. CASE left # {}
    BY <1>2, <1>11, <1>14, <2>1, <2>3, Zenon DEF Settled
  <2> QED
    BY <2>2, <2>3, Zenon
<1> QED
  BY <1>9, <1>13, <1>15, WriteStep, WriteDeleted, Zenon

\* Steps that only set flags: on blocks that have nothing left, or the flag of
\* a failed compaction.
LEMMA FlagStep ==
  ASSUME BInv, UNCHANGED <<headVars, held, accepted, deleted, newest>>,
         op.pc \in {"idle", "blocks"}, NEW dirs \in SUBSET DOMAIN disk,
         NEW field \in {"deletable", "failed"},
         field = "deletable" => \A b \in dirs : Live(disk[b]) = {},
         disk' = Flag(disk, dirs, field), loaded' = Flag(loaded, dirs, field),
         op'.pc = "idle" => op'.kind = "tick",
         op' \in [pc : {"idle", "reload"}, kind : {"tick", "blocks"}, new : {{}}, todo : {{}}, gone : {FALSE}]
  PROVE  BInv' /\ (DeletedInv => DeletedInv')
<1>1. head' = head /\ hmin' = hmin /\ hmax' = hmax /\ ooo' = ooo /\ held' = held
      /\ accepted' = accepted /\ deleted' = deleted /\ newest' = newest
  BY Zenon DEF headVars
<1>2. /\ disk \in [DOMAIN disk -> Block] /\ loaded \in [DOMAIN loaded -> Block]
  BY Zenon DEF BInv, TypeInv
<1>3. /\ disk' \in [DOMAIN disk -> Block] /\ DOMAIN disk' = DOMAIN disk
      /\ \A b \in DOMAIN disk :
           /\ disk'[b].smp = disk[b].smp /\ disk'[b].tomb = disk[b].tomb /\ disk'[b].mint = disk[b].mint
           /\ disk'[b].maxt = disk[b].maxt /\ disk'[b].parents = disk[b].parents /\ disk'[b].ooo = disk[b].ooo
           /\ disk'[b].deletable => disk[b].deletable \/ (field = "deletable" /\ b \in dirs)
  BY <1>2, Flagged
<1>4. /\ loaded' \in [DOMAIN loaded -> Block] /\ DOMAIN loaded' = DOMAIN loaded
      /\ \A b \in DOMAIN loaded :
           /\ loaded'[b].smp = loaded[b].smp /\ loaded'[b].tomb = loaded[b].tomb /\ loaded'[b].mint = loaded[b].mint
           /\ loaded'[b].maxt = loaded[b].maxt /\ loaded'[b].parents = loaded[b].parents /\ loaded'[b].ooo = loaded[b].ooo
           /\ loaded'[b].deletable => loaded[b].deletable \/ (field = "deletable" /\ b \in dirs)
  BY <1>2, Flagged
<1>5. /\ op'.pc \in {"idle", "reload"} /\ op'.kind \in {"tick", "blocks"} /\ op'.new = {} /\ op'.todo = {}
      /\ op'.gone = FALSE /\ (op'.pc = "idle" => op'.kind = "tick")
  BY Zenon
<1>6. /\ Merged = {} /\ op.new = {} /\ op.kind = "tick"
      /\ \A b \in DOMAIN disk : \A h \in head : disk[b].maxt <= h
  BY RestFacts, Zenon
<1>7. \A b \in DOMAIN disk : Live(disk'[b]) = Live(disk[b])
  BY <1>3, Zenon DEF Live
<1>8. TypeInv'
  <2>1. op' \in [pc : Resting \union {"ooo", "reload", "delete"}, kind : Kinds,
                 new : SUBSET Ids, todo : SUBSET Nat, gone : BOOLEAN]
    BY <1>5, Zenon DEF Resting, Kinds
  <2> QED
    BY <1>1, <1>3, <1>4, <2>1, Zenon DEF BInv, TypeInv
<1>9. OpInv'
  BY <1>5, Zenon DEF OpInv, Resting
<1>10. HeadInv'
  BY <1>1, Zenon DEF BInv, HeadInv, rangeForTimestamp
<1>11. WellFormed(disk)' /\ WellFormed(loaded)'
  <2>1. WellFormed(disk)'
    BY <1>1, <1>3 DEF BInv, WellFormed
  <2>2. WellFormed(loaded)'
    BY <1>1, <1>4, SMTT(30) DEF BInv, WellFormed
  <2> QED
    BY <2>1, <2>2, Zenon
<1>12. SameBlocks'
  BY <1>3, <1>4, SMTT(30) DEF BInv, SameBlocks
<1>13. HeadBlocks'
  BY <1>1, <1>3, <1>5, <1>6, <1>7 DEF BInv, HeadBlocks
<1>14. Merged' = {}
  BY <1>3, <1>6 DEF Merged
<1>15. ParentInv'
  BY <1>3, <1>5, <1>7, <1>14 DEF BInv, ParentInv
<1>16. FlagInv'
  BY <1>3, <1>4, <1>6, <1>7, ZenonT(30) DEF BInv, FlagInv
<1>17. NewRedundant'
  BY <1>5, Zenon DEF NewRedundant
<1>18. Kept' = Kept
  BY <1>1, Zenon DEF Kept
<1>19. SamplesDurable'
  BY <1>1, <1>3, <1>7, <1>18 DEF BInv, SamplesDurable, Stored
<1>20. Settled'
  <2>1. HeadAfter' = head \union ooo
    BY <1>1, <1>5, Zenon DEF HeadAfter
  <2>2. \A t \in Kept' : t \in head \/ t \in ooo \/ t \in StoredIn(disk', DOMAIN disk')
    BY <1>1, <1>19, StoredIs, StoredInIs DEF SamplesDurable
  <2>3. Kept' \subseteq HeadAfter' \union StoredIn(disk', DOMAIN disk' \ op'.todo)
    BY <1>5, <2>1, <2>2, Zenon
  <2> QED
    BY <1>5, <2>3, Zenon DEF Settled
<1>21. SamplesVisible'
  BY <1>1, <1>4, <1>6, <1>18 DEF BInv, SamplesVisible, Stored, Live
<1>22. BInv'
  BY <1>8, <1>9, <1>10, <1>11, <1>12, <1>13, <1>15, <1>16, <1>17, <1>19, <1>20, <1>21, Zenon DEF BInv
<1>23. ASSUME DeletedInv PROVE DeletedInv'
  <2>1. \A s : s \in Stored(loaded') <=> s \in Stored(loaded)
    BY <1>4, StoredIs
  <2>2. \A s : s \in Stored(disk') <=> s \in Stored(disk)
    BY <1>3, StoredIs
  <2>3. deleted' \intersect (head' \union ooo' \union Stored(disk') \union Stored(loaded')) = {}
    BY <1>1, <1>23, <2>1, <2>2, Zenon DEF DeletedInv
  <2>4. \A b \in DOMAIN disk \ DOMAIN loaded : \A s \in Live(disk[b]) :
          \E c \in DOMAIN loaded \ DOMAIN disk : s \in loaded[c].smp
    BY <1>6, <1>23, Zenon DEF DeletedInv
  <2>5. \A b \in DOMAIN disk' \ DOMAIN loaded' : \A s \in Live(disk'[b]) :
          \E c \in DOMAIN loaded' \ DOMAIN disk' : s \in loaded'[c].smp
    BY <1>3, <1>4, <1>7, <2>4
  <2> QED
    BY <1>5, <2>3, <2>5, Zenon DEF DeletedInv
<1> QED
  BY <1>22, <1>23, Zenon

\* What the merged block has.
LEMMA CompactedIs ==
  ASSUME BInv, Extrema, op.pc \in {"idle", "blocks"}, NEW dirs \in SUBSET DOMAIN disk, dirs # {}
  PROVE  LET block == Compacted(dirs)
         IN  /\ GoodBlock(block) /\ block.parents = dirs
             /\ block.smp = StoredIn(disk, dirs)
             /\ \A h \in head : block.maxt <= h
<1> DEFINE reader(b) == IF b \in DOMAIN loaded THEN loaded[b] ELSE disk[b]
           mint  == Min({disk[b].mint : b \in dirs})
           maxt  == Max({disk[b].maxt : b \in dirs})
           smp   == UNION {Live(reader(b)) : b \in dirs}
           block == Compacted(dirs)
<1>1. TypeInv /\ \A b \in DOMAIN disk : disk[b] \in Block
  BY Zenon DEF BInv, TypeInv
<1>2. \A b \in DOMAIN disk : /\ disk[b].mint \in Nat /\ disk[b].maxt \in Nat /\ disk[b].maxt <= hmax
                             /\ \A h \in head : disk[b].maxt <= h
                             /\ \A t \in disk[b].smp : t \in accepted /\ disk[b].mint <= t /\ t < disk[b].maxt
  BY <1>1, RestFacts, Zenon DEF Block, BInv, WellFormed
<1>3. mint \in Nat /\ \A b \in dirs : mint <= disk[b].mint
  <2>1. {disk[b].mint : b \in dirs} \in SUBSET Nat /\ {disk[b].mint : b \in dirs} # {}
    BY <1>2, Zenon
  <2>2. mint \in {disk[b].mint : b \in dirs} /\ \A x \in {disk[b].mint : b \in dirs} : mint <= x
    BY <2>1, Zenon DEF Extrema
  <2> QED
    BY <2>1, <2>2, Zenon
<1>4. (\E b \in dirs : maxt = disk[b].maxt) /\ \A b \in dirs : disk[b].maxt <= maxt
  <2>1. {disk[b].maxt : b \in dirs} \in SUBSET Int /\ {disk[b].maxt : b \in dirs} # {}
        /\ hmax \in Int /\ \A x \in {disk[b].maxt : b \in dirs} : x <= hmax
    BY <1>1, <1>2 DEF TypeInv
  <2>2. maxt \in {disk[b].maxt : b \in dirs} /\ \A x \in {disk[b].maxt : b \in dirs} : x <= maxt
    BY <2>1, Zenon DEF Extrema
  <2> QED
    BY <2>2, Zenon
<1>5. maxt \in Nat /\ maxt <= hmax /\ \A h \in head : maxt <= h
  BY <1>2, <1>4, Zenon
<1>6. \A b \in dirs : Live(reader(b)) = Live(disk[b])
  BY Zenon DEF BInv, SameBlocks, Live
<1>7. smp = StoredIn(disk, dirs)
  BY <1>6, Zenon DEF StoredIn
<1> HIDE DEF mint, maxt, smp
<1>8. \A t \in smp : t \in accepted /\ t \in Nat /\ mint <= t /\ t < maxt
  <2>1. ASSUME NEW t \in smp
        PROVE  t \in accepted /\ t \in Nat /\ mint <= t /\ t < maxt
    <3>1. PICK b \in dirs : t \in disk[b].smp
      BY <1>7, StoredInIs, Zenon
    <3>2. t \in accepted /\ disk[b].mint <= t /\ t < disk[b].maxt /\ t \in Nat
      BY <1>1, <1>2, <3>1, Zenon DEF TypeInv
    <3> QED
      BY <1>2, <1>3, <1>4, <1>5, <3>2
  <2> QED
    BY <2>1, Zenon
<1>9. block = NewBlock(mint, maxt, dirs, FALSE, smp)
  BY Zenon DEF Compacted, mint, maxt, smp
<1>10. dirs \in SUBSET Nat
  BY <1>1, BlocksAssumption, Zenon DEF TypeInv
<1>11. /\ block \in Block /\ block.mint = mint /\ block.maxt = maxt /\ block.parents = dirs
       /\ block.smp = smp /\ block.tomb = {} /\ block.deletable = FALSE
  BY <1>3, <1>5, <1>8, <1>9, <1>10 DEF NewBlock, Block
<1> HIDE DEF block
<1>12. \A h \in head : ~(h < maxt)
  BY <1>1, <1>5 DEF TypeInv
<1>13. \A b \in dirs : Live(disk[b]) \subseteq smp
  BY <1>7, Zenon DEF StoredIn
<1>14. GoodBlock(block)
  BY <1>5, <1>8, <1>11, <1>12, <1>13, Zenon DEF GoodBlock
<1> QED
  BY <1>5, <1>7, <1>11, <1>14, Zenon DEF block

\* Plan returns directories that exist: LEMMA PlanOnDisk of BlocksProofs.
Planned == Plan \subseteq DOMAIN disk

LEMMA CompactBlocksStep ==
  ASSUME BInv, Extrema, Planned, compactBlocks
  PROVE  BInv' /\ (DeletedInv => DeletedInv')
<1> DEFINE dirs  == Plan
           block == Compacted(dirs)
           new   == Uids(block)
<1>1. /\ op.pc \in {"idle", "blocks"} /\ FreshIds # {} /\ dirs # {} /\ dirs \in SUBSET DOMAIN disk
      /\ disk' = (IF block.smp = {} THEN Flag(disk, dirs, "deletable") ELSE Written(block))
      /\ loaded' = (IF block.smp = {} THEN Flag(loaded, dirs, "deletable") ELSE loaded)
      /\ op' = [Idle EXCEPT !.pc = "reload", !.kind = "blocks", !.new = new]
      /\ UNCHANGED <<headVars, held, accepted, deleted, newest>>
  BY Zenon DEF compactBlocks, Planned
<1> HIDE DEF dirs
<1>2. /\ GoodBlock(block) /\ block.parents = dirs /\ block.smp = StoredIn(disk, dirs)
      /\ \A h \in head : block.maxt <= h
  BY <1>1, CompactedIs, Zenon
<1> HIDE DEF block
<1>3. CASE block.smp = {}
  <2>1. \A b \in dirs : Live(disk[b]) = {}
    BY <1>2, <1>3, Zenon DEF StoredIn
  <2>2. /\ op'.pc = "reload" /\ op'.kind = "blocks"
        /\ op' \in [pc : {"idle", "reload"}, kind : {"tick", "blocks"}, new : {{}}, todo : {{}}, gone : {FALSE}]
    BY <1>1, <1>3, Zenon DEF Uids, Idle
  <2> QED
    BY <1>1, <1>3, <2>1, <2>2, FlagStep, Zenon
<1>4. CASE block.smp # {}
  <2>1. disk' = Written(block) /\ loaded' = loaded /\ block \in Block /\ TypeInv /\ FreshIds # {}
    BY <1>1, <1>2, <1>4, Zenon DEF GoodBlock, BInv
  <2>2. /\ disk' \in [DOMAIN disk' -> Block] /\ DOMAIN disk' = DOMAIN disk \union new
        /\ \A b \in DOMAIN disk : disk'[b] = disk[b]
        /\ new \in SUBSET FreshIds
        /\ \A n \in new : disk'[n] = block /\ block.smp # {}
    BY <2>1, WrittenIs, Zenon
  <2>3. op.new = {}
    BY <1>1, RestFacts, Zenon
  <2> HIDE DEF new
  <2>4. /\ op'.pc = "reload" /\ op'.kind = "blocks" /\ op'.new = new /\ op'.todo = {}
        /\ op' \in [pc : {"ooo", "reload"}, kind : {"head", "ooo", "blocks", "clean"},
                    new : {op.new \union new}, todo : SUBSET Nat, gone : {FALSE}]
    BY <1>1, <2>3, Zenon DEF Idle
  <2>5. SameLoaded
    BY <2>1, Zenon DEF SameLoaded, BInv, TypeInv
  <2>6. block.smp \subseteq StoredIn(disk, DOMAIN disk \ op.new)
    BY <1>1, <1>2, <2>3, StoredInIs
  <2>7. Writes(block, new)
    BY <1>1, <1>2, <2>1, <2>2, <2>3, <2>4, <2>5, <2>6, Zenon DEF Writes
  <2>8. HeadAfter' = head \union ooo
    BY <1>1, <2>4, Zenon DEF HeadAfter, headVars
  <2>9. \A t \in Kept' : t \in head \/ t \in ooo \/ t \in StoredIn(disk', DOMAIN disk')
    BY <1>1, <2>2, StillStored, Zenon
  <2>10. Kept' \subseteq HeadAfter' \union StoredIn(disk', DOMAIN disk' \ op'.todo)
    BY <2>4, <2>8, <2>9, Zenon
  <2>11. Settled'
    BY <2>4, <2>10, Zenon DEF Settled
  <2> QED
    BY <1>2, <2>7, <2>11, WriteStep, WriteDeleted, Zenon
<1> QED
  BY <1>3, <1>4, Zenon

LEMMA CompactFailsStep ==
  ASSUME BInv, Planned, compactFails
  PROVE  BInv' /\ (DeletedInv => DeletedInv')
<1>1. /\ op'.pc = "idle" /\ op'.kind = "tick"
      /\ op' \in [pc : {"idle", "reload"}, kind : {"tick", "blocks"}, new : {{}}, todo : {{}}, gone : {FALSE}]
  <2>1. op' = Idle
    BY Zenon DEF compactFails
  <2> QED
    BY <2>1, Zenon DEF Idle
<1> QED
  <2>1. /\ Plan \in SUBSET DOMAIN disk /\ op.pc \in {"idle", "blocks"}
        /\ disk' = Flag(disk, Plan, "failed") /\ loaded' = Flag(loaded, Plan, "failed")
        /\ UNCHANGED <<headVars, held, accepted, deleted, newest>>
    BY Zenon DEF compactFails, Planned
  <2> QED
    BY <1>1, <2>1, FlagStep, Zenon

LEMMA CleanTombstonesStep ==
  ASSUME BInv, Extrema, CleanTombstones
  PROVE  BInv' /\ (DeletedInv => DeletedInv')
<1>1. PICK pb \in DOMAIN loaded :
        LET block == NewBlock(loaded[pb].mint, loaded[pb].maxt, {pb}, loaded[pb].ooo, Live(loaded[pb]))
        IN  /\ op.pc = "idle" /\ FreshIds # {} /\ loaded[pb].tomb # {}
            /\ disk' = Written(block) /\ loaded' = Flag(loaded, {pb}, "deletable")
            /\ op' = [Idle EXCEPT !.pc = "reload", !.kind = "clean", !.new = Uids(block)]
            /\ UNCHANGED <<headVars, held, accepted, deleted, newest>>
  BY Zenon DEF CleanTombstones
<1> DEFINE smp   == Live(loaded[pb])
           block == NewBlock(loaded[pb].mint, loaded[pb].maxt, {pb}, loaded[pb].ooo, smp)
           new   == Uids(block)
<1>2. TypeInv /\ loaded[pb] \in Block /\ pb \in Nat /\ smp \in SUBSET Nat
  BY BlocksAssumption, Zenon DEF BInv, TypeInv, Live, Block
<1>3. /\ pb \in DOMAIN disk /\ Live(disk[pb]) = smp /\ disk[pb].mint = loaded[pb].mint
      /\ disk[pb].maxt = loaded[pb].maxt /\ disk[pb].ooo = loaded[pb].ooo
  <2>1. pb \in DOMAIN disk
    BY <1>1, Zenon DEF BInv, SameBlocks
  <2> QED
    BY <2>1, Zenon DEF BInv, SameBlocks, Live
<1>4. op.new = {} /\ \A h \in head : loaded[pb].maxt <= h
  BY <1>1, <1>3, RestFacts, Zenon
<1>5. \A t \in smp : t \in accepted /\ loaded[pb].mint <= t /\ t < loaded[pb].maxt
  BY Zenon DEF BInv, WellFormed, Live
<1>6. loaded[pb].maxt <= hmax /\ \A h \in head : ~(h < loaded[pb].maxt)
  BY <1>2, <1>4 DEF BInv, WellFormed, TypeInv, Block
<1> HIDE DEF smp
<1>7. /\ block \in Block /\ block.mint = loaded[pb].mint /\ block.maxt = loaded[pb].maxt /\ block.parents = {pb}
      /\ block.ooo = loaded[pb].ooo /\ block.smp = smp /\ block.tomb = {} /\ block.deletable = FALSE
  BY <1>2, Zenon DEF NewBlock, Block
<1>8. /\ disk' = Written(block) /\ loaded' = Flag(loaded, {pb}, "deletable")
      /\ op' = [Idle EXCEPT !.pc = "reload", !.kind = "clean", !.new = new]
  BY <1>1, Zenon DEF smp
<1> HIDE DEF block
<1>9. GoodBlock(block)
  BY <1>3, <1>4, <1>5, <1>6, <1>7, Zenon DEF GoodBlock
<1>10. /\ disk' \in [DOMAIN disk' -> Block] /\ DOMAIN disk' = DOMAIN disk \union new
       /\ \A b \in DOMAIN disk : disk'[b] = disk[b]
       /\ new \in SUBSET FreshIds /\ (smp # {} => \E n : n \in new)
       /\ \A n \in new : disk'[n] = block /\ block.smp # {}
  <2>1. FreshIds # {}
    BY <1>1, Zenon
  <2> QED
    BY <1>2, <1>7, <1>8, <2>1, WrittenIs, ZenonT(30)
<1> HIDE DEF new
<1>11. /\ op'.pc = "reload" /\ op'.kind = "clean" /\ op'.new = new /\ op'.todo = {}
       /\ op' \in [pc : {"ooo", "reload"}, kind : {"head", "ooo", "blocks", "clean"},
                   new : {op.new \union new}, todo : SUBSET Nat, gone : {FALSE}]
  BY <1>4, <1>8, Zenon DEF Idle
<1>12. SameLoaded /\ \A b \in DOMAIN loaded : loaded'[b].deletable => loaded[b].deletable \/ b = pb
  <2>1. loaded \in [DOMAIN loaded -> Block]
    BY <1>2, Zenon DEF TypeInv
  <2> QED
    BY <1>8, <2>1, Flagged DEF SameLoaded
<1>a. smp \subseteq StoredIn(disk, DOMAIN disk \ op.new)
  BY <1>3, <1>4, Zenon DEF StoredIn
<1>13. Writes(block, new)
  BY <1>1, <1>4, <1>7, <1>10, <1>11, <1>12, <1>a, Zenon DEF Writes
<1>14. HeadAfter' = head \union ooo
  BY <1>1, <1>11, Zenon DEF HeadAfter, headVars
<1>15. \A t \in Kept' : t \in head \/ t \in ooo \/ t \in StoredIn(disk', DOMAIN disk')
  BY <1>1, <1>10, StillStored, Zenon
<1>16. Kept' \subseteq HeadAfter' \union StoredIn(disk', DOMAIN disk' \ op'.todo)
  BY <1>11, <1>14, <1>15, Zenon
<1>17. Settled'
  BY <1>11, <1>16, Zenon DEF Settled
<1> QED
  BY <1>9, <1>13, <1>17, WriteStep, WriteDeleted, Zenon

-----------------------------------------------------------------------------
\* Deletions of samples.

\* What Delete does to the blocks, in memory and on disk alike.
Marks(f, g, has, t) ==
  /\ g \in [DOMAIN f -> Block]
  /\ \A b \in DOMAIN f :
       /\ g[b].smp = f[b].smp /\ g[b].mint = f[b].mint /\ g[b].maxt = f[b].maxt
       /\ g[b].parents = f[b].parents /\ g[b].ooo = f[b].ooo /\ g[b].deletable = f[b].deletable
       /\ b \in has => g[b].tomb = f[b].tomb \union {t}
       /\ b \notin has => g[b].tomb = f[b].tomb

LEMMA MarksIs ==
  ASSUME NEW f, f \in [DOMAIN f -> Block], NEW has, NEW t \in Nat, NEW g,
         g = [b \in DOMAIN f |-> IF b \in has THEN [f[b] EXCEPT !.tomb = @ \union {t}] ELSE f[b]]
  PROVE  Marks(f, g, has, t)
<1>1. ASSUME NEW b \in DOMAIN f
      PROVE  /\ g[b] \in Block
             /\ g[b].smp = f[b].smp /\ g[b].mint = f[b].mint /\ g[b].maxt = f[b].maxt
             /\ g[b].parents = f[b].parents /\ g[b].ooo = f[b].ooo /\ g[b].deletable = f[b].deletable
             /\ b \in has => g[b].tomb = f[b].tomb \union {t}
             /\ b \notin has => g[b].tomb = f[b].tomb
  <2>1. f[b] \in Block
    BY Zenon
  <2>2. CASE b \in has
    <3>1. g[b] = [f[b] EXCEPT !.tomb = @ \union {t}]
      BY <2>2, Zenon
    <3> QED
      BY <2>1, <2>2, <3>1, Zenon DEF Block
  <2>3. CASE b \notin has
    BY <2>1, <2>3, Zenon
  <2> QED
    BY <2>2, <2>3, Zenon
<1>2. g \in [DOMAIN f -> Block]
  BY <1>1, Zenon
<1> QED
  BY <1>1, <1>2, Zenon DEF Marks

\* What a deletion does, and which blocks it reaches.
LEMMA DeleteIs ==
  ASSUME BInv, Extrema, NEW t, Delete(t)
  PROVE  \E has \in SUBSET DOMAIN loaded :
           /\ has \subseteq DOMAIN disk /\ Marks(disk, disk', has, t) /\ Marks(loaded, loaded', has, t)
           /\ \A b \in DOMAIN loaded : t \in loaded[b].smp => b \in has
<1> DEFINE has == {b \in DOMAIN loaded : Min(loaded[b].smp) <= t /\ t <= Max(loaded[b].smp)}
<1>1. /\ has \subseteq DOMAIN disk /\ t \in Nat
      /\ loaded' = [b \in DOMAIN loaded |-> IF b \in has THEN [loaded[b] EXCEPT !.tomb = @ \union {t}] ELSE loaded[b]]
      /\ disk' = [b \in DOMAIN disk |-> IF b \in has THEN [disk[b] EXCEPT !.tomb = @ \union {t}] ELSE disk[b]]
  BY Zenon DEF Delete, BInv, TypeInv
<1>2. \A b \in DOMAIN loaded : t \in loaded[b].smp => b \in has
  <2>1. ASSUME NEW b \in DOMAIN loaded, t \in loaded[b].smp PROVE b \in has
    <3>1. loaded[b].smp \in SUBSET Nat /\ loaded[b].smp \in SUBSET Int /\ hmax \in Int
          /\ \A x \in loaded[b].smp : x <= hmax
      BY DEF BInv, TypeInv, WellFormed, HeadInv
    <3>2. Min(loaded[b].smp) <= t
      BY <2>1, <3>1, Zenon DEF Extrema
    <3>3. t <= Max(loaded[b].smp)
      BY <2>1, <3>1, Zenon DEF Extrema
    <3> QED
      BY <3>2, <3>3, Zenon
  <2> QED
    BY <2>1, Zenon
<1>3. disk \in [DOMAIN disk -> Block] /\ loaded \in [DOMAIN loaded -> Block] /\ has \in SUBSET DOMAIN loaded
  BY Zenon DEF BInv, TypeInv
<1> HIDE DEF has
<1>4. Marks(disk, disk', has, t)
  BY <1>1, <1>3, MarksIs, Zenon
<1>5. Marks(loaded, loaded', has, t)
  BY <1>1, <1>3, MarksIs, Zenon
<1> QED
  BY <1>1, <1>2, <1>3, <1>4, <1>5, Zenon

LEMMA DeleteStep ==
  ASSUME BInv, Extrema, NEW t, Delete(t)
  PROVE  BInv'
<1>1. /\ op.pc = "idle" /\ t \in accepted /\ t \notin head /\ t \notin ooo
      /\ head' = head /\ hmin' = hmin /\ hmax' = hmax /\ ooo' = ooo /\ held' = held /\ op' = op
      /\ accepted' = accepted /\ deleted' = deleted \union {t} /\ newest' = newest
  BY Zenon DEF Delete, headVars
<1>2. PICK has \in SUBSET DOMAIN loaded :
        has \subseteq DOMAIN disk /\ Marks(disk, disk', has, t) /\ Marks(loaded, loaded', has, t)
  BY DeleteIs, Zenon
<1>3. /\ disk' \in [DOMAIN disk -> Block] /\ DOMAIN disk' = DOMAIN disk
      /\ loaded' \in [DOMAIN loaded -> Block] /\ DOMAIN loaded' = DOMAIN loaded
  BY <1>2, Zenon DEF Marks
<1>4. \A b \in DOMAIN disk :
        /\ disk'[b].smp = disk[b].smp /\ disk'[b].mint = disk[b].mint /\ disk'[b].maxt = disk[b].maxt
        /\ disk'[b].parents = disk[b].parents /\ disk'[b].ooo = disk[b].ooo /\ disk'[b].deletable = disk[b].deletable
        /\ b \in has => disk'[b].tomb = disk[b].tomb \union {t}
        /\ b \notin has => disk'[b].tomb = disk[b].tomb
  BY <1>2, Zenon DEF Marks
<1>5. \A b \in DOMAIN loaded :
        /\ loaded'[b].smp = loaded[b].smp /\ loaded'[b].mint = loaded[b].mint /\ loaded'[b].maxt = loaded[b].maxt
        /\ loaded'[b].parents = loaded[b].parents /\ loaded'[b].ooo = loaded[b].ooo /\ loaded'[b].deletable = loaded[b].deletable
        /\ b \in has => loaded'[b].tomb = loaded[b].tomb \union {t}
        /\ b \notin has => loaded'[b].tomb = loaded[b].tomb
  BY <1>2, Zenon DEF Marks
<1>6. /\ Merged = {} /\ op.new = {} /\ op.todo = {} /\ op.gone = FALSE /\ op.kind = "tick"
      /\ \A b \in DOMAIN disk : \A h \in head : disk[b].maxt <= h
  BY <1>1, RestFacts, Zenon
<1>7. \A b \in DOMAIN disk : Live(disk'[b]) \subseteq Live(disk[b]) /\ Live(disk[b]) \subseteq Live(disk'[b]) \union {t}
  BY <1>4, Zenon DEF Live
<1>8. \A b \in DOMAIN loaded : Live(loaded[b]) \subseteq Live(loaded'[b]) \union {t}
  BY <1>5, Zenon DEF Live
<1>9. TypeInv'
  BY <1>1, <1>3, Zenon DEF BInv, TypeInv
<1>10. OpInv'
  <2>1. compactable' = compactable
    BY <1>1, Zenon DEF compactable, chunkRange
  <2> QED
    BY <1>1, <1>6, <2>1, Zenon DEF OpInv, Resting
<1>11. HeadInv'
  BY <1>1, Zenon DEF BInv, HeadInv, rangeForTimestamp
<1>12. WellFormed(disk)' /\ WellFormed(loaded)'
  <2>1. WellFormed(disk)'
    BY <1>1, <1>3, <1>4 DEF BInv, WellFormed
  <2>2. WellFormed(loaded)'
    BY <1>1, <1>3, <1>5, Zenon DEF BInv, WellFormed
  <2> QED
    BY <2>1, <2>2, Zenon
<1>13. SameBlocks'
  <2>1. \A b \in DOMAIN loaded \ DOMAIN disk : b \notin has
    BY <1>2, Zenon
  <2>2. \A b \in DOMAIN loaded \ DOMAIN disk : loaded'[b].tomb = {}
    BY <1>5, <2>1, Zenon DEF BInv, SameBlocks
  <2>3. ASSUME NEW b \in DOMAIN loaded \intersect DOMAIN disk
        PROVE  /\ loaded'[b].smp = disk'[b].smp /\ loaded'[b].tomb = disk'[b].tomb
               /\ loaded'[b].mint = disk'[b].mint /\ loaded'[b].maxt = disk'[b].maxt
               /\ loaded'[b].parents = disk'[b].parents /\ loaded'[b].ooo = disk'[b].ooo
    <3>1. /\ loaded[b].smp = disk[b].smp /\ loaded[b].tomb = disk[b].tomb
          /\ loaded[b].mint = disk[b].mint /\ loaded[b].maxt = disk[b].maxt
          /\ loaded[b].parents = disk[b].parents /\ loaded[b].ooo = disk[b].ooo
      BY Zenon DEF BInv, SameBlocks
    <3> QED
      BY <1>4, <1>5, <3>1, ZenonT(30)
  <2> QED
    BY <1>3, <2>2, <2>3, Zenon DEF SameBlocks
<1>14. HeadBlocks'
  <2>1. \A b \in DOMAIN disk : \A h \in head : ~(h < disk[b].maxt)
    BY <1>6 DEF BInv, TypeInv, Block
  <2> QED
    BY <1>1, <1>3, <1>4, <1>6, <2>1, Zenon DEF HeadBlocks
<1>15. Merged' = {}
  BY <1>3, <1>4, <1>6, Zenon DEF Merged
<1>16. ParentInv'
  BY <1>1, <1>6, <1>15, Zenon DEF ParentInv, Merged
<1>17. FlagInv'
  BY <1>1, <1>3, <1>4, <1>5, <1>6, <1>7 DEF BInv, FlagInv
<1>18. NewRedundant' /\ Settled'
  BY <1>1, <1>6, Zenon DEF NewRedundant, Settled
<1>19. \A s \in Kept' : s \in Kept /\ s # t
  BY <1>1, Zenon DEF Kept
<1>20. SamplesDurable'
  BY <1>1, <1>3, <1>7, <1>19 DEF BInv, SamplesDurable, Stored
<1>21. SamplesVisible'
  BY <1>1, <1>3, <1>8, <1>19 DEF BInv, SamplesVisible, Stored
<1> QED
  BY <1>9, <1>10, <1>11, <1>12, <1>13, <1>14, <1>16, <1>17, <1>18, <1>20, <1>21, Zenon DEF BInv

-----------------------------------------------------------------------------
\* Reloads.

\* The blocks a reload finds are those on disk.
LEMMA LoadableIs ==
  ASSUME BInv, NEW f, f = [b \in DOMAIN disk |-> IF b \in DOMAIN loaded THEN loaded[b] ELSE disk[b]]
  PROVE  /\ f \in [DOMAIN disk -> Block] /\ DOMAIN f = DOMAIN disk
         /\ \A b \in DOMAIN disk :
              /\ f[b].smp = disk[b].smp /\ f[b].tomb = disk[b].tomb /\ f[b].mint = disk[b].mint
              /\ f[b].maxt = disk[b].maxt /\ f[b].parents = disk[b].parents /\ f[b].ooo = disk[b].ooo
              /\ f[b].deletable => \/ Live(disk[b]) = {}
                                   \/ op.kind = "clean" /\ \E n \in DOMAIN disk : b \in disk[n].parents
              /\ b \notin DOMAIN loaded => f[b] = disk[b]
<1>1. \A b \in DOMAIN disk : disk[b] \in Block
  BY Zenon DEF BInv, TypeInv
<1>2. \A b \in DOMAIN loaded : loaded[b] \in Block
  BY Zenon DEF BInv, TypeInv
<1>3. f \in [DOMAIN disk -> Block] /\ DOMAIN f = DOMAIN disk
  BY <1>1, <1>2, Zenon
<1>4. ASSUME NEW b \in DOMAIN disk
      PROVE  /\ f[b].smp = disk[b].smp /\ f[b].tomb = disk[b].tomb /\ f[b].mint = disk[b].mint
             /\ f[b].maxt = disk[b].maxt /\ f[b].parents = disk[b].parents /\ f[b].ooo = disk[b].ooo
             /\ f[b].deletable => \/ Live(disk[b]) = {}
                                  \/ op.kind = "clean" /\ \E n \in DOMAIN disk : b \in disk[n].parents
             /\ b \notin DOMAIN loaded => f[b] = disk[b]
  <2>1. CASE b \in DOMAIN loaded
    <3>1. f[b] = loaded[b]
      BY <2>1, Zenon
    <3> QED
      BY <2>1, <3>1, Zenon DEF BInv, SameBlocks, FlagInv
  <2>2. CASE b \notin DOMAIN loaded
    <3>1. f[b] = disk[b]
      BY <2>2, Zenon
    <3> QED
      BY <2>2, <3>1, Zenon DEF BInv, FlagInv
  <2> QED
    BY <2>1, <2>2, Zenon
<1> QED
  BY <1>3, <1>4, Zenon

\* What a reload takes out: blocks beyond the retention, blocks with nothing
\* left, and blocks another one has replaced.
Retires(gone) ==
  /\ newest' \in Nat /\ newest <= newest'
  /\ \A n \in DOMAIN disk : disk[n].parents \subseteq gone
  /\ \A b \in gone \intersect DOMAIN disk :
       \/ /\ RetentionDuration # 0 /\ newest' - disk[b].maxt >= RetentionDuration
          /\ \E c \in DOMAIN disk : disk[b].maxt < disk[c].maxt
       \/ Live(disk[b]) = {}
       \/ \E n \in DOMAIN disk : b \in disk[n].parents

LEMMA ReloadIs ==
  ASSUME BInv, Extrema, reloadBlocks
  PROVE  \E gone :
           /\ Retires(gone)
           /\ op' = [op EXCEPT !.pc = "delete", !.todo = gone \intersect DOMAIN disk]
           /\ loaded' \in [DOMAIN disk \ gone -> Block]
           /\ \A b \in DOMAIN disk \ gone :
                /\ loaded'[b].smp = disk[b].smp /\ loaded'[b].tomb = disk[b].tomb
                /\ loaded'[b].mint = disk[b].mint /\ loaded'[b].maxt = disk[b].maxt
                /\ loaded'[b].parents = disk[b].parents /\ loaded'[b].ooo = disk[b].ooo
                /\ loaded'[b].deletable = FALSE
<1>1. PICK f : f = [b \in DOMAIN disk |-> IF b \in DOMAIN loaded THEN loaded[b] ELSE disk[b]]
  BY Zenon
<1>2. PICK gone : gone = deletableBlocks(f) \union Replaced(f)
  BY Zenon
<1>3. /\ loaded' = Restrict(f, DOMAIN f \ gone)
      /\ newest' = Max({newest} \union {f[b].maxt : b \in DOMAIN f})
      /\ op' = [op EXCEPT !.pc = "delete", !.todo = gone \intersect DOMAIN disk]
  BY <1>1, <1>2, Zenon DEF reloadBlocks
<1>4. /\ f \in [DOMAIN disk -> Block] /\ DOMAIN f = DOMAIN disk
      /\ \A b \in DOMAIN disk :
           /\ f[b].smp = disk[b].smp /\ f[b].tomb = disk[b].tomb /\ f[b].mint = disk[b].mint
           /\ f[b].maxt = disk[b].maxt /\ f[b].parents = disk[b].parents /\ f[b].ooo = disk[b].ooo
           /\ f[b].deletable => \/ Live(disk[b]) = {}
                                \/ op.kind = "clean" /\ \E n \in DOMAIN disk : b \in disk[n].parents
  BY <1>1, LoadableIs
<1>5. newest \in Nat /\ hmax \in Int /\ \A b \in DOMAIN disk : disk[b].maxt \in Nat /\ disk[b].maxt <= hmax
  BY Zenon DEF BInv, TypeInv, WellFormed, Block
<1>6. PICK top \in Int : newest <= top /\ hmax <= top
  BY <1>5
<1>7. newest' \in Nat /\ newest <= newest' /\ \A b \in DOMAIN disk : disk[b].maxt <= newest'
  <2> DEFINE S == {newest} \union {f[b].maxt : b \in DOMAIN f}
  <2>1. S \in SUBSET Int /\ S \subseteq Nat /\ newest \in S /\ (\A b \in DOMAIN disk : disk[b].maxt \in S)
        /\ \A x \in S : x <= top
    BY <1>4, <1>5, <1>6
  <2>2. S # {} /\ newest' = Max(S)
    BY <1>3, Zenon
  <2> HIDE DEF S
  <2>3. newest' \in S /\ \A x \in S : x <= newest'
    BY <2>1, <2>2, Zenon DEF Extrema
  <2> QED
    BY <2>1, <2>3, Zenon
<1>8. \A n \in DOMAIN disk : disk[n].parents \subseteq gone
  BY <1>2, <1>4, Zenon DEF Replaced
<1>9. ASSUME NEW b \in gone \intersect DOMAIN disk
      PROVE  \/ /\ RetentionDuration # 0 /\ newest' - disk[b].maxt >= RetentionDuration
                /\ \E c \in DOMAIN disk : disk[b].maxt < disk[c].maxt
             \/ Live(disk[b]) = {}
             \/ \E n \in DOMAIN disk : b \in disk[n].parents
  <2>1. CASE b \in BeyondTimeRetention(f)
    <3> DEFINE S == {f[c].maxt : c \in DOMAIN f}
    <3>1. RetentionDuration # 0 /\ Max(S) - f[b].maxt >= RetentionDuration
      BY <2>1, Zenon DEF BeyondTimeRetention
    <3>2. S \in SUBSET Int /\ S # {} /\ \A x \in S : x <= top
      BY <1>4, <1>5, <1>6
    <3>3. PICK m \in S : m = Max(S)
      BY <1>6, <3>2, Zenon DEF Extrema
    <3>4. PICK c \in DOMAIN disk : m = disk[c].maxt
      BY <1>4
    <3> HIDE DEF S
    <3>5. RetentionDuration \in Nat
      BY BlocksAssumption, Zenon
    <3>6. disk[c].maxt - disk[b].maxt >= RetentionDuration
      BY <1>4, <3>1, <3>3, <3>4, Zenon
    <3>7. disk[c].maxt \in Nat /\ disk[b].maxt \in Nat /\ disk[c].maxt <= newest' /\ newest' \in Nat
      BY <1>5, <1>7, Zenon
    <3> QED
      BY <3>1, <3>5, <3>6, <3>7
  <2>2. CASE f[b].deletable
    BY <1>4, <2>2, Zenon
  <2>3. CASE b \in Replaced(f)
    BY <1>4, <2>3 DEF Replaced
  <2> QED
    BY <1>2, <2>1, <2>2, <2>3, Zenon DEF deletableBlocks
<1>10. Retires(gone)
  BY <1>7, <1>8, <1>9, Zenon DEF Retires
<1>11. /\ loaded' \in [DOMAIN disk \ gone -> Block]
       /\ \A b \in DOMAIN disk \ gone : loaded'[b] = f[b]
  BY <1>3, <1>4, Zenon DEF Restrict
<1>12. \A b \in DOMAIN disk \ gone : f[b].deletable = FALSE
  BY <1>2, <1>4, Zenon DEF deletableBlocks, Block
<1>13. \A b \in DOMAIN disk \ gone :
         /\ loaded'[b].smp = disk[b].smp /\ loaded'[b].tomb = disk[b].tomb
         /\ loaded'[b].mint = disk[b].mint /\ loaded'[b].maxt = disk[b].maxt
         /\ loaded'[b].parents = disk[b].parents /\ loaded'[b].ooo = disk[b].ooo
         /\ loaded'[b].deletable = FALSE
  BY <1>4, <1>11, <1>12
<1> QED
  BY <1>3, <1>10, <1>11, <1>13, Zenon

\* A sample within the retention is in a block that stays, when it is in one
\* that goes.
LEMMA Survives ==
  ASSUME BInv, NEW gone, Retires(gone), NEW b \in DOMAIN disk, NEW s \in Live(disk[b]),
         RetentionDuration = 0 \/ s >= newest' - RetentionDuration, b \in gone
  PROVE  \E n \in DOMAIN disk \ gone : b \in disk[n].parents /\ s \in Live(disk[n])
<1>1. s \in Nat /\ newest' \in Nat /\ RetentionDuration \in Nat
  BY BlocksAssumption, Zenon DEF BInv, TypeInv, WellFormed, Live, Retires
<1>2. ASSUME NEW c \in DOMAIN disk \intersect gone, s \in Live(disk[c])
      PROVE  \E n \in DOMAIN disk : c \in disk[n].parents
  <2>1. s < disk[c].maxt /\ disk[c].maxt \in Nat
    BY <1>2, Zenon DEF BInv, TypeInv, WellFormed, Live, Block
  <2>2. ~(RetentionDuration # 0 /\ newest' - disk[c].maxt >= RetentionDuration)
    BY <1>1, <2>1
  <2>3. Live(disk[c]) # {}
    BY <1>2, Zenon
  <2> QED
    BY <2>2, <2>3, Zenon DEF Retires
<1>3. PICK n \in DOMAIN disk : b \in disk[n].parents
  BY <1>2, Zenon
<1>4. s \in Live(disk[n]) /\ n \in Merged
  BY <1>3, Zenon DEF BInv, ParentInv, Merged
<1>5. n \notin gone
  BY <1>2, <1>4, Zenon DEF BInv, ParentInv
<1> QED
  BY <1>3, <1>4, <1>5, Zenon

\* What is within the retention of the newer block is within that of an older one.
LEMMA LaterCut ==
  ASSUME NEW t \in Nat, NEW n \in Nat, NEW m \in Nat, NEW r \in Nat, n <= m, t >= m - r
  PROVE  t >= n - r
OBVIOUS

LEMMA ReloadBlocksStep ==
  ASSUME BInv, Extrema, reloadBlocks
  PROVE  BInv'
<1>1. /\ op.pc = "reload" /\ head' = head /\ hmin' = hmin /\ hmax' = hmax /\ ooo' = ooo
      /\ disk' = disk /\ held' = held /\ accepted' = accepted /\ deleted' = deleted
  BY Zenon DEF reloadBlocks, headVars
<1>2. PICK gone :
        /\ Retires(gone)
        /\ op' = [op EXCEPT !.pc = "delete", !.todo = gone \intersect DOMAIN disk]
        /\ loaded' \in [DOMAIN disk \ gone -> Block]
        /\ \A b \in DOMAIN disk \ gone :
             /\ loaded'[b].smp = disk[b].smp /\ loaded'[b].tomb = disk[b].tomb
             /\ loaded'[b].mint = disk[b].mint /\ loaded'[b].maxt = disk[b].maxt
             /\ loaded'[b].parents = disk[b].parents /\ loaded'[b].ooo = disk[b].ooo
             /\ loaded'[b].deletable = FALSE
  BY ReloadIs, Zenon
<1>3. /\ op'.pc = "delete" /\ op'.kind = op.kind /\ op'.new = op.new /\ op'.gone = FALSE
      /\ op'.todo = gone \intersect DOMAIN disk
      /\ DOMAIN loaded' = DOMAIN disk \ gone /\ op.todo = {} /\ op.gone = FALSE
  BY <1>1, <1>2, Zenon DEF BInv, TypeInv, OpInv
<1>4. /\ newest' \in Nat /\ newest \in Nat /\ newest <= newest' /\ RetentionDuration \in Nat
      /\ accepted \in SUBSET Nat
  BY <1>2, BlocksAssumption, Zenon DEF Retires, BInv, TypeInv
<1>5. \A t \in Kept' : t \in Kept /\ (RetentionDuration = 0 \/ t >= newest' - RetentionDuration)
  <2>1. SUFFICES ASSUME NEW t \in Kept'
                 PROVE  t \in Kept /\ (RetentionDuration = 0 \/ t >= newest' - RetentionDuration)
    BY Zenon
  <2>2. /\ t \in accepted \ deleted
        /\ RetentionDuration = 0 \/ t >= newest' - RetentionDuration
    BY <1>1, <2>1, Zenon DEF Kept
  <2>3. t \in Nat
    BY <1>4, <2>2, Zenon
  <2>4. RetentionDuration = 0 \/ t >= newest - RetentionDuration
    BY <1>4, <2>2, <2>3, LaterCut, Zenon
  <2> QED
    BY <2>2, <2>4, Zenon DEF Kept
<1>6. \A t \in Kept' : \A b \in DOMAIN disk : t \in Live(disk[b]) =>
        \E n \in DOMAIN disk \ gone : t \in Live(disk[n])
  BY <1>2, <1>5, Survives, Zenon
<1>7. TypeInv'
  <2>1. op' \in [pc : Resting \union {"ooo", "reload", "delete"}, kind : Kinds,
                 new : SUBSET Ids, todo : SUBSET Nat, gone : BOOLEAN]
    <3>1. gone \intersect DOMAIN disk \in SUBSET Nat
      BY BlocksAssumption, Zenon DEF BInv, TypeInv
    <3>2. op \in [pc : Resting \union {"ooo", "reload", "delete"}, kind : Kinds,
                  new : SUBSET Ids, todo : SUBSET Nat, gone : BOOLEAN]
      BY Zenon DEF BInv, TypeInv
    <3>3. op' = [op EXCEPT !.pc = "delete", !.todo = gone \intersect DOMAIN disk]
      BY <1>2, Zenon
    <3> QED
      BY <3>1, <3>2, <3>3, Zenon
  <2>2. DOMAIN loaded' \subseteq Ids /\ loaded' \in [DOMAIN loaded' -> Block]
    BY <1>2, <1>3, Zenon DEF BInv, TypeInv
  <2> QED
    BY <1>1, <1>4, <2>1, <2>2, Zenon DEF BInv, TypeInv
<1>8. OpInv'
  <2>1. compactable' = compactable
    BY <1>1, Zenon DEF compactable, chunkRange
  <2> QED
    BY <1>1, <1>3, <2>1, Zenon DEF BInv, OpInv, Resting
<1>9. HeadInv'
  BY <1>1, Zenon DEF BInv, HeadInv, rangeForTimestamp
<1>10. WellFormed(disk)' /\ WellFormed(loaded)'
  <2>1. WellFormed(disk)'
    BY <1>1, Zenon DEF BInv, WellFormed
  <2>2. WellFormed(loaded)'
    BY <1>1, <1>2, <1>3, Zenon DEF BInv, WellFormed
  <2> QED
    BY <2>1, <2>2, Zenon
<1>11. SameBlocks'
  BY <1>1, <1>2, <1>3, Zenon DEF SameBlocks
<1>12. HeadBlocks'
  BY <1>1, <1>3, Zenon DEF BInv, HeadBlocks, Live, rangeForTimestamp
<1>13. ParentInv'
  <2>1. Merged' = Merged /\ \A b \in DOMAIN disk : Live(disk'[b]) = Live(disk[b])
    BY <1>1, Zenon DEF Merged
  <2>2. \A n \in DOMAIN disk : disk[n].parents \intersect DOMAIN disk \subseteq op'.todo
    BY <1>2, <1>3, Zenon DEF Retires
  <2> QED
    BY <1>1, <1>3, <2>1, <2>2, Zenon DEF BInv, ParentInv
<1>14. FlagInv'
  BY <1>1, <1>2, <1>3, ZenonT(30) DEF BInv, FlagInv, Live
<1>15. NewRedundant'
  BY <1>1, <1>3 DEF BInv, NewRedundant, StoredIn, Live
<1>16. HeadAfter' = HeadAfter
  BY <1>1, <1>3, Zenon DEF HeadAfter, rangeForTimestamp
<1>17. Kept' \subseteq HeadAfter' \union StoredIn(disk', DOMAIN disk' \ op'.todo)
  <2>1. Kept \subseteq HeadAfter \union StoredIn(disk, DOMAIN disk)
    BY <1>1, <1>3, Zenon DEF BInv, Settled
  <2>2. \A t \in Kept' : t \in StoredIn(disk, DOMAIN disk) => t \in StoredIn(disk, DOMAIN disk \ gone)
    BY <1>6, Zenon DEF StoredIn
  <2>3. DOMAIN disk' \ op'.todo = DOMAIN disk \ gone
    BY <1>1, <1>3, Zenon
  <2> QED
    BY <1>1, <1>5, <1>16, <2>1, <2>2, <2>3, Zenon
<1>18. ASSUME op.kind = "head", NEW h \in head, h < rangeForTimestamp(hmin)
       PROVE  \E n \in (op.new \intersect DOMAIN disk) \ gone : h \in Live(disk[n])
  <2>1. PICK n \in op.new \intersect DOMAIN disk : h \in Live(disk[n])
    BY <1>3, <1>18, Zenon DEF BInv, Settled
  <2>2. h < disk[n].maxt
    BY <2>1, Zenon DEF BInv, WellFormed, Live
  <2>3. \A c \in DOMAIN disk : disk[c].maxt <= h \/ disk[c].maxt = disk[n].maxt
    BY <1>1, <1>18, <2>1, Zenon DEF BInv, HeadBlocks
  <2>4. \A c \in DOMAIN disk : disk[c].maxt \in Nat /\ h \in Nat
    BY Zenon DEF BInv, TypeInv, Block
  <2>5. ~ \E c \in DOMAIN disk : disk[n].maxt < disk[c].maxt
    BY <2>2, <2>3, <2>4
  <2>6. ~ \E m \in DOMAIN disk : n \in disk[m].parents
    BY <1>1, Zenon DEF BInv, ParentInv
  <2>7. n \notin gone
    BY <1>2, <2>1, <2>5, <2>6, Zenon DEF Retires
  <2> QED
    BY <2>1, <2>7, Zenon
<1>19. Settled'
  <2>1. rangeForTimestamp(hmin)' = rangeForTimestamp(hmin)
    BY <1>1, Zenon DEF rangeForTimestamp
  <2>2. op'.kind = "head" => \A h \in head : h < rangeForTimestamp(hmin) =>
          \E n \in (op'.new \intersect DOMAIN disk) \ op'.todo : h \in Live(disk[n])
    BY <1>3, <1>18, Zenon
  <2> QED
    BY <1>1, <1>3, <1>17, <2>1, <2>2, Zenon DEF Settled
<1>20. SamplesDurable'
  BY <1>1, <1>5, Zenon DEF BInv, SamplesDurable
<1>21. SamplesVisible'
  <2>1. \A b \in DOMAIN disk \ gone : Live(loaded'[b]) = Live(disk[b])
    BY <1>2, Zenon DEF Live
  <2>2. \A t \in Kept' : t \in head \/ t \in ooo \/ \E b \in DOMAIN disk : t \in Live(disk[b])
    BY <1>5, Zenon DEF BInv, SamplesDurable, Stored
  <2>3. \A t \in Kept' : t \in head \/ t \in ooo \/ \E b \in DOMAIN loaded' : t \in Live(loaded'[b])
    BY <1>3, <1>6, <2>1, <2>2, Zenon
  <2> QED
    BY <1>1, <2>3, Zenon DEF SamplesVisible, Stored
<1> QED
  BY <1>7, <1>8, <1>9, <1>10, <1>11, <1>12, <1>13, <1>14, <1>15, <1>19, <1>20, <1>21, ZenonT(30) DEF BInv

\* What is left of the blocks when some are taken away.
LEMMA RestrictIs ==
  ASSUME BInv, NEW S, S \subseteq DOMAIN disk, disk' = Restrict(disk, S)
  PROVE  /\ disk' \in [DOMAIN disk' -> Block] /\ DOMAIN disk' = S
         /\ \A b \in S : disk'[b] = disk[b] /\ Live(disk'[b]) = Live(disk[b])
BY Zenon DEF Restrict, BInv, TypeInv, Live

LEMMA SameFrom ==
  ASSUME SameBlocks,
         \A b \in DOMAIN loaded' \intersect DOMAIN disk' :
           b \in DOMAIN loaded \intersect DOMAIN disk /\ loaded'[b] = loaded[b] /\ disk'[b] = disk[b],
         \A b \in DOMAIN loaded' \ DOMAIN disk' : loaded'[b].tomb = {}
  PROVE  SameBlocks'
<1>1. ASSUME NEW b \in DOMAIN loaded' \intersect DOMAIN disk'
      PROVE  /\ loaded'[b].smp = disk'[b].smp /\ loaded'[b].tomb = disk'[b].tomb
             /\ loaded'[b].mint = disk'[b].mint /\ loaded'[b].maxt = disk'[b].maxt
             /\ loaded'[b].parents = disk'[b].parents /\ loaded'[b].ooo = disk'[b].ooo
  <2>1. /\ loaded[b].smp = disk[b].smp /\ loaded[b].tomb = disk[b].tomb
        /\ loaded[b].mint = disk[b].mint /\ loaded[b].maxt = disk[b].maxt
        /\ loaded[b].parents = disk[b].parents /\ loaded[b].ooo = disk[b].ooo
    BY Zenon DEF SameBlocks
  <2> QED
    BY <2>1, Zenon
<1> QED
  BY <1>1, Zenon DEF SameBlocks

LEMMA DeleteBlocksStep ==
  ASSUME BInv, NEW b, deleteBlocks(b)
  PROVE  BInv'
<1>1. /\ op.pc = "delete" /\ b \in op.todo /\ head' = head /\ hmin' = hmin /\ hmax' = hmax /\ ooo' = ooo
      /\ loaded' = loaded /\ held' = held /\ accepted' = accepted /\ deleted' = deleted /\ newest' = newest
      /\ disk' = Restrict(disk, DOMAIN disk \ {b}) /\ op' = [op EXCEPT !.todo = @ \ {b}, !.gone = TRUE]
  BY Zenon DEF deleteBlocks, headVars
<1>2. op.todo \subseteq DOMAIN disk /\ DOMAIN loaded = DOMAIN disk \ op.todo
  BY <1>1, Zenon DEF BInv, OpInv
<1>3. /\ disk' \in [DOMAIN disk' -> Block] /\ DOMAIN disk' = DOMAIN disk \ {b}
      /\ \A c \in DOMAIN disk' : disk'[c] = disk[c] /\ Live(disk'[c]) = Live(disk[c])
  BY <1>1, RestrictIs, Zenon
<1>4. op'.pc = op.pc /\ op'.kind = op.kind /\ op'.new = op.new /\ op'.todo = op.todo \ {b} /\ op'.gone = TRUE
  BY <1>1, Zenon DEF BInv, TypeInv
<1>5. TypeInv'
  <2>1. op' \in [pc : Resting \union {"ooo", "reload", "delete"}, kind : Kinds,
                 new : SUBSET Ids, todo : SUBSET Nat, gone : BOOLEAN]
    BY <1>1, Zenon DEF BInv, TypeInv
  <2>2. DOMAIN disk' \subseteq Ids
    BY <1>3, Zenon DEF BInv, TypeInv
  <2> QED
    BY <1>1, <1>3, <2>1, <2>2, Zenon DEF BInv, TypeInv
<1>6. OpInv'
  <2>1. compactable' = compactable
    BY <1>1, Zenon DEF compactable, chunkRange
  <2> QED
    BY <1>1, <1>2, <1>3, <1>4, <2>1 DEF BInv, OpInv, Resting
<1>7. HeadInv'
  BY <1>1, Zenon DEF BInv, HeadInv, rangeForTimestamp
<1>8. WellFormed(disk)' /\ WellFormed(loaded)'
  <2>1. WellFormed(disk)'
    BY <1>1, <1>3, Zenon DEF BInv, WellFormed
  <2>2. WellFormed(loaded)'
    BY <1>1, Zenon DEF BInv, WellFormed
  <2> QED
    BY <2>1, <2>2, Zenon
<1>9. SameBlocks'
  <2>1. \A c \in DOMAIN loaded : c \in DOMAIN disk /\ c \in DOMAIN disk' /\ disk'[c] = disk[c]
    BY <1>1, <1>2, <1>3, Zenon
  <2> QED
    BY <1>1, <2>1, SameFrom, Zenon DEF BInv
<1>10. HeadBlocks'
  BY <1>1, <1>3, <1>4, ZenonT(30) DEF BInv, HeadBlocks, rangeForTimestamp
<1>11. ParentInv'
  <2>1. Merged' \subseteq Merged
    BY <1>3, Zenon DEF Merged
  <2>2. \A n \in DOMAIN disk' : disk'[n].parents \intersect DOMAIN disk' \subseteq op'.todo
    BY <1>1, <1>3, <1>4, Zenon DEF BInv, ParentInv
  <2> QED
    BY <1>1, <1>3, <1>4, <2>1, <2>2, ZenonT(30) DEF BInv, ParentInv
<1>12. FlagInv'
  <2>1. \A c \in DOMAIN loaded : ~ \E n \in DOMAIN disk : c \in disk[n].parents
    BY <1>1, <1>2, Zenon DEF BInv, ParentInv
  <2> QED
    BY <1>1, <1>3, <2>1, Zenon DEF BInv, FlagInv
<1>13. NewRedundant'
  BY <1>3, <1>4, Zenon DEF BInv, NewRedundant
<1>14. Kept' = Kept /\ HeadAfter' = HeadAfter
  BY <1>1, <1>4, Zenon DEF Kept, HeadAfter, rangeForTimestamp
<1>15. StoredIn(disk', DOMAIN disk' \ op'.todo) = StoredIn(disk, DOMAIN disk \ op.todo)
  <2>1. DOMAIN disk' \ op'.todo = DOMAIN disk \ op.todo
    BY <1>1, <1>3, <1>4, Zenon
  <2> QED
    BY <1>3, <2>1, Zenon DEF StoredIn
<1>16. Kept \subseteq HeadAfter \union StoredIn(disk, DOMAIN disk \ op.todo)
  BY <1>1, Zenon DEF BInv, Settled
<1>17. Settled'
  <2>1. rangeForTimestamp(hmin)' = rangeForTimestamp(hmin)
    BY <1>1, Zenon DEF rangeForTimestamp
  <2>2. op.kind = "head" => \A h \in head : h < rangeForTimestamp(hmin) =>
          \E n \in (op'.new \intersect DOMAIN disk') \ op'.todo : h \in Live(disk'[n])
    BY <1>1, <1>3, <1>4, Zenon DEF BInv, Settled
  <2> QED
    BY <1>1, <1>4, <1>14, <1>15, <1>16, <2>1, <2>2, Zenon DEF Settled
<1>18. SamplesDurable'
  <2>1. \A t \in HeadAfter : t \in head \/ t \in ooo
    BY Zenon DEF HeadAfter
  <2>2. \A t \in StoredIn(disk', DOMAIN disk' \ op'.todo) : t \in Stored(disk')
    BY StoredIs, StoredInIs
  <2> QED
    BY <1>1, <1>14, <1>15, <1>16, <2>1, <2>2, ZenonT(30) DEF SamplesDurable
<1>19. SamplesVisible'
  BY <1>1, <1>4, <1>14 DEF BInv, SamplesVisible, Stored, Live
<1> QED
  BY <1>5, <1>6, <1>7, <1>8, <1>9, <1>10, <1>11, <1>12, <1>13, <1>17, <1>18, <1>19, Zenon DEF BInv
=============================================================================
