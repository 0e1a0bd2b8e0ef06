------------------------------- MODULE Blocks -------------------------------
(***************************************************************************)
(* The life of the blocks of a database (tsdb/db.go, compact.go, block.go):*)
(* DB.Compact writes blocks from the head and its out-of-order samples and *)
(* merges blocks, CleanTombstones rewrites them, and after each of these,  *)
(* once a minute and on start, reloadBlocks loads what it finds on disk,   *)
(* unloads what is replaced or too old and deletes it.  Directories are    *)
(* renamed into place, so a crash leaves a block or none; a crash may come *)
(* between any two steps.                                                  *)
(*                                                                         *)
(* There is one series.  A sample is its timestamp.  Samples in the head   *)
(* are in the WAL, or the WBL when out of order, and survive a crash.      *)
(* db.cmtx serializes the operations; queries run beside them.  Appends    *)
(* are taken between operations: module HeadCompaction interleaves them.   *)
(***************************************************************************)
EXTENDS Integers, Sequences, FiniteSetsExt

CONSTANTS ranges,             \* LeveledCompactor.ranges, the first chunkRange
          RetentionDuration,  \* 0 when there is none
          Times,              \* timestamps
          MaxOOO,             \* bound on out-of-order samples
          MaxDeletes,         \* bound on the timestamps deleted
          MaxFaults,          \* bound on crashes and failures
          Ids,                \* ULIDs; as many as there are bound the blocks
          Readers,            \* queries
          FailingReloads,     \* the operations whose reload may fail
          PartialDeletes,     \* may deleteBlocks fail after a block is gone?
          OOOInHeadRange      \* are there late samples in ranges still in the head?

ASSUME BlocksAssumption ==
  /\ ranges \in Seq(Nat \ {0}) /\ ranges # <<>>
  /\ \A k \in 2..Len(ranges) : ranges[k] % ranges[k - 1] = 0
  /\ Ids \subseteq Nat
  /\ Times \subseteq Nat
  /\ {RetentionDuration, MaxOOO, MaxDeletes, MaxFaults} \subseteq Nat
  /\ PartialDeletes \in BOOLEAN /\ OOOInHeadRange \in BOOLEAN

VARIABLES
  head,      \* the in-order samples of the head
  hmin,      \* Head.minTime
  hmax,      \* Head.maxTime
  ooo,       \* the out-of-order samples of the head
  disk,      \* the block directories: their meta files, samples and tombstones
  loaded,    \* db.blocks: the same of the blocks in memory
  op,        \* the operation that holds db.cmtx
  held,      \* the blocks each query reads
  faults,    \* how many crashes and failures there were
  accepted,  \* all samples appended
  late,      \* those out of order
  deleted,   \* the samples a successful Delete covered
  newest     \* the latest MaxTime of all blocks retention was applied to

headVars == <<head, hmin, hmax, ooo>>
blocksVars == <<headVars, disk, loaded, op, held, faults, accepted, late, deleted, newest>>

Idle == [pc |-> "idle", kind |-> "tick", new |-> {}, todo |-> {}, gone |-> FALSE]
NoBlocks == [b \in {} |-> {}]

BlocksInit ==
  /\ head = {} /\ hmin = 0 /\ hmax = -1 /\ ooo = {}
  /\ disk = NoBlocks /\ loaded = NoBlocks
  /\ op = Idle
  /\ held = [r \in Readers |-> {}]
  /\ faults = 0 /\ accepted = {} /\ late = {} /\ deleted = {} /\ newest = 0
-----------------------------------------------------------------------------
chunkRange == ranges[1]
rangeForTimestamp(t) == (t \div chunkRange) * chunkRange + chunkRange
compactable == hmax - hmin > (chunkRange \div 2) * 3

Live(block) == block.smp \ block.tomb
Stored(f) == UNION {Live(f[b]) : b \in DOMAIN f}

\* The ULIDs that no block and no list of parents has.
FreshIds ==
  {id \in Ids \ (DOMAIN disk \union DOMAIN loaded \union op.new) :
     /\ \A r \in Readers : id \notin held[r]
     /\ \A b \in DOMAIN disk : id \notin disk[b].parents
     /\ \A b \in DOMAIN loaded : id \notin loaded[b].parents}
NewId == Min(FreshIds)

NewBlock(mint, maxt, parents, fromOOO, smp) ==
  [mint |-> mint, maxt |-> maxt, parents |-> parents, ooo |-> fromOOO, failed |-> FALSE,
   deletable |-> FALSE, smp |-> smp, tomb |-> {}]

\* LeveledCompactor.write: a block without samples leaves no directory.
Written(block) ==
  IF block.smp = {} THEN disk
  ELSE [b \in DOMAIN disk \union {NewId} |-> IF b = NewId THEN block ELSE disk[b]]
Uids(block) == IF block.smp = {} THEN {} ELSE {NewId}

\* The metas in the order of their MinTime.
Before(f, a, b) == f[a].mint < f[b].mint \/ (f[a].mint = f[b].mint /\ a < b)
ByMinTime(f) ==
  [i \in 1..Cardinality(DOMAIN f) |->
     CHOOSE b \in DOMAIN f : Cardinality({a \in DOMAIN f : Before(f, a, b)}) = i - 1]
-----------------------------------------------------------------------------
\* Mutant: blocks whose compaction failed are left alone.
selectOverlappingDirsNotFailed(ds) ==
  LET overlaps(i) == /\ \E k \in 1..(i - 1) : disk[ds[i]].mint < disk[ds[k]].maxt
                     /\ ~disk[ds[i]].failed
  IN  UNION {{ds[i - 1], ds[i]} : i \in {k \in 2..Len(ds) : overlaps(k)}}

\* The first run of blocks that begin before the end of a block before them,
\* with the block before the run.
selectOverlappingDirs(ds) ==
  LET overlaps(i) == \E k \in 1..(i - 1) : disk[ds[i]].mint < disk[ds[k]].maxt
      inFirst(i)  == overlaps(i) /\ \A j \in 2..i : overlaps(j) => \A k \in j..i : overlaps(k)
  IN  UNION {{ds[i - 1], ds[i]} : i \in {k \in 2..Len(ds) : inFirst(k)}}

\* Does a block fit the aligned range of size tr it begins in?
Fits(b, tr) == disk[b].maxt <= tr * (disk[b].mint \div tr) + tr

\* Mutant: any neighbours that fit a range of the size.
splitByRangeUnaligned(ds, tr) ==
  {p \in (DOMAIN ds) \X (DOMAIN ds) : \A i \in p[1]..p[2] : Fits(ds[i], tr)}

\* The first and last positions of the longest runs of blocks that fit the
\* same aligned range.
splitByRange(ds, tr) ==
  LET joined(i) == /\ Fits(ds[i], tr) /\ Fits(ds[i + 1], tr)
                   /\ disk[ds[i]].mint \div tr = disk[ds[i + 1]].mint \div tr
  IN  {p \in (DOMAIN ds) \X (DOMAIN ds) :
         /\ p[1] <= p[2] /\ Fits(ds[p[1]], tr)
         /\ \A i \in p[1]..(p[2] - 1) : joined(i)
         /\ p[1] = 1 \/ ~joined(p[1] - 1)
         /\ p[2] = Len(ds) \/ ~joined(p[2])}

\* The first group, of the smallest range, that is full or that no block will
\* be added to.  Groups with a block whose compaction failed are left alone.
selectDirs(ds) ==
  LET eligible(p, iv) ==
        /\ p[1] < p[2]
        /\ \A i \in p[1]..p[2] : ~disk[ds[i]].failed
        /\ \/ disk[ds[p[2]]].maxt - disk[ds[p[1]]].mint = iv
           \/ disk[ds[p[2]]].maxt <= disk[ds[Len(ds)]].mint
      found(iv) == {p \in splitByRange(ds, iv) : eligible(p, iv)}
      first(k)  == /\ \A l \in 2..(k - 1) : found(ranges[l]) = {}
                   /\ found(ranges[k]) # {}
  IN  UNION {LET p == CHOOSE p \in found(ranges[k]) : \A q \in found(ranges[k]) : p[1] <= q[1]
             IN  {ds[i] : i \in p[1]..p[2]} : k \in {l \in 2..Len(ranges) : first(l)}}

\* Stats.NumTombstones: the intervals deleted from the one series.
NumTombstones(block) == Cardinality({t \in block.tomb : t + 1 \notin block.tomb})

\* From the newest on: a small block with a tombstone, or a large one.  The
\* search ends at the first small block.
selectTombstones(ds) ==
  LET small(i) == disk[ds[i]].maxt - disk[ds[i]].mint < ranges[Len(ranges) \div 2 + 1]
      hit(i)   == /\ NumTombstones(disk[ds[i]]) > 0
                  /\ \A k \in (i + 1)..Len(ds) : ~small(k)
      hits     == {i \in DOMAIN ds : hit(i)}
  IN  IF hits = {} THEN {} ELSE {ds[Max(hits)]}

plan(ds) ==
  LET older == SubSeq(ds, 1, Len(ds) - 1)
      S1    == selectOverlappingDirs(ds)
      S2    == selectDirs(older)
  IN  IF S1 # {} THEN S1 ELSE IF S2 # {} THEN S2 ELSE selectTombstones(older)

\* LeveledCompactor.Plan, from the meta files; {} when there is nothing to do.
Plan == UNION {plan(ds) : ds \in {ByMinTime(disk)} \ {<<>>}}
-----------------------------------------------------------------------------
\* Samples of one series in order, and late ones.
append(t) ==
  /\ op.pc = "idle"
  /\ t \in Times /\ t > hmax
  /\ head' = head \union {t}
  /\ hmin' = IF hmax = -1 THEN t ELSE hmin
  /\ hmax' = t
  /\ accepted' = accepted \union {t}
  /\ UNCHANGED <<ooo, disk, loaded, op, held, faults, late, deleted, newest>>

insert(t) ==
  /\ op.pc = "idle"
  /\ t < hmax /\ t \notin accepted
  /\ OOOInHeadRange \/ rangeForTimestamp(t) <= hmin
  /\ Cardinality(late) < MaxOOO
  /\ late' = late \union {t}
  /\ ooo' = ooo \union {t}
  /\ accepted' = accepted \union {t}
  /\ UNCHANGED <<head, hmin, hmax, disk, loaded, op, held, faults, deleted, newest>>
-----------------------------------------------------------------------------
\* Head.truncateMemory: what is below mint leaves the head, and minTime is
\* raised to the oldest sample, at most to the window for appends.
TruncateHead(mint) ==
  LET left  == {t \in head : t >= mint}
      valid == Max({mint, hmax - chunkRange \div 2})
  IN  /\ head' = left
      /\ hmin' = IF left # {} /\ Min(left) < valid THEN Min(left) ELSE valid
      /\ UNCHANGED <<hmax, ooo>>

\* Mutant: the head is truncated before the block is loaded.
compactHeadTruncating ==
  LET maxt  == rangeForTimestamp(hmin)
      block == NewBlock(hmin, maxt, {}, FALSE, {t \in head : hmin <= t /\ t < maxt})
  IN  /\ op.pc \in {"idle", "heads"}
      /\ compactable /\ FreshIds # {}
      /\ disk' = Written(block)
      /\ op' = [Idle EXCEPT !.pc = "reload", !.kind = "ooo", !.new = Uids(block)]
      /\ TruncateHead(maxt)
      /\ UNCHANGED <<loaded, held, faults, accepted, late, deleted, newest>>

\* DB.compactHead: the block of the oldest range of the head is in place.
compactHead ==
  LET maxt  == rangeForTimestamp(hmin)
      block == NewBlock(hmin, maxt, {}, FALSE, {t \in head : hmin <= t /\ t < maxt})
  IN  /\ op.pc \in {"idle", "heads"}
      /\ compactable /\ FreshIds # {}
      /\ disk' = Written(block)
      /\ op' = [Idle EXCEPT !.pc = "reload", !.kind = "head", !.new = Uids(block)]
      /\ UNCHANGED <<headVars, loaded, held, faults, accepted, late, deleted, newest>>

\* Once the head is no longer compactable, DB.Compact turns to the late
\* samples, range by range.
compactOOOHead ==
  /\ op.pc = "heads" /\ ~compactable
  /\ op' = IF ooo = {} THEN [Idle EXCEPT !.pc = "blocks"]
           ELSE [Idle EXCEPT !.pc = "ooo", !.kind = "ooo",
                             !.todo = {chunkRange * (t \div chunkRange) : t \in ooo}]
  /\ UNCHANGED <<headVars, disk, loaded, held, faults, accepted, late, deleted, newest>>

compactOOO ==
  LET mint  == Min(op.todo)
      maxt  == mint + chunkRange
      block == NewBlock(mint, maxt, {}, TRUE, {t \in ooo : mint <= t /\ t < maxt})
      left  == op.todo \ {mint}
  IN  /\ op.pc = "ooo" /\ FreshIds # {}
      /\ disk' = Written(block)
      /\ op' = [op EXCEPT !.pc = IF left = {} THEN "reload" ELSE "ooo", !.todo = left,
                          !.new = @ \union Uids(block)]
      /\ UNCHANGED <<headVars, loaded, held, faults, accepted, late, deleted, newest>>

\* Mutant: the tombstones are left to the readers of the new block.
CompactedUndeleted(dirs) ==
  LET reader(b) == IF b \in DOMAIN loaded THEN loaded[b] ELSE disk[b]
  IN  NewBlock(Min({disk[b].mint : b \in dirs}), Max({disk[b].maxt : b \in dirs}), dirs, FALSE,
               UNION {reader(b).smp : b \in dirs})

\* CompactBlockMetas and the samples of the merged block: of open blocks when
\* there are.
Compacted(dirs) ==
  LET reader(b) == IF b \in DOMAIN loaded THEN loaded[b] ELSE disk[b]
  IN  NewBlock(Min({disk[b].mint : b \in dirs}), Max({disk[b].maxt : b \in dirs}), dirs, FALSE,
               UNION {Live(reader(b)) : b \in dirs})

\* f with a flag set for some blocks.
Flag(f, dirs, field) ==
  [b \in DOMAIN f |-> IF b \in dirs THEN [f[b] EXCEPT ![field] = TRUE] ELSE f[b]]

\* One round of DB.compactBlocks, up to the reload.  Without samples there is
\* no new block to name the old ones as its parents: they are flagged.
compactBlocks ==
  /\ op.pc \in {"idle", "blocks"}
  /\ ~compactable /\ FreshIds # {}
  /\ \E dirs \in {Plan} \ {{}} : \E block \in {Compacted(dirs)} :
       /\ disk' = IF block.smp = {} THEN Flag(disk, dirs, "deletable") ELSE Written(block)
       /\ loaded' = IF block.smp = {} THEN Flag(loaded, dirs, "deletable") ELSE loaded
       /\ op' = [Idle EXCEPT !.pc = "reload", !.kind = "blocks", !.new = Uids(block)]
  /\ UNCHANGED <<headVars, held, faults, accepted, late, deleted, newest>>

compactBlocksDone ==
  /\ op.pc = "blocks" /\ Plan = {}
  /\ op' = Idle
  /\ UNCHANGED <<headVars, disk, loaded, held, faults, accepted, late, deleted, newest>>

\* Block.CleanTombstones of the first block that has any, up to the reload.
\* The flag that has it deleted is set in memory only.
CleanTombstones ==
  LET marked    == {b \in DOMAIN loaded : loaded[b].tomb # {}}
      block(pb) == NewBlock(loaded[pb].mint, loaded[pb].maxt, {pb}, loaded[pb].ooo, Live(loaded[pb]))
  IN  /\ op.pc = "idle" /\ FreshIds # {}
      /\ \E pb \in marked :
           /\ \A b \in marked \ {pb} : Before(loaded, pb, b)
           /\ disk' = Written(block(pb))
           /\ loaded' = Flag(loaded, {pb}, "deletable")
           /\ op' = [Idle EXCEPT !.pc = "reload", !.kind = "clean", !.new = Uids(block(pb))]
      /\ UNCHANGED <<headVars, held, faults, accepted, late, deleted, newest>>

\* DB.Delete of one timestamp that is in no head: every open block with a
\* chunk over it gets a tombstone, in memory and on disk.
Delete(t) ==
  LET has == {b \in DOMAIN loaded : Min(loaded[b].smp) <= t /\ t <= Max(loaded[b].smp)}
      Mark(f) == [b \in DOMAIN f |-> IF b \in has THEN [f[b] EXCEPT !.tomb = @ \union {t}] ELSE f[b]]
  IN  /\ op.pc = "idle"
      /\ t \in accepted \ (head \union ooo \union deleted)
      /\ Cardinality(deleted) < MaxDeletes
      /\ has # {} /\ has \subseteq DOMAIN disk
      /\ loaded' = Mark(loaded)
      /\ disk' = Mark(disk)
      /\ deleted' = deleted \union {t}
      /\ UNCHANGED <<headVars, op, held, faults, accepted, late, newest>>
-----------------------------------------------------------------------------
\* Mutant: the newest sample of the head counts, not the newest block.
BeyondTimeRetentionOfHead(f) ==
  {b \in DOMAIN f : RetentionDuration # 0 /\ hmax - f[b].maxt >= RetentionDuration}

BeyondTimeRetention(f) ==
  {b \in DOMAIN f : /\ RetentionDuration # 0
                    /\ Max({f[c].maxt : c \in DOMAIN f}) - f[b].maxt >= RetentionDuration}

\* DefaultBlocksToDelete.
deletableBlocks(f) == BeyondTimeRetention(f) \union {b \in DOMAIN f : f[b].deletable}

\* Mutant: the parents are looked for in memory, not in all meta files.
ReplacedInMemory(f) == UNION {loaded[b].parents : b \in DOMAIN loaded}

\* The parents of all blocks that can be loaded.
Replaced(f) == UNION {f[b].parents : b \in DOMAIN f}

\* reloadBlocks up to its deletions: from here on db.mtx keeps queries out.
reloadBlocks ==
  LET loadable == [b \in DOMAIN disk |-> IF b \in DOMAIN loaded THEN loaded[b] ELSE disk[b]]
      gone     == deletableBlocks(loadable) \union Replaced(loadable)
  IN  /\ op.pc = "reload"
      /\ loaded' = Restrict(loadable, DOMAIN loadable \ gone)
      /\ newest' = Max({newest} \union {loadable[b].maxt : b \in DOMAIN loadable})
      /\ op' = [op EXCEPT !.pc = "delete", !.todo = gone \intersect DOMAIN disk]
      /\ UNCHANGED <<headVars, disk, held, faults, accepted, late, deleted>>

\* Mutant: a block is renamed away under its readers.
deleteBlocksNoWait(b) ==
  /\ op.pc = "delete" /\ b \in op.todo
  /\ disk' = Restrict(disk, DOMAIN disk \ {b})
  /\ op' = [op EXCEPT !.todo = @ \ {b}, !.gone = TRUE]
  /\ UNCHANGED <<headVars, loaded, held, faults, accepted, late, deleted, newest>>

\* One turn of deleteBlocks: Block.Close waits for the readers.
deleteBlocks(b) ==
  /\ op.pc = "delete" /\ b \in op.todo
  /\ \A r \in Readers : b \notin held[r]
  /\ disk' = Restrict(disk, DOMAIN disk \ {b})
  /\ op' = [op EXCEPT !.todo = @ \ {b}, !.gone = TRUE]
  /\ UNCHANGED <<headVars, loaded, held, faults, accepted, late, deleted, newest>>

\* The blocks that count for the time up to which the head is persisted.
inOrderBlocksMaxTime == Max({0} \union {loaded[b].maxt : b \in {c \in DOMAIN loaded : ~loaded[c].ooo}})

\* The head as Head.Init finds it in the WAL and the m-mapped chunks.
InitHead ==
  LET maxt == inOrderBlocksMaxTime
      left == {t \in head : t >= maxt}
  IN  /\ head' = left
      /\ hmin' = IF maxt > 0 THEN maxt ELSE IF left = {} THEN 0 ELSE Min(left)
      /\ hmax' = Max({IF maxt > 0 THEN maxt ELSE -1} \union left)
      /\ ooo' = ooo

\* The reload went well; the operation goes on from it.
reloadDone ==
  /\ op.pc = "delete" /\ op.todo = {}
  /\ op' = CASE op.kind = "head" -> [Idle EXCEPT !.pc = "heads"]
             [] op.kind \in {"ooo", "blocks"} -> [Idle EXCEPT !.pc = "blocks"]
             [] OTHER -> Idle
  /\ CASE op.kind = "head" -> TruncateHead(rangeForTimestamp(hmin))
       [] op.kind = "ooo"  -> ooo' = {} /\ UNCHANGED <<head, hmin, hmax>>
       [] op.kind = "open" -> InitHead
       [] OTHER -> UNCHANGED headVars
  /\ UNCHANGED <<disk, loaded, held, faults, accepted, late, deleted, newest>>

\* The once-a-minute reload of DB.run.
tick ==
  /\ op.pc = "idle"
  /\ op' = [Idle EXCEPT !.pc = "reload"]
  /\ UNCHANGED <<headVars, disk, loaded, held, faults, accepted, late, deleted, newest>>
-----------------------------------------------------------------------------
Fault == faults < MaxFaults /\ faults' = faults + 1

\* An operation whose reload fails removes the directories it wrote.
Abandoned == IF op.kind = "open" THEN [Idle EXCEPT !.pc = "down"] ELSE Idle

\* reloadBlocks returns before anything is loaded: a corrupted block.
reloadFails ==
  /\ Fault
  /\ op.pc = "reload" /\ op.kind \in FailingReloads
  /\ disk' = Restrict(disk, DOMAIN disk \ op.new)
  /\ op' = Abandoned
  /\ UNCHANGED <<headVars, loaded, held, accepted, late, deleted, newest>>

\* deleteBlocks cannot rename b, or (gone) cannot remove what it renamed.
deleteFails(b, gone) ==
  /\ Fault
  /\ op.pc = "delete" /\ b \in op.todo /\ op.kind \in FailingReloads
  /\ \A r \in Readers : b \notin held[r]
  /\ op.gone \/ gone => PartialDeletes
  /\ disk' = Restrict(disk, DOMAIN disk \ (op.new \union IF gone THEN {b} ELSE {}))
  /\ loaded' = IF op.kind = "open" THEN NoBlocks ELSE loaded
  /\ op' = Abandoned
  /\ UNCHANGED <<headVars, held, accepted, late, deleted, newest>>

\* The compaction of blocks fails: setCompactionFailed.
compactFails ==
  /\ Fault
  /\ op.pc \in {"idle", "blocks"} /\ ~compactable
  /\ \E dirs \in {Plan} \ {{}} : /\ disk' = Flag(disk, dirs, "failed")
                                 /\ loaded' = Flag(loaded, dirs, "failed")
  /\ op' = Idle
  /\ UNCHANGED <<headVars, held, accepted, late, deleted, newest>>

\* A block of late samples cannot be written: those written go.
compactOOOFails ==
  /\ Fault
  /\ op.pc = "ooo"
  /\ disk' = Restrict(disk, DOMAIN disk \ op.new)
  /\ op' = Idle
  /\ UNCHANGED <<headVars, loaded, held, accepted, late, deleted, newest>>

crash ==
  /\ Fault
  /\ op.pc # "down"
  /\ op' = [Idle EXCEPT !.pc = "down"]
  /\ loaded' = NoBlocks
  /\ held' = [r \in Readers |-> {}]
  /\ UNCHANGED <<headVars, disk, accepted, late, deleted, newest>>

open ==
  /\ op.pc = "down"
  /\ op' = [Idle EXCEPT !.pc = "reload", !.kind = "open"]
  /\ UNCHANGED <<headVars, disk, loaded, held, faults, accepted, late, deleted, newest>>
-----------------------------------------------------------------------------
\* DB.Querier takes the blocks under db.mtx.
Querier(r) ==
  /\ op.pc \notin {"delete", "down"} /\ op.kind # "open"
  /\ held[r] = {} /\ loaded # NoBlocks
  /\ held' = [held EXCEPT ![r] = DOMAIN loaded]
  /\ UNCHANGED <<headVars, disk, loaded, op, faults, accepted, late, deleted, newest>>

CloseQuerier(r) ==
  /\ held[r] # {}
  /\ held' = [held EXCEPT ![r] = {}]
  /\ UNCHANGED <<headVars, disk, loaded, op, faults, accepted, late, deleted, newest>>

Operation ==
  \/ compactHead \/ compactOOOHead \/ compactOOO \/ compactBlocks \/ compactBlocksDone
  \/ reloadBlocks \/ (\E b \in op.todo : deleteBlocks(b)) \/ reloadDone
  \/ open

BlocksNext ==
  \/ \E t \in Times : append(t) \/ insert(t) \/ Delete(t)
  \/ Operation
  \/ CleanTombstones \/ tick
  \/ reloadFails \/ (\E b \in op.todo, gone \in BOOLEAN : deleteFails(b, gone))
  \/ compactFails \/ compactOOOFails \/ crash
  \/ \E r \in Readers : Querier(r) \/ CloseQuerier(r)

BlocksSpec ==
  /\ BlocksInit /\ [][BlocksNext]_blocksVars
  /\ WF_blocksVars(Operation)
  /\ SF_blocksVars(compactHead \/ compactBlocks)
  /\ \A r \in Readers : WF_blocksVars(CloseQuerier(r))
-----------------------------------------------------------------------------
\* What must not get lost: samples not deleted and within the retention.
Kept == {t \in accepted \ deleted : RetentionDuration = 0 \/ t >= newest - RetentionDuration}

\* At all times, also while the process is down, every sample is in the WAL or
\* the WBL, or in a block on disk.
SamplesDurable == Kept \subseteq head \union ooo \union Stored(disk)

\* While the database is up, a query at any moment would find it.
SamplesVisible ==
  op.pc # "down" /\ op.kind # "open" => Kept \subseteq head \union ooo \union Stored(loaded)

\* A deleted sample does not come back, neither from a parent whose merged
\* block is loaded, nor after a crash.
DeletedGone == deleted \intersect Stored(loaded) = {}

Intersect(b, c) == b.mint < c.maxt /\ c.mint < b.maxt

\* However blocks were merged, over any number of rounds and failures: each
\* fits one aligned range of the compactor, and blocks loaded together overlap
\* only where late samples were written, never a merged block and its parent,
\* nor two blocks cut from the head.
BlocksWellPlaced ==
  /\ \A b \in DOMAIN disk : \E k \in DOMAIN ranges :
       disk[b].mint \div ranges[k] = (disk[b].maxt - 1) \div ranges[k]
  /\ \A b \in DOMAIN loaded : \A c \in DOMAIN loaded \ {b} :
       Intersect(loaded[b], loaded[c]) =>
         \E t \in late : LET range == [mint |-> rangeForTimestamp(t) - chunkRange,
                                       maxt |-> rangeForTimestamp(t)]
                         IN  Intersect(loaded[b], range) /\ Intersect(loaded[c], range)

\* No step deletes the directory of a block that a query reads.
HeldBlocksStay == [][\A r \in Readers : held[r] \intersect DOMAIN disk \subseteq DOMAIN disk']_blocksVars

\* A restart discards no sample of the head, which the WAL has, unless it is
\* in a block: out-of-order blocks do not count for the time up to which the
\* head is persisted.
HeadLeavesToBlocks == [][head \subseteq head' \union Stored(disk')]_blocksVars

\* When nothing is written any more, compaction merges all overlapping blocks.
OverlapsMerged ==
  <>[](\A b \in DOMAIN loaded : \A c \in DOMAIN loaded \ {b} : ~Intersect(loaded[b], loaded[c]))
=============================================================================
