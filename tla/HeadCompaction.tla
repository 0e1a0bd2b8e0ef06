--------------------------- MODULE HeadCompaction ---------------------------
(***************************************************************************)
(* The compaction of the in-order head (tsdb/db.go, head.go): DB.Compact   *)
(* writes the oldest range of the head to a block, loads it and truncates  *)
(* the head, while appenders commit samples and queries are opened, read   *)
(* and closed.  cmtx allows one compaction at a time; every access to an   *)
(* atomic variable of the head that another goroutine may come before is a *)
(* step of its own.                                                        *)
(*                                                                         *)
(* Chunks never straddle a multiple of chunkRange (memSeries.nextAt), so a *)
(* series is the set of its timestamps and truncation to a multiple is     *)
(* exact.  Out-of-order ingestion is off (oooTimeWindow is 0).             *)
(***************************************************************************)
EXTENDS Integers, FiniteSets, FiniteSetsExt

CONSTANTS Series, Appenders, Readers,
          Ranges,       \* the pairs mint, maxt that queries ask for
          chunkRange,   \* the width of the blocks written
          MaxTime,      \* bound on timestamps, which start at 0
          AppendTimes,  \* the timestamps of the samples appended
          MaxSamples    \* bound on the samples committed in a behaviour

ASSUME HeadCompactionAssumption ==
  /\ chunkRange \in Nat \ {0} /\ chunkRange % 2 = 0
  /\ MaxTime \in Nat /\ MaxSamples \in Nat /\ AppendTimes \subseteq 0..MaxTime
  /\ Ranges \subseteq {range \in (0..MaxTime) \X (0..MaxTime) : range[1] <= range[2]}

Times == 0..MaxTime

VARIABLES
  minTime, maxTime, minValidTime,   \* the atomic bounds of the head
  lastMemoryTruncationTime,
  memTruncationInProcess,
  head,     \* the timestamps of each series in memory
  app,      \* the head appenders
  dc,       \* DB.Compact
  blocks,   \* what the blocks of DB.blocks hold: series with timestamps
  q,        \* the queries
  acked,    \* the samples whose Commit has returned
  behind    \* the samples committed behind the back of a compaction, see Behind

boundVars == <<minTime, maxTime, minValidTime>>
truncVars == <<lastMemoryTruncationTime, memTruncationInProcess>>
vars == <<boundVars, truncVars, head, app, dc, blocks, q, acked, behind>>

NoApp == [st |-> "none", minValidTime |-> 0, late |-> FALSE, smp |-> {}]
Idle == [pc |-> "idle", mint |-> 0, maxt |-> 0, new |-> {}, todo |-> {}, waitMint |-> 0, gcMint |-> 0, actualMint |-> 0]
NoQuery == [st |-> "none", mint |-> 0, maxt |-> 0, inHead |-> FALSE, from |-> 0, blocks |-> {}, due |-> {}]

Samples == Series \X Times

-----------------------------------------------------------------------------
InHead(s, from, to) == {t \in head[s] : from <= t /\ t <= to}
HeadSamples(from, to) == UNION {{s} \X InHead(s, from, to) : s \in Series}

\* The head that initTime leaves for the first timestamp.
Init ==
  /\ minTime \in 0..1 /\ maxTime = minTime /\ minValidTime = -chunkRange
  /\ lastMemoryTruncationTime = -chunkRange /\ memTruncationInProcess = FALSE
  /\ head = [s \in Series |-> {}]
  /\ app = [a \in Appenders |-> NoApp]
  /\ dc = Idle
  /\ blocks = {} /\ acked = {} /\ behind = {}
  /\ q = [r \in Readers |-> NoQuery]
-----------------------------------------------------------------------------
appendableMinValidTime == Max({maxTime - chunkRange \div 2, minValidTime})

\* The compaction no longer waits for appenders.
Reading == dc.pc \notin {"idle", "wait"}

\* Commits that a compaction does not take into account: the append was
\* registered too late to be waited for, the sample is below the range that
\* was, or now would be, read from minTime, or it is in a series that gc
\* has left and below what gc found so far.
Behind(a, s, t) ==
  \/ app[a].late
  \/ t < IF dc.pc \in {"idle", "unflag"} THEN minTime ELSE dc.mint
  \/ dc.pc \in {"gc", "bounds"} /\ s \notin dc.todo /\ t < dc.actualMint

\* Head.appender reads the bound ...
appender(a) ==
  /\ app[a].st = "none"
  /\ app' = [app EXCEPT ![a] = [NoApp EXCEPT !.st = "opening", !.minValidTime = appendableMinValidTime]]
  /\ UNCHANGED <<boundVars, truncVars, head, dc, blocks, q, acked, behind>>

\* ... and then registers the append with the isolation.
newAppendID(a) ==
  /\ app[a].st = "opening"
  /\ app' = [app EXCEPT ![a].st = "open", ![a].late = Reading /\ app[a].minValidTime < dc.maxt]
  /\ UNCHANGED <<boundVars, truncVars, head, dc, blocks, q, acked, behind>>

\* headAppender.Append of the one sample of the append.
Append(a, s, t) ==
  /\ app[a].st = "open" /\ app[a].smp = {}
  /\ t >= app[a].minValidTime
  /\ \A u \in head[s] : t > u
  /\ app' = [app EXCEPT ![a].smp = {<<s, t>>}]
  /\ UNCHANGED <<boundVars, truncVars, head, dc, blocks, q, acked, behind>>

\* commitSamples checks the order again.
commitSamples(a) ==
  \E x \in app[a].smp :
    LET ok == \A u \in head[x[1]] : x[2] > u
    IN  /\ app[a].st = "open"
        /\ Cardinality(acked) < MaxSamples
        /\ head' = IF ok THEN [head EXCEPT ![x[1]] = @ \union {x[2]}] ELSE head
        /\ app' = [app EXCEPT ![a].st = "applied", ![a].smp = IF ok THEN {x} ELSE {}]
        /\ behind' = IF ok /\ Behind(a, x[1], x[2]) THEN behind \union {x} ELSE behind
        /\ UNCHANGED <<boundVars, truncVars, dc, blocks, q, acked>>

updateMinMaxTime(a) ==
  LET ts == {x[2] : x \in app[a].smp}
  IN  /\ app[a].st = "applied"
      /\ minTime' = Min({minTime} \union ts)
      /\ maxTime' = Max({maxTime} \union ts)
      /\ app' = [app EXCEPT ![a].st = "updated"]
      /\ UNCHANGED <<minValidTime, truncVars, head, dc, blocks, q, acked, behind>>

\* The end of Commit, or Rollback.
closeAppend(a) ==
  /\ app[a].st \in {"open", "updated"}
  /\ acked' = IF app[a].st = "updated" THEN acked \union app[a].smp ELSE acked
  /\ app' = [app EXCEPT ![a] = NoApp]
  /\ UNCHANGED <<boundVars, truncVars, head, dc, blocks, q, behind>>
-----------------------------------------------------------------------------
\* Truncation to zero, as Go divides; times are not negative.
rangeForTimestamp(t) == (t \div chunkRange) * chunkRange + chunkRange

\* Head.compactable, and the range DB.Compact derives from the head.
compact ==
  /\ dc.pc = "idle"
  /\ maxTime - minTime > (chunkRange \div 2) * 3
  /\ dc' = [Idle EXCEPT !.pc = "wait", !.mint = minTime, !.maxt = rangeForTimestamp(minTime)]
  /\ UNCHANGED <<boundVars, truncVars, head, app, blocks, q, acked, behind>>

\* Mutant: the end of the block is taken for exclusive a second time.
lowestAppendTimeShort(maxt) ==
  \A a \in Appenders : app[a].st \notin {"none", "opening"} => app[a].minValidTime >= maxt - 1

lowestAppendTime(maxt) ==
  \A a \in Appenders : app[a].st \notin {"none", "opening"} => app[a].minValidTime > maxt - 1

WaitForAppendersOverlapping ==
  /\ dc.pc = "wait"
  /\ lowestAppendTime(dc.maxt)
  /\ dc' = [dc EXCEPT !.pc = "write"]
  /\ UNCHANGED <<boundVars, truncVars, head, app, blocks, q, acked, behind>>

\* LeveledCompactor.Write reads the range head, without isolation.
Write ==
  /\ dc.pc = "write"
  /\ dc' = [dc EXCEPT !.pc = "reload", !.new = HeadSamples(dc.mint, dc.maxt - 1)]
  /\ UNCHANGED <<boundVars, truncVars, head, app, blocks, q, acked, behind>>

\* The block could not be written or loaded; compactHead removes it.
fail ==
  /\ dc.pc \in {"write", "reload"}
  /\ dc' = Idle
  /\ UNCHANGED <<boundVars, truncVars, head, app, blocks, q, acked, behind>>

\* reloadBlocks changes DB.blocks under mtx, which DB.Querier holds.
reloadBlocks ==
  /\ dc.pc = "reload"
  /\ \A r \in Readers : q[r].st \notin {"blocks", "registered"}
  /\ blocks' = blocks \union dc.new
  /\ dc' = [dc EXCEPT !.pc = "mark"]
  /\ UNCHANGED <<boundVars, truncVars, head, app, q, acked, behind>>
-----------------------------------------------------------------------------
\* truncateMemory, from the test that there is something to truncate on.
truncateMemory ==
  /\ dc.pc = "mark"
  /\ IF minTime >= dc.maxt
     THEN dc' = Idle /\ UNCHANGED truncVars
     ELSE /\ lastMemoryTruncationTime' = dc.maxt
          /\ dc' = [dc EXCEPT !.pc = "flag"]
          /\ UNCHANGED memTruncationInProcess
  /\ UNCHANGED <<boundVars, head, app, blocks, q, acked, behind>>

\* With the read of MinTime for the wait: a commit that comes in between
\* could only lower it, and the wait be for more queries.
setInProcess ==
  /\ dc.pc = "flag"
  /\ memTruncationInProcess' = TRUE
  /\ dc' = [dc EXCEPT !.pc = "readers", !.waitMint = minTime]
  /\ UNCHANGED <<boundVars, lastMemoryTruncationTime, head, app, blocks, q, acked, behind>>

Overlaps(r) == q[r].inHead /\ q[r].mint <= dc.maxt - 1 /\ dc.waitMint <= q[r].maxt

\* Mutant: only queries that end in the range are waited for.
WaitForPendingReadersInside ==
  /\ dc.pc = "readers"
  /\ \A r \in Readers : ~(Overlaps(r) /\ q[r].maxt < dc.maxt)
  /\ dc' = [dc EXCEPT !.pc = "store"]
  /\ UNCHANGED <<boundVars, truncVars, head, app, blocks, q, acked, behind>>

WaitForPendingReadersInTimeRange ==
  /\ dc.pc = "readers"
  /\ \A r \in Readers : ~Overlaps(r)
  /\ dc' = [dc EXCEPT !.pc = "store"]
  /\ UNCHANGED <<boundVars, truncVars, head, app, blocks, q, acked, behind>>

\* No appender or query can tell in which order the bounds are stored.
storeBounds ==
  /\ dc.pc = "store"
  /\ minTime' = dc.maxt /\ minValidTime' = dc.maxt
  /\ maxTime' = Max({maxTime, dc.maxt})
  /\ dc' = [dc EXCEPT !.pc = "gcStart"]
  /\ UNCHANGED <<truncVars, head, app, blocks, q, acked, behind>>

\* Head.gc reads minTime again: a commit may have lowered it.
gc ==
  /\ dc.pc = "gcStart"
  /\ dc' = [dc EXCEPT !.pc = "gc", !.todo = Series, !.gcMint = minTime, !.actualMint = MaxTime + chunkRange]
  /\ UNCHANGED <<boundVars, truncVars, head, app, blocks, q, acked, behind>>

\* stripeSeries.gc of one series: old chunks go, and with them the series
\* unless it has a sample pending, whose time is not known to gc.
Pending(s) == \E a \in Appenders : \E x \in app[a].smp : x[1] = s /\ app[a].st = "open"

gcSeries(s) ==
  LET left == {t \in head[s] : t >= dc.gcMint}
  IN  /\ dc.pc = "gc" /\ s \in dc.todo
      /\ head' = [head EXCEPT ![s] = left]
      /\ dc' = [dc EXCEPT !.todo = @ \ {s},
                          !.actualMint = IF left # {} THEN Min({@, Min(left)})
                                         ELSE IF Pending(s) THEN -chunkRange ELSE @,
                          !.pc = IF dc.todo = {s} THEN "bounds" ELSE "gc"]
      /\ UNCHANGED <<boundVars, truncVars, app, blocks, q, acked, behind>>

\* Mutant: the bounds go up to the oldest sample left.
raiseBoundsToActual ==
  LET actual == IF dc.actualMint = MaxTime + chunkRange THEN dc.gcMint ELSE dc.actualMint
  IN  /\ dc.pc = "bounds"
      /\ minTime' = IF actual > minTime THEN actual ELSE minTime
      /\ minValidTime' = IF actual > minTime THEN actual ELSE minValidTime
      /\ dc' = [dc EXCEPT !.pc = "unflag"]
      /\ UNCHANGED <<maxTime, truncVars, head, app, blocks, q, acked, behind>>

\* truncateSeriesAndChunkDiskMapper moves the bounds up to what is left.
raiseBounds ==
  LET actual == IF dc.actualMint = MaxTime + chunkRange THEN dc.gcMint ELSE dc.actualMint
      to     == Min({actual, appendableMinValidTime})
  IN  /\ dc.pc = "bounds"
      /\ minTime' = IF actual > minTime THEN to ELSE minTime
      /\ minValidTime' = IF actual > minTime THEN to ELSE minValidTime
      /\ dc' = [dc EXCEPT !.pc = "unflag"]
      /\ UNCHANGED <<maxTime, truncVars, head, app, blocks, q, acked, behind>>

unsetInProcess ==
  /\ dc.pc = "unflag"
  /\ memTruncationInProcess' = FALSE
  /\ dc' = Idle
  /\ UNCHANGED <<boundVars, lastMemoryTruncationTime, head, app, blocks, q, acked, behind>>
-----------------------------------------------------------------------------
\* DB.Querier takes the read lock of mtx and the blocks ...
Querier(r, mint, maxt) ==
  /\ q[r].st = "none"
  /\ q' = [q EXCEPT ![r] = [NoQuery EXCEPT !.st = "blocks", !.mint = mint, !.maxt = maxt,
                              !.blocks = {x \in blocks : mint <= x[2] /\ x[2] <= maxt},
                              !.due = {x \in acked : mint <= x[2] /\ x[2] <= maxt}]]
  /\ UNCHANGED <<boundVars, truncVars, head, app, dc, blocks, acked, behind>>

\* ... opens a querier of the head when the head reaches into the range: it
\* does not look below the minTime of this moment ...
rangeHead(r) ==
  /\ q[r].st = "blocks"
  /\ q' = [q EXCEPT ![r].inHead = q[r].maxt >= minTime,
                    ![r].from = Max({q[r].mint, minTime}),
                    ![r].st = "registered"]
  /\ UNCHANGED <<boundVars, truncVars, head, app, dc, blocks, acked, behind>>

IsQuerierCollidingWithTruncation(mint, maxt) == memTruncationInProcess /\ mint < lastMemoryTruncationTime

\* ... and, if a truncation is going on, closes it or opens one above it.
collide(r) ==
  LET trunc == lastMemoryTruncationTime
  IN  /\ q[r].st = "registered"
      /\ q' = [q EXCEPT ![r] =
                 IF ~q[r].inHead \/ ~IsQuerierCollidingWithTruncation(q[r].mint, q[r].maxt)
                 THEN [@ EXCEPT !.st = "open"]
                 ELSE [@ EXCEPT !.st = "open", !.inHead = q[r].maxt >= trunc,
                                !.mint = trunc, !.from = Max({trunc, minTime})]]
      /\ UNCHANGED <<boundVars, truncVars, head, app, dc, blocks, acked, behind>>

CloseQuerier(r) ==
  /\ q[r].st = "open"
  /\ q' = [q EXCEPT ![r] = NoQuery]
  /\ UNCHANGED <<boundVars, truncVars, head, app, dc, blocks, acked, behind>>

AppNext(a) ==
  \/ appender(a) \/ newAppendID(a) \/ commitSamples(a) \/ updateMinMaxTime(a) \/ closeAppend(a)
  \/ \E s \in Series, t \in AppendTimes : Append(a, s, t)

CompactNext ==
  \/ compact \/ WaitForAppendersOverlapping \/ Write \/ fail \/ reloadBlocks
  \/ truncateMemory \/ setInProcess \/ WaitForPendingReadersInTimeRange \/ storeBounds \/ gc
  \/ \E s \in Series : gcSeries(s)
  \/ raiseBounds \/ unsetInProcess

QueryNext(r) ==
  \/ \E range \in Ranges : Querier(r, range[1], range[2])
  \/ rangeHead(r) \/ collide(r) \/ CloseQuerier(r)

Next ==
  \/ \E a \in Appenders : AppNext(a)
  \/ CompactNext
  \/ \E r \in Readers : QueryNext(r)

Spec == Init /\ [][Next]_vars
-----------------------------------------------------------------------------
Stored == blocks \union HeadSamples(0, MaxTime)

\* A sample whose Commit has returned is in the head or in a block, whatever
\* compactions ran before, during and after the append: appendable window
\* and compaction window do not meet.
CommittedStored == acked \subseteq Stored

\* ... at least if it was not committed behind the back of a compaction.
CommittedAheadStored == acked \ behind \subseteq Stored

\* However far a truncation moves the bounds of the head, samples of the last
\* half of a chunkRange stay appendable.
AppendWindowOpen == minValidTime <= maxTime - chunkRange \div 2

\* An open query that may read at any time finds all samples of its range
\* that were committed, ahead of compactions, when it was opened: in the
\* blocks it holds or in the part of the head it looks at.
QueryComplete ==
  \A r \in Readers : q[r].st = "open" =>
    q[r].due \ behind \subseteq
      q[r].blocks \union IF q[r].inHead THEN HeadSamples(q[r].from, q[r].maxt) ELSE {}
=============================================================================
