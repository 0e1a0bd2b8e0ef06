------------------------ MODULE HeadCompactionProofs ------------------------
(***************************************************************************)
(* For every set of series, appenders and readers and every width of the   *)
(* blocks: the window for appends never closes, no committed sample is lost*)
(* to a compaction and queries find what was committed.  Three invariants  *)
(* build on one another.  WindowInv: the end of the range of a compaction  *)
(* lies below the window from the moment DB.Compact reads the bounds until *)
(* truncateMemory stores it, as maxTime only grows.  CommitInv: up to which*)
(* time blocks cover the samples of the head, at each step.  ReadInv: which*)
(* of the truncation and a query knows of the other.                       *)
(***************************************************************************)
EXTENDS HeadCompaction, TLAPS

AppStates == {"none", "opening", "open", "applied", "updated"}
Truncating == {"wait", "write", "reload", "mark", "flag", "readers", "store"}

Steps == Truncating \union {"idle", "gcStart", "gc", "bounds", "unflag"}

\* An append holds at most one sample.
Apps == {r \in [st : AppStates, minValidTime : Int, late : BOOLEAN, smp : SUBSET Samples] :
           r.smp = {} \/ \E x \in Samples : r.smp = {x}}

Compactions == [pc : Steps, mint : Int, maxt : Int, new : SUBSET Samples, todo : SUBSET Series,
                waitMint : Int, gcMint : Int, actualMint : Int]

\* The parts of the state the bounds are computed from are integers.
BoundsTyped ==
  /\ minTime \in Int /\ maxTime \in Int /\ minValidTime \in Int
  /\ head \in [Series -> SUBSET Times]
  /\ app \in [Appenders -> Apps]
  /\ dc \in Compactions

\* What a compaction is going to store is below the window.
WindowInv ==
  /\ BoundsTyped
  /\ AppendWindowOpen
  /\ dc.pc \in Truncating => dc.maxt <= maxTime - chunkRange \div 2

LEMMA MaxPair ==
  ASSUME NEW a \in Int, NEW b \in Int
  PROVE  /\ Max({a, b}) \in {a, b} /\ Max({a, b}) >= a /\ Max({a, b}) >= b
         /\ Min({a, b}) \in {a, b} /\ Min({a, b}) <= a /\ Min({a, b}) <= b
<1>1. \E x \in {a, b} : \A y \in {a, b} : x >= y
  OBVIOUS
<1>2. \E x \in {a, b} : \A y \in {a, b} : x =< y
  OBVIOUS
<1> QED
  BY <1>1, <1>2, Zenon DEF Max, Min

LEMMA MinSingle ==
  ASSUME NEW a \in Int
  PROVE  Min({a}) = a /\ Max({a}) = a
BY DEF Min, Max

\* Every set of natural numbers that is not empty has a least element: LEMMA
\* NaturalsWellOrdered, at the end of the module.
WellOrdered == \A S \in SUBSET Nat : S # {} => \E x \in S : \A y \in S : x <= y

LEMMA MinTimes ==
  ASSUME WellOrdered, NEW T \in SUBSET Times, T # {}
  PROVE  Min(T) \in Times /\ \A t \in T : Min(T) <= t
<1>1. T \in SUBSET Nat /\ \A t \in T : t \in Times
  BY HeadCompactionAssumption DEF Times
<1>2. \E x \in T : \A y \in T : x <= y
  BY <1>1, Zenon DEF WellOrdered
<1> QED
  BY <1>1, <1>2, Zenon DEF Min

\* A block ends at most a width above the time it is made for.
LEMMA RangeEnd ==
  ASSUME NEW t \in Int
  PROVE  rangeForTimestamp(t) \in Int /\ rangeForTimestamp(t) <= t + chunkRange
<1>1. chunkRange \in Nat /\ chunkRange > 0
  BY HeadCompactionAssumption
<1>2. t = ((t \div chunkRange) * chunkRange) + (t % chunkRange) /\ t % chunkRange >= 0
      /\ t \div chunkRange \in Int /\ t % chunkRange \in Int
  BY <1>1
<1>3. (t \div chunkRange) * chunkRange \in Int
  BY <1>1, <1>2
<1> QED
  BY <1>1, <1>2, <1>3 DEF rangeForTimestamp

LEMMA HalfRange == /\ chunkRange \in Nat /\ chunkRange > 0
                   /\ chunkRange \div 2 \in Nat /\ chunkRange = 2 * (chunkRange \div 2)
BY HeadCompactionAssumption

LEMMA IdleTyped == NoApp \in Apps /\ Idle \in Compactions
<1>1. NoApp \in Apps
  BY DEF NoApp, Apps, AppStates
<1>2. Idle \in Compactions
  BY DEF Idle, Compactions, Steps
<1> QED
  BY <1>1, <1>2, Zenon

\* Where the window for appends begins.
LEMMA WindowStart ==
  ASSUME WindowInv
  PROVE  appendableMinValidTime \in Int /\ appendableMinValidTime = maxTime - chunkRange \div 2
<1>1. maxTime \in Int /\ minValidTime \in Int /\ maxTime - chunkRange \div 2 \in Int
      /\ minValidTime <= maxTime - chunkRange \div 2
  BY HalfRange DEF WindowInv, BoundsTyped, AppendWindowOpen
<1> DEFINE lo == maxTime - chunkRange \div 2
<1>2. appendableMinValidTime = Max({lo, minValidTime})
  BY Zenon DEF appendableMinValidTime
<1>3. lo \in Int /\ minValidTime \in Int /\ minValidTime <= lo
  BY <1>1, Zenon
<1> HIDE DEF lo
<1>4. appendableMinValidTime \in Int /\ appendableMinValidTime = lo
  BY <1>2, <1>3, MaxPair
<1> QED
  BY <1>4, Zenon DEF lo

LEMMA WindowInit == Init => WindowInv
<1> SUFFICES ASSUME Init PROVE WindowInv
  BY Zenon
<1>3. BoundsTyped
  BY IdleTyped, HalfRange DEF Init, BoundsTyped
<1>4. AppendWindowOpen /\ dc.pc \notin Truncating
  BY HalfRange DEF Init, AppendWindowOpen, Truncating, Idle
<1> QED
  BY <1>3, <1>4, Zenon DEF WindowInv

LEMMA UpdateWidens ==
  ASSUME WindowInv, NEW a \in Appenders, updateMinMaxTime(a)
  PROVE  minTime' \in Int /\ maxTime' \in Int /\ minTime' <= minTime /\ maxTime' >= maxTime
<1> DEFINE ts == {x[2] : x \in app[a].smp}
<1>1. minTime' = Min({minTime} \union ts) /\ maxTime' = Max({maxTime} \union ts)
  BY Zenon DEF updateMinMaxTime
<1>2. minTime \in Int /\ maxTime \in Int /\ app[a] \in Apps
  BY Zenon DEF WindowInv, BoundsTyped
<1>3. ASSUME app[a].smp = {}
      PROVE  minTime' \in Int /\ maxTime' \in Int /\ minTime' <= minTime /\ maxTime' >= maxTime
  <2>1. {minTime} \union ts = {minTime} /\ {maxTime} \union ts = {maxTime}
    BY <1>3, Zenon
  <2>2. minTime' = minTime /\ maxTime' = maxTime
    BY <1>1, <1>2, <2>1, MinSingle, Zenon
  <2> QED
    BY <1>2, <2>2
<1>4. ASSUME NEW x \in Samples, app[a].smp = {x}
      PROVE  minTime' \in Int /\ maxTime' \in Int /\ minTime' <= minTime /\ maxTime' >= maxTime
  <2>1. {minTime} \union ts = {minTime, x[2]} /\ {maxTime} \union ts = {maxTime, x[2]}
    BY <1>4, Zenon
  <2>2. x[2] \in Int
    BY HeadCompactionAssumption DEF Samples, Times
  <2> QED
    BY <1>1, <1>2, <2>1, <2>2, MaxPair, Zenon
<1> QED
  BY <1>2, <1>3, <1>4, Zenon DEF Apps

\* An append leaves minValidTime alone and raises maxTime.
LEMMA AppWindow ==
  ASSUME WindowInv, NEW a \in Appenders, AppNext(a)
  PROVE  WindowInv'
<1>0. app[a] \in Apps /\ NoApp \in Apps
  BY IdleTyped, Zenon DEF WindowInv, BoundsTyped
<1>b. app[a].smp \subseteq Samples
  BY <1>0, Zenon DEF Apps
<1>a. ASSUME NEW r \in Apps, app' = [app EXCEPT ![a] = r], head' \in [Series -> SUBSET Times],
             UNCHANGED <<minTime, maxTime, minValidTime, dc>>
      PROVE  WindowInv'
  BY <1>a, Zenon DEF WindowInv, BoundsTyped, AppendWindowOpen
<1>1. CASE appender(a)
  <2>1. appendableMinValidTime \in Int
    BY WindowStart, Zenon
  <2>2. [NoApp EXCEPT !.st = "opening", !.minValidTime = appendableMinValidTime] \in Apps
    BY <2>1, Zenon DEF Apps, NoApp, AppStates
  <2> QED
    BY <1>1, <1>a, <2>2, Zenon DEF appender, boundVars, WindowInv, BoundsTyped
<1>2. CASE newAppendID(a)
  <2> DEFINE r == [app[a] EXCEPT !.st = "open", !.late = Reading /\ app[a].minValidTime < dc.maxt]
  <2>1. r \in Apps
    BY <1>0, Zenon DEF Apps, AppStates, Reading
  <2>2. app' = [app EXCEPT ![a] = r]
    BY <1>2, Zenon DEF newAppendID, WindowInv, BoundsTyped
  <2> QED
    BY <1>2, <1>a, <2>1, <2>2, Zenon DEF newAppendID, boundVars, WindowInv, BoundsTyped
<1>3. ASSUME NEW s \in Series, NEW t \in AppendTimes, Append(a, s, t) PROVE WindowInv'
  <2> DEFINE r == [app[a] EXCEPT !.smp = {<<s, t>>}]
  <2>1. r \in Apps
    BY <1>0, HeadCompactionAssumption DEF Apps, Samples, Times
  <2>2. app' = [app EXCEPT ![a] = r]
    BY <1>3, Zenon DEF Append, WindowInv, BoundsTyped
  <2> QED
    BY <1>3, <1>a, <2>1, <2>2, Zenon DEF Append, boundVars, WindowInv, BoundsTyped
<1>4. CASE commitSamples(a)
  <2>1. PICK x \in app[a].smp, ok \in BOOLEAN :
          /\ head' = IF ok THEN [head EXCEPT ![x[1]] = @ \union {x[2]}] ELSE head
          /\ app' = [app EXCEPT ![a].st = "applied", ![a].smp = IF ok THEN {x} ELSE {}]
          /\ UNCHANGED <<minTime, maxTime, minValidTime, dc>>
    BY <1>4, Zenon DEF commitSamples, boundVars
  <2>2. x \in Samples /\ x[1] \in Series /\ x[2] \in Times
    BY <1>b, <2>1, Zenon DEF Samples
  <2> DEFINE r == [app[a] EXCEPT !.st = "applied", !.smp = IF ok THEN {x} ELSE {}]
  <2>3. r \in Apps
    BY <1>0, <2>2, Zenon DEF Apps, AppStates
  <2>4. app' = [app EXCEPT ![a] = r]
    BY <2>1, Zenon DEF WindowInv, BoundsTyped
  <2>5. head' \in [Series -> SUBSET Times]
    BY <2>1, <2>2, Zenon DEF WindowInv, BoundsTyped
  <2> QED
    BY <1>a, <2>1, <2>3, <2>4, <2>5, Zenon
<1>5. CASE updateMinMaxTime(a)
  <2> DEFINE r == [app[a] EXCEPT !.st = "updated"]
  <2>1. UNCHANGED <<minValidTime, head, dc>> /\ app' = [app EXCEPT ![a].st = "updated"]
    BY <1>5, Zenon DEF updateMinMaxTime
  <2>2. minTime \in Int /\ maxTime \in Int
    BY Zenon DEF WindowInv, BoundsTyped
  <2>5. minTime' \in Int /\ maxTime' \in Int /\ maxTime' >= maxTime
    BY <1>5, UpdateWidens, Zenon
  <2>6. r \in Apps
    BY <1>0, Zenon DEF Apps, AppStates
  <2>8. app' = [app EXCEPT ![a] = r]
    BY <2>1, Zenon DEF WindowInv, BoundsTyped
  <2>7. BoundsTyped'
    BY <2>1, <2>5, <2>6, <2>8, Zenon DEF WindowInv, BoundsTyped
  <2> QED
    BY <2>1, <2>2, <2>5, <2>7, HalfRange DEF WindowInv, AppendWindowOpen, BoundsTyped, Compactions
<1>6. CASE closeAppend(a)
  BY <1>0, <1>6, <1>a, Zenon DEF closeAppend, boundVars, WindowInv, BoundsTyped
<1> QED
  BY <1>1, <1>2, <1>3, <1>4, <1>5, <1>6, Zenon DEF AppNext

\* A step of DB.Compact stores, as the new bounds, nothing above the window.
LEMMA CompactWindow ==
  ASSUME WellOrdered, WindowInv, CompactNext
  PROVE  WindowInv'
<1>0. dc \in Compactions /\ Idle \in Compactions
  BY IdleTyped, Zenon DEF WindowInv, BoundsTyped
<1>a. ASSUME dc' \in Compactions, UNCHANGED <<minTime, maxTime, minValidTime, head, app>>,
             dc'.pc \in Truncating => dc'.maxt = dc.maxt /\ dc.pc \in Truncating
      PROVE  WindowInv'
  BY <1>a, Zenon DEF WindowInv, BoundsTyped, AppendWindowOpen
<1>b. ASSUME NEW p \in Steps, dc.pc \in Truncating, UNCHANGED <<minTime, maxTime, minValidTime, head, app>>,
             dc' = [dc EXCEPT !.pc = p]
      PROVE  WindowInv'
  BY <1>0, <1>a, <1>b, Zenon DEF Compactions
<1>c. ASSUME dc' = Idle, UNCHANGED <<minTime, maxTime, minValidTime, head, app>>
      PROVE  WindowInv'
  BY <1>0, <1>a, <1>c, Zenon DEF Idle, Truncating
<1>1. CASE compact
  <2> DEFINE end == rangeForTimestamp(minTime)
             new == [Idle EXCEPT !.pc = "wait", !.mint = minTime, !.maxt = end]
  <2>1. /\ minTime \in Int /\ maxTime \in Int /\ maxTime - minTime > (chunkRange \div 2) * 3
        /\ dc' = new /\ UNCHANGED <<minTime, maxTime, minValidTime, head, app>>
    BY <1>1, Zenon DEF compact, WindowInv, BoundsTyped, boundVars
  <2>2. end \in Int /\ end <= minTime + chunkRange
    BY <2>1, RangeEnd, Zenon
  <2> HIDE DEF end
  <2>3. end <= maxTime - chunkRange \div 2
    BY <2>1, <2>2, HalfRange
  <2>4. new \in Compactions /\ new.maxt = end
    <3>1. minTime \in Int /\ end \in Int /\ "wait" \in Steps
      BY <2>1, <2>2, Zenon DEF Steps, Truncating
    <3> QED
      BY <1>0, <3>1, Zenon DEF Idle, Compactions
  <2> QED
    BY <2>1, <2>3, <2>4, Zenon DEF WindowInv, BoundsTyped, AppendWindowOpen
<1>2. CASE WaitForAppendersOverlapping
  BY <1>2, <1>b, Zenon DEF WaitForAppendersOverlapping, boundVars, Steps, Truncating
<1>3. CASE Write
  <2> DEFINE smp == HeadSamples(dc.mint, dc.maxt - 1)
             new == [dc EXCEPT !.pc = "reload", !.new = smp]
  <2>1. smp \subseteq Samples
    BY DEF HeadSamples, InHead, Samples, WindowInv, BoundsTyped
  <2> HIDE DEF smp
  <2>2. new \in Compactions /\ new.maxt = dc.maxt
    BY <1>0, <2>1, Zenon DEF Compactions, Steps, Truncating
  <2>3. dc' = new /\ UNCHANGED <<minTime, maxTime, minValidTime, head, app>> /\ dc.pc \in Truncating
    BY <1>3, Zenon DEF Write, boundVars, Truncating, smp
  <2> QED
    BY <1>a, <2>2, <2>3, Zenon
<1>4. CASE fail
  BY <1>4, <1>c, Zenon DEF fail, boundVars
<1>5. CASE reloadBlocks
  BY <1>5, <1>b, Zenon DEF reloadBlocks, boundVars, Steps, Truncating
<1>6. CASE truncateMemory
  BY <1>6, <1>b, <1>c, Zenon DEF truncateMemory, boundVars, Steps, Truncating
<1>7. CASE setInProcess
  <2> DEFINE new == [dc EXCEPT !.pc = "readers", !.waitMint = minTime]
  <2>1. minTime \in Int
    BY Zenon DEF WindowInv, BoundsTyped
  <2>2. new \in Compactions /\ new.maxt = dc.maxt
    BY <1>0, <2>1, Zenon DEF Compactions, Steps, Truncating
  <2>3. dc' = new /\ UNCHANGED <<minTime, maxTime, minValidTime, head, app>> /\ dc.pc \in Truncating
    BY <1>7, Zenon DEF setInProcess, boundVars, Truncating
  <2> QED
    BY <1>a, <2>2, <2>3, Zenon
<1>8. CASE WaitForPendingReadersInTimeRange
  BY <1>8, <1>b, Zenon DEF WaitForPendingReadersInTimeRange, boundVars, Steps, Truncating
<1>9. CASE storeBounds
  <2> DEFINE new == [dc EXCEPT !.pc = "gcStart"]
  <2>1. /\ minTime' = dc.maxt /\ minValidTime' = dc.maxt /\ maxTime' = Max({maxTime, dc.maxt})
        /\ dc' = new /\ UNCHANGED <<head, app>> /\ dc.pc \in Truncating
    BY <1>9, Zenon DEF storeBounds, Truncating
  <2>2. dc.maxt \in Int /\ maxTime \in Int /\ dc.maxt <= maxTime - chunkRange \div 2
    BY <1>0, <2>1, Zenon DEF WindowInv, BoundsTyped, Compactions
  <2>3. maxTime' \in Int /\ maxTime' >= maxTime
    BY <2>1, <2>2, MaxPair, Zenon
  <2>4. new \in Compactions /\ new.pc \notin Truncating
    BY <1>0, Zenon DEF Compactions, Steps, Truncating
  <2> QED
    BY <2>1, <2>2, <2>3, <2>4, HalfRange DEF WindowInv, BoundsTyped, AppendWindowOpen
<1>10. CASE gc
  <2> DEFINE new == [dc EXCEPT !.pc = "gc", !.todo = Series, !.gcMint = minTime, !.actualMint = MaxTime + chunkRange]
  <2>1. new \in Compactions /\ new.pc \notin Truncating
    <3>1. minTime \in Int /\ MaxTime + chunkRange \in Int /\ "gc" \in Steps
      BY HeadCompactionAssumption DEF Steps, Truncating, WindowInv, BoundsTyped
    <3> QED
      BY <1>0, <3>1, Zenon DEF Compactions, Truncating
  <2> QED
    BY <1>10, <1>a, <2>1, Zenon DEF gc, boundVars
<1>11. ASSUME NEW s \in Series, gcSeries(s) PROVE WindowInv'
  <2> DEFINE left == {t \in head[s] : t >= dc.gcMint}
             am == IF left # {} THEN Min({dc.actualMint, Min(left)})
                   ELSE IF Pending(s) THEN -chunkRange ELSE dc.actualMint
             new == [dc EXCEPT !.todo = @ \ {s}, !.actualMint = am,
                               !.pc = IF dc.todo = {s} THEN "bounds" ELSE "gc"]
  <2>1. left \subseteq Times
    BY Zenon DEF WindowInv, BoundsTyped
  <2>2. dc' = new /\ head' = [head EXCEPT ![s] = left] /\ UNCHANGED <<minTime, maxTime, minValidTime, app>>
    BY <1>11, Zenon DEF gcSeries, boundVars
  <2>3. am \in Int
    <3>1. dc.actualMint \in Int /\ -chunkRange \in Int
      BY <1>0, HalfRange DEF Compactions
    <3>2. ASSUME left # {} PROVE Min({dc.actualMint, Min(left)}) \in Int
      <4>1. Min(left) \in Int
        BY <2>1, <3>2, MinTimes, HeadCompactionAssumption DEF Times
      <4> HIDE DEF left
      <4> QED
        BY <3>1, <4>1, MaxPair, Zenon
    <3> QED
      BY <3>1, <3>2, Zenon
  <2> HIDE DEF am, left
  <2>4. new \in Compactions /\ new.pc \notin Truncating
    BY <1>0, <2>3, Zenon DEF Compactions, Steps, Truncating
  <2>5. head' \in [Series -> SUBSET Times]
    BY <2>1, <2>2, Zenon DEF WindowInv, BoundsTyped
  <2> QED
    BY <2>2, <2>4, <2>5, Zenon DEF WindowInv, BoundsTyped, AppendWindowOpen
<1>12. CASE raiseBounds
  <2> DEFINE actual == IF dc.actualMint = MaxTime + chunkRange THEN dc.gcMint ELSE dc.actualMint
             to == Min({actual, appendableMinValidTime})
             new == [dc EXCEPT !.pc = "unflag"]
  <2>1. /\ minTime' = IF actual > minTime THEN to ELSE minTime
        /\ minValidTime' = IF actual > minTime THEN to ELSE minValidTime
        /\ dc' = new /\ UNCHANGED <<maxTime, head, app>>
    BY <1>12, Zenon DEF raiseBounds
  <2>2. actual \in Int
    BY <1>0, Zenon DEF Compactions
  <2> HIDE DEF actual
  <2>3. to \in Int /\ to <= maxTime - chunkRange \div 2
    <3>1. appendableMinValidTime \in Int /\ appendableMinValidTime = maxTime - chunkRange \div 2
      BY WindowStart, Zenon
    <3>2. to \in Int /\ to <= appendableMinValidTime
      BY <2>2, <3>1, MaxPair, Zenon
    <3> QED
      BY <3>1, <3>2, Zenon
  <2> HIDE DEF to
  <2>4. new \in Compactions /\ new.pc \notin Truncating
    BY <1>0, Zenon DEF Compactions, Steps, Truncating
  <2> QED
    BY <2>1, <2>3, <2>4, Zenon DEF WindowInv, BoundsTyped, AppendWindowOpen
<1>13. CASE unsetInProcess
  BY <1>13, <1>c, Zenon DEF unsetInProcess, boundVars
<1> QED
  BY <1>1, <1>2, <1>3, <1>4, <1>5, <1>6, <1>7, <1>8, <1>9, <1>10, <1>11, <1>12, <1>13, Zenon DEF CompactNext

-----------------------------------------------------------------------------
\* The sample is in a block or in the head, or was committed behind the back
\* of a compaction.
Safe(x) == x \in blocks \/ x[2] \in head[x[1]] \/ x \in behind

\* The samples of the head below a time are stored elsewhere too.
CoveredBelow(t, stored) ==
  \A s \in Series : \A u \in head[s] : u < t => <<s, u>> \in stored \union behind

\* In the series gc is done with, nothing is below the minimum it found.
LeftAbove ==
  \A s \in Series \ dc.todo : \A u \in head[s] : u >= dc.actualMint \/ <<s, u>> \in behind

Loaded == {"mark", "flag", "readers", "store", "gcStart", "gc", "bounds", "unflag"}

AppInv(a) ==
  /\ \A x \in app[a].smp : x[2] >= app[a].minValidTime
  /\ app[a].st \in {"applied", "updated"} => \A x \in app[a].smp : Safe(x)
  /\ Reading /\ app[a].st \notin {"none", "opening"} /\ ~app[a].late => app[a].minValidTime >= dc.maxt

\* Between compactions only what is below minTime may be missing from the
\* next block; a compaction first reads from mint, and once its block is
\* loaded everything below maxt is covered, so that gc may drop it.
CompactInv ==
  /\ dc.pc \in {"idle", "unflag"} => CoveredBelow(minTime, blocks)
  /\ dc.pc \in Truncating => CoveredBelow(dc.mint, blocks) /\ minTime <= dc.mint
  /\ dc.pc = "reload" => CoveredBelow(dc.maxt, blocks \union dc.new)
  /\ dc.pc \in Loaded => CoveredBelow(dc.maxt, blocks)
  /\ dc.pc \in {"gcStart", "gc", "bounds"} => minTime <= dc.maxt
  /\ dc.pc \in {"gc", "bounds"} => dc.gcMint <= dc.maxt /\ LeftAbove
  /\ dc.pc = "bounds" => dc.todo = {}

AckInv == acked \subseteq Samples /\ \A x \in acked : Safe(x)

CommitInv ==
  /\ WindowInv
  /\ \A a \in Appenders : AppInv(a)
  /\ CompactInv
  /\ AckInv

LEMMA CommitInit == Init => CommitInv
<1> SUFFICES ASSUME Init PROVE CommitInv
  BY Zenon
<1>1. dc = Idle /\ dc.pc = "idle"
  BY Zenon DEF Init, Idle
<1>2. \A s \in Series : head[s] = {}
  BY Zenon DEF Init
<1>3. CompactInv
  BY <1>1, <1>2, Zenon DEF CompactInv, CoveredBelow, Truncating, Loaded
<1>4. \A a \in Appenders : AppInv(a)
  BY <1>1, Zenon DEF Init, AppInv, NoApp
<1>5. AckInv
  BY Zenon DEF Init, AckInv
<1> QED
  BY <1>3, <1>4, <1>5, WindowInit, Zenon DEF CommitInv

\* What an append changes besides the head: its own record, and acked.
LEMMA AppRecord ==
  ASSUME CommitInv, NEW a \in Appenders, NEW r, app' = [app EXCEPT ![a] = r],
         UNCHANGED <<minTime, head, dc, blocks, behind>>, WindowInv',
         \A x \in r.smp : x[2] >= r.minValidTime,
         r.st \in {"applied", "updated"} => \A x \in r.smp : Safe(x),
         Reading /\ r.st \notin {"none", "opening"} /\ ~r.late => r.minValidTime >= dc.maxt,
         acked' \subseteq Samples, \A x \in acked' : Safe(x)
  PROVE  CommitInv'
<1>1. ASSUME NEW b \in Appenders PROVE AppInv(b)'
  <2>1. app'[b] = IF b = a THEN r ELSE app[b]
    BY Zenon DEF CommitInv, WindowInv, BoundsTyped
  <2>2. AppInv(b)
    BY Zenon DEF CommitInv
  <2>3. Reading' = Reading /\ dc' = dc /\ \A x : Safe(x)' = Safe(x)
    BY Zenon DEF Reading, Safe
  <2>4. CASE b = a
    <3>1. app'[b] = r
      BY <2>1, <2>4, Zenon
    <3> QED
      BY <2>3, <3>1, Zenon DEF AppInv
  <2>5. CASE b # a
    <3>1. app'[b] = app[b]
      BY <2>1, <2>5, Zenon
    <3> QED
      BY <2>2, <2>3, <3>1, Zenon DEF AppInv
  <2> QED
    BY <2>4, <2>5, Zenon
<1>2. CompactInv'
  BY Zenon DEF CommitInv, CompactInv, CoveredBelow, LeftAbove
<1>3. AckInv'
  BY Zenon DEF AckInv, Safe
<1> QED
  BY <1>1, <1>2, <1>3, Zenon DEF CommitInv

\* A commit adds to the head: what a compaction has passed is Behind.
LEMMA CommitSamplesCommit ==
  ASSUME CommitInv, NEW a \in Appenders, commitSamples(a), WindowInv'
  PROVE  CommitInv'
<1>1. PICK x \in app[a].smp, ok \in BOOLEAN :
        /\ app[a].st = "open"
        /\ head' = IF ok THEN [head EXCEPT ![x[1]] = @ \union {x[2]}] ELSE head
        /\ app' = [app EXCEPT ![a].st = "applied", ![a].smp = IF ok THEN {x} ELSE {}]
        /\ behind' = IF ok /\ Behind(a, x[1], x[2]) THEN behind \union {x} ELSE behind
        /\ UNCHANGED <<minTime, maxTime, minValidTime, dc, blocks, acked>>
  BY Zenon DEF commitSamples, boundVars
<1>2. x \in Samples /\ x[1] \in Series /\ x[2] \in Times /\ x = <<x[1], x[2]>>
  BY DEF CommitInv, WindowInv, BoundsTyped, Apps, Samples
<1>3. AppInv(a) /\ app[a].minValidTime \in Int /\ dc.maxt \in Int /\ dc.mint \in Int /\ minTime \in Int
      /\ dc.actualMint \in Int /\ x[2] \in Int
  BY <1>2, HeadCompactionAssumption DEF CommitInv, WindowInv, BoundsTyped, Apps, Compactions, Times
<1>4. x[2] >= app[a].minValidTime
  BY <1>3, Zenon DEF AppInv
<1> DEFINE r == [app[a] EXCEPT !.st = "applied", !.smp = IF ok THEN {x} ELSE {}]
<1>5. app' = [app EXCEPT ![a] = r]
  BY <1>1, Zenon DEF CommitInv, WindowInv, BoundsTyped
<1>6. app[a] \in Apps
  BY Zenon DEF CommitInv, WindowInv, BoundsTyped
<1>7. r.st = "applied" /\ r.smp = (IF ok THEN {x} ELSE {}) /\ r.minValidTime = app[a].minValidTime
      /\ r.late = app[a].late
  BY <1>6, Zenon DEF Apps
<1> HIDE DEF r
<1>8. CASE ~ok
  BY <1>1, <1>3, <1>5, <1>7, <1>8, AppRecord, Zenon DEF AppInv, CommitInv, AckInv
<1>9. CASE ok
  <2>1. \A s \in Series : head'[s] = IF s = x[1] THEN head[s] \union {x[2]} ELSE head[s]
    BY <1>1, <1>9, Zenon DEF CommitInv, WindowInv, BoundsTyped
  <2>2. behind \subseteq behind' /\ (Behind(a, x[1], x[2]) => x \in behind')
    BY <1>1, <1>9, Zenon
  <2>3. ASSUME NEW y \in Samples, Safe(y) PROVE Safe(y)'
    <3>1. y[1] \in Series
      BY Zenon DEF Samples
    <3> QED
      BY <1>1, <2>1, <2>2, <2>3, <3>1 DEF Safe
  <2>4. Safe(x)'
    BY <1>2, <2>1, Zenon DEF Safe
  <2>5. ASSUME NEW b \in Appenders PROVE AppInv(b)'
    <3>1. app'[b] = IF b = a THEN r ELSE app[b]
      BY <1>5, Zenon DEF CommitInv, WindowInv, BoundsTyped
    <3>2. AppInv(b) /\ app[b].smp \subseteq Samples
      BY Zenon DEF CommitInv, WindowInv, BoundsTyped, Apps
    <3>3. Reading' = Reading /\ dc' = dc
      BY <1>1, Zenon DEF Reading
    <3>4. CASE b = a
      <4>1. app'[b] = r
        BY <3>1, <3>4, Zenon
      <4> QED
        <5>1. \A y \in r.smp : y = x
          BY <1>7, Zenon
        <5>2. \A y \in r.smp : y[2] >= r.minValidTime /\ Safe(y)'
          <6>1. x[2] >= r.minValidTime
            BY <1>4, <1>7, Zenon
          <6> QED
            BY <2>4, <5>1, <6>1, Zenon
        <5>3. Reading /\ ~r.late => r.minValidTime >= dc.maxt
          BY <1>1, <1>3, <1>7, Zenon DEF AppInv
        <5> QED
          BY <3>3, <4>1, <5>2, <5>3, Zenon DEF AppInv
    <3>5. CASE b # a
      <4>1. app'[b] = app[b]
        BY <3>1, <3>5, Zenon
      <4> QED
        BY <2>3, <3>2, <3>3, <4>1, Zenon DEF AppInv
    <3> QED
      BY <3>4, <3>5, Zenon
  <2>6. ASSUME NEW m \in Int, NEW stored, CoveredBelow(m, stored), x[2] < m => x \in behind'
        PROVE  \A s \in Series : \A u \in head'[s] : u < m => <<s, u>> \in stored \union behind'
    <3> SUFFICES ASSUME NEW s \in Series, NEW u \in head'[s], u < m
                 PROVE  <<s, u>> \in stored \union behind'
      BY Zenon
    <3>1. CASE u \in head[s]
      BY <2>2, <2>6, <3>1, Zenon DEF CoveredBelow
    <3>2. CASE u \notin head[s]
      <4>1. s = x[1] /\ u = x[2]
        BY <2>1, <3>2, Zenon
      <4> QED
        BY <1>2, <2>6, <4>1, Zenon
    <3> QED
      BY <3>1, <3>2, Zenon
  <2>7. Reading /\ x[2] < dc.maxt => x \in behind'
    BY <1>1, <1>3, <1>4, <2>2 DEF AppInv, Behind
  <2>8. CompactInv'
    <3> USE DEF CoveredBelow
    <3>1. dc' = dc /\ blocks' = blocks /\ minTime' = minTime /\ CompactInv
      BY <1>1, Zenon DEF CommitInv
    <3>2. dc.pc \in {"idle", "unflag"} => CoveredBelow(minTime, blocks)'
      BY <1>3, <2>2, <2>6, <3>1, Zenon DEF CompactInv, Behind
    <3>3. dc.pc \in Truncating => CoveredBelow(dc.mint, blocks)' /\ minTime <= dc.mint
      BY <1>3, <2>2, <2>6, <3>1, Zenon DEF CompactInv, Behind, Truncating
    <3>4. dc.pc = "reload" => CoveredBelow(dc.maxt, blocks \union dc.new)'
      <4>1. SUFFICES ASSUME dc.pc = "reload" PROVE CoveredBelow(dc.maxt, blocks \union dc.new)'
        BY Zenon
      <4>2. CoveredBelow(dc.maxt, blocks \union dc.new) /\ (x[2] < dc.maxt => x \in behind')
        BY <2>7, <3>1, <4>1, Zenon DEF CompactInv, Reading
      <4>3. \A s \in Series : \A u \in head'[s] : u < dc.maxt => <<s, u>> \in (blocks \union dc.new) \union behind'
        BY <1>3, <2>6, <4>2, Zenon
      <4> QED
        BY <3>1, <4>3, Zenon
    <3>5. dc.pc \in Loaded => CoveredBelow(dc.maxt, blocks)'
      BY <1>3, <2>6, <2>7, <3>1, Zenon DEF CompactInv, Reading, Loaded
    <3>6. dc.pc \in {"gc", "bounds"} => LeftAbove'
      <4> SUFFICES ASSUME dc.pc \in {"gc", "bounds"}, NEW s \in Series \ dc.todo, NEW u \in head'[s]
                   PROVE  u >= dc.actualMint \/ <<s, u>> \in behind'
        BY <3>1, Zenon DEF LeftAbove
      <4>1. CASE u \in head[s]
        BY <2>2, <3>1, <4>1, Zenon DEF CompactInv, LeftAbove
      <4>2. CASE u \notin head[s]
        <5>1. s = x[1] /\ u = x[2]
          BY <2>1, <4>2, Zenon
        <5> QED
          BY <1>2, <1>3, <2>2, <5>1 DEF Behind
      <4> QED
        BY <4>1, <4>2, Zenon
    <3> QED
      BY <3>1, <3>2, <3>3, <3>4, <3>5, <3>6, Zenon DEF CompactInv
  <2>9. AckInv'
    BY <1>1, <2>3, Zenon DEF CommitInv, AckInv
  <2> QED
    BY <2>5, <2>8, <2>9, Zenon DEF CommitInv
<1> QED
  BY <1>8, <1>9, Zenon

LEMMA AppCommit ==
  ASSUME CommitInv, NEW a \in Appenders, AppNext(a)
  PROVE  CommitInv'
<1>0. /\ WindowInv' /\ app[a] \in Apps /\ AppInv(a)
      /\ app \in [Appenders -> Apps]
  BY AppWindow, Zenon DEF CommitInv, WindowInv, BoundsTyped
<1>a. acked \subseteq Samples /\ \A x \in acked : Safe(x)
  BY Zenon DEF CommitInv, AckInv
<1>1. CASE appender(a)
  <2> DEFINE r == [NoApp EXCEPT !.st = "opening", !.minValidTime = appendableMinValidTime]
  <2>1. app' = [app EXCEPT ![a] = r] /\ UNCHANGED <<minTime, head, dc, blocks, behind, acked>>
    BY <1>1, Zenon DEF appender, boundVars
  <2>2. r.st = "opening" /\ r.smp = {}
    BY Zenon DEF NoApp
  <2> HIDE DEF r
  <2> QED
    BY <1>0, <1>a, <2>1, <2>2, AppRecord, Zenon
<1>2. CASE newAppendID(a)
  <2> DEFINE r == [app[a] EXCEPT !.st = "open", !.late = Reading /\ app[a].minValidTime < dc.maxt]
  <2>1. app' = [app EXCEPT ![a] = r] /\ UNCHANGED <<minTime, head, dc, blocks, behind, acked>>
    BY <1>0, <1>2, Zenon DEF newAppendID, boundVars
  <2>2. /\ r.st = "open" /\ r.smp = app[a].smp /\ r.minValidTime = app[a].minValidTime
        /\ r.late = (Reading /\ app[a].minValidTime < dc.maxt)
    BY <1>0, Zenon DEF Apps
  <2>3. app[a].minValidTime \in Int /\ dc.maxt \in Int
    BY <1>0, Zenon DEF CommitInv, WindowInv, BoundsTyped, Apps, Compactions
  <2> HIDE DEF r
  <2>4. \A x \in r.smp : x[2] >= r.minValidTime
    BY <1>0, <2>2, Zenon DEF AppInv
  <2>5. Reading /\ ~r.late => r.minValidTime >= dc.maxt
    <3>1. Reading /\ ~r.late => ~(app[a].minValidTime < dc.maxt)
      BY ONLY <2>2, Zenon
    <3> QED
      BY <2>2, <2>3, <3>1
  <2> QED
    BY <1>0, <1>a, <2>1, <2>2, <2>4, <2>5, AppRecord, Zenon
<1>3. ASSUME NEW s \in Series, NEW t \in AppendTimes, Append(a, s, t) PROVE CommitInv'
  <2> DEFINE r == [app[a] EXCEPT !.smp = {<<s, t>>}]
  <2>1. app' = [app EXCEPT ![a] = r] /\ UNCHANGED <<minTime, head, dc, blocks, behind, acked>>
    BY <1>0, <1>3, Zenon DEF Append, boundVars
  <2>2. /\ r.st = "open" /\ r.smp = {<<s, t>>} /\ r.minValidTime = app[a].minValidTime
        /\ r.late = app[a].late /\ app[a].st = "open"
    BY <1>0, <1>3, Zenon DEF Apps, Append
  <2> HIDE DEF r
  <2>3. \A x \in r.smp : x[2] >= r.minValidTime
    BY <1>3, <2>2 DEF Append
  <2>4. Reading /\ ~r.late => r.minValidTime >= dc.maxt
    BY <1>0, <2>2, Zenon DEF AppInv
  <2> QED
    BY <1>0, <1>a, <2>1, <2>2, <2>3, <2>4, AppRecord, Zenon
<1>4. CASE commitSamples(a)
  BY <1>0, <1>4, CommitSamplesCommit, Zenon
<1>5. CASE updateMinMaxTime(a)
  <2> DEFINE r == [app[a] EXCEPT !.st = "updated"]
  <2>1. /\ app' = [app EXCEPT ![a] = r] /\ UNCHANGED <<head, dc, blocks, behind, acked>>
        /\ app[a].st = "applied"
    BY <1>0, <1>5, Zenon DEF updateMinMaxTime
  <2>2. /\ r.st = "updated" /\ r.smp = app[a].smp /\ r.minValidTime = app[a].minValidTime
        /\ r.late = app[a].late
    BY <1>0, Zenon DEF Apps
  <2> HIDE DEF r
  <2>3. minTime' \in Int /\ minTime \in Int /\ minTime' <= minTime
    BY <1>5, UpdateWidens, Zenon DEF CommitInv, WindowInv, BoundsTyped
  <2>4. ASSUME NEW b \in Appenders PROVE AppInv(b)'
    <3>1. app'[b] = IF b = a THEN r ELSE app[b]
      BY <1>0, <2>1, Zenon
    <3>2. AppInv(b) /\ Reading' = Reading /\ dc' = dc /\ \A x : Safe(x)' = Safe(x)
      BY <2>1, Zenon DEF CommitInv, Reading, Safe
    <3>3. /\ app'[b].smp = app[b].smp /\ app'[b].minValidTime = app[b].minValidTime
          /\ app'[b].late = app[b].late
          /\ app'[b].st = app[b].st \/ (app'[b].st = "updated" /\ app[b].st = "applied")
      BY <2>1, <2>2, <3>1, Zenon
    <3> QED
      BY <3>2, <3>3, Zenon DEF AppInv
  <2>5. CompactInv'
    <3>1. dc.mint \in Int /\ dc.maxt \in Int /\ \A s \in Series : \A u \in head[s] : u \in Int
      BY HeadCompactionAssumption DEF CommitInv, WindowInv, BoundsTyped, Compactions, Times
    <3>2. CoveredBelow(minTime, blocks) => CoveredBelow(minTime, blocks)'
      BY <2>1, <2>3, <3>1 DEF CoveredBelow
    <3>3. minTime <= dc.mint => minTime' <= dc.mint
      BY <2>3, <3>1
    <3>4. minTime <= dc.maxt => minTime' <= dc.maxt
      BY <2>3, <3>1
    <3>5. /\ CoveredBelow(dc.mint, blocks)' = CoveredBelow(dc.mint, blocks)
          /\ CoveredBelow(dc.maxt, blocks)' = CoveredBelow(dc.maxt, blocks)
          /\ CoveredBelow(dc.maxt, blocks \union dc.new)' = CoveredBelow(dc.maxt, blocks \union dc.new)
          /\ LeftAbove' = LeftAbove
      BY <2>1, Zenon DEF CoveredBelow, LeftAbove
    <3> QED
      BY <2>1, <3>2, <3>3, <3>4, <3>5, Zenon DEF CommitInv, CompactInv
  <2> QED
    BY <1>0, <1>a, <2>1, <2>4, <2>5, Zenon DEF CommitInv, AckInv, Safe
<1>6. CASE closeAppend(a)
  <2>1. /\ app' = [app EXCEPT ![a] = NoApp] /\ UNCHANGED <<minTime, head, dc, blocks, behind>>
        /\ acked' = IF app[a].st = "updated" THEN acked \union app[a].smp ELSE acked
    BY <1>6, Zenon DEF closeAppend, boundVars
  <2>2. app[a].smp \subseteq Samples
    BY <1>0, Zenon DEF Apps
  <2>3. acked' \subseteq Samples /\ \A x \in acked' : Safe(x)
    BY <1>0, <1>a, <2>1, <2>2, Zenon DEF AppInv
  <2> DEFINE r == NoApp
  <2>4. r.st = "none" /\ r.smp = {} /\ app' = [app EXCEPT ![a] = r]
    BY <2>1, Zenon DEF NoApp
  <2> HIDE DEF r
  <2> QED
    BY <1>0, <2>1, <2>3, <2>4, AppRecord, Zenon
<1> QED
  BY <1>1, <1>2, <1>3, <1>4, <1>5, <1>6, Zenon DEF AppNext

\* Steps of a compaction that leave the head alone.
LEMMA CompactFrame ==
  ASSUME CommitInv, WindowInv', CompactInv', UNCHANGED <<head, app, acked, behind>>, blocks \subseteq blocks',
         Reading' => \/ Reading /\ dc'.maxt = dc.maxt
                     \/ \A a \in Appenders : app[a].st \notin {"none", "opening"} => app[a].minValidTime >= dc'.maxt
  PROVE  CommitInv'
<1>1. \A x : Safe(x) => Safe(x)'
  BY Zenon DEF Safe
<1>2. ASSUME NEW a \in Appenders PROVE AppInv(a)'
  <2>1. AppInv(a) /\ app'[a] = app[a]
    BY Zenon DEF CommitInv
  <2>2. Reading' /\ app[a].st \notin {"none", "opening"} /\ ~app[a].late => app[a].minValidTime >= dc'.maxt
    <3>1. CASE Reading /\ dc'.maxt = dc.maxt
      BY <2>1, <3>1, Zenon DEF AppInv
    <3>2. CASE \A b \in Appenders : app[b].st \notin {"none", "opening"} => app[b].minValidTime >= dc'.maxt
      BY <3>2, Zenon
    <3> QED
      BY <3>1, <3>2, Zenon
  <2> QED
    BY <1>1, <2>1, <2>2, Zenon DEF AppInv
<1>3. AckInv'
  BY <1>1, Zenon DEF CommitInv, AckInv
<1> QED
  BY <1>2, <1>3, Zenon DEF CommitInv

\* gc drops from a series only what is in a block, or behind.
LEMMA GcCommit ==
  ASSUME WellOrdered, CommitInv, NEW s \in Series, gcSeries(s), WindowInv'
  PROVE  CommitInv'
<1> DEFINE left == {t \in head[s] : t >= dc.gcMint}
           am == IF left # {} THEN Min({dc.actualMint, Min(left)})
                 ELSE IF Pending(s) THEN -chunkRange ELSE dc.actualMint
<1>1. /\ dc.pc = "gc" /\ s \in dc.todo /\ head' = [head EXCEPT ![s] = left]
      /\ dc' = [dc EXCEPT !.todo = @ \ {s}, !.actualMint = am,
                          !.pc = IF dc.todo = {s} THEN "bounds" ELSE "gc"]
      /\ UNCHANGED <<minTime, app, blocks, acked, behind>>
  BY Zenon DEF gcSeries, boundVars
<1>2. /\ dc \in Compactions /\ dc.maxt \in Int /\ dc.gcMint \in Int /\ dc.actualMint \in Int
      /\ head \in [Series -> SUBSET Times]
  BY Zenon DEF CommitInv, WindowInv, BoundsTyped, Compactions
<1>3. \A u \in Series : \A t \in head[u] : t \in Int /\ t >= 0
  BY <1>2, HeadCompactionAssumption DEF Times
<1>4. ASSUME NEW u \in Series PROVE head'[u] = IF u = s THEN left ELSE head[u]
  BY <1>1, <1>2, Zenon
<1>5. CoveredBelow(dc.maxt, blocks) /\ dc.gcMint <= dc.maxt /\ LeftAbove /\ minTime <= dc.maxt
  BY <1>1, Zenon DEF CommitInv, CompactInv, Loaded
<1>6. \A t \in head[s] : t \in left \/ <<s, t>> \in blocks \union behind
  BY <1>2, <1>3, <1>5 DEF CoveredBelow
<1>7. am \in Int /\ (\A t \in left : am <= t) /\ (am <= dc.actualMint \/ am = -chunkRange)
  <2>1. CASE left # {}
    <3>1. left \subseteq Times
      BY <1>2, Zenon
    <3>2. Min(left) \in Int /\ \A t \in left : Min(left) <= t
      BY <2>1, <3>1, MinTimes, HeadCompactionAssumption DEF Times
    <3>3. am = Min({dc.actualMint, Min(left)})
      BY <2>1, Zenon
    <3> HIDE DEF left, am
    <3>4. am \in Int /\ am <= dc.actualMint /\ am <= Min(left)
      BY <1>2, <3>2, <3>3, MaxPair, Zenon
    <3>5. ASSUME NEW t \in left PROVE am <= t
      <4>1. t \in Int
        BY <3>1, HeadCompactionAssumption DEF Times
      <4> QED
        BY <3>2, <3>4, <4>1
    <3> QED
      BY <3>4, <3>5, Zenon
  <2>2. CASE left = {}
    BY <1>2, <2>2, HalfRange
  <2> QED
    BY <2>1, <2>2, Zenon
<1>8. /\ dc'.todo = dc.todo \ {s} /\ dc'.actualMint = am /\ dc'.maxt = dc.maxt /\ dc'.gcMint = dc.gcMint
      /\ dc'.pc = IF dc.todo = {s} THEN "bounds" ELSE "gc"
  BY <1>1, <1>2, Zenon DEF Compactions
<1> HIDE DEF am
<1>9. \A u \in Series : head'[u] \subseteq head[u]
  BY <1>4, Zenon
<1>10. CoveredBelow(dc.maxt, blocks)'
  BY <1>1, <1>5, <1>8, <1>9, Zenon DEF CoveredBelow
<1>11. LeftAbove'
  <2> SUFFICES ASSUME NEW u \in Series \ dc'.todo, NEW t \in head'[u]
               PROVE  t >= dc'.actualMint \/ <<u, t>> \in behind'
    BY Zenon DEF LeftAbove
  <2>0. t \in Int /\ t >= 0 /\ t \in head[u]
    BY <1>3, <1>9, Zenon
  <2>1. CASE u = s
    BY <1>4, <1>7, <1>8, <2>0, <2>1, Zenon
  <2>2. CASE u # s
    <3>1. u \in Series \ dc.todo
      BY <1>8, <2>2, Zenon
    <3>2. t >= dc.actualMint \/ <<u, t>> \in behind
      BY <1>5, <2>0, <3>1, Zenon DEF LeftAbove
    <3> QED
      BY <1>1, <1>2, <1>7, <1>8, <2>0, <3>2, HalfRange
  <2> QED
    BY <2>1, <2>2, Zenon
<1>12. CompactInv'
  BY <1>1, <1>5, <1>8, <1>10, <1>11 DEF CompactInv, Truncating, Loaded
<1>13. ASSUME NEW x \in Samples, Safe(x) PROVE Safe(x)'
  <2>1. x = <<x[1], x[2]>> /\ x[1] \in Series
    BY DEF Samples
  <2> QED
    BY <1>1, <1>4, <1>6, <1>13, <2>1 DEF Safe
<1>14. ASSUME NEW a \in Appenders PROVE AppInv(a)'
  <2>1. AppInv(a) /\ app'[a] = app[a] /\ app[a].smp \subseteq Samples
    BY <1>1, Zenon DEF CommitInv, WindowInv, BoundsTyped, Apps
  <2>2. Reading /\ dc'.maxt = dc.maxt
    BY <1>1, <1>8, Zenon DEF Reading
  <2> QED
    BY <1>13, <2>1, <2>2, Zenon DEF AppInv
<1>15. AckInv'
  BY <1>1, <1>13, Zenon DEF CommitInv, AckInv
<1> QED
  BY <1>12, <1>14, <1>15, Zenon DEF CommitInv

LEMMA CompactCommit ==
  ASSUME WellOrdered, CommitInv, CompactNext
  PROVE  CommitInv'
<1>0. /\ WindowInv /\ WindowInv' /\ CompactInv /\ dc \in Compactions /\ minTime \in Int
      /\ dc.mint \in Int /\ dc.maxt \in Int /\ dc.gcMint \in Int /\ dc.actualMint \in Int
  BY CompactWindow, Zenon DEF CommitInv, WindowInv, BoundsTyped, Compactions
<1>a. \A s \in Series : head[s] \subseteq Times /\ \A u \in head[s] : u \in Int
  BY HeadCompactionAssumption DEF CommitInv, WindowInv, BoundsTyped, Times
<1>b. ASSUME NEW m \in Int, NEW n \in Int, n <= m, NEW stored, CoveredBelow(m, stored)
      PROVE  CoveredBelow(n, stored)
  BY <1>a, <1>b DEF CoveredBelow
<1>1. CASE compact
  <2>1. dc.pc = "idle" /\ UNCHANGED <<minTime, head, app, blocks, acked, behind>>
    BY <1>1, Zenon DEF compact, boundVars
  <2>2. dc'.pc = "wait" /\ dc'.mint = minTime
    BY <1>1, Zenon DEF compact, Idle
  <2>3. CompactInv'
    BY <1>0, <2>1, <2>2 DEF CompactInv, CoveredBelow, Truncating, Loaded
  <2>4. ~Reading'
    BY <2>2, Zenon DEF Reading
  <2> QED
    BY <1>0, <2>1, <2>3, <2>4, CompactFrame, Zenon
<1>2. CASE WaitForAppendersOverlapping
  <2>1. /\ dc.pc = "wait" /\ UNCHANGED <<minTime, head, app, blocks, acked, behind>>
        /\ lowestAppendTime(dc.maxt) /\ dc' = [dc EXCEPT !.pc = "write"]
    BY <1>2, Zenon DEF WaitForAppendersOverlapping, boundVars
  <2>2. dc'.pc = "write" /\ dc'.mint = dc.mint /\ dc'.maxt = dc.maxt
    BY <1>0, <2>1, Zenon DEF Compactions
  <2>3. CompactInv'
    BY <1>0, <2>1, <2>2, Zenon DEF CompactInv, CoveredBelow, Truncating, Loaded
  <2>4. ASSUME NEW a \in Appenders, app[a].st \notin {"none", "opening"}
        PROVE  app[a].minValidTime >= dc'.maxt
    <3>1. app[a].minValidTime \in Int
      BY Zenon DEF CommitInv, WindowInv, BoundsTyped, Apps
    <3> QED
      BY <1>0, <2>1, <2>2, <2>4, <3>1 DEF lowestAppendTime
  <2> QED
    BY <1>0, <2>1, <2>3, <2>4, CompactFrame, Zenon
<1>3. CASE Write
  <2> DEFINE new == HeadSamples(dc.mint, dc.maxt - 1)
  <2>1. /\ dc.pc = "write" /\ UNCHANGED <<minTime, head, app, blocks, acked, behind>>
        /\ dc' = [dc EXCEPT !.pc = "reload", !.new = new]
    BY <1>3, Zenon DEF Write, boundVars
  <2>2. ASSUME NEW s \in Series, NEW u \in head[s], u >= dc.mint, u < dc.maxt PROVE <<s, u>> \in new
    <3>1. u \in InHead(s, dc.mint, dc.maxt - 1)
      BY <1>0, <1>a, <2>2 DEF InHead
    <3> QED
      BY <3>1 DEF HeadSamples
  <2> HIDE DEF new
  <2>3. dc'.pc = "reload" /\ dc'.mint = dc.mint /\ dc'.maxt = dc.maxt /\ dc'.new = new
    BY <1>0, <2>1, Zenon DEF Compactions
  <2>4. CoveredBelow(dc.mint, blocks) /\ minTime <= dc.mint
    BY <1>0, <2>1, Zenon DEF CompactInv, Truncating
  <2>5. CoveredBelow(dc.maxt, blocks \union new)
    BY <1>0, <1>a, <2>2, <2>4 DEF CoveredBelow
  <2>6. CompactInv'
    BY <2>1, <2>3, <2>4, <2>5, Zenon DEF CompactInv, CoveredBelow, Truncating, Loaded
  <2>7. Reading /\ dc'.maxt = dc.maxt
    BY <2>1, <2>3, Zenon DEF Reading
  <2> QED
    BY <1>0, <2>1, <2>6, <2>7, CompactFrame, Zenon
<1>c. ASSUME dc.pc \in Truncating, dc' = Idle, UNCHANGED <<minTime, head, app, blocks, acked, behind>>
      PROVE  CommitInv'
  <2>1. dc'.pc = "idle"
    BY <1>c, Zenon DEF Idle
  <2>2. CoveredBelow(minTime, blocks)
    BY <1>0, <1>b, <1>c, Zenon DEF CompactInv
  <2>3. CompactInv'
    BY <1>c, <2>1, <2>2, Zenon DEF CompactInv, CoveredBelow, Truncating, Loaded
  <2>4. ~Reading'
    BY <2>1, Zenon DEF Reading
  <2> QED
    BY <1>0, <1>c, <2>3, <2>4, CompactFrame, Zenon
<1>4. CASE fail
  BY <1>4, <1>c, Zenon DEF fail, boundVars, Truncating
<1>5. CASE reloadBlocks
  <2>1. /\ dc.pc = "reload" /\ UNCHANGED <<minTime, head, app, acked, behind>>
        /\ blocks' = blocks \union dc.new /\ dc' = [dc EXCEPT !.pc = "mark"]
    BY <1>5, Zenon DEF reloadBlocks, boundVars
  <2>2. dc'.pc = "mark" /\ dc'.mint = dc.mint /\ dc'.maxt = dc.maxt
    BY <1>0, <2>1, Zenon DEF Compactions
  <2>3. /\ CoveredBelow(dc.mint, blocks) /\ minTime <= dc.mint
        /\ CoveredBelow(dc.maxt, blocks \union dc.new)
    BY <1>0, <2>1, Zenon DEF CompactInv, Truncating
  <2>4. CompactInv'
    BY <2>1, <2>2, <2>3, Zenon DEF CompactInv, CoveredBelow, Truncating, Loaded
  <2>5. Reading /\ dc'.maxt = dc.maxt
    BY <2>1, <2>2, Zenon DEF Reading
  <2> QED
    BY <1>0, <2>1, <2>4, <2>5, CompactFrame, Zenon
<1>d. ASSUME dc.pc \in {"mark", "flag", "readers"}, NEW p \in {"flag", "readers", "store"}, NEW m,
             dc' = [dc EXCEPT !.pc = p, !.waitMint = m], UNCHANGED <<minTime, head, app, blocks, acked, behind>>
      PROVE  CommitInv'
  <2>1. dc'.pc = p /\ dc'.mint = dc.mint /\ dc'.maxt = dc.maxt
    BY <1>0, <1>d, Zenon DEF Compactions
  <2>2. CompactInv'
    BY <1>0, <1>d, <2>1, Zenon DEF CompactInv, CoveredBelow, Truncating, Loaded
  <2>3. Reading /\ dc'.maxt = dc.maxt
    BY <1>d, <2>1, Zenon DEF Reading
  <2> QED
    BY <1>0, <1>d, <2>2, <2>3, CompactFrame, Zenon
<1>e. ASSUME NEW p PROVE [dc EXCEPT !.pc = p] = [dc EXCEPT !.pc = p, !.waitMint = dc.waitMint]
  BY <1>0 DEF Compactions
<1>6. CASE truncateMemory
  BY <1>6, <1>c, <1>d, <1>e, Zenon DEF truncateMemory, boundVars, Truncating
<1>7. CASE setInProcess
  BY <1>7, <1>d, Zenon DEF setInProcess, boundVars
<1>8. CASE WaitForPendingReadersInTimeRange
  BY <1>8, <1>d, <1>e, Zenon DEF WaitForPendingReadersInTimeRange, boundVars
<1>9. CASE storeBounds
  <2>1. /\ dc.pc = "store" /\ UNCHANGED <<head, app, blocks, acked, behind>> /\ minTime' = dc.maxt
        /\ dc' = [dc EXCEPT !.pc = "gcStart"]
    BY <1>9, Zenon DEF storeBounds
  <2>2. dc'.pc = "gcStart" /\ dc'.mint = dc.mint /\ dc'.maxt = dc.maxt
    BY <1>0, <2>1, Zenon DEF Compactions
  <2>3. CompactInv'
    BY <1>0, <2>1, <2>2 DEF CompactInv, CoveredBelow, Truncating, Loaded
  <2>4. Reading /\ dc'.maxt = dc.maxt
    BY <2>1, <2>2, Zenon DEF Reading
  <2> QED
    BY <1>0, <2>1, <2>3, <2>4, CompactFrame, Zenon
<1>10. CASE gc
  <2>1. /\ dc.pc = "gcStart" /\ UNCHANGED <<minTime, head, app, blocks, acked, behind>>
        /\ dc' = [dc EXCEPT !.pc = "gc", !.todo = Series, !.gcMint = minTime, !.actualMint = MaxTime + chunkRange]
    BY <1>10, Zenon DEF gc, boundVars
  <2>2. dc'.pc = "gc" /\ dc'.todo = Series /\ dc'.gcMint = minTime /\ dc'.maxt = dc.maxt
    BY <1>0, <2>1, Zenon DEF Compactions
  <2>3. CompactInv'
    BY <1>0, <2>1, <2>2, Zenon DEF CompactInv, CoveredBelow, LeftAbove, Truncating, Loaded
  <2>4. Reading /\ dc'.maxt = dc.maxt
    BY <2>1, <2>2, Zenon DEF Reading
  <2> QED
    BY <1>0, <2>1, <2>3, <2>4, CompactFrame, Zenon
<1>12. CASE raiseBounds
  <2> DEFINE actual == IF dc.actualMint = MaxTime + chunkRange THEN dc.gcMint ELSE dc.actualMint
             to == Min({actual, appendableMinValidTime})
  <2>1. /\ dc.pc = "bounds" /\ UNCHANGED <<head, app, blocks, acked, behind>>
        /\ minTime' = IF actual > minTime THEN to ELSE minTime
        /\ dc' = [dc EXCEPT !.pc = "unflag"]
    BY <1>12, Zenon DEF raiseBounds
  <2>2. dc'.pc = "unflag" /\ dc'.maxt = dc.maxt
    BY <1>0, <2>1, Zenon DEF Compactions
  <2>3. CoveredBelow(dc.maxt, blocks) /\ minTime <= dc.maxt /\ dc.gcMint <= dc.maxt /\ LeftAbove /\ dc.todo = {}
    BY <1>0, <2>1, Zenon DEF CompactInv, Loaded
  <2>4. CoveredBelow(dc.gcMint, blocks) /\ CoveredBelow(minTime, blocks)
    BY <1>0, <1>b, <2>3, Zenon
  <2>5. CoveredBelow(dc.actualMint, blocks)
    BY <1>0, <1>a, <2>3 DEF LeftAbove, CoveredBelow
  <2>6. actual \in Int /\ CoveredBelow(actual, blocks)
    BY <1>0, <2>4, <2>5, Zenon
  <2> HIDE DEF actual
  <2>7. to \in Int /\ to <= actual
    BY <1>0, <2>6, WindowStart, MaxPair, Zenon
  <2> HIDE DEF to
  <2>8. CoveredBelow(to, blocks)
    BY <1>b, <2>6, <2>7, Zenon
  <2>9. CoveredBelow(minTime', blocks)
    BY <2>1, <2>4, <2>8, Zenon
  <2>10. CompactInv'
    BY <2>1, <2>2, <2>3, <2>9, Zenon DEF CompactInv, CoveredBelow, Truncating, Loaded
  <2>11. Reading /\ dc'.maxt = dc.maxt
    BY <2>1, <2>2, Zenon DEF Reading
  <2> QED
    BY <1>0, <2>1, <2>10, <2>11, CompactFrame, Zenon
<1>13. CASE unsetInProcess
  <2>1. dc.pc = "unflag" /\ dc' = Idle /\ UNCHANGED <<minTime, head, app, blocks, acked, behind>>
    BY <1>13, Zenon DEF unsetInProcess, boundVars
  <2>2. dc'.pc = "idle"
    BY <2>1, Zenon DEF Idle
  <2>3. CompactInv'
    BY <1>0, <2>1, <2>2, Zenon DEF CompactInv, CoveredBelow, Truncating, Loaded
  <2>4. ~Reading'
    BY <2>2, Zenon DEF Reading
  <2> QED
    BY <1>0, <2>1, <2>3, <2>4, CompactFrame, Zenon
<1>11. ASSUME NEW s \in Series, gcSeries(s) PROVE CommitInv'
  BY <1>0, <1>11, GcCommit, Zenon
<1> QED
  BY <1>1, <1>2, <1>3, <1>4, <1>5, <1>6, <1>7, <1>8, <1>9, <1>10, <1>11, <1>12, <1>13, Zenon DEF CompactNext

LEMMA CommitStep ==
  ASSUME WellOrdered, CommitInv, [Next]_vars
  PROVE  CommitInv'
<1>a. ASSUME UNCHANGED <<minTime, maxTime, minValidTime, head, app, dc, blocks, acked, behind>>
      PROVE  CommitInv'
  BY <1>a, Zenon DEF CommitInv, WindowInv, BoundsTyped, AppendWindowOpen, AppInv, CompactInv, AckInv, Safe,
              CoveredBelow, LeftAbove, Reading
<1>1. ASSUME NEW r \in Readers, QueryNext(r) PROVE CommitInv'
  <2>1. UNCHANGED <<minTime, maxTime, minValidTime, head, app, dc, blocks, acked, behind>>
    BY <1>1, Zenon DEF QueryNext, Querier, rangeHead, collide, CloseQuerier, boundVars
  <2> QED
    BY <1>a, <2>1, Zenon
<1>2. CASE UNCHANGED vars
  BY <1>2, <1>a, Zenon DEF vars, boundVars
<1> QED
  BY <1>1, <1>2, AppCommit, CompactCommit, Zenon DEF Next

-----------------------------------------------------------------------------
QueryStates == {"none", "blocks", "registered", "open"}
Queries == [st : QueryStates, mint : Int, maxt : Int, inHead : BOOLEAN, from : Int,
            blocks : SUBSET Samples, due : SUBSET Samples]

\* What a query must find in the head, as its blocks do not hold it.
Needed(r) == (q[r].due \ q[r].blocks) \ behind

\* A truncation that queries are told of, and one that has waited for them.
Told == {"readers", "store", "gcStart", "gc", "bounds", "unflag"}
Waited == Told \ {"readers"}

\* A sample that a truncation does not drop, or not yet as it waits for the
\* queries that end above its time.
OutOfReach(x) ==
  /\ dc.pc \in Waited => dc.maxt <= x[2]
  /\ dc.pc = "readers" => dc.waitMint <= x[2] \/ dc.maxt <= x[2]

TruncInv ==
  /\ lastMemoryTruncationTime \in Int
  /\ dc.pc = "flag" => lastMemoryTruncationTime = dc.maxt
  /\ memTruncationInProcess => dc.pc \in Told /\ lastMemoryTruncationTime = dc.maxt

\* While DB.Querier holds mtx the blocks of the query are those of the
\* database.  Afterwards what it needs is in the head, not below minTime, and
\* out of reach of a truncation that no longer waits.
QueryInv(r) ==
  /\ q[r].due \subseteq acked
  /\ q[r].st # "none" => \A x \in q[r].due : x[2] <= q[r].maxt
  /\ q[r].st \in {"blocks", "registered"} =>
       /\ q[r].blocks = {x \in blocks : q[r].mint <= x[2] /\ x[2] <= q[r].maxt}
       /\ \A x \in q[r].due : q[r].mint <= x[2]
  /\ q[r].st \in {"registered", "open"} =>
       /\ q[r].mint <= q[r].from
       /\ \A x \in Needed(r) : q[r].inHead /\ q[r].from <= x[2]
  /\ q[r].st = "open" =>
       \A x \in Needed(r) : x[2] \in head[x[1]] /\ minTime <= x[2] /\ OutOfReach(x)

ReadInv ==
  /\ CommitInv
  /\ blocks \subseteq Samples
  /\ q \in [Readers -> Queries]
  /\ TruncInv
  /\ \A r \in Readers : QueryInv(r)

LEMMA BelowMinTime ==
  ASSUME CommitInv
  PROVE  CoveredBelow(minTime, blocks) /\ (dc.pc \in Loaded => CoveredBelow(dc.maxt, blocks))
<1>1. /\ CompactInv /\ minTime \in Int /\ dc.mint \in Int /\ dc.maxt \in Int /\ dc.pc \in Steps
      /\ \A s \in Series : \A u \in head[s] : u \in Int
  BY HeadCompactionAssumption DEF CommitInv, WindowInv, BoundsTyped, Compactions, Times
<1>2. ASSUME NEW m \in Int, minTime <= m, CoveredBelow(m, blocks) PROVE CoveredBelow(minTime, blocks)
  BY <1>1, <1>2 DEF CoveredBelow
<1>3. CASE dc.pc \in {"idle", "unflag"}
  BY <1>1, <1>3, Zenon DEF CompactInv
<1>4. CASE dc.pc \in Truncating
  BY <1>1, <1>2, <1>4, Zenon DEF CompactInv
<1>5. CASE dc.pc \in {"gcStart", "gc", "bounds"}
  BY <1>1, <1>2, <1>5, Zenon DEF CompactInv, Loaded
<1>6. CoveredBelow(minTime, blocks)
  BY <1>1, <1>3, <1>4, <1>5, Zenon DEF Steps
<1>7. dc.pc \in Loaded => CoveredBelow(dc.maxt, blocks)
  BY <1>1, Zenon DEF CompactInv
<1> QED
  BY <1>6, <1>7, Zenon

\* Under mtx, what a query needs is in the head and above what a truncation
\* may drop, as no block holds it.
LEMMA NeededInHead ==
  ASSUME ReadInv, NEW r \in Readers, q[r].st \in {"blocks", "registered"}, NEW x \in Needed(r)
  PROVE  /\ x \in Samples /\ x[2] \in Int /\ x[2] \in head[x[1]]
         /\ q[r].mint <= x[2] /\ x[2] <= q[r].maxt
         /\ minTime <= x[2] /\ (dc.pc \in Loaded => dc.maxt <= x[2])
<1>1. x \in q[r].due /\ x \notin q[r].blocks /\ x \notin behind
  BY Zenon DEF Needed
<1>2. QueryInv(r) /\ x \in acked
  BY <1>1, Zenon DEF ReadInv, QueryInv
<1>3. q[r].mint <= x[2] /\ x[2] <= q[r].maxt /\ x \notin blocks
  BY <1>1, <1>2, Zenon DEF QueryInv
<1>4. x \in Samples /\ x = <<x[1], x[2]>> /\ x[1] \in Series /\ x[2] \in Int /\ x[2] \in head[x[1]]
  BY <1>1, <1>2, <1>3, HeadCompactionAssumption DEF ReadInv, CommitInv, AckInv, Safe, Samples, Times
<1>5. minTime \in Int /\ dc.maxt \in Int
  BY Zenon DEF ReadInv, CommitInv, WindowInv, BoundsTyped, Compactions
<1>6. minTime <= x[2] /\ (dc.pc \in Loaded => dc.maxt <= x[2])
  BY <1>1, <1>3, <1>4, <1>5, BelowMinTime DEF ReadInv, CoveredBelow
<1> QED
  BY <1>3, <1>4, <1>6, Zenon

\* A step of an appender or of the compaction.
LEMMA ReadFrame ==
  ASSUME ReadInv, CommitInv', UNCHANGED q, acked \subseteq acked', behind \subseteq behind', TruncInv',
         blocks' \subseteq Samples,
         blocks' = blocks \/ \A r \in Readers : q[r].st \notin {"blocks", "registered"},
         \A r \in Readers : q[r].st = "open" => \A x \in Needed(r) :
           x[2] \in head'[x[1]] /\ minTime' <= x[2] /\ OutOfReach(x)'
  PROVE  ReadInv'
<1>1. ASSUME NEW r \in Readers PROVE QueryInv(r)'
  <2>1. QueryInv(r) /\ q'[r] = q[r] /\ Needed(r)' \subseteq Needed(r)
    BY Zenon DEF ReadInv, Needed
  <2>2. q[r].due \subseteq acked'
    BY <2>1, Zenon DEF QueryInv
  <2>3. q[r].st \in {"blocks", "registered"} =>
          q[r].blocks = {x \in blocks' : q[r].mint <= x[2] /\ x[2] <= q[r].maxt}
    BY <2>1, Zenon DEF QueryInv
  <2> QED
    BY <2>1, <2>2, <2>3, Zenon DEF QueryInv
<1>2. q' \in [Readers -> Queries]
  BY Zenon DEF ReadInv
<1> QED
  BY <1>1, <1>2, Zenon DEF ReadInv

LEMMA AppRead ==
  ASSUME ReadInv, NEW a \in Appenders, AppNext(a)
  PROVE  ReadInv'
<1>1. CommitInv /\ CommitInv' /\ WindowInv /\ app[a] \in Apps /\ head \in [Series -> SUBSET Times] /\ minTime \in Int
  BY AppCommit, Zenon DEF ReadInv, CommitInv, WindowInv, BoundsTyped
<1>2. UNCHANGED <<truncVars, dc, blocks, q>>
  BY Zenon DEF AppNext, appender, newAppendID, Append, commitSamples, updateMinMaxTime, closeAppend
<1>3. acked \subseteq acked' /\ behind \subseteq behind'
  BY Zenon DEF AppNext, appender, newAppendID, Append, commitSamples, updateMinMaxTime, closeAppend
<1>4. \A s \in Series : head[s] \subseteq head'[s]
  <2>1. CASE commitSamples(a)
    <3>1. PICK x \in app[a].smp, ok \in BOOLEAN : head' = IF ok THEN [head EXCEPT ![x[1]] = @ \union {x[2]}] ELSE head
      BY <2>1, Zenon DEF commitSamples
    <3> QED
      BY <1>1, <3>1, Zenon
  <2>2. CASE ~commitSamples(a)
    <3>1. head' = head
      BY <2>2, Zenon DEF AppNext, appender, newAppendID, Append, updateMinMaxTime, closeAppend
    <3> QED
      BY <3>1, Zenon
  <2> QED
    BY <2>1, <2>2, Zenon
<1>5. minTime' \in Int /\ minTime' <= minTime
  <2>1. CASE updateMinMaxTime(a)
    BY <1>1, <2>1, UpdateWidens, Zenon
  <2>2. CASE ~updateMinMaxTime(a)
    <3>1. minTime' = minTime
      BY <2>2, Zenon DEF AppNext, appender, newAppendID, Append, commitSamples, closeAppend, boundVars
    <3> QED
      BY <1>1, <3>1
  <2> QED
    BY <2>1, <2>2, Zenon
<1>6. TruncInv'
  BY <1>2, Zenon DEF ReadInv, TruncInv, truncVars
<1>7. ASSUME NEW r \in Readers, q[r].st = "open", NEW x \in Needed(r)
      PROVE  x[2] \in head'[x[1]] /\ minTime' <= x[2] /\ OutOfReach(x)'
  <2>1. x[2] \in head[x[1]] /\ minTime <= x[2] /\ OutOfReach(x)
    BY <1>7, Zenon DEF ReadInv, QueryInv
  <2>2. x[1] \in Series /\ x[2] \in Int
    BY HeadCompactionAssumption DEF ReadInv, Queries, Needed, Samples, Times
  <2>3. OutOfReach(x)'
    BY <1>2, <2>1, Zenon DEF OutOfReach
  <2> QED
    BY <1>1, <1>2, <1>4, <1>5, <2>1, <2>2, <2>3
<1> QED
  BY <1>1, <1>2, <1>3, <1>6, <1>7, ReadFrame, Zenon DEF ReadInv

\* A step of the compaction: it waits for the queries that need what gc drops.
LEMMA CompactRead ==
  ASSUME WellOrdered, ReadInv, CompactNext
  PROVE  ReadInv'
<1>0. /\ CommitInv /\ CommitInv' /\ TruncInv /\ dc \in Compactions /\ minTime \in Int
      /\ dc.maxt \in Int /\ dc.gcMint \in Int /\ dc.actualMint \in Int /\ blocks \subseteq Samples
      /\ CompactInv /\ WindowInv /\ head \in [Series -> SUBSET Times]
  BY CompactCommit, Zenon DEF ReadInv, CommitInv, WindowInv, BoundsTyped, Compactions
<1>a. UNCHANGED <<q, acked, behind>>
  BY Zenon DEF CompactNext, compact, WaitForAppendersOverlapping, Write, fail, reloadBlocks, truncateMemory,
         setInProcess, WaitForPendingReadersInTimeRange, storeBounds, gc, gcSeries, raiseBounds, unsetInProcess
<1>b. ASSUME NEW r \in Readers, q[r].st = "open", NEW x \in Needed(r)
      PROVE  /\ x[2] \in head[x[1]] /\ minTime <= x[2] /\ OutOfReach(x)
             /\ q[r].inHead /\ q[r].from <= x[2] /\ q[r].mint <= q[r].from /\ x[2] <= q[r].maxt
             /\ x[1] \in Series /\ x[2] \in Int /\ x[2] <= MaxTime /\ x = <<x[1], x[2]>> /\ x \notin behind
             /\ q[r].mint \in Int /\ q[r].from \in Int /\ q[r].maxt \in Int
  <2>1. /\ x[1] \in Series /\ x[2] \in Int /\ x[2] <= MaxTime /\ x = <<x[1], x[2]>> /\ x \notin behind
        /\ x \in q[r].due
    BY HeadCompactionAssumption DEF ReadInv, Queries, Needed, Samples, Times
  <2>2. q[r].mint \in Int /\ q[r].from \in Int /\ q[r].maxt \in Int
    BY Zenon DEF ReadInv, Queries
  <2> QED
    BY <1>b, <2>1, <2>2, Zenon DEF ReadInv, QueryInv
<1>c. ASSUME UNCHANGED <<minTime, head, blocks>>, TruncInv', dc'.pc # "readers",
             dc'.pc \in Waited => dc.pc \in Waited /\ dc'.maxt = dc.maxt
      PROVE  ReadInv'
  <2>1. ASSUME NEW r \in Readers, q[r].st = "open", NEW x \in Needed(r)
        PROVE  x[2] \in head'[x[1]] /\ minTime' <= x[2] /\ OutOfReach(x)'
    BY <1>b, <1>c, <2>1, Zenon DEF OutOfReach
  <2> QED
    BY <1>0, <1>a, <1>c, <2>1, ReadFrame, Zenon
<1>1. CASE compact
  <2>1. UNCHANGED <<minTime, head, blocks, truncVars>> /\ dc'.pc = "wait" /\ dc.pc = "idle"
    BY <1>1, Zenon DEF compact, boundVars, Idle
  <2>2. TruncInv'
    BY <1>0, <2>1, Zenon DEF TruncInv, truncVars, Told
  <2> QED
    BY <1>c, <2>1, <2>2, Zenon DEF Waited, Told
<1>2. CASE WaitForAppendersOverlapping \/ Write
  <2>1. /\ UNCHANGED <<minTime, head, blocks, truncVars>> /\ dc'.pc \in {"write", "reload"}
        /\ dc.pc \in {"wait", "write"}
    BY <1>0, <1>2, Zenon DEF WaitForAppendersOverlapping, Write, boundVars, Compactions
  <2>2. TruncInv'
    BY <1>0, <2>1, Zenon DEF TruncInv, truncVars, Told
  <2> QED
    BY <1>c, <2>1, <2>2, Zenon DEF Waited, Told
<1>3. CASE fail
  <2>1. UNCHANGED <<minTime, head, blocks, truncVars>> /\ dc'.pc = "idle" /\ dc.pc \in {"write", "reload"}
    BY <1>3, Zenon DEF fail, boundVars, Idle
  <2>2. TruncInv'
    BY <1>0, <2>1, Zenon DEF TruncInv, truncVars, Told
  <2> QED
    BY <1>c, <2>1, <2>2, Zenon DEF Waited, Told
<1>4. CASE reloadBlocks
  <2>1. /\ UNCHANGED <<minTime, head, truncVars>> /\ dc'.pc = "mark" /\ dc.pc = "reload"
        /\ blocks' = blocks \union dc.new
        /\ \A r \in Readers : q[r].st \notin {"blocks", "registered"}
    BY <1>0, <1>4, Zenon DEF reloadBlocks, boundVars, Compactions
  <2>2. TruncInv'
    BY <1>0, <2>1, Zenon DEF TruncInv, truncVars, Told
  <2>3. blocks' \subseteq Samples
    BY <1>0, <2>1, Zenon DEF Compactions
  <2>4. ASSUME NEW r \in Readers, q[r].st = "open", NEW x \in Needed(r)
        PROVE  x[2] \in head'[x[1]] /\ minTime' <= x[2] /\ OutOfReach(x)'
    BY <1>b, <2>1, <2>4, Zenon DEF OutOfReach, Waited, Told
  <2> QED
    BY <1>0, <1>a, <2>1, <2>2, <2>3, <2>4, ReadFrame, Zenon
<1>5. CASE truncateMemory
  <2>1. /\ UNCHANGED <<minTime, head, blocks, memTruncationInProcess>> /\ dc.pc = "mark"
        /\ \/ dc' = Idle /\ UNCHANGED lastMemoryTruncationTime
           \/ dc' = [dc EXCEPT !.pc = "flag"] /\ lastMemoryTruncationTime' = dc.maxt
    BY <1>5, Zenon DEF truncateMemory, boundVars, truncVars
  <2>2. dc'.pc = "idle" \/ (dc'.pc = "flag" /\ dc'.maxt = dc.maxt /\ lastMemoryTruncationTime' = dc.maxt)
    BY <1>0, <2>1 DEF Compactions, Idle
  <2>3. ~memTruncationInProcess
    BY <1>0, <2>1, Zenon DEF TruncInv, Told
  <2>4. TruncInv'
    BY <1>0, <2>1, <2>2, <2>3, Zenon DEF TruncInv
  <2> QED
    BY <1>c, <2>1, <2>2, <2>4, Zenon DEF Waited, Told
<1>6. CASE setInProcess
  <2>1. /\ UNCHANGED <<minTime, head, blocks, lastMemoryTruncationTime>> /\ dc.pc = "flag"
        /\ dc'.pc = "readers" /\ dc'.maxt = dc.maxt /\ dc'.waitMint = minTime
    BY <1>0, <1>6, Zenon DEF setInProcess, boundVars, Compactions
  <2>2. TruncInv'
    BY <1>0, <2>1, Zenon DEF TruncInv, Told
  <2>3. ASSUME NEW r \in Readers, q[r].st = "open", NEW x \in Needed(r)
        PROVE  x[2] \in head'[x[1]] /\ minTime' <= x[2] /\ OutOfReach(x)'
    BY <1>b, <2>1, <2>3, Zenon DEF OutOfReach, Waited
  <2> QED
    BY <1>0, <1>a, <2>1, <2>2, <2>3, ReadFrame, Zenon
<1>7. CASE WaitForPendingReadersInTimeRange
  <2>1. /\ UNCHANGED <<minTime, head, blocks, truncVars>> /\ dc.pc = "readers"
        /\ dc'.pc = "store" /\ dc'.maxt = dc.maxt
        /\ \A r \in Readers : ~Overlaps(r)
    BY <1>0, <1>7, Zenon DEF WaitForPendingReadersInTimeRange, boundVars, Compactions
  <2>2. TruncInv'
    BY <1>0, <2>1, Zenon DEF TruncInv, Told, truncVars
  <2>3. ASSUME NEW r \in Readers, q[r].st = "open", NEW x \in Needed(r)
        PROVE  x[2] \in head'[x[1]] /\ minTime' <= x[2] /\ OutOfReach(x)'
    <3>1. /\ x[2] \in head[x[1]] /\ minTime <= x[2] /\ x[2] \in Int
          /\ q[r].inHead /\ q[r].from <= x[2] /\ q[r].mint <= q[r].from /\ x[2] <= q[r].maxt
          /\ q[r].mint \in Int /\ q[r].from \in Int /\ q[r].maxt \in Int
          /\ dc.waitMint <= x[2] \/ dc.maxt <= x[2]
      BY <1>b, <2>1, <2>3, Zenon DEF OutOfReach
    <3>2. ~(q[r].mint <= dc.maxt - 1 /\ dc.waitMint <= q[r].maxt)
      BY <2>1, <3>1, Zenon DEF Overlaps
    <3>3. dc.waitMint \in Int
      BY <1>0, Zenon DEF Compactions
    <3>4. dc.maxt <= x[2]
      BY <1>0, <3>1, <3>2, <3>3
    <3> QED
      BY <2>1, <3>1, <3>4, Zenon DEF OutOfReach
  <2> QED
    BY <1>0, <1>a, <2>1, <2>2, <2>3, ReadFrame, Zenon
<1>8. CASE storeBounds
  <2>1. /\ UNCHANGED <<head, blocks, truncVars>> /\ dc.pc = "store" /\ minTime' = dc.maxt
        /\ dc'.pc = "gcStart" /\ dc'.maxt = dc.maxt
    BY <1>0, <1>8, Zenon DEF storeBounds, Compactions
  <2>2. TruncInv'
    BY <1>0, <2>1, Zenon DEF TruncInv, Told, truncVars
  <2>3. ASSUME NEW r \in Readers, q[r].st = "open", NEW x \in Needed(r)
        PROVE  x[2] \in head'[x[1]] /\ minTime' <= x[2] /\ OutOfReach(x)'
    BY <1>b, <2>1, <2>3, Zenon DEF OutOfReach, Waited, Told
  <2> QED
    BY <1>0, <1>a, <2>1, <2>2, <2>3, ReadFrame, Zenon
<1>9. CASE gc
  <2>1. /\ UNCHANGED <<minTime, head, blocks, truncVars>> /\ dc.pc = "gcStart"
        /\ dc'.pc = "gc" /\ dc'.maxt = dc.maxt
    BY <1>0, <1>9, Zenon DEF gc, boundVars, Compactions
  <2>2. TruncInv'
    BY <1>0, <2>1, Zenon DEF TruncInv, Told, truncVars
  <2> QED
    BY <1>c, <2>1, <2>2, Zenon DEF Waited, Told
<1>10. ASSUME NEW s \in Series, gcSeries(s) PROVE ReadInv'
  <2>1. /\ UNCHANGED <<minTime, blocks, truncVars>> /\ dc.pc = "gc"
        /\ dc'.pc \in {"gc", "bounds"} /\ dc'.maxt = dc.maxt
        /\ head' = [head EXCEPT ![s] = {t \in head[s] : t >= dc.gcMint}]
    BY <1>0, <1>10, Zenon DEF gcSeries, boundVars, Compactions
  <2>2. TruncInv'
    BY <1>0, <2>1, Zenon DEF TruncInv, Told, truncVars
  <2>3. dc.gcMint <= dc.maxt
    BY <1>0, <2>1, Zenon DEF CompactInv
  <2>4. ASSUME NEW r \in Readers, q[r].st = "open", NEW x \in Needed(r)
        PROVE  x[2] \in head'[x[1]] /\ minTime' <= x[2] /\ OutOfReach(x)'
    <3>1. x[2] \in head[x[1]] /\ minTime <= x[2] /\ dc.maxt <= x[2] /\ x[1] \in Series /\ x[2] \in Int
      BY <1>b, <2>1, <2>4, Zenon DEF OutOfReach, Waited, Told
    <3>2. x[2] >= dc.gcMint
      BY <1>0, <2>3, <3>1
    <3> QED
      BY <1>0, <2>1, <3>1, <3>2, Zenon DEF OutOfReach
  <2> QED
    BY <1>0, <1>a, <2>1, <2>2, <2>4, ReadFrame, Zenon
<1>11. CASE raiseBounds
  <2> DEFINE actual == IF dc.actualMint = MaxTime + chunkRange THEN dc.gcMint ELSE dc.actualMint
             to == Min({actual, appendableMinValidTime})
  <2>1. /\ dc.pc = "bounds" /\ UNCHANGED <<head, blocks, truncVars>>
        /\ minTime' = IF actual > minTime THEN to ELSE minTime
        /\ dc'.pc = "unflag" /\ dc'.maxt = dc.maxt
    BY <1>0, <1>11, Zenon DEF raiseBounds, Compactions
  <2>2. TruncInv'
    BY <1>0, <2>1, Zenon DEF TruncInv, Told, truncVars
  <2>3. LeftAbove /\ dc.todo = {}
    BY <1>0, <2>1, Zenon DEF CompactInv
  <2>4. to \in Int /\ to <= actual /\ actual \in Int
    <3>1. actual \in Int
      BY <1>0, Zenon
    <3> HIDE DEF actual
    <3> QED
      BY <1>0, <3>1, WindowStart, MaxPair, Zenon
  <2>5. ASSUME NEW r \in Readers, q[r].st = "open", NEW x \in Needed(r)
        PROVE  x[2] \in head'[x[1]] /\ minTime' <= x[2] /\ OutOfReach(x)'
    <3>1. /\ x[2] \in head[x[1]] /\ minTime <= x[2] /\ dc.maxt <= x[2] /\ x[1] \in Series /\ x[2] \in Int
          /\ x[2] <= MaxTime /\ x = <<x[1], x[2]>> /\ x \notin behind
      BY <1>b, <2>1, <2>5, Zenon DEF OutOfReach, Waited, Told
    <3>2. x[2] >= dc.actualMint
      BY <2>3, <3>1, Zenon DEF LeftAbove
    <3>3. actual <= x[2]
      BY <1>0, <3>1, <3>2, HeadCompactionAssumption
    <3> HIDE DEF to, actual
    <3>4. minTime' <= x[2]
      BY <1>0, <2>1, <2>4, <3>1, <3>3
    <3> QED
      BY <2>1, <3>1, <3>4, Zenon DEF OutOfReach
  <2> QED
    BY <1>0, <1>a, <2>1, <2>2, <2>5, ReadFrame, Zenon
<1>12. CASE unsetInProcess
  <2>1. UNCHANGED <<minTime, head, blocks, lastMemoryTruncationTime>> /\ dc'.pc = "idle" /\ memTruncationInProcess' = FALSE
    BY <1>12, Zenon DEF unsetInProcess, boundVars, Idle
  <2>2. TruncInv'
    BY <1>0, <2>1, Zenon DEF TruncInv
  <2> QED
    BY <1>c, <2>1, <2>2, Zenon DEF Waited, Told
<1> QED
  BY <1>1, <1>2, <1>3, <1>4, <1>5, <1>6, <1>7, <1>8, <1>9, <1>10, <1>11, <1>12, Zenon DEF CompactNext

\* A step of a query changes its own record only.
LEMMA QueryRecord ==
  ASSUME ReadInv, NEW r \in Readers, NEW n \in Queries, q' = [q EXCEPT ![r] = n],
         UNCHANGED <<boundVars, truncVars, head, app, dc, blocks, acked, behind>>,
         n.due \subseteq acked,
         n.st # "none" => \A x \in n.due : x[2] <= n.maxt,
         n.st \in {"blocks", "registered"} =>
           /\ n.blocks = {x \in blocks : n.mint <= x[2] /\ x[2] <= n.maxt}
           /\ \A x \in n.due : n.mint <= x[2],
         n.st \in {"registered", "open"} =>
           /\ n.mint <= n.from
           /\ \A x \in (n.due \ n.blocks) \ behind : n.inHead /\ n.from <= x[2],
         n.st = "open" => \A x \in (n.due \ n.blocks) \ behind :
           x[2] \in head[x[1]] /\ minTime <= x[2] /\ OutOfReach(x)
  PROVE  ReadInv'
<1>1. CommitInv'
  <2>1. UNCHANGED <<minTime, maxTime, minValidTime, head, app, dc, blocks, acked, behind>>
    BY Zenon DEF boundVars
  <2> QED
    BY <2>1 DEF ReadInv, CommitInv, WindowInv, BoundsTyped, AppendWindowOpen, AppInv, CompactInv, AckInv, Safe,
                CoveredBelow, LeftAbove, Reading
<1>2. q \in [Readers -> Queries]
  BY Zenon DEF ReadInv
<1>3. q' \in [Readers -> Queries] /\ q'[r] = n /\ \A p \in Readers \ {r} : q'[p] = q[p]
  BY <1>2, Zenon
<1>4. TruncInv' /\ blocks' \subseteq Samples
  BY Zenon DEF ReadInv, TruncInv, truncVars
<1>5. minTime' = minTime
  BY Zenon DEF boundVars
<1>6. QueryInv(r)'
  <2>1. Needed(r)' = (n.due \ n.blocks) \ behind
    BY <1>3, Zenon DEF Needed
  <2> QED
    BY <1>3, <1>5, <2>1, Zenon DEF QueryInv, OutOfReach
<1>7. ASSUME NEW p \in Readers \ {r} PROVE QueryInv(p)'
  <2>1. QueryInv(p) /\ q'[p] = q[p] /\ Needed(p)' = Needed(p)
    BY <1>3, Zenon DEF ReadInv, Needed
  <2> QED
    BY <1>5, <2>1, Zenon DEF QueryInv, OutOfReach
<1> QED
  BY <1>1, <1>3, <1>4, <1>6, <1>7, Zenon DEF ReadInv

LEMMA QueryRead ==
  ASSUME ReadInv, NEW r \in Readers, QueryNext(r)
  PROVE  ReadInv'
<1> DEFINE o == q[r]
<1>0. /\ UNCHANGED <<boundVars, truncVars, head, app, dc, blocks, acked, behind>>
      /\ o \in Queries /\ QueryInv(r) /\ blocks \subseteq Samples /\ acked \subseteq Samples
      /\ minTime \in Int /\ lastMemoryTruncationTime \in Int /\ dc.maxt \in Int
  BY Zenon DEF QueryNext, Querier, rangeHead, collide, CloseQuerier, ReadInv, CommitInv, AckInv, WindowInv, BoundsTyped,
         TruncInv, Compactions
<1>a. o.mint \in Int /\ o.maxt \in Int /\ o.from \in Int /\ o.blocks \subseteq Samples /\ o.due \subseteq Samples /\ o.due \subseteq acked
  BY <1>0, Zenon DEF Queries, QueryInv
<1>1. ASSUME NEW range \in Ranges, Querier(r, range[1], range[2]) PROVE ReadInv'
  <2> DEFINE m == range[1]
             l == range[2]
             B == {x \in blocks : m <= x[2] /\ x[2] <= l}
             D == {x \in acked : m <= x[2] /\ x[2] <= l}
             n == [NoQuery EXCEPT !.st = "blocks", !.mint = m, !.maxt = l, !.blocks = B, !.due = D]
  <2>1. q' = [q EXCEPT ![r] = n]
    BY <1>1, Zenon DEF Querier
  <2>2. m \in Int /\ l \in Int
    BY HeadCompactionAssumption
  <2>3. B \subseteq Samples /\ D \subseteq Samples /\ D \subseteq acked /\ \A x \in D : m <= x[2] /\ x[2] <= l
    BY <1>0, Zenon
  <2> HIDE DEF B, D, m, l
  <2>a. NoQuery \in Queries
    BY DEF NoQuery, Queries, QueryStates
  <2>4. n \in Queries /\ n.st = "blocks" /\ n.mint = m /\ n.maxt = l /\ n.blocks = B /\ n.due = D
    BY <2>2, <2>3, <2>a, Zenon DEF Queries, QueryStates
  <2> HIDE DEF n
  <2>5. n.blocks = {x \in blocks : n.mint <= x[2] /\ x[2] <= n.maxt}
    BY <2>4, Zenon DEF B
  <2> QED
    BY <1>0, <2>1, <2>3, <2>4, <2>5, QueryRecord, Zenon
<1>2. CASE rangeHead(r)
  <2> DEFINE f == Max({o.mint, minTime})
             h == o.maxt >= minTime
             n == [o EXCEPT !.inHead = h, !.from = f, !.st = "registered"]
  <2>1. q' = [q EXCEPT ![r] = n] /\ o.st = "blocks"
    BY <1>2, Zenon DEF rangeHead, ReadInv
  <2>2. f \in Int /\ f >= o.mint /\ f \in {o.mint, minTime} /\ h \in BOOLEAN
    <3>1. f \in {o.mint, minTime} /\ f >= o.mint
      BY <1>0, <1>a, MaxPair, Zenon
    <3>2. h \in BOOLEAN
      OBVIOUS
    <3> QED
      BY <1>0, <1>a, <3>1, <3>2, Zenon
  <2>3. \A x \in Needed(r) : h /\ f <= x[2]
    BY <1>0, <1>a, <2>1, <2>2, NeededInHead
  <2> HIDE DEF f, h
  <2>4. /\ n \in Queries /\ n.st = "registered" /\ n.mint = o.mint /\ n.maxt = o.maxt /\ n.blocks = o.blocks
        /\ n.due = o.due /\ n.from = f /\ n.inHead = h
    BY <1>0, <2>2, Zenon DEF Queries, QueryStates
  <2> HIDE DEF n
  <2>5. /\ o.blocks = {x \in blocks : o.mint <= x[2] /\ x[2] <= o.maxt}
        /\ \A x \in o.due : o.mint <= x[2] /\ x[2] <= o.maxt
    BY <1>0, <2>1, Zenon DEF QueryInv
  <2>6. \A x \in (n.due \ n.blocks) \ behind : n.inHead /\ n.from <= x[2]
    BY <2>3, <2>4, Zenon DEF Needed
  <2> QED
    BY <1>0, <1>a, <2>1, <2>2, <2>4, <2>5, <2>6, QueryRecord, Zenon
<1>3. CASE collide(r)
  <2> DEFINE trunc == lastMemoryTruncationTime
  <2>1. o.st = "registered"
    BY <1>3, Zenon DEF collide
  <2>2. ASSUME NEW x \in Needed(r)
        PROVE  /\ x[2] \in Int /\ x[2] \in head[x[1]] /\ minTime <= x[2] /\ OutOfReach(x)
               /\ x[2] <= o.maxt /\ o.inHead /\ o.from <= x[2]
               /\ memTruncationInProcess => trunc <= x[2]
    <3>1. /\ x[2] \in Int /\ x[2] \in head[x[1]] /\ minTime <= x[2] /\ (dc.pc \in Loaded => dc.maxt <= x[2])
          /\ x[2] <= o.maxt
      BY <2>1, NeededInHead, Zenon
    <3>2. o.inHead /\ o.from <= x[2]
      BY <1>0, <2>1, Zenon DEF QueryInv
    <3>3. memTruncationInProcess => trunc <= x[2]
      BY <3>1, Zenon DEF ReadInv, TruncInv, Told, Loaded
    <3> QED
      BY <3>1, <3>2, <3>3, Zenon DEF OutOfReach, Waited, Told, Loaded
  <2>3. \A x \in o.due : x[2] <= o.maxt
    BY <1>0, <2>1, Zenon DEF QueryInv
  <2>4. o.mint <= o.from
    BY <1>0, <2>1, Zenon DEF QueryInv
  <2>5. CASE ~o.inHead \/ ~IsQuerierCollidingWithTruncation(o.mint, o.maxt)
    <3> DEFINE n == [o EXCEPT !.st = "open"]
    <3>1. q' = [q EXCEPT ![r] = n]
      BY <1>3, <2>5, Zenon DEF collide
    <3>2. /\ n \in Queries /\ n.st = "open" /\ n.mint = o.mint /\ n.maxt = o.maxt /\ n.blocks = o.blocks
          /\ n.due = o.due /\ n.from = o.from /\ n.inHead = o.inHead
      BY <1>0, Zenon DEF Queries, QueryStates
    <3> HIDE DEF n
    <3>3. (n.due \ n.blocks) \ behind = Needed(r)
      BY <3>2, Zenon DEF Needed
    <3> QED
      BY <1>0, <1>a, <2>2, <2>3, <2>4, <3>1, <3>2, <3>3, QueryRecord, Zenon
  <2>6. CASE ~(~o.inHead \/ ~IsQuerierCollidingWithTruncation(o.mint, o.maxt))
    <3> DEFINE f == Max({trunc, minTime})
               h == o.maxt >= trunc
               n == [o EXCEPT !.st = "open", !.inHead = h, !.mint = trunc, !.from = f]
    <3>1. q' = [q EXCEPT ![r] = n] /\ memTruncationInProcess
      BY <1>3, <2>6, Zenon DEF collide, IsQuerierCollidingWithTruncation
    <3>2. f \in Int /\ f >= trunc /\ f \in {trunc, minTime} /\ h \in BOOLEAN
      <4>1. trunc \in Int /\ minTime \in Int
        BY <1>0, Zenon
      <4>2. f \in {trunc, minTime} /\ f >= trunc
        BY <4>1, MaxPair, Zenon
      <4>3. h \in BOOLEAN
        OBVIOUS
      <4> QED
        BY <4>1, <4>2, <4>3, Zenon
    <3>3. \A x \in Needed(r) : h /\ f <= x[2]
      BY <1>0, <1>a, <2>2, <3>1, <3>2
    <3> HIDE DEF f, h
    <3>4. /\ n \in Queries /\ n.st = "open" /\ n.mint = trunc /\ n.maxt = o.maxt /\ n.blocks = o.blocks
          /\ n.due = o.due /\ n.from = f /\ n.inHead = h
      BY <1>0, <3>2, Zenon DEF Queries, QueryStates
    <3> HIDE DEF n
    <3>5. (n.due \ n.blocks) \ behind = Needed(r)
      BY <3>4, Zenon DEF Needed
    <3>6. n.mint <= n.from /\ \A x \in (n.due \ n.blocks) \ behind : n.inHead /\ n.from <= x[2]
      BY <1>0, <3>2, <3>3, <3>4, <3>5, Zenon
    <3> QED
      BY <1>0, <1>a, <2>2, <2>3, <3>1, <3>4, <3>5, <3>6, QueryRecord, Zenon
  <2> QED
    BY <2>5, <2>6, Zenon
<1>4. CASE CloseQuerier(r)
  <2>1. NoQuery \in Queries /\ NoQuery.st = "none" /\ NoQuery.due = {}
    BY DEF NoQuery, Queries, QueryStates
  <2>2. q' = [q EXCEPT ![r] = NoQuery]
    BY <1>4, Zenon DEF CloseQuerier
  <2> QED
    BY <1>0, <2>1, <2>2, QueryRecord, Zenon
<1> QED
  BY <1>1, <1>2, <1>3, <1>4, Zenon DEF QueryNext

LEMMA ReadInit == Init => ReadInv
<1> SUFFICES ASSUME Init PROVE ReadInv
  BY Zenon
<1>1. NoQuery \in Queries /\ NoQuery.st = "none" /\ NoQuery.due = {}
  BY DEF NoQuery, Queries, QueryStates
<1>2. q \in [Readers -> Queries] /\ \A r \in Readers : q[r] = NoQuery
  BY <1>1, Zenon DEF Init
<1>3. \A r \in Readers : QueryInv(r)
  BY <1>1, <1>2, Zenon DEF QueryInv
<1>4. TruncInv
  BY HalfRange DEF Init, TruncInv, Idle
<1> QED
  BY <1>2, <1>3, <1>4, CommitInit, Zenon DEF Init, ReadInv
-----------------------------------------------------------------------------
INSTANCE WellFoundedInduction

\* The naturals are well-ordered by <.
LEMMA NaturalsWellOrdered == WellOrdered
<1> SUFFICES ASSUME NEW S \in SUBSET Nat, S # {}
             PROVE  \E x \in S : \A y \in S : x <= y
  BY Zenon DEF WellOrdered
<1> DEFINE Less == {ss \in Nat \X Nat : ss[1] < ss[2]}
<1>1. IsWellFoundedOn(Less, Nat)
  BY NatLessThanWellFounded, Zenon DEF OpToRel
<1> HIDE DEF Less
<1>2. \E x \in S : \A y \in S : ~(<<y, x>> \in Less)
  BY <1>1, WFMin, Zenon
<1>3. \A x, y \in Nat : ~(<<y, x>> \in Less) => x <= y
  BY DEF Less
<1> QED
  BY <1>2, <1>3, Zenon

\* Whatever appenders, compactions and queries do, the head accepts samples
\* of the last half of a chunkRange: no truncation moves minValidTime, the
\* lower end of what may be appended, above it.
THEOREM WindowStaysOpen == Spec => []AppendWindowOpen
<1>1. WindowInv /\ [Next]_vars => WindowInv'
  <2> SUFFICES ASSUME WindowInv, [Next]_vars PROVE WindowInv'
    BY Zenon
  <2>1. ASSUME NEW r \in Readers, QueryNext(r) PROVE WindowInv'
    <3>1. UNCHANGED <<minTime, maxTime, minValidTime, head, app, dc>>
      BY <2>1, Zenon DEF QueryNext, Querier, rangeHead, collide, CloseQuerier, boundVars
    <3> QED
      BY <3>1, Zenon DEF WindowInv, BoundsTyped, AppendWindowOpen
  <2>2. CASE UNCHANGED vars
    BY <2>2, Zenon DEF vars, boundVars, WindowInv, BoundsTyped, AppendWindowOpen
  <2> QED
    BY <2>1, <2>2, AppWindow, NaturalsWellOrdered, CompactWindow, Zenon DEF Next
<1> QED
  BY <1>1, WindowInit, PTL DEF Spec, WindowInv

\* A sample whose Commit has returned is never lost to a compaction that it
\* was not committed behind the back of: from the range that DB.Compact reads
\* to the series that gc truncates, appenders and the compaction agree.
THEOREM CommitsSurvive == Spec => []CommittedAheadStored
<1>2. CommitInv => CommittedAheadStored
  <2> SUFFICES ASSUME CommitInv, NEW x \in acked, x \notin behind PROVE x \in Stored
    BY Zenon DEF CommittedAheadStored
  <2>1. x \in Samples /\ x = <<x[1], x[2]>> /\ x[1] \in Series /\ x[2] \in Times
    BY DEF CommitInv, AckInv, Samples
  <2>2. x \in blocks \/ x[2] \in head[x[1]]
    BY Zenon DEF CommitInv, AckInv, Safe
  <2>3. x[2] \in head[x[1]] => x \in HeadSamples(0, MaxTime)
    <3>1. x[2] \in head[x[1]] => x[2] \in InHead(x[1], 0, MaxTime)
      BY <2>1, HeadCompactionAssumption DEF InHead, Times
    <3> QED
      BY <2>1, <3>1 DEF HeadSamples
  <2> QED
    BY <2>2, <2>3, Zenon DEF Stored
<1>1. CommitInv /\ [Next]_vars => CommitInv'
  BY NaturalsWellOrdered, CommitStep, Zenon
<1> QED
  BY <1>1, <1>2, CommitInit, PTL DEF Spec

\* A query that DB.Querier has opened finds, whenever it reads, all samples of
\* its range whose Commit had returned (ahead of compactions): truncateMemory
\* waits for the queries that need what gc will drop, and those that come too
\* late to be waited for look above it and have its block.
THEOREM QueriesComplete == Spec => []QueryComplete
<1>1. ReadInv /\ [Next]_vars => ReadInv'
  <2> SUFFICES ASSUME ReadInv, [Next]_vars PROVE ReadInv'
    BY Zenon
  <2>1. CASE UNCHANGED vars
    <3>1. CommitInv'
      BY <2>1, NaturalsWellOrdered, CommitStep, Zenon DEF ReadInv
    <3>2. ASSUME NEW r \in Readers PROVE QueryInv(r)'
      BY <2>1, Zenon DEF ReadInv, QueryInv, OutOfReach, Needed, vars, boundVars
    <3> QED
      BY <2>1, <3>1, <3>2, Zenon DEF ReadInv, TruncInv, vars, truncVars
  <2> QED
    BY <2>1, AppRead, NaturalsWellOrdered, CompactRead, QueryRead, Zenon DEF Next
<1>2. ReadInv => QueryComplete
  <2> SUFFICES ASSUME ReadInv, NEW r \in Readers, q[r].st = "open",
                      NEW x \in q[r].due \ behind, x \notin q[r].blocks
               PROVE  q[r].inHead /\ x \in HeadSamples(q[r].from, q[r].maxt)
    BY Zenon DEF QueryComplete
  <2>1. x \in Needed(r) /\ QueryInv(r)
    BY Zenon DEF Needed, ReadInv
  <2>2. x = <<x[1], x[2]>> /\ x[1] \in Series
    BY DEF ReadInv, Queries, Samples
  <2>3. q[r].inHead /\ q[r].from <= x[2] /\ x[2] <= q[r].maxt /\ x[2] \in head[x[1]]
    BY <2>1, Zenon DEF QueryInv
  <2>4. x[2] \in InHead(x[1], q[r].from, q[r].maxt)
    BY <2>3, Zenon DEF InHead
  <2> QED
    BY <2>2, <2>3, <2>4 DEF HeadSamples
<1> QED
  BY <1>1, <1>2, ReadInit, PTL DEF Spec
=============================================================================
