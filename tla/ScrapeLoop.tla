----------------------------- MODULE ScrapeLoop -----------------------------
(***************************************************************************)
(* The scrape loops of one target (scrape/scrape.go): each interval a loop *)
(* scrapes the target, appends what it exposes and marks stale the series  *)
(* that it no longer exposes.  Reloads restart the loop, with or without   *)
(* its cache, and service discovery removes the target and brings it back; *)
(* a loop that was stopped writes its stale markers late, while a new loop *)
(* may be scraping the same target.                                        *)
(*                                                                         *)
(* Time is counted in scrape intervals: the loops of a target scrape at    *)
(* the same offset into the interval, and a scrape takes less than the 10% *)
(* of it that endOfRunStaleness waits.  A sample is its time and whether   *)
(* it is a stale marker.  Scraped samples carry no timestamp of their own, *)
(* and the cache stays below the size at which iterDone forces a flush.    *)
(***************************************************************************)
EXTENDS Integers, FiniteSets

CONSTANTS Metrics,     \* the series that the target may expose
          MaxTicks,    \* bound on the time
          MaxRestarts  \* bound on the loops that are started

ASSUME ScrapeAssumption ==
  /\ IsFiniteSet(Metrics)
  /\ MaxTicks \in Nat /\ MaxRestarts \in Nat

VARIABLES
  tick,     \* the current interval
  phase,    \* has the target's offset into this interval been reached?
  stored,   \* the last sample of each series in the storage
  loop,     \* the running loop
  ending,   \* the loops in endOfRunStaleness
  poolUp,   \* is the scrape pool's context alive?
  starts,   \* how many loops were started
  good,     \* the last scrape, if it succeeded: its time and what it exposed
            \* that no failed scrape had read
  cut,      \* the series that scrapes read which failed midway, since the
            \* last success with this cache
  orphaned  \* the series that were left in a cache whose loop was stopped
            \* before its first scrape

\* good, cut and orphaned are history: the code keeps nothing of the kind.
scrapeVars == <<tick, phase, stored, loop, ending, poolUp, starts, good, cut, orphaned>>

newScrapeCache == [cur |-> {}, prev |-> {}, known |-> {}, seen |-> {}]
Caches == [cur: SUBSET Metrics, prev: SUBSET Metrics, known: SUBSET Metrics, seen: SUBSET Metrics]
NoScrape == [t |-> 0, exposed |-> {}]

ScrapeTypeOK ==
  /\ tick \in 1..MaxTicks /\ phase \in BOOLEAN
  /\ stored \in [Metrics -> [t: 0..MaxTicks, stale: BOOLEAN]]
  /\ loop \in [st: {"none", "wait", "run"}, last: 0..MaxTicks, fresh: BOOLEAN, cache: Caches]
  /\ ending \subseteq [cache: Caches, waits: 0..2, at: 0..MaxTicks, staleTime: 0..MaxTicks]
  /\ poolUp \in BOOLEAN /\ starts \in 0..MaxRestarts
  /\ cut \subseteq Metrics /\ orphaned \subseteq Metrics

ScrapeInit ==
  /\ tick = 1 /\ phase = FALSE
  /\ stored = [m \in Metrics |-> [t |-> 0, stale |-> TRUE]]
  /\ loop = [st |-> "none", last |-> 0, fresh |-> TRUE, cache |-> newScrapeCache]
  /\ ending = {} /\ poolUp = TRUE /\ starts = 0
  /\ good = NoScrape /\ cut = {} /\ orphaned = {}
-----------------------------------------------------------------------------
\* The head takes a sample only behind the last one of its series.
Accepts(m, t) == t > stored[m].t

\* The commit of the values of A and of the stale markers of B at time t.
Committed(A, B, t) ==
  [m \in Metrics |-> IF m \in A THEN [t |-> t, stale |-> FALSE]
                     ELSE IF m \in B /\ Accepts(m, t) THEN [t |-> t, stale |-> TRUE] ELSE stored[m]]

\* Mutant: a flush keeps the iteration number.
iterDoneSame(c, flushCache) == [c EXCEPT !.prev = c.cur, !.cur = {}]

\* iterDone: a flush forgets the series that were not seen and counts up iter.
iterDone(c, flushCache) ==
  [c EXCEPT !.prev = c.cur, !.cur = {},
            !.known = IF flushCache THEN c.seen ELSE c.known,
            !.seen = IF flushCache THEN {} ELSE c.seen]

\* The samples of E that append hands to the storage and that it takes: a
\* series whose entry has the number of this iteration is a duplicate.
Appended(c, E, t) == {m \in E : ~(m \in c.known /\ m \in c.seen) /\ Accepts(m, t)}

\* The cache when append has read E, and has met X past the sample limit.
Read(c, E, X, t) ==
  [c EXCEPT !.cur = c.cur \union Appended(c, E, t) \union ((E \union X) \ c.known),
            !.seen = c.seen \union Appended(c, E, t) \union ((E \union X) \intersect c.known),
            !.known = c.known \union Appended(c, E, t)]

\* forEachStale
StaleOf(c) == c.prev \ c.cur

\* A series is orphaned until something is stored for it again.
StillOrphaned == orphaned' = {m \in orphaned : stored'[m] = stored[m]}

\* scrapeAndReport of a scrape that exposes E.
ScrapeSucceeds(E) ==
  /\ loop.st = "run" /\ loop.last < tick /\ poolUp
  /\ E # {}
  /\ LET c == Read(loop.cache, E, {}, tick)
     IN  /\ stored' = Committed(Appended(loop.cache, E, tick), StaleOf(c), tick)
         /\ loop' = [loop EXCEPT !.last = tick, !.fresh = FALSE, !.cache = iterDone(c, TRUE)]
  /\ good' = [t |-> tick, exposed |-> E \ cut] /\ cut' = {}
  /\ StillOrphaned
  /\ phase' = TRUE
  /\ UNCHANGED <<tick, ending, poolUp, starts>>

\* Mutant: a scrape that fails appends nothing at all.
ScrapeFailsSilently(E, X) ==
  /\ loop.st = "run" /\ loop.last < tick /\ poolUp
  /\ E = {} /\ X = {}
  /\ loop' = [loop EXCEPT !.last = tick, !.fresh = FALSE]
  /\ good' = NoScrape
  /\ phase' = TRUE
  /\ UNCHANGED <<tick, stored, ending, poolUp, starts, cut, orphaned>>

\* scrapeAndReport of a scrape that fails: when the target does not answer or
\* the pool is over its target limit, E and X are empty; when the body does
\* not parse, E was read before that; when there are too many samples, E was
\* read within the limit and X past it.  What was appended is rolled back,
\* and append is called with an empty scrape.
ScrapeFails(E, X) ==
  /\ loop.st = "run" /\ loop.last < tick /\ poolUp
  /\ E \intersect X = {} /\ (E = {} => X = {})
  /\ LET c == Read(loop.cache, E, X, tick)
     IN  /\ stored' = Committed({}, StaleOf(c), tick)
         /\ loop' = [loop EXCEPT !.last = tick, !.fresh = FALSE, !.cache = iterDone(c, FALSE)]
  /\ good' = NoScrape /\ cut' = cut \union E \union (X \intersect loop.cache.known)
  /\ StillOrphaned
  /\ phase' = TRUE
  /\ UNCHANGED <<tick, ending, poolUp, starts>>

\* The end of the offset in run: the first scrape is due.
LoopStarts ==
  /\ loop.st = "wait" /\ loop.last < tick
  /\ loop' = [loop EXCEPT !.st = "run"]
  /\ phase' = TRUE
  /\ UNCHANGED <<tick, stored, ending, poolUp, starts, good, cut, orphaned>>
-----------------------------------------------------------------------------
\* run after the loop was stopped: it stays in endOfRunStaleness when it has
\* ever scraped.
EndOfRun == IF loop.st = "run" /\ ~loop.fresh
            THEN {[cache |-> loop.cache, waits |-> 0, at |-> loop.last, staleTime |-> 0]} ELSE {}

\* Loops are not started or stopped in the very instant of the offset.
Quiet == phase => (loop.st # "none" => loop.last = tick) /\ \A e \in ending : e.at = tick

\* The last interval whose offset has passed: a new loop waits for the next.
Passed == IF phase THEN tick ELSE tick - 1

\* A loop that took over a cache and has not scraped writes no markers.
Orphans == IF loop.fresh THEN loop.cache.prev ELSE {}

\* sync with a new target: the loop waits for its offset.
syncAdds ==
  /\ loop.st = "none" /\ poolUp /\ Quiet /\ starts < MaxRestarts
  /\ loop' = [st |-> "wait", last |-> Passed, fresh |-> TRUE, cache |-> newScrapeCache]
  /\ starts' = starts + 1
  /\ UNCHANGED <<tick, phase, stored, ending, poolUp, good, cut, orphaned>>

\* sync with a target that is gone.
syncRemoves ==
  /\ loop.st # "none" /\ poolUp /\ Quiet
  /\ ending' = ending \union EndOfRun
  /\ loop' = [st |-> "none", last |-> 0, fresh |-> TRUE, cache |-> newScrapeCache]
  /\ good' = NoScrape /\ cut' = {} /\ orphaned' = orphaned \union Orphans
  /\ UNCHANGED <<tick, phase, stored, poolUp, starts>>

\* restartLoops: the old loop is stopped before the new one runs.  With the
\* cache reused it writes no markers.
restartLoops(reuseCache) ==
  /\ loop.st # "none" /\ poolUp /\ Quiet /\ starts < MaxRestarts
  /\ ending' = IF reuseCache THEN ending ELSE ending \union EndOfRun
  /\ loop' = [st |-> "wait", last |-> Passed, fresh |-> TRUE,
              cache |-> IF reuseCache THEN loop.cache ELSE newScrapeCache]
  /\ starts' = starts + 1
  /\ good' = NoScrape
  /\ IF reuseCache THEN UNCHANGED <<cut, orphaned>>
                   ELSE cut' = {} /\ orphaned' = orphaned \union Orphans
  /\ UNCHANGED <<tick, phase, stored, poolUp>>

\* scrapePool.stop: every loop ends at once, without markers.
stopPool ==
  /\ poolUp /\ poolUp' = FALSE
  /\ loop' = [st |-> "none", last |-> 0, fresh |-> TRUE, cache |-> newScrapeCache]
  /\ ending' = {}
  /\ good' = NoScrape /\ cut' = {}
  /\ UNCHANGED <<tick, phase, stored, starts, orphaned>>

\* Mutant: the markers are written at the first tick, ahead of a new scrape.
endOfRunStalenessEager(e) ==
  /\ e \in ending /\ e.at < tick
  /\ stored' = Committed({}, StaleOf(e.cache), tick)
  /\ ending' = ending \ {e}
  /\ StillOrphaned
  /\ phase' = TRUE
  /\ UNCHANGED <<tick, loop, poolUp, starts, good, cut>>

\* endOfRunStaleness: the first tick gives the time of the markers, which are
\* written just after the second.
endOfRunStaleness(e) ==
  /\ e \in ending /\ e.at < tick
  /\ \/ /\ e.waits = 0
        /\ ending' = (ending \ {e}) \union {[e EXCEPT !.waits = 1, !.at = tick, !.staleTime = tick]}
        /\ UNCHANGED stored
     \/ /\ e.waits = 1
        /\ loop.st = "run" => loop.last = tick
        /\ stored' = Committed({}, StaleOf(e.cache), e.staleTime)
        /\ ending' = ending \ {e}
  /\ StillOrphaned
  /\ phase' = TRUE
  /\ UNCHANGED <<tick, loop, poolUp, starts, good, cut>>

\* The next interval begins when what was due in this one is done.
Tick ==
  /\ tick < MaxTicks
  /\ loop.st # "none" => loop.last = tick
  /\ \A e \in ending : e.at = tick
  /\ tick' = tick + 1 /\ phase' = FALSE
  /\ UNCHANGED <<stored, loop, ending, poolUp, starts, good, cut, orphaned>>

ScrapeNext ==
  \/ \E E \in SUBSET Metrics : ScrapeSucceeds(E)
  \/ \E E, X \in SUBSET Metrics : ScrapeFails(E, X)
  \/ LoopStarts \/ syncAdds \/ syncRemoves \/ stopPool
  \/ \E reuseCache \in BOOLEAN : restartLoops(reuseCache)
  \/ \E e \in ending : endOfRunStaleness(e)
  \/ Tick

ScrapeSpec == ScrapeInit /\ [][ScrapeNext]_scrapeVars
-----------------------------------------------------------------------------
\* After a scrape that succeeded, the last sample of every series that it
\* exposed is the one of that scrape and not a stale marker, unless a scrape
\* that failed midway had read the series since the last success with this
\* cache: then append takes it for a duplicate of the failed scrape, once.
\* Neither a cache taken over from another loop, nor scrapes that failed
\* before they read the series, nor the markers of a loop that was stopped,
\* take it away (scrapeAndReport, endOfRunStaleness).
ScrapedIsLive == \A m \in good.exposed : stored[m] = [t |-> good.t, stale |-> FALSE]

\* While the pool runs, a series whose last sample is a value was exposed in
\* the last three intervals or in this one: whatever failures (midway ones
\* included), reloads and removals happen, it is marked stale soon after it
\* is no longer exposed.  Only a series in the cache of a loop that took the
\* cache over and was stopped before its first scrape never gets a marker
\* (updateStaleMarkers, endOfRunStaleness).
StaleInTime ==
  \A m \in Metrics \ orphaned : poolUp /\ ~stored[m].stale => tick - stored[m].t <= 3
=============================================================================
