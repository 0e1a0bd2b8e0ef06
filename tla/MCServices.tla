----------------------------- MODULE MCServices -----------------------------
(***************************************************************************)
(* The goroutines around the head.  They have no state in common, so a     *)
(* behaviour is one of                                                     *)
(*   - the compaction of the out-of-order head, with chunks of one sample: *)
(*     every second sample of a series m-maps a chunk;                     *)
(*   - remote write, with two shards, reshards and a shutdown;             *)
(*   - the notifier, with two sets of Alertmanagers;                       *)
(*   - service discovery, with reloads and a shutdown;                     *)
(*   - the scrape loops of a target;                                       *)
(*   - the exemplars of two series.                                        *)
(***************************************************************************)
EXTENDS TLC, OOOHead, RemoteWrite, Notifier, Discovery, ScrapeLoop, Exemplars

CONSTANTS p1, p2, j1, j2

VARIABLE part

MCConfigurations ==
  {(p1 :> {} @@ p2 :> {}), (p1 :> {j1} @@ p2 :> {}), (p1 :> {j1, j2} @@ p2 :> {j2}), (p1 :> {j2} @@ p2 :> {})}

MCInit ==
  /\ part \in {"ooo", "remote", "notifier", "discovery", "scrape", "exemplars"}
  /\ Init /\ RwInit /\ DiscInit /\ ScrapeInit
  /\ NInit /\ (part # "notifier" => members = {})
  /\ ExInit /\ (part # "exemplars" => exemplars = <<>>)

OOOStep(A) ==
  part = "ooo" /\ A /\ UNCHANGED <<part, rwVars, nVars, discVars, scrapeVars, exVars>>
RwStep(A) ==
  part = "remote" /\ A /\ UNCHANGED <<part, vars, nVars, discVars, scrapeVars, exVars>>
NStep(A) ==
  part = "notifier" /\ A /\ UNCHANGED <<part, vars, rwVars, discVars, scrapeVars, exVars>>
DiscStep(A) ==
  part = "discovery" /\ A /\ UNCHANGED <<part, vars, rwVars, nVars, scrapeVars, exVars>>
ScrapeStep(A) ==
  part = "scrape" /\ A /\ UNCHANGED <<part, vars, rwVars, nVars, discVars, exVars>>
ExStep(A) ==
  part = "exemplars" /\ A /\ UNCHANGED <<part, vars, rwVars, nVars, discVars, scrapeVars>>

MCNext ==
  \/ OOOStep(Next) \/ RwStep(RwNext) \/ NStep(NNext) \/ DiscStep(DiscNext)
  \/ ScrapeStep(ScrapeNext) \/ ExStep(ExNext)

MCVars == <<part, vars, rwVars, nVars, discVars, scrapeVars, exVars>>

\* The fairness of each of the modules.  In a behaviour of one part the others
\* never take a step, so a disjunction over parts is fair to each.
MCFairness ==
  /\ WF_MCVars(\/ OOOStep(CompactionStep) \/ RwStep(stopStep) \/ NStep(senderStep) \/ DiscStep(applyStep))
  /\ \A r \in Readers : WF_MCVars(OOOStep(CloseQuerier(r)) \/ DiscStep(allGroups))
  /\ \A i \in Shards : WF_MCVars(RwStep(shardStep(i)))
  /\ \A i \in Shards : WF_MCVars(RwStep(flushStep(i)))
  /\ \A i \in Shards : WF_MCVars(RwStep(requestAborted(i)))
  /\ \A p \in DiscProviders : WF_MCVars(DiscStep(updaterStep(p)))
  /\ WF_MCVars(DiscStep(senderSelect)) /\ WF_MCVars(DiscStep(updateTsets)) /\ WF_MCVars(DiscStep(reloadPools))

MCSpec == MCInit /\ [][MCNext]_MCVars /\ MCFairness
=============================================================================
