------------------------------ MODULE Discovery ------------------------------
(***************************************************************************)
(* The way of the targets from service discovery to the scrape pools:      *)
(* discovery.Manager (discovery/manager.go) with its providers, and        *)
(* scrape.Manager (scrape/manager.go) behind its unbuffered channel syncCh.*)
(* A reload applies the new configuration to the scrape manager first and  *)
(* to the discovery manager then (cmd/prometheus/main.go).                 *)
(*                                                                         *)
(* A configuration says which target sets subscribe to which provider.     *)
(* What a provider announces is a version: the whole of its target groups; *)
(* version 0 is no groups at all.                                          *)
(***************************************************************************)
EXTENDS Integers, FiniteSets, Functions

CONSTANTS DiscProviders, \* the configurations of providers
          TargetSets,    \* the target sets: one for each scrape job
          Configurations,\* the configurations a reload may bring
          MaxVersion,    \* bound on the versions of a provider
          MaxReloads     \* bound on the reloads

ASSUME DiscoveryAssumption ==
  /\ Configurations \subseteq [DiscProviders -> SUBSET TargetSets]
  /\ MaxVersion \in Nat /\ MaxReloads \in Nat

VARIABLES
  config,      \* the configuration that was loaded last
  reloads,     \* how many reloads there were
  applying,    \* the progress of discovery.Manager.ApplyConfig
  applyLeft,   \* the providers that its loop has not visited
  cancelled,   \* the providers that it waits for, by the done it gave them
  providers,   \* m.providers: those that are started and kept
  subs,        \* for each provider, its target sets
  updaterOf,   \* for each provider, its updater: "none", "idle", "update" or "exit"
  updating,    \* what an updater is storing: the version and the sets left
  announced,   \* the version that each provider has announced
  targets,     \* m.targets
  triggerSend, \* is there a token in the channel?
  snapshot,    \* what sender has got from allGroups, or none
  receiver,    \* what scrape.Manager.Run has received and not stored, if anything
  targetSets,  \* scrape.Manager's targetSets
  triggerReload,
  scrapePools, \* for each target set, what its pool scrapes, or NoPool
  ctxDone      \* is the context of the discovery manager cancelled?

discVars == <<config, reloads, applying, applyLeft, cancelled, providers, subs, updaterOf, updating, announced,
              targets, triggerSend, snapshot, receiver, targetSets, triggerReload, scrapePools, ctxDone>>

NoPool == <<>>
Subscribed(c) == UNION {c[p] : p \in DiscProviders}

DiscInit ==
  /\ config = [p \in DiscProviders |-> {}] /\ reloads = 0
  /\ applying = "idle" /\ applyLeft = {} /\ cancelled = {}
  /\ providers = {} /\ subs = [p \in DiscProviders |-> {}]
  /\ updaterOf = [p \in DiscProviders |-> "none"]
  /\ updating = [p \in DiscProviders |-> {}]
  /\ announced = [p \in DiscProviders |-> 0]
  /\ targets = [k \in TargetSets \X DiscProviders |-> 0]
  /\ triggerSend = FALSE /\ snapshot = {} /\ receiver = {}
  /\ targetSets = <<>> /\ triggerReload = FALSE
  /\ scrapePools = [s \in TargetSets |-> NoPool]
  /\ ctxDone = FALSE
-----------------------------------------------------------------------------
(* A reload.                                                               *)

\* reloadConfig, up to scrape.Manager.ApplyConfig: the pools of jobs that are
\* gone are stopped.
Reload(c) ==
  /\ applying = "idle" /\ reloads < MaxReloads /\ c # config
  /\ config' = c /\ reloads' = reloads + 1
  /\ scrapePools' = [s \in TargetSets |-> IF s \in Subscribed(c) THEN scrapePools[s] ELSE NoPool]
  /\ applying' = "scrape"
  /\ UNCHANGED <<applyLeft, cancelled, providers, subs, updaterOf, updating, announced, targets, triggerSend,
                 snapshot, receiver, targetSets, triggerReload, ctxDone>>

\* ApplyConfig takes the lock and registers the providers.
ApplyConfig ==
  /\ applying = "scrape"
  /\ applying' = "loop"
  /\ applyLeft' = providers \union {p \in DiscProviders : config[p] # {}}
  /\ cancelled' = {}
  /\ UNCHANGED <<config, reloads, providers, subs, updaterOf, updating, announced, targets, triggerSend, snapshot,
                 receiver, targetSets, triggerReload, scrapePools, ctxDone>>

\* Mutant: a set that is new to a running provider gets no targets.
ApplyProviderEmpty(p) ==
  /\ applying = "loop" /\ p \in applyLeft /\ updating[p] = {} /\ config[p] # {}
  /\ applyLeft' = applyLeft \ {p}
  /\ targets' = [k \in TargetSets \X DiscProviders |->
                   IF k[2] = p /\ k[1] \notin config[p] \intersect subs[p] THEN 0 ELSE targets[k]]
  /\ subs' = [subs EXCEPT ![p] = config[p]]
  /\ updaterOf' = [updaterOf EXCEPT ![p] = IF @ = "none" THEN "idle" ELSE @]
  /\ UNCHANGED <<config, reloads, applying, cancelled, providers, updating, announced, triggerSend, snapshot, receiver,
                 targetSets, triggerReload, scrapePools, ctxDone>>

\* Its loop, for a provider that stays or is new: under the provider's lock,
\* the targets of obsolete sets are removed and those of new ones copied.
ApplyProvider(p) ==
  /\ applying = "loop" /\ p \in applyLeft /\ updating[p] = {} /\ config[p] # {}
  /\ applyLeft' = applyLeft \ {p}
  /\ LET ref == IF subs[p] = {} THEN 0 ELSE targets[<<CHOOSE s \in subs[p] : TRUE, p>>]
     IN  targets' = [k \in TargetSets \X DiscProviders |->
                       IF k[2] # p THEN targets[k] ELSE IF k[1] \in config[p] THEN ref ELSE 0]
  /\ subs' = [subs EXCEPT ![p] = config[p]]
  /\ updaterOf' = [updaterOf EXCEPT ![p] = IF @ = "none" THEN "idle" ELSE @]
  /\ UNCHANGED <<config, reloads, applying, cancelled, providers, updating, announced, triggerSend, snapshot, receiver,
                 targetSets, triggerReload, scrapePools, ctxDone>>

\* Its loop, for a provider that is obsolete: it gets a done and is cancelled.
CancelProvider(p) ==
  /\ applying = "loop" /\ p \in applyLeft /\ config[p] = {}
  /\ applyLeft' = applyLeft \ {p}
  /\ cancelled' = cancelled \union {p}
  /\ UNCHANGED <<config, reloads, applying, providers, subs, updaterOf, updating, announced, targets, triggerSend,
                 snapshot, receiver, targetSets, triggerReload, scrapePools, ctxDone>>

\* After its loop: the trigger.
ApplyTriggers ==
  /\ applying = "loop" /\ applyLeft = {}
  /\ applying' = "wait"
  /\ triggerSend' = (triggerSend \/ providers \union {p \in DiscProviders : config[p] # {}} # {})
  /\ providers' = {p \in DiscProviders : config[p] # {}}
  /\ UNCHANGED <<config, reloads, applyLeft, cancelled, subs, updaterOf, updating, announced, targets, snapshot,
                 receiver, targetSets, triggerReload, scrapePools, ctxDone>>

\* wg.Wait: the cleaner of each cancelled provider has called its done.
ApplyReturns ==
  /\ applying = "wait" /\ cancelled = {}
  /\ applying' = "idle"
  /\ UNCHANGED <<config, reloads, applyLeft, cancelled, providers, subs, updaterOf, updating, announced, targets,
                 triggerSend, snapshot, receiver, targetSets, triggerReload, scrapePools, ctxDone>>
-----------------------------------------------------------------------------
(* A provider and its updater.                                             *)

\* The updater receives other groups and takes the provider's lock.
Announce(p) ==
  /\ updaterOf[p] = "idle" /\ announced[p] < MaxVersion
  /\ announced' = [announced EXCEPT ![p] = @ + 1]
  /\ updaterOf' = [updaterOf EXCEPT ![p] = "update"]
  /\ updating' = [updating EXCEPT ![p] = subs[p]]
  /\ UNCHANGED <<config, reloads, applying, applyLeft, cancelled, providers, subs, targets, triggerSend, snapshot,
                 receiver, targetSets, triggerReload, scrapePools, ctxDone>>

\* updateGroup
updateGroup(p, s) ==
  /\ updaterOf[p] = "update" /\ s \in updating[p]
  /\ updating' = [updating EXCEPT ![p] = @ \ {s}]
  /\ targets' = [targets EXCEPT ![<<s, p>>] = announced[p]]
  /\ UNCHANGED <<config, reloads, applying, applyLeft, cancelled, providers, subs, updaterOf, announced, triggerSend,
                 snapshot, receiver, targetSets, triggerReload, scrapePools, ctxDone>>

\* The end of the update: the trigger.
UpdateTriggers(p) ==
  /\ updaterOf[p] = "update" /\ updating[p] = {}
  /\ updaterOf' = [updaterOf EXCEPT ![p] = "idle"]
  /\ triggerSend' = TRUE
  /\ UNCHANGED <<config, reloads, applying, applyLeft, cancelled, providers, subs, updating, announced, targets,
                 snapshot, receiver, targetSets, triggerReload, scrapePools, ctxDone>>

\* The updater sees that it is cancelled, and cleaner removes the targets of
\* the provider and calls the done that it finds.  Another provider with this
\* configuration starts from nothing.
cleaner(p) ==
  /\ updaterOf[p] = "idle" /\ (p \in cancelled \/ ctxDone)
  /\ updaterOf' = [updaterOf EXCEPT ![p] = IF p \in cancelled THEN "none" ELSE "exit"]
  /\ targets' = [k \in TargetSets \X DiscProviders |-> IF k[2] = p THEN 0 ELSE targets[k]]
  /\ subs' = IF p \in cancelled THEN [subs EXCEPT ![p] = {}] ELSE subs
  /\ announced' = [announced EXCEPT ![p] = 0]
  /\ cancelled' = cancelled \ {p}
  /\ UNCHANGED <<config, reloads, applying, applyLeft, providers, updating, triggerSend, snapshot, receiver, targetSets,
                 triggerReload, scrapePools, ctxDone>>

\* The process is told to stop.
Shutdown ==
  /\ ~ctxDone /\ ctxDone' = TRUE
  /\ UNCHANGED <<config, reloads, applying, applyLeft, cancelled, providers, subs, updaterOf, updating, announced,
                 targets, triggerSend, snapshot, receiver, targetSets, triggerReload, scrapePools>>
-----------------------------------------------------------------------------
(* The sender, and the scrape manager.                                     *)

\* A tick of sender with a token: allGroups, which waits for ApplyConfig.
allGroups ==
  /\ triggerSend /\ snapshot = {} /\ applying \in {"idle", "scrape"} /\ ~ctxDone
  /\ triggerSend' = FALSE
  /\ snapshot' = {[s \in UNION {subs[p] : p \in providers} |->
                     [p \in {q \in providers : s \in subs[q]} |-> targets[<<s, p>>]]]}
  /\ UNCHANGED <<config, reloads, applying, applyLeft, cancelled, providers, subs, updaterOf, updating, announced,
                 targets, receiver, targetSets, triggerReload, scrapePools, ctxDone>>

\* Mutant: what cannot be sent is forgotten.
senderSelectForgets ==
  /\ snapshot # {}
  /\ snapshot' = {}
  /\ receiver' = IF receiver = {} THEN snapshot ELSE receiver
  /\ UNCHANGED <<config, reloads, applying, applyLeft, cancelled, providers, subs, updaterOf, updating, announced,
                 targets, triggerSend, targetSets, triggerReload, scrapePools, ctxDone>>

\* The select of sender: the receiver takes the groups, or there is a token
\* for the next tick.
senderSelect ==
  /\ snapshot # {}
  /\ snapshot' = {}
  /\ receiver' = IF receiver = {} THEN snapshot ELSE receiver
  /\ triggerSend' = (triggerSend \/ receiver # {})
  /\ UNCHANGED <<config, reloads, applying, applyLeft, cancelled, providers, subs, updaterOf, updating, announced,
                 targets, targetSets, triggerReload, scrapePools, ctxDone>>

\* scrape.Manager.Run: updateTsets and the trigger of the reloader.
updateTsets ==
  /\ receiver # {}
  /\ targetSets' \in receiver /\ receiver' = {}
  /\ triggerReload' = TRUE
  /\ UNCHANGED <<config, reloads, applying, applyLeft, cancelled, providers, subs, updaterOf, updating, announced,
                 targets, triggerSend, snapshot, scrapePools, ctxDone>>

\* reloader and reload: every set with a configuration gets a pool, and the
\* pool is synchronised with its groups.
reloadPools ==
  /\ triggerReload /\ triggerReload' = FALSE
  /\ scrapePools' = [s \in TargetSets |-> IF s \in DOMAIN targetSets /\ s \in Subscribed(config) THEN targetSets[s]
                                          ELSE scrapePools[s]]
  /\ UNCHANGED <<config, reloads, applying, applyLeft, cancelled, providers, subs, updaterOf, updating, announced,
                 targets, triggerSend, snapshot, receiver, targetSets, ctxDone>>

updaterStep(p) == UpdateTriggers(p) \/ cleaner(p) \/ \E s \in TargetSets : updateGroup(p, s)
applyStep == ApplyConfig \/ ApplyTriggers \/ ApplyReturns
             \/ \E p \in DiscProviders : ApplyProvider(p) \/ CancelProvider(p)

DiscNext ==
  \/ \E c \in Configurations : Reload(c)
  \/ applyStep
  \/ \E p \in DiscProviders : Announce(p) \/ updaterStep(p)
  \/ Shutdown \/ allGroups \/ senderSelect \/ updateTsets \/ reloadPools

\* Every goroutine that can take a step takes one in the end.  Reloads, a
\* shutdown and what a provider announces are inputs: a provider may stay
\* silent for ever.
DiscFairness ==
  /\ WF_discVars(applyStep)
  /\ \A p \in DiscProviders : WF_discVars(updaterStep(p))
  /\ WF_discVars(allGroups) /\ WF_discVars(senderSelect) /\ WF_discVars(updateTsets) /\ WF_discVars(reloadPools)

DiscSpec == DiscInit /\ [][DiscNext]_discVars /\ DiscFairness
-----------------------------------------------------------------------------
\* What the pools should scrape once the configuration is applied.
Settled(s) == IF s \in Subscribed(config)
              THEN [p \in {q \in DiscProviders : s \in config[q]} |-> announced[p]] ELSE NoPool

\* Once no configuration and no groups are new, and until a shutdown, every
\* pool scrapes what the providers of its target set announced last, and a job
\* that is gone has no pool: no update is lost between the throttled sender,
\* the receiver that may be busy and the reloader, whatever the reloads in
\* between.
PoolsFollow == <>[](~ctxDone => \A s \in TargetSets : scrapePools[s] = Settled(s))
=============================================================================
