--------------------------- MODULE MCAgentServices ---------------------------
(***************************************************************************)
(* The agent's own services, checked side by side: the P2P runtime and its *)
(* reconciliation (AgentRuntime), port mapping (NatManager), the Kad       *)
(* firewall checks (KadFirewall), publishing (PublishRun), and harvesting: *)
(* the Kad store and the snoop queue fed by the same searches (KadIndex)   *)
(* and the replays the queue leads to (PassiveReplay).  A behaviour plays  *)
(* one scene: the component the scene names moves, with the inputs the     *)
(* scene allows, and the others keep their initial state.                  *)
(***************************************************************************)
EXTENDS AgentRuntime, NatManager, KadFirewall, PublishRun, KadIndex, PassiveReplay, TLC

CONSTANT Scenes
VARIABLE scene

harvestVars == <<ksVars, snVars, prVars>>
vars == <<scene, arVars, nmVars, kfVars, puVars, harvestVars>>

MCConfig(c, p, n) == [ctl |-> c, port |-> p, nat |-> n]
MCFirst == MCConfig(1, 1, 1)
MCConfigs == {MCFirst, MCConfig(1, 2, 1), MCConfig(2, 1, 1), MCConfig(1, 0, 1), MCConfig(1, 1, 2)}
MCSpecs == <<"kad", "ed2k">>
MCOrder == <<"igd", "mini", "rupnp">>
MCIp(c) == IF c = 1 THEN 2 ELSE c
MCBatch == [m |-> [src |-> "manual", items |-> <<1>>, notes |-> FALSE],
            x |-> [src |-> "manual", items |-> <<1, 9>>, notes |-> FALSE],
            e |-> [src |-> "manual", items |-> <<>>, notes |-> FALSE],
            c |-> [src |-> "coordinator", items |-> <<2>>, notes |-> TRUE],
            s |-> [src |-> "synthetic", items |-> <<3>>, notes |-> TRUE]]

MCSnFamily == 1 :> "keyword" @@ 2 :> "source" @@ 3 :> "source" @@ 4 :> "notes"
MCRequest ==
    1 :> [t |-> "t1", start |-> 0, size |-> 0]
    @@ 2 :> [t |-> "t1", start |-> 0, size |-> 1]
    @@ 3 :> [t |-> "t1", start |-> 1, size |-> 1]
    @@ 4 :> [t |-> "t1", start |-> 0, size |-> 2]
MCWeight == "f1" :> 1 @@ "f2" :> 1 @@ "f3" :> 3
MCMax == "general" :> 1 @@ "source" :> 2
MCCooldown == "general" :> 2 @@ "source" :> 1

MCFaults == CASE scene = "flaky" -> {"add"}
              [] scene = "raced" -> {"discover", "add", "inspect", "delete", "address"}
              [] OTHER -> {}

Init ==
    /\ scene \in Scenes
    /\ ArInit /\ KfInit /\ PuInit
    /\ KsInit /\ SnInit /\ PrInit /\ (scene # "replay" => prFamily = "source")
    /\ \E enabled \in IF scene = "calm" THEN BOOLEAN ELSE {TRUE} :
          NmInit(enabled, MCFaults)

----------------------------------------------------------------------------
\* The runtime: reconciles one after the other (serial), an interface that
\* moves under searches while nobody stops the process (moved), reconciles that
\* overlap (overlap), and updates while no job holds a runtime and the tasks of
\* a stopped one let go before the next one is built (applied).

Alone == \A a, b \in Reconciling' : a = b
StillNew(actors) == \A a \in actors : arAt'[a] = "new"
LetGo == \A g \in DOMAIN arGens' : arGens'[g].aborted /\ arGens'[g].up => arLock' # NoActor

ArScene ==
    /\ scene \in {"serial", "moved", "overlap", "applied"}
    /\ ArNext /\ ~arOpen'
    /\ scene # "applied" => arConf'.nat = 1
    /\ CASE scene = "serial"  -> Alone /\ StillNew({"u2", "j"}) /\ arIp' = 1 /\ arConf'.ctl = 1
         [] scene = "moved"   -> /\ Alone /\ StillNew({"u2", "d"}) /\ arConf'.port # 2 /\ arConf'.ctl = 1
                                 /\ ~arSignal'
         [] scene = "overlap" -> StillNew({"u2", "j", "d"}) /\ arIp' = 1 /\ arConf'.port # 0
         [] scene = "applied" -> Alone /\ StillNew({"j", "d"}) /\ arIp' = 1 /\ arConf'.ctl = 1 /\ LetGo

\* Port mapping: no blocking reconcile outlives its manager, except in the scene
\* about that, in which no lease has the time to run out.
NmScene ==
    /\ scene \in {"calm", "flaky", "raced"} /\ NmNext
    /\ scene \in {"calm", "flaky"} => nmOrphan' = NoJob
    /\ scene = "raced" => nmTicks' <= 1

KfScene ==
    CASE scene = "discover" -> KfUdp /\ kfRounds' = 0 /\ kfNat' = 0
      [] scene = "check"    -> KfUdp /\ kfAt' # "discover" /\ kfNat' <= 1
      [] scene = "tcp"      -> KfRecheck
      [] OTHER -> FALSE

\* Publishing: batches that succeed (sound), that fail (faults), and tasks the
\* runtime aborts (aborted).
Unasked(batches) == \A b \in batches : puAt'[b] = "new"

Unacked(families) == \A b \in Batches, f \in families : puTotal'[b][f].acked = 0

PuScene ==
    CASE scene = "sound"   -> /\ PuWork /\ Unasked({"x", "e", "s"}) /\ puNow' <= 2 /\ Unacked({"source"})
                              /\ \A b \in Batches : puAt'[b] # "failed"
      [] scene = "faults"  -> PuWork /\ Unasked({"s", "m"}) /\ (puAt'["e"] # "new" => puAt'["c"] = "new") /\ puNow' <= 2 /\ Unacked({"source", "notes"})
      [] scene = "aborted" -> /\ (PuWork \/ PuStop) /\ Unasked({"m", "x", "e"}) /\ puNow' = 1
                              /\ Unacked({"source", "notes"})
      [] OTHER -> FALSE

\* Harvesting.  The store: publishes of one family beside searches; the
\* keyword target is always the searched one, ids vary, and so does the size of
\* one file, so that the store is full of fewer files than it has entries.
Published(f) ==
    CASE f = "keyword" ->
           {e \in [t : {"t1"}, id : KsIds, size : KsSizes, ip : {"a"}, tcp : {1}, udp : {1},
                   ok : {TRUE}, at : {0}] : e.size = 1 \/ e.id = "f1"}
      [] f = "source" ->
           {e \in [t : KsTargets, id : {"f1"}, size : {1}, ip : {"a", NoIp}, tcp : {1, 2},
                   udp : {1, 2}, ok : {TRUE}, at : {0}] :
              /\ e.ip = NoIp => e.t = "t1" /\ e.udp = 1
              /\ e.t # "t1" => e.tcp = 1 /\ e.udp = 1}
      [] f = "notes" ->
           [t : {"t1"}, id : KsIds, size : {1}, ip : {"a", "b"}, tcp : {0}, udp : {0},
            ok : BOOLEAN, at : {0}]

StoreStep(f) ==
    \/ /\ f = "keyword"
       /\ \E a \in Published(f) :
            PublishKeys(<<a>>) \/ \E b \in Published(f) : PublishKeys(<<a, b>>)
       /\ UNCHANGED snVars
    \/ /\ f # "keyword"
       /\ \E e \in Published(f) : PublishOne(f, e)
       /\ UNCHANGED snVars
    \/ /\ \E k \in SnKeys, passing \in {KsIds, {"f1"}} :
            SnFamily[k] = f /\ HandleSearch(k, passing)
    \/ KxTick

\* The snoop queue with two workers and a second source request beside the first,
\* for one round of the clock (snoop), with its flushes, stops, crashes and restarts and one worker
\* (report), and one replay (replay).
HarvestScene ==
    \/ \E f \in KsFamilies : scene = f /\ StoreStep(f) /\ snSeen' <= 1 /\ UNCHANGED prVars
    \/ /\ scene = "snoop"
       /\ (\E k \in {1, 2, 3} : SnObserve(k) /\ (k = 3 => 2 \in DOMAIN snEntries)) \/ SnNextQuiet
       /\ snPost' = snPost /\ snPhase' = snPhase
       /\ 3 \in DOMAIN snEntries' => snNow' <= 1
       /\ UNCHANGED <<ksVars, prVars>>
    \/ /\ scene = "report"
       /\ (\E k \in {1, 2} : SnObserve(k)) \/ SnNextQuiet
       /\ snNow' <= 1 /\ snSeen' <= 2 /\ snWorker'["general"] = Idle
       /\ UNCHANGED <<ksVars, prVars>>
    \/ scene = "replay" /\ PrNext /\ UNCHANGED <<ksVars, snVars>>

Next ==
    /\ UNCHANGED scene
    /\ \/ ArScene /\ UNCHANGED <<nmVars, kfVars, puVars, harvestVars>>
       \/ NmScene /\ UNCHANGED <<arVars, kfVars, puVars, harvestVars>>
       \/ KfScene /\ UNCHANGED <<arVars, nmVars, puVars, harvestVars>>
       \/ PuScene /\ UNCHANGED <<arVars, nmVars, kfVars, harvestVars>>
       \/ HarvestScene /\ UNCHANGED <<arVars, nmVars, kfVars, puVars>>

Spec == Init /\ [][Next]_vars

----------------------------------------------------------------------------
\* AgentRuntime: where reconciles do not overlap, the published selection is
\* true, no generation is left running, and a persisted update is in effect or
\* reported as failed; where nothing holds on to the runtime an update replaces,
\* it is in effect.
SettledAlone ==
    /\ scene # "overlap" => SelectionHonest /\ NoOrphans /\ AppliedOrReported
    /\ scene = "applied" => AppliedInProcess

\* NatManager: while the router fails nothing and no blocking reconcile outlives
\* the manager, what the status lists is mapped and stop() releases it; a failed
\* reconcile leaves nothing behind, though adds may fail.
MappingsAccounted ==
    /\ scene = "calm" => ListedHeld /\ ReleasedOnStop
    /\ scene \in {"calm", "flaky"} => AllOrNothing

\* PublishRun: activities are shown exactly while their batches wait or run,
\* failed batches included, where no task is aborted; where none fails either,
\* the totals the stats endpoint shows never go back, however progress and
\* commits are timed.  (Initially there is neither batch nor activity.)
StatsHonest ==
    [][/\ scene # "aborted" => ActivitiesHonest'
       /\ scene = "sound" => TotalsKept]_puVars
=============================================================================
