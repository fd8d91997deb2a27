---------------------------- MODULE AgentRuntime ----------------------------
(***************************************************************************)
(* The life of the agent process: start, the control server, coordinator   *)
(* registration and configuration sync, config updates over HTTP, the      *)
(* P2P runtime that is torn down and rebuilt in-process, jobs that hold a  *)
(* clone of it, and shutdown or restart (agent.rs, agent/p2p_runtime.rs,   *)
(* agent/control_runtime.rs, agent/service.rs, overlord-agent-common       *)
(* server.rs).  Every await is a point where the actors interleave.  A     *)
(* runtime is a generation: it holds its sockets until its tasks, the      *)
(* agent and every job have let go of it.                                  *)
(***************************************************************************)
EXTENDS Integers, Sequences, FiniteSets

CONSTANTS
    ArUpdates,   \* config-update requests
    ArJobs,      \* searches and downloads
    ArSearch,    \* the jobs that are searches, which reconcile cancels
    ArConfigs,   \* networking configs: records with ctl, port (0: selection unconfirmed)
                 \* and what else they hold (NAT)
    ArFirst,     \* the config the process starts with
    ArIps,       \* addresses of the bind interface, 1..n: the current one only grows
    ArMaxGens,   \* bound: runtimes built
    NoActor

Actors == {"main", "reconnect"} \cup ArUpdates \cup ArJobs

ASSUME ArAssumption ==
    /\ ArFirst \in ArConfigs /\ 1 \in ArIps /\ NoActor \notin Actors
    /\ {"main", "reconnect"} \cap (ArUpdates \cup ArJobs) = {}

VARIABLES
    arAt,      \* where each actor is
    arNew,     \* config an actor cloned to persist it
    arCfg,     \* what an actor builds a runtime with: [port, ip]
    arHalt,    \* the actor builds no new runtime: it stops, or asks for a restart
    arRet,     \* where an actor goes on after reconcile_runtime or stop_runtime
    arConf,    \* self.config
    arDisk,    \* the persisted networking config
    arIp,      \* address of the bind interface
    arRun,     \* self.runtime: a generation, 0 for None
    arLock,    \* who holds its mutex across an await
    arGens,    \* generations built: [ip, port, up, aborted]
    arHolds,   \* generation an actor holds a clone of, 0 for none
    arActive,  \* active_searches
    arSel,     \* p2p_selection_state: waiting, applied or error
    arRestart, \* restart_requested
    arServed,  \* the control server accepts requests
    arSignal,  \* a shutdown signal was sent
    arOpen     \* a client keeps a request open

arVars == <<arAt, arNew, arCfg, arHalt, arRet, arConf, arDisk, arIp, arRun, arLock, arGens, arHolds,
            arActive, arSel, arRestart, arServed, arSignal, arOpen>>

NoCfg == [port |-> 0, ip |-> 0]

ArInit ==
    /\ arAt = [a \in Actors |-> IF a = "main" THEN "rc" ELSE "new"]
    /\ arNew = [a \in Actors |-> NoCfg] /\ arCfg = [a \in Actors |-> NoCfg]
    /\ arHalt = [a \in Actors |-> FALSE]
    /\ arRet = [a \in Actors |-> IF a = "main" THEN "bind" ELSE "done"]
    /\ arConf = ArFirst /\ arDisk = ArFirst
    /\ arIp = 1 /\ arRun = 0 /\ arLock = NoActor /\ arGens = <<>>
    /\ arHolds = [a \in Actors |-> 0]
    /\ arActive = {} /\ arSel = "waiting"
    /\ arRestart = FALSE /\ arServed = FALSE /\ arSignal = FALSE
    /\ arOpen = FALSE

Running == arAt["main"] # "gone"
Free == arLock = NoActor
Go(a, at) == arAt' = [arAt EXCEPT ![a] = at]

arWorld == <<arIp, arServed, arSignal, arOpen>>
arLocals == <<arNew, arCfg, arHalt, arRet>>

----------------------------------------------------------------------------
\* reconcile_runtime and stop_runtime, run by any actor

\* The selection shown while a runtime is reconciled.
Shown == "waiting"

\* The config is cloned and the interface resolved; the selection is published.
RcRead(a) ==
    /\ arAt[a] = "rc"
    /\ arCfg' = [arCfg EXCEPT ![a] = [port |-> arConf.port, ip |-> arIp]]
    /\ arHalt' = [arHalt EXCEPT ![a] = arConf.port = 0]
    /\ arSel' = Shown
    /\ Go(a, "cancel")
    /\ UNCHANGED <<arNew, arRet, arConf, arDisk, arWorld, arRun, arLock, arGens, arHolds, arActive,
                   arRestart>>

\* cancel_active_searches drains the table; a cancelled search ends by itself.
RcCancel(a) ==
    /\ arAt[a] = "cancel"
    /\ arActive' = {}
    /\ Go(a, "take")
    /\ UNCHANGED <<arLocals, arConf, arDisk, arWorld, arRun, arLock, arGens, arHolds, arSel,
                   arRestart>>

\* Mutant: the runtime is stopped but stays in its slot.
TakenCloned(run) == run

\* What self.runtime holds after take().
Taken(run) == 0

\* Every task of the generation is told to stop; it lets go some time later.
TasksAborted(gens, g) == [gens EXCEPT ![g].aborted = TRUE]

\* Mutant: the reconcile ends when the old runtime is stopped.
AfterStopOnly(a) == arRet[a]

\* What follows stop_runtime.
AfterStop(a) == IF arHalt[a] THEN arRet[a] ELSE "build"

\* `if let Some(runtime) = self.runtime.lock().await.take()': the guard lives
\* until the body, nat.stop() included, is over.
RcTake(a) ==
    /\ arAt[a] = "take" /\ Free
    /\ IF arRun = 0
       THEN Go(a, AfterStop(a)) /\ UNCHANGED <<arRun, arLock, arGens>>
       ELSE /\ arLock' = a
            /\ arRun' = Taken(arRun)
            /\ arGens' = TasksAborted(arGens, arRun)
            /\ Go(a, "nat")
    /\ UNCHANGED <<arLocals, arConf, arDisk, arWorld, arHolds, arActive, arSel, arRestart>>

\* NatManager::stop returns: the guard and the taken runtime are dropped.
RcNat(a) ==
    /\ arAt[a] = "nat"
    /\ arLock' = NoActor
    /\ Go(a, AfterStop(a))
    /\ UNCHANGED <<arLocals, arConf, arDisk, arWorld, arRun, arGens, arHolds, arActive, arSel,
                   arRestart>>

\* A generation still has its sockets.
Bound(g) == arGens[g].up \/ arRun = g \/ \E a \in Actors : arHolds[a] = g
PortBusy(cfg) == \E g \in DOMAIN arGens :
                Bound(g) /\ arGens[g].ip = cfg.ip /\ arGens[g].port = cfg.port

\* build_runtime: binds the UDP socket and the TCP listener, or fails.
RcBuild(a) ==
    /\ arAt[a] = "build" /\ Len(arGens) < ArMaxGens
    /\ IF PortBusy(arCfg[a])
       THEN Go(a, arRet[a]) /\ arSel' = "error" /\ UNCHANGED <<arGens, arHolds>>
       ELSE /\ arGens' = Append(arGens, [ip |-> arCfg[a].ip, port |-> arCfg[a].port,
                                         up |-> TRUE, aborted |-> FALSE])
            /\ arHolds' = [arHolds EXCEPT ![a] = Len(arGens) + 1]
            /\ Go(a, "store") /\ UNCHANGED arSel
    /\ arCfg' = [arCfg EXCEPT ![a] = NoCfg]
    /\ UNCHANGED <<arNew, arHalt, arRet, arConf, arDisk, arWorld, arRun, arLock, arActive, arRestart>>

\* The tasks run; the runtime goes into its slot, over whatever is there.
RcStore(a) ==
    /\ arAt[a] = "store" /\ Free
    /\ arRun' = arHolds[a]
    /\ arHolds' = [arHolds EXCEPT ![a] = 0]
    /\ Go(a, "applied")
    /\ UNCHANGED <<arLocals, arConf, arDisk, arWorld, arLock, arGens, arActive, arSel,
                   arRestart>>

RcApplied(a) ==
    /\ arAt[a] = "applied"
    /\ arSel' = "applied"
    /\ Go(a, arRet[a])
    /\ UNCHANGED <<arLocals, arConf, arDisk, arWorld, arRun, arLock, arGens, arHolds, arActive,
                   arRestart>>

\* The last task of an aborted generation is dropped.
ArDrop(g) ==
    /\ Running /\ arGens[g].aborted /\ arGens[g].up
    /\ arGens' = [arGens EXCEPT ![g].up = FALSE]
    /\ UNCHANGED <<arAt, arLocals, arConf, arDisk, arWorld, arRun, arLock, arHolds, arActive,
                   arSel, arRestart>>

----------------------------------------------------------------------------
\* apply_networking_config_update

\* Under the config write lock: compared, then changed in memory and cloned.
Apply(a, desired, unchanged) ==
    IF desired = arConf
    THEN Go(a, unchanged) /\ UNCHANGED <<arConf, arNew, arHalt>>
    ELSE /\ arConf' = desired
         /\ arNew' = [arNew EXCEPT ![a] = desired]
         /\ arHalt' = [arHalt EXCEPT ![a] = desired.ctl # arConf.ctl]
         /\ Go(a, "persist")

\* Where an actor goes when the update fails.
Failed(a) == CASE a = "main" -> "failed" [] a = "reconnect" -> "sleep" [] OTHER -> "done"

\* persist_networking_config, after the lock; a failure is the caller's error,
\* otherwise the control endpoint decides between restart and reconcile.
ApPersist(a, ok) ==
    /\ arAt[a] = "persist"
    /\ arDisk' = IF ok THEN arNew[a] ELSE arDisk
    /\ arNew' = [arNew EXCEPT ![a] = NoCfg]
    /\ Go(a, IF ~ok THEN Failed(a)
             ELSE IF arHalt[a] THEN "restart" ELSE "rc")
    /\ UNCHANGED <<arCfg, arHalt, arRet, arConf, arWorld, arRun, arLock, arGens, arHolds, arActive,
                   arSel, arRestart>>

\* request_restart: the flag, then notify_waiters, which wakes main only if it
\* waits now.
RestartAsked(a) ==
    /\ arAt' = [b \in Actors |-> IF b = a THEN "done"
                                 ELSE IF b = "main" /\ arAt[b] = "wait" THEN "halt" ELSE arAt[b]]
    /\ arRestart' = TRUE

ArRestart(a) ==
    /\ arAt[a] = "restart" /\ a # "main"
    /\ RestartAsked(a)
    /\ UNCHANGED <<arLocals, arConf, arDisk, arWorld, arRun, arLock, arGens, arHolds, arActive,
                   arSel>>

\* POST /api/internal/config-update.
ArUpdate(u, desired) ==
    /\ arServed /\ arAt[u] = "new"
    /\ Apply(u, desired, "done")
    /\ UNCHANGED <<arCfg, arRet, arDisk, arWorld, arRun, arLock, arGens, arHolds, arActive,
                   arSel, arRestart>>

----------------------------------------------------------------------------
\* serve() and the reconnect task

ArBind ==
    /\ arAt["main"] = "bind"
    /\ arServed' = TRUE
    /\ Go("main", "connect")
    /\ UNCHANGED <<arLocals, arConf, arDisk, arIp, arRun, arLock, arGens, arHolds, arActive, arSel,
                   arRestart, arSignal, arOpen>>

\* connect_to_coordinator: registration and sync; on failure main spawns the
\* reconnect task and goes on.
ArConnect(a, ok, view) ==
    /\ \/ a = "main" /\ arAt[a] = "connect"
       \/ a = "reconnect" /\ arAt[a] = "sleep" /\ ~arRestart
    /\ IF ok
       THEN /\ Apply(a, view, IF a = "main" THEN "wait" ELSE "done")
            /\ arRet' = [arRet EXCEPT ![a] = IF a = "main" THEN "wait" ELSE "done"]
       ELSE /\ a = "main" /\ view = ArFirst
            /\ Go(a, "failed") /\ UNCHANGED <<arConf, arNew, arHalt, arRet>>
    /\ UNCHANGED <<arCfg, arDisk, arWorld, arRun, arLock, arGens, arHolds, arActive, arSel,
                   arRestart>>

\* The startup sync failed: continue with the local config and reconnect later.
ArReconnects ==
    /\ arAt["main"] = "failed"
    /\ arAt' = [arAt EXCEPT !["main"] = "wait", !["reconnect"] = "sleep"]
    /\ UNCHANGED <<arLocals, arConf, arDisk, arWorld, arRun, arLock, arGens, arHolds, arActive,
                   arSel, arRestart>>

\* The reconnect task finds restart_requested set after its sleep and ends.
ArReconnected ==
    /\ arAt["reconnect"] = "sleep" /\ arRestart
    /\ Go("reconnect", "done")
    /\ UNCHANGED <<arLocals, arConf, arDisk, arWorld, arRun, arLock, arGens, arHolds, arActive,
                   arSel, arRestart>>

\* main leaves its wait: a signal (a restart request moves it by itself), or a
\* startup sync that requires a restart.
ArLeaves ==
    /\ \/ arAt["main"] = "wait" /\ arSignal
       \/ arAt["main"] = "restart"
    /\ Go("main", "halt")
    /\ UNCHANGED <<arLocals, arConf, arDisk, arWorld, arRun, arLock, arGens, arHolds, arActive,
                   arSel, arRestart>>

\* The reconnect task is aborted wherever it is, with what it holds, and
\* stop() begins.
ArHalts ==
    /\ arAt["main"] = "halt"
    /\ arAt' = [arAt EXCEPT !["main"] = "cancel", !["reconnect"] = "done"]
    /\ arHalt' = [arHalt EXCEPT !["main"] = TRUE]
    /\ arRet' = [arRet EXCEPT !["main"] = "unserve"]
    /\ arLock' = IF arLock = "reconnect" THEN NoActor ELSE arLock
    /\ arHolds' = [arHolds EXCEPT !["reconnect"] = 0]
    /\ UNCHANGED <<arNew, arCfg, arConf, arDisk, arWorld, arRun, arGens, arActive, arSel, arRestart>>

Handlers == {a \in ArUpdates \cup ArJobs : arAt[a] \notin {"new", "run", "done"}}

\* Mutant: shutdown waits for every handler and client.
DrainedOnly == Handlers = {} /\ ~arOpen

\* RunningIndexerServer::shutdown waits for handlers and clients for two seconds only.
Drained == TRUE

ArUnserves ==
    /\ arAt["main"] = "unserve" /\ Drained
    /\ arServed' = FALSE
    /\ Go("main", "gone")
    /\ UNCHANGED <<arLocals, arConf, arDisk, arIp, arRun, arLock, arGens, arHolds, arActive, arSel,
                   arRestart, arSignal, arOpen>>

----------------------------------------------------------------------------
\* Searches and downloads

\* reconcile_p2p_runtime_if_interface_moved, the first step of a job.
ArJobStarts(j) ==
    /\ arServed /\ arAt[j] = "new" /\ Free
    /\ arRet' = [arRet EXCEPT ![j] = "clone"]
    /\ Go(j, IF arConf.port # 0 /\ arRun # 0 /\ arGens[arRun].ip # arIp THEN "rc" ELSE "clone")
    /\ UNCHANGED <<arNew, arCfg, arHalt, arConf, arDisk, arWorld, arRun, arLock, arGens, arHolds,
                   arActive, arSel, arRestart>>

\* The job clones the runtime, or fails while there is none; a search enters
\* active_searches only afterwards.
ArJobClones(j) ==
    /\ arAt[j] = "clone" /\ Free
    /\ arHolds' = [arHolds EXCEPT ![j] = arRun]
    /\ Go(j, IF arRun = 0 THEN "done" ELSE IF j \in ArSearch THEN "enter" ELSE "run")
    /\ UNCHANGED <<arLocals, arConf, arDisk, arWorld, arRun, arLock, arGens, arActive, arSel,
                   arRestart>>

ArJobEnters(j) ==
    /\ arAt[j] = "enter"
    /\ arActive' = arActive \cup {j}
    /\ Go(j, "run")
    /\ UNCHANGED <<arLocals, arConf, arDisk, arWorld, arRun, arLock, arGens, arHolds, arSel,
                   arRestart>>

ArJobEnds(j) ==
    /\ arAt[j] = "run"
    /\ arHolds' = [arHolds EXCEPT ![j] = 0]
    /\ arActive' = arActive \ {j}
    /\ Go(j, "done")
    /\ UNCHANGED <<arLocals, arConf, arDisk, arWorld, arRun, arLock, arGens, arSel, arRestart>>

----------------------------------------------------------------------------
\* External: the interface changes its address, the operator sends a
\* signal, a client opens or ends a request.
ArWorldMoves ==
    /\ \/ arIp + 1 \in ArIps /\ arIp' = arIp + 1 /\ UNCHANGED <<arSignal, arOpen>>
       \/ ~arSignal /\ arSignal' = TRUE /\ UNCHANGED <<arIp, arOpen>>
       \/ (arServed \/ arOpen) /\ arOpen' = ~arOpen /\ UNCHANGED <<arIp, arSignal>>
    /\ UNCHANGED <<arAt, arLocals, arConf, arDisk, arRun, arLock, arGens, arHolds, arActive,
                   arSel, arRestart, arServed>>

Reconcile(a) ==
    RcRead(a) \/ RcCancel(a) \/ RcTake(a) \/ RcNat(a) \/ RcBuild(a) \/ RcStore(a) \/ RcApplied(a)

ArActor(a) ==
    /\ Running
    /\ Reconcile(a) \/ ArRestart(a) \/ \E ok \in BOOLEAN : ApPersist(a, ok)

ArMain ==
    /\ Running
    /\ \/ ArBind \/ ArReconnects \/ ArLeaves \/ ArHalts \/ ArUnserves
       \/ \E ok \in BOOLEAN, view \in ArConfigs : ArConnect("main", ok, view)

ArReconnect ==
    /\ Running
    /\ ArReconnected \/ \E view \in ArConfigs : ArConnect("reconnect", TRUE, view)

ArJob(j) == Running /\ (ArJobStarts(j) \/ ArJobClones(j) \/ ArJobEnters(j) \/ ArJobEnds(j))

ArNext ==
    \/ \E a \in Actors : ArActor(a)
    \/ ArMain \/ ArReconnect
    \/ \E j \in ArJobs : ArJob(j)
    \/ \E u \in ArUpdates, c \in ArConfigs : Running /\ ArUpdate(u, c)
    \/ \E g \in DOMAIN arGens : ArDrop(g)
    \/ Running /\ ArWorldMoves

ArSpec == ArInit /\ [][ArNext]_arVars

\* The executor runs every actor, drops aborted tasks, and the coordinator's
\* answers and the timeouts of its requests arrive; nothing is assumed of jobs,
\* clients, the interface or the operator.
ArFairness ==
    /\ WF_arVars(ArMain)
    /\ \A a \in Actors : WF_arVars(ArActor(a))

----------------------------------------------------------------------------
Reconciling ==
    {a \in Actors : arAt[a] \in {"rc", "cancel", "take", "nat", "build", "store", "applied", "persist"}}

\* The runtime jobs and handlers find in the slot has not been told to stop:
\* stop_runtime takes it out before it aborts the tasks, and no late store
\* brings a stopped one back, however reconciles, stops and jobs interleave.
StoredIsAlive == arRun # 0 => ~arGens[arRun].aborted

\* Between reconciles that do not overlap, the published selection says
\* "applied" exactly while there is a runtime (reconcile_runtime).
SelectionHonest ==
    arAt["main"] = "wait" /\ Reconciling = {} => (arSel = "applied" <=> arRun # 0)

\* Between reconciles that do not overlap, no generation but the stored one
\* has tasks nobody told to stop (stop_runtime aborts them all).
NoOrphans ==
    arAt["main"] = "wait" /\ Reconciling = {} =>
        \A g \in DOMAIN arGens : arGens[g].up /\ ~arGens[g].aborted => g = arRun

\* The last update is over, nobody asks for a restart, and it was persisted.
UpdateOver ==
    /\ arAt["main"] = "wait" /\ Reconciling = {} /\ ~arRestart /\ arDisk = arConf
    /\ arConf.ctl = ArFirst.ctl /\ arConf.port # 0
    /\ \A a \in Actors : arAt[a] # "restart"

OnConfiguredPort == arRun # 0 /\ arGens[arRun].port = arConf.port

\* Between reconciles that do not overlap, a persisted update is in effect or the
\* selection reports the error: where tasks or jobs of the old runtime keep its
\* sockets, the agent never runs on an endpoint it is not configured for
\* without saying so (apply_networking_config_update, reconcile_runtime).
AppliedOrReported == UpdateOver => OnConfiguredPort \/ arSel = "error"

\* "NAT-only and P2P endpoint changes are applied in-process via runtime
\* reconciliation": with no job running and no old task left, the agent runs on
\* the P2P endpoint it is configured for.
AppliedInProcess ==
    /\ UpdateOver /\ arIp = 1
    /\ \A a \in ArUpdates \cup ArJobs : arAt[a] \in {"new", "done"}
    /\ \A g \in DOMAIN arGens : arGens[g].up => ~arGens[g].aborted
    => OnConfiguredPort

\* A shutdown signal ends the process: neither a reconcile that holds the
\* runtime's mutex nor a handler that does not return keeps it alive.
ShutdownCompletes == arSignal /\ arAt["main"] = "wait" ~> arAt["main"] = "gone"

\* "Later restart requests are deferred through `restart_notify'": a restart
\* that was asked for ends the process, whatever main was doing.
RestartHonoured == arRestart ~> arAt["main"] = "gone"
=============================================================================
