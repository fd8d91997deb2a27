----------------------------- MODULE NatManager -----------------------------
(***************************************************************************)
(* Port mappings on the router (overlord-agent-nat: manager.rs,            *)
(* provider/miniupnpc.rs, provider/rupnp.rs, provider/igd.rs).  A loop     *)
(* tries the configured backends in order and renews the leases; stop()    *)
(* aborts it and releases what it may have mapped.  The miniupnpc backend  *)
(* works in spawn_blocking, which an abort does not reach; the rupnp       *)
(* backend is async and is dropped at its next await.  Every request to    *)
(* the router is a step of its own.  The router is external: one gateway,  *)
(* which keeps a mapping until its lease runs out.                         *)
(***************************************************************************)
EXTENDS Integers, Sequences, FiniteSets

CONSTANTS
    NmSpecs,     \* sequence of the mappings wanted, each on a port of its own
    NmOrder,     \* config.backend_order: "mini", "rupnp", "igd"
    NmLease,     \* lease_duration_secs, in ticks of ten seconds
    NmMargin,    \* renew_margin_secs
    NmFloor,     \* the 30 s floor of the refresh period, and the retry delay
    NmMaxStarts, \* bound: managers started
    NmMaxTicks   \* bound: ticks

Foreign == -1
Ports == {NmSpecs[i] : i \in DOMAIN NmSpecs}

VARIABLES
    nmEnabled,  \* config.enabled
    nmFaults,   \* requests the router may fail: discover, add, inspect, delete, address
    nmAt,       \* the manager: new, off, try, work, sleep, release, stopped
    nmBackend,  \* index of the backend being tried or released
    nmSleep,    \* ticks until the loop wakes
    nmStatus,   \* status.mappings
    nmSelected, \* status.backend
    nmTargets,  \* mappings stop() releases
    nmError,    \* status.last_error is set
    nmJob,      \* the reconcile of one backend: [kind, i, applied]
    nmOrphan,   \* a blocking reconcile whose manager was stopped
    nmGw,       \* router: ticks left of our lease, 0 for none, Foreign for another host's
    nmStarts, nmTicks

nmRun == <<nmAt, nmBackend, nmSleep, nmStatus, nmSelected, nmTargets, nmError>>
nmVars == <<nmEnabled, nmFaults, nmRun, nmJob, nmOrphan, nmGw, nmStarts, nmTicks>>

NoJob == [kind |-> "none", i |-> 0, applied |-> {}]

NmInit(enabled, faults) ==
    /\ nmEnabled = enabled /\ nmFaults = faults
    /\ nmAt = "new" /\ nmBackend = 1 /\ nmSleep = 0
    /\ nmStatus = {} /\ nmSelected = "none" /\ nmTargets = {} /\ nmError = FALSE
    /\ nmJob = NoJob /\ nmOrphan = NoJob
    /\ nmGw = [p \in Ports |-> 0]
    /\ nmStarts = 1 /\ nmTicks = 0

\* A request succeeds unless the router may fail it.
May(fault, fails) == fails => fault \in nmFaults

\* start(): nothing runs while mapping is disabled.
NmStart ==
    /\ nmAt = "new"
    /\ nmAt' = IF nmEnabled /\ NmSpecs # <<>> THEN "try" ELSE "off"
    /\ nmBackend' = 1 /\ nmError' = FALSE
    /\ UNCHANGED <<nmEnabled, nmFaults, nmSleep, nmStatus, nmSelected, nmTargets, nmJob,
                   nmOrphan, nmGw, nmStarts, nmTicks>>

----------------------------------------------------------------------------
\* run_manager_loop, reconcile_once

\* max(lease - margin, 30 s), the subtraction saturating at zero.
Refresh == LET early == IF NmLease > NmMargin THEN NmLease - NmMargin ELSE 0
           IN  IF early > NmFloor THEN early ELSE NmFloor

\* The backend failed: the next one, or the error is recorded and the loop sleeps.
BackendFails ==
    /\ IF nmBackend < Len(NmOrder)
       THEN nmAt' = "try" /\ nmBackend' = nmBackend + 1 /\ UNCHANGED <<nmSleep, nmError>>
       ELSE nmAt' = "sleep" /\ nmBackend' = 1 /\ nmSleep' = NmFloor /\ nmError' = TRUE
    /\ nmJob' = NoJob
    /\ UNCHANGED <<nmStatus, nmSelected, nmTargets>>

\* A backend is tried: its discovery finds the gateway, or it fails.  The igd
\* backend is not implemented and always fails.
NmTry(found) ==
    /\ nmAt = "try" /\ May("discover", ~found)
    /\ LET kind == NmOrder[nmBackend]
       IN  IF kind = "igd" \/ ~found
           THEN BackendFails
           ELSE /\ nmJob' = [kind |-> kind, i |-> 1, applied |-> {}]
                /\ nmAt' = "work"
                /\ UNCHANGED <<nmBackend, nmSleep, nmStatus, nmSelected, nmTargets, nmError>>
    /\ UNCHANGED <<nmEnabled, nmFaults, nmOrphan, nmGw, nmStarts, nmTicks>>

NmWake ==
    /\ nmAt = "sleep" /\ nmSleep = 0
    /\ nmAt' = "try"
    /\ UNCHANGED <<nmEnabled, nmFaults, nmBackend, nmSleep, nmStatus, nmSelected, nmTargets,
                   nmError, nmJob, nmOrphan, nmGw, nmStarts, nmTicks>>

\* Every spec is mapped: the status is written under its lock.
BackendDone(kind) ==
    /\ nmAt' = "sleep" /\ nmBackend' = 1 /\ nmSleep' = Refresh
    /\ nmStatus' = Ports /\ nmSelected' = kind /\ nmError' = FALSE
    /\ nmJob' = NoJob
    /\ UNCHANGED nmTargets

----------------------------------------------------------------------------
\* reconcile_blocking, reconcile_gateway: one spec after the other

\* The mappings applied so far are deleted, errors ignored.
Undone(job) == [p \in Ports |-> IF p \in job.applied /\ nmGw[p] # Foreign THEN 0 ELSE nmGw[p]]

\* What one spec does to a job: [gw, job, end]; end says whether the job goes
\* on, is done or has failed.  A conflict, or an add the router fails, is
\* forgiven by miniupnpc when the router already holds this very mapping.
Mapped(job, add, inspect, address) ==
    LET p == NmSpecs[job.i]
        added == add /\ nmGw[p] # Foreign
        reused == ~added /\ job.kind = "mini" /\ inspect /\ nmGw[p] > 0
        gw == IF added THEN [nmGw EXCEPT ![p] = NmLease] ELSE nmGw
        next == [kind |-> job.kind, i |-> job.i + 1,
                 applied |-> IF added THEN job.applied \cup {p} ELSE job.applied]
    IN  IF added \/ reused
        THEN [gw |-> gw, job |-> next,
              end |-> IF ~address THEN "fail" ELSE IF job.i = Len(NmSpecs) THEN "done" ELSE "no"]
        ELSE [gw |-> IF job.kind = "mini" /\ ~inspect THEN nmGw ELSE Undone(job),
              job |-> next, end |-> "fail"]

Faulty(add, inspect, address) ==
    May("add", ~add) /\ May("inspect", ~inspect) /\ May("address", ~address)

NmMap(add, inspect, address) ==
    /\ nmAt = "work" /\ Faulty(add, inspect, address)
    /\ LET m == Mapped(nmJob, add, inspect, address)
       IN  /\ nmGw' = m.gw
           /\ CASE m.end = "fail" -> BackendFails
                [] m.end = "done" -> BackendDone(nmJob.kind)
                [] OTHER -> nmJob' = m.job /\ UNCHANGED nmRun
    /\ UNCHANGED <<nmEnabled, nmFaults, nmOrphan, nmStarts, nmTicks>>

\* The blocking reconcile of a stopped manager goes on; nobody reads its result.
NmOrphanMaps(add, inspect, address) ==
    /\ nmOrphan # NoJob /\ Faulty(add, inspect, address)
    /\ LET m == Mapped(nmOrphan, add, inspect, address)
       IN  nmGw' = m.gw /\ nmOrphan' = IF m.end = "no" THEN m.job ELSE NoJob
    /\ UNCHANGED <<nmEnabled, nmFaults, nmRun, nmJob, nmStarts, nmTicks>>

----------------------------------------------------------------------------
\* stop()

\* Mutant: only what the status lists is released.
TargetsListed(status) == status

\* The mappings to release; release_targets_from_specs when none is listed.
Targets(status) == IF status = {} THEN Ports ELSE status

\* The loop is aborted wherever it is, disabled or not.
NmStop ==
    /\ nmAt \in {"off", "try", "work", "sleep"}
    /\ nmAt' = "release" /\ nmBackend' = 1 /\ nmSleep' = 0
    /\ nmTargets' = Targets(nmStatus)
    /\ nmJob' = NoJob
    /\ nmOrphan' = IF nmJob.kind = "mini" THEN nmJob ELSE nmOrphan
    /\ UNCHANGED <<nmEnabled, nmFaults, nmStatus, nmSelected, nmError, nmGw, nmStarts, nmTicks>>

\* release_backend_order: the selected backend first, then the others.
ReleaseOrder ==
    IF nmSelected = "none" THEN NmOrder
    ELSE <<nmSelected>> \o SelectSeq(NmOrder, LAMBDA b : b # nmSelected)

\* One backend releases: it deletes every target, whoever holds the port, and
\* clears the listed mappings; its errors are ignored.
NmRelease(found, kept) ==
    /\ nmAt = "release" /\ nmBackend <= Len(ReleaseOrder) /\ nmTargets # {}
    /\ May("discover", ~found) /\ May("delete", kept # {})
    /\ IF ReleaseOrder[nmBackend] = "igd" \/ ~found
       THEN UNCHANGED <<nmGw, nmStatus>>
       ELSE /\ nmGw' = [p \in Ports |-> IF p \in nmTargets \ kept THEN 0 ELSE nmGw[p]]
            /\ nmStatus' = {}
    /\ nmBackend' = nmBackend + 1
    /\ UNCHANGED <<nmEnabled, nmFaults, nmAt, nmSleep, nmSelected, nmTargets, nmError, nmJob,
                   nmOrphan, nmStarts, nmTicks>>

NmStopped ==
    /\ nmAt = "release" /\ (nmBackend > Len(ReleaseOrder) \/ nmTargets = {})
    /\ nmAt' = "stopped" /\ nmTargets' = {}
    /\ UNCHANGED <<nmEnabled, nmFaults, nmBackend, nmSleep, nmStatus, nmSelected, nmError,
                   nmJob, nmOrphan, nmGw, nmStarts, nmTicks>>

\* reconcile_runtime builds the next runtime with a manager of its own.
NmAgain ==
    /\ nmAt = "stopped" /\ nmStarts < NmMaxStarts
    /\ nmAt' = "new" /\ nmBackend' = 1
    /\ nmStatus' = {} /\ nmSelected' = "none" /\ nmError' = FALSE
    /\ nmStarts' = nmStarts + 1
    /\ UNCHANGED <<nmEnabled, nmFaults, nmSleep, nmTargets, nmJob, nmOrphan, nmGw, nmTicks>>

----------------------------------------------------------------------------
\* External: time passes while the loop sleeps (an attempt is taken to be
\* shorter than a tick), and another host takes or gives up a free port.
NmTick ==
    /\ nmAt \in {"off", "sleep", "stopped"} /\ nmTicks < NmMaxTicks
    /\ nmAt = "sleep" => nmSleep > 0
    /\ nmTicks' = nmTicks + 1
    /\ nmSleep' = IF nmSleep > 0 THEN nmSleep - 1 ELSE 0
    /\ nmGw' = [p \in Ports |-> IF nmGw[p] > 0 THEN nmGw[p] - 1 ELSE nmGw[p]]
    /\ UNCHANGED <<nmEnabled, nmFaults, nmAt, nmBackend, nmStatus, nmSelected, nmTargets,
                   nmError, nmJob, nmOrphan, nmStarts>>

NmOtherHost(p) ==
    /\ nmGw[p] \in {0, Foreign}
    /\ nmGw' = [nmGw EXCEPT ![p] = IF @ = 0 THEN Foreign ELSE 0]
    /\ UNCHANGED <<nmEnabled, nmFaults, nmRun, nmJob, nmOrphan, nmStarts, nmTicks>>

NmNext ==
    \/ NmStart \/ NmWake \/ NmStop \/ NmStopped \/ NmAgain \/ NmTick
    \/ \E found \in BOOLEAN : NmTry(found)
    \/ \E found \in BOOLEAN, kept \in SUBSET Ports : NmRelease(found, kept)
    \/ \E a, b, c \in BOOLEAN : NmMap(a, b, c) \/ NmOrphanMaps(a, b, c)
    \/ \E p \in Ports : NmOtherHost(p)

----------------------------------------------------------------------------
Ours(p) == nmGw[p] > 0

\* Where the router fails nothing and the lease is longer than the refresh
\* floor: while no error is reported, what the status lists is mapped, renewal
\* and expiry included (KadFirewall and the peers' answers build on it).
ListedHeld ==
    nmAt \in {"sleep", "try", "work"} /\ ~nmError => \A p \in nmStatus : Ours(p)

\* Where deletes and inspections do not fail: a reconcile that failed in every
\* backend leaves no mapping of ours behind that the status does not list.
AllOrNothing == nmAt = "sleep" /\ nmStatus = {} => \A p \in Ports : ~Ours(p)

\* "On shutdown: release the port mapping": after stop() the router holds no
\* mapping of ours, whatever step of the loop it interrupted.
ReleasedOnStop ==
    nmAt = "stopped" /\ nmOrphan = NoJob => \A p \in Ports : ~Ours(p)
=============================================================================
