----------------------------- MODULE SearchJobs -----------------------------
(***************************************************************************)
(* Searches the coordinator asks for (agent/service.rs search and          *)
(* cancel_search, agent/search.rs, agent/ed2k_search.rs).  A request       *)
(* enters the table of active searches and runs as a detached task: it     *)
(* posts results in batches, tells the coordinator how far it is, reports  *)
(* how it ended and leaves the table.  A reconcile of the runtime cancels  *)
(* every search and empties the table while the tasks go on.  Every post   *)
(* may be lost, or may arrive without the answer coming back.              *)
(***************************************************************************)
EXTENDS Integers, FiniteSets

CONSTANTS
    SjTasks,   \* requests, each of which may become a task
    SjJob,     \* request to [id, kind]; kind is keyword, hash (Kad sources, notes) or ed2k
    SjBatch,   \* ACTIVE_BATCH_SIZE
    SjMost,    \* bound: results a search yields
    SjMock,    \* enable_mock_results
    SjNone

JobId(t) == SjJob[t].id
SjIds == {JobId(t) : t \in SjTasks}

ASSUME SjAssumption == SjNone \notin SjTasks

\* What becomes of a call to the coordinator: answered, never received, or
\* received while the answer is an error or is lost.
Delivery == {"ok", "lost", "unacked"}

VARIABLES
    sjAt,       \* where each request is
    sjTable,    \* active_searches: job id to the request whose handle it holds
    sjDrained,  \* handles taken out by cancel_active_searches, not yet cancelled
    sjCancel,   \* requests whose token is cancelled
    sjSeen,     \* results the search has yielded
    sjFiles,    \* results that wait for their batch
    sjStats,    \* SearchRunStats: [results, batches]
    sjEnd,      \* final_event: [status, results, batches]
    sjActive,   \* activity keys, by job id
    sjDegraded, \* a degraded activity is recorded
    sjGot,      \* coordinator: [results, batches] received
    sjTold,     \* coordinator: the last event received
    sjReused    \* history: job ids that entered while a drained run was still going

sjTables == <<sjTable, sjDrained, sjCancel, sjReused>>
sjRun == <<sjSeen, sjFiles, sjStats, sjEnd>>
sjShown == <<sjActive, sjDegraded>>
sjVars == <<sjAt, sjTables, sjRun, sjShown, sjGot, sjTold>>

NoStats == [results |-> 0, batches |-> 0]
SearchEvent(status, stats) ==
    [status |-> status, results |-> stats.results, batches |-> stats.batches]

SjInit ==
    /\ sjAt = [t \in SjTasks |-> "new"]
    /\ sjTable = [i \in SjIds |-> SjNone] /\ sjDrained = {} /\ sjCancel = {} /\ sjReused = {}
    /\ sjSeen = [t \in SjTasks |-> 0] /\ sjFiles = [t \in SjTasks |-> 0]
    /\ sjStats = [t \in SjTasks |-> NoStats]
    /\ sjEnd = [t \in SjTasks |-> SearchEvent("none", NoStats)]
    /\ sjActive = {} /\ sjDegraded = FALSE
    /\ sjGot = [t \in SjTasks |-> NoStats]
    /\ sjTold = [t \in SjTasks |-> SearchEvent("none", NoStats)]

SjGo(t, at) == sjAt' = [sjAt EXCEPT ![t] = at]
Going(t) == sjAt[t] \notin {"new", "rejected", "gone"}

----------------------------------------------------------------------------
\* search, up to the spawned task

\* Mutant: a job that is active is entered again.
AlreadyActiveNot(i) == FALSE

\* active.contains_key
AlreadyActive(i) == sjTable[i] # SjNone

\* Without a runtime the request is refused.
SjRequest(t, runtime) ==
    /\ sjAt[t] = "new"
    /\ IF ~runtime \/ AlreadyActive(JobId(t))
       THEN SjGo(t, "rejected") /\ UNCHANGED sjTables
       ELSE /\ SjGo(t, "entered")
            /\ sjTable' = [sjTable EXCEPT ![JobId(t)] = t]
            /\ sjReused' = sjReused \cup {i \in SjIds : /\ i = JobId(t) /\ sjTable[i] = SjNone
                                                        /\ \E u \in SjTasks : JobId(u) = i /\ Going(u)}
            /\ UNCHANGED <<sjDrained, sjCancel>>
    /\ UNCHANGED <<sjRun, sjShown, sjGot, sjTold>>

SjBegin(t) ==
    /\ sjAt[t] = "entered"
    /\ sjActive' = sjActive \cup {JobId(t)}
    /\ SjGo(t, "starting")
    /\ UNCHANGED <<sjTables, sjRun, sjDegraded, sjGot, sjTold>>

\* emit_search_event
Emits(t, event, d) == sjTold' = [sjTold EXCEPT ![t] = IF d = "lost" THEN @ ELSE event]

\* Started: an error is only logged.
SjStarted(t, d) ==
    /\ sjAt[t] = "starting"
    /\ Emits(t, SearchEvent("Started", NoStats), d)
    /\ SjGo(t, "search")
    /\ UNCHANGED <<sjTables, sjRun, sjShown, sjGot>>

----------------------------------------------------------------------------
\* Kad: results come one by one, and a full batch is posted at once

SjResult(t) ==
    /\ sjAt[t] = "search" /\ SjJob[t].kind # "ed2k" /\ sjSeen[t] < SjMost
    /\ sjSeen' = [sjSeen EXCEPT ![t] = @ + 1]
    /\ sjFiles' = [sjFiles EXCEPT ![t] = @ + 1]
    /\ SjGo(t, IF sjFiles'[t] >= SjBatch THEN "batch" ELSE "search")
    /\ UNCHANGED <<sjTables, sjStats, sjEnd, sjShown, sjGot, sjTold>>

\* A job without a query or a hash fails at once; a keyword search also fails
\* on a result that cannot be mapped.
SjFails(t) ==
    /\ sjAt[t] = "search"
    /\ sjSeen[t] = 0 \/ (SjJob[t].kind = "keyword" /\ sjSeen[t] < SjMost)
    /\ SjGo(t, "error")
    /\ UNCHANGED <<sjTables, sjRun, sjShown, sjGot, sjTold>>

SjStreamEnds(t) ==
    /\ sjAt[t] = "search" /\ SjJob[t].kind # "ed2k"
    /\ SjGo(t, "rest")
    /\ UNCHANGED <<sjTables, sjRun, sjShown, sjGot, sjTold>>

\* ED2K: the background session first, when it is connected; servers of their
\* own when it is not, failed or had nothing (n = 0).  All results are one batch.
SjBackground(t, n) ==
    /\ sjAt[t] = "search" /\ SjJob[t].kind = "ed2k"
    /\ sjFiles' = [sjFiles EXCEPT ![t] = n]
    /\ SjGo(t, IF n = 0 THEN "servers" ELSE "rest")
    /\ UNCHANGED <<sjTables, sjSeen, sjStats, sjEnd, sjShown, sjGot, sjTold>>

SjServers(t, n, failed) ==
    /\ sjAt[t] = "servers" /\ (failed => n = 0)
    /\ sjFiles' = [sjFiles EXCEPT ![t] = n]
    /\ SjGo(t, IF failed THEN "error" ELSE "rest")
    /\ UNCHANGED <<sjTables, sjSeen, sjStats, sjEnd, sjShown, sjGot, sjTold>>

----------------------------------------------------------------------------
\* post_search_batch

Posting == {"batch", "rest", "mock"}

\* Where the task is after the batch is announced, or was empty: a full batch
\* of the stream, the rest, or the mock record of a keyword search that saw
\* nothing.
Onward(t, at) ==
    CASE at = "batch" -> "search"
      [] at = "rest" /\ SjJob[t].kind = "keyword" /\ SjMock /\ sjSeen[t] = 0 /\ t \notin sjCancel -> "mock"
      [] OTHER -> "ended"

Announcing(at) == [batch |-> "batch told", rest |-> "rest told", mock |-> "mock told"][at]

\* Mutant: the task goes on although the results did not get through.
AfterPostAnyhow(at, d) == Announcing(at)

\* post_results(..).await?
AfterPost(at, d) == IF d = "ok" THEN Announcing(at) ELSE "error"

\* The statistics count the batch before it is sent.
SjPost(t, d) ==
    LET at == sjAt[t]
        n == IF at = "mock" THEN 1 ELSE sjFiles[t]
        More(s) == [results |-> s.results + n, batches |-> s.batches + 1]
    IN
    /\ at \in Posting
    /\ IF n = 0
       THEN d = "ok" /\ SjGo(t, Onward(t, at)) /\ UNCHANGED <<sjStats, sjGot>>
       ELSE /\ SjGo(t, AfterPost(at, d))
            /\ sjStats' = [sjStats EXCEPT ![t] = More(@)]
            /\ sjGot' = [sjGot EXCEPT ![t] = IF d = "lost" THEN @ ELSE More(@)]
    /\ sjFiles' = [sjFiles EXCEPT ![t] = 0]
    /\ UNCHANGED <<sjTables, sjSeen, sjEnd, sjShown, sjTold>>

\* The mock record names the node's own address, which may be unknown.
SjMockFails(t) ==
    /\ sjAt[t] = "mock"
    /\ SjGo(t, "error")
    /\ UNCHANGED <<sjTables, sjRun, sjShown, sjGot, sjTold>>

\* BatchReceived: an error fails the search although the results arrived.
SjAnnounce(t, at, d) ==
    /\ sjAt[t] = Announcing(at)
    /\ Emits(t, SearchEvent("BatchReceived", sjStats[t]), d)
    /\ SjGo(t, IF d = "ok" THEN Onward(t, at) ELSE "error")
    /\ UNCHANGED <<sjTables, sjRun, sjShown, sjGot>>

----------------------------------------------------------------------------
\* The end of a task

\* final_event: the statistics of a failed search are dropped.
SjEnds(t) ==
    /\ sjAt[t] \in {"ended", "error"}
    /\ LET stats == IF sjAt[t] = "ended" THEN sjStats[t] ELSE NoStats
           status == IF t \in sjCancel THEN "Cancelled"
                     ELSE IF sjAt[t] = "ended" THEN "Completed" ELSE "Failed"
       IN  sjEnd' = [sjEnd EXCEPT ![t] = SearchEvent(status, stats)]
    /\ SjGo(t, "report")
    /\ UNCHANGED <<sjTables, sjSeen, sjFiles, sjStats, sjShown, sjGot, sjTold>>

SjReport(t, d) ==
    /\ sjAt[t] = "report"
    /\ Emits(t, sjEnd[t], d)
    /\ SjGo(t, "finish")
    /\ UNCHANGED <<sjTables, sjRun, sjShown, sjGot>>

\* finish_agent_activity, and the degraded activity of a failed search; any
\* other end clears it, whoever recorded it.
SjFinish(t) ==
    /\ sjAt[t] = "finish"
    /\ sjActive' = sjActive \ {JobId(t)}
    /\ SjGo(t, "degrade")
    /\ UNCHANGED <<sjTables, sjRun, sjDegraded, sjGot, sjTold>>

SjDegrade(t) ==
    /\ sjAt[t] = "degrade"
    /\ sjDegraded' = (sjEnd[t].status = "Failed")
    /\ SjGo(t, "leave")
    /\ UNCHANGED <<sjTables, sjRun, sjActive, sjGot, sjTold>>

\* The job's handle is removed, whichever task entered it.
SjLeave(t) ==
    /\ sjAt[t] = "leave"
    /\ sjTable' = [sjTable EXCEPT ![JobId(t)] = SjNone]
    /\ SjGo(t, "gone")
    /\ UNCHANGED <<sjDrained, sjCancel, sjReused, sjRun, sjShown, sjGot, sjTold>>

----------------------------------------------------------------------------
\* Cancellation

\* cancel_search; a job that is not active is an error to the caller only.
SjCancelSearch(i) ==
    /\ sjTable[i] # SjNone
    /\ sjCancel' = sjCancel \cup {sjTable[i]}
    /\ UNCHANGED <<sjAt, sjTable, sjDrained, sjReused, sjRun, sjShown, sjGot, sjTold>>

\* cancel_active_searches, from a reconcile: the table is emptied under its
\* lock, the handles are cancelled after it.
SjDrain ==
    /\ sjTable' = [i \in SjIds |-> SjNone]
    /\ sjDrained' = sjDrained \cup {sjTable[i] : i \in {j \in SjIds : sjTable[j] # SjNone}}
    /\ UNCHANGED <<sjAt, sjCancel, sjReused, sjRun, sjShown, sjGot, sjTold>>

SjDrainCancels(t) ==
    /\ t \in sjDrained
    /\ sjDrained' = sjDrained \ {t} /\ sjCancel' = sjCancel \cup {t}
    /\ UNCHANGED <<sjAt, sjTable, sjReused, sjRun, sjShown, sjGot, sjTold>>

SjTask(t) ==
    \/ \E runtime \in BOOLEAN : SjRequest(t, runtime)
    \/ SjBegin(t) \/ SjResult(t) \/ SjFails(t) \/ SjStreamEnds(t)
    \/ \E n \in 0 .. SjMost : SjBackground(t, n) \/ \E failed \in BOOLEAN : SjServers(t, n, failed)
    \/ \E d \in Delivery : \/ SjStarted(t, d) \/ SjPost(t, d) \/ SjReport(t, d)
                           \/ \E at \in Posting : SjAnnounce(t, at, d)
    \/ SjMockFails(t) \/ SjEnds(t) \/ SjFinish(t) \/ SjDegrade(t) \/ SjLeave(t)
    \/ SjDrainCancels(t)

SjNext == \/ \E t \in SjTasks : SjTask(t)
          \/ \E i \in SjIds : SjCancelSearch(i)
          \/ SjDrain

SjSpec == SjInit /\ [][SjNext]_sjVars

----------------------------------------------------------------------------
\* Properties

\* What the coordinator was last told about results it has: a search reported
\* as completed delivered exactly the results and batches it counts, and a
\* batch is never announced before the coordinator holds it, although the
\* statistics grow before the post and every call may fail
\* (post_search_batch, final_event).
ToldIsDelivered ==
    \A t \in SjTasks :
        LET told == [results |-> sjTold[t].results, batches |-> sjTold[t].batches]
        IN  /\ sjTold[t].status = "Completed" => told = sjGot[t]
            /\ sjTold[t].status = "BatchReceived" =>
                   told.results <= sjGot[t].results /\ told.batches <= sjGot[t].batches

\* Every run of a job can still be stopped and is shown: unless the job id was
\* taken up again after a reconcile emptied the table under a run that was
\* still going, a run is the only one of its job, its handle is in the table
\* or its cancellation is on the way or done, and its activity is listed from
\* its start to its report (search, cancel_active_searches).
JobsAccounted ==
    \A t \in SjTasks : Going(t) /\ JobId(t) \notin sjReused =>
        /\ \A u \in SjTasks : Going(u) /\ JobId(u) = JobId(t) => u = t
        /\ sjTable[JobId(t)] = t \/ t \in sjDrained \cup sjCancel
        /\ sjAt[t] \notin {"entered", "degrade", "leave"} => JobId(t) \in sjActive

=============================================================================
