--------------------------- MODULE Ed2kNetProofs ---------------------------
(***************************************************************************)
(* Proofs about the searches the coordinator asks for, the server session  *)
(* that runs them and the batches it has published, for any set of         *)
(* requests, any queue capacity, any items and any losses on the way.      *)
(*                                                                         *)
(* The searches of the coordinator.  What it is told matches what it       *)
(* received because the statistics and the received counts are equal       *)
(* wherever the task is not on its way out (DeliverInv).  That a run can   *)
(* be stopped and is shown needs only the types of the table beside itself *)
(* (TableInv).                                                             *)
(*                                                                         *)
(* The server session.  Its honesty is nearly inductive; ServerInv adds    *)
(* that the pending search is one the server was asked.                    *)
(*                                                                         *)
(* Publishing.  That a batch finds its own hints follows from its being    *)
(* the holder of the gate, which a batch gives back on every way out, an   *)
(* abort included (PuInv).                                                 *)
(***************************************************************************)
EXTENDS SearchJobs, ServerLink, PublishRun, TLAPS

----------------------------------------------------------------------------
\* The searches of the coordinator

Early == {"new", "rejected", "entered", "starting", "search", "servers", "batch", "rest", "mock",
          "batch told", "rest told", "mock told", "ended"}
Reported == {"finish", "degrade", "leave", "gone"}
SjPlaces == Early \cup {"error", "report"} \cup Reported
Counts == [results : Nat, batches : Nat]
Statuses == {"none", "Started", "BatchReceived", "Cancelled", "Completed", "Failed"}
Events == [status : Statuses, results : Nat, batches : Nat]

\* What a task that is at a place has counted, has delivered, will report and
\* has reported.
Delivered(at, stats, got, end, told) ==
    /\ at \in Early => stats = got
    /\ end.status \in {"none", "Cancelled", "Completed", "Failed"}
    /\ end.status = "Completed" =>
          at \in {"report"} \cup Reported /\ end.results = got.results /\ end.batches = got.batches
    /\ told.status = "Completed" =>
          at \in Reported /\ told.results = got.results /\ told.batches = got.batches
    /\ told.status = "BatchReceived" => told.results <= got.results /\ told.batches <= got.batches

DeliverInv ==
    /\ sjAt \in [SjTasks -> SjPlaces] /\ sjFiles \in [SjTasks -> Nat]
    /\ sjStats \in [SjTasks -> Counts] /\ sjGot \in [SjTasks -> Counts]
    /\ sjEnd \in [SjTasks -> Events] /\ sjTold \in [SjTasks -> Events]
    /\ \A t \in SjTasks : Delivered(sjAt[t], sjStats[t], sjGot[t], sjEnd[t], sjTold[t])

\* An event carries the counts it was made of.
LEMMA EventTyped ==
    ASSUME NEW status \in Statuses, NEW stats \in Counts
    PROVE  /\ SearchEvent(status, stats) \in Events /\ SearchEvent(status, stats).status = status
           /\ SearchEvent(status, stats).results = stats.results
           /\ SearchEvent(status, stats).batches = stats.batches
  BY Zenon DEF Events, SearchEvent, Counts

\* Nothing is told or delivered before a job starts.
LEMMA DeliverInit == SjInit => DeliverInv
  <1> SUFFICES ASSUME SjInit PROVE DeliverInv
    OBVIOUS
  <1>1. NoStats \in Counts
    BY Zenon DEF NoStats, Counts
  <1>2. SearchEvent("none", NoStats) \in Events /\ SearchEvent("none", NoStats).status = "none"
    BY <1>1, EventTyped DEF Statuses
  <1> QED
    BY <1>1, <1>2, Zenon DEF SjInit, DeliverInv, Delivered, SjPlaces, Early

\* A step of one task that neither posts nor reports.
LEMMA MovesOn ==
    ASSUME DeliverInv, NEW t \in SjTasks, NEW at \in SjPlaces, SjGo(t, at),
           sjFiles' \in [SjTasks -> Nat], UNCHANGED <<sjStats, sjEnd, sjGot, sjTold>>,
           at \in Early => sjAt[t] \in Early,
           sjAt[t] \in {"report"} \cup Reported => at \in {"report"} \cup Reported,
           sjAt[t] \in Reported => at \in Reported
    PROVE  DeliverInv'
  <1>1. sjAt' \in [SjTasks -> SjPlaces] /\ sjAt'[t] = at /\ \A u \in SjTasks \ {t} : sjAt'[u] = sjAt[u]
    BY Zenon DEF SjGo, DeliverInv
  <1> QED  BY <1>1, Zenon DEF DeliverInv, Delivered

\* The coordinator may receive one event of a task.
LEMMA Tells ==
    ASSUME DeliverInv, NEW t \in SjTasks, NEW at \in SjPlaces, SjGo(t, at),
           NEW e \in Events, NEW d, Emits(t, e, d),
           UNCHANGED <<sjFiles, sjStats, sjEnd, sjGot>>,
           at \in Early => sjAt[t] \in Early,
           sjAt[t] \notin Reported,
           sjAt[t] = "report" => at \in Reported,
           e.status = "Completed" =>
               at \in Reported /\ e.results = sjGot[t].results /\ e.batches = sjGot[t].batches,
           e.status = "BatchReceived" => e.results <= sjGot[t].results /\ e.batches <= sjGot[t].batches
    PROVE  DeliverInv'
  <1>1. sjAt' \in [SjTasks -> SjPlaces] /\ sjAt'[t] = at /\ \A u \in SjTasks \ {t} : sjAt'[u] = sjAt[u]
    BY Zenon DEF SjGo, DeliverInv
  <1>2. /\ sjTold' \in [SjTasks -> Events] /\ (sjTold'[t] = sjTold[t] \/ sjTold'[t] = e)
        /\ \A u \in SjTasks \ {t} : sjTold'[u] = sjTold[u]
    BY Zenon DEF Emits, DeliverInv
  <1>3. Delivered(sjAt'[t], sjStats'[t], sjGot'[t], sjEnd'[t], sjTold'[t])
    BY <1>1, <1>2, Zenon DEF DeliverInv, Delivered
  <1> QED  BY <1>1, <1>2, <1>3 DEF DeliverInv, Delivered

LEMMA Announces ==
    Announcing("batch") = "batch told" /\ Announcing("rest") = "rest told" /\ Announcing("mock") = "mock told"
  BY Zenon DEF Announcing

\* The statistics and the coordinator's count grow together, unless the post
\* fails: then the task is on its way out.
LEMMA PostDelivers ==
    ASSUME DeliverInv, NEW t \in SjTasks, NEW d \in Delivery, SjPost(t, d)
    PROVE  DeliverInv'
  <1> DEFINE at == sjAt[t]
             n == IF at = "mock" THEN 1 ELSE sjFiles[t]
             More(s) == [results |-> s.results + n, batches |-> s.batches + 1]
  <1>1. /\ at \in {"batch", "rest", "mock"} /\ n \in Nat
        /\ sjFiles' \in [SjTasks -> Nat] /\ UNCHANGED <<sjEnd, sjTold>>
    BY Zenon DEF SjPost, Posting, DeliverInv
  <1>2. CASE n = 0
    <2>1. SjGo(t, Onward(t, at)) /\ UNCHANGED <<sjStats, sjGot>>
      BY <1>2, Zenon DEF SjPost
    <2>2. Onward(t, at) \in Early
      BY Zenon DEF Onward, Early
    <2> QED  BY <1>1, <2>1, <2>2, MovesOn, Zenon DEF SjPlaces, Early, Reported
  <1>3. CASE n # 0
    <2>1. /\ SjGo(t, AfterPost(at, d)) /\ sjStats' = [sjStats EXCEPT ![t] = More(sjStats[t])]
          /\ sjGot' = [sjGot EXCEPT ![t] = IF d = "lost" THEN sjGot[t] ELSE More(sjGot[t])]
      BY <1>3, Zenon DEF SjPost
    <2>2. /\ More(sjStats[t]) \in Counts /\ More(sjGot[t]) \in Counts /\ sjStats[t] = sjGot[t]
          /\ sjGot[t] \in Counts
          /\ sjGot[t].results <= More(sjGot[t]).results /\ sjGot[t].batches <= More(sjGot[t]).batches
      <3>1. sjStats[t] = sjGot[t] /\ sjGot[t] \in Counts
        BY <1>1, Zenon DEF DeliverInv, Delivered, Early
      <3> QED  BY <1>1, <3>1 DEF Counts
    <2>3. /\ AfterPost(at, d) \in Early => d = "ok"
          /\ AfterPost(at, d) \in SjPlaces
      BY <1>1, Announces, Zenon DEF AfterPost, Early, Reported, SjPlaces
    <2>4. sjEnd[t].status # "Completed" /\ sjTold[t].status # "Completed"
      BY <1>1, Zenon DEF DeliverInv, Delivered, Reported
    <2>5. /\ sjGot[t].results \in Nat /\ sjGot[t].batches \in Nat
          /\ sjTold[t].results \in Nat /\ sjTold[t].batches \in Nat
          /\ More(sjGot[t]).results \in Nat /\ More(sjGot[t]).batches \in Nat
      BY <2>2, Zenon DEF Counts, DeliverInv, Events
    <2> HIDE DEF More, n
    <2>6. /\ sjAt' \in [SjTasks -> SjPlaces] /\ sjAt'[t] = AfterPost(at, d)
          /\ \A u \in SjTasks \ {t} : sjAt'[u] = sjAt[u]
      BY <2>1, <2>3, Zenon DEF SjGo, DeliverInv
    <2>7. /\ sjStats' \in [SjTasks -> Counts] /\ sjStats'[t] = More(sjStats[t])
          /\ \A u \in SjTasks \ {t} : sjStats'[u] = sjStats[u]
      BY <2>1, <2>2, Zenon DEF DeliverInv
    <2>8. /\ sjGot' \in [SjTasks -> Counts] /\ sjGot'[t] = IF d = "lost" THEN sjGot[t] ELSE More(sjGot[t])
          /\ \A u \in SjTasks \ {t} : sjGot'[u] = sjGot[u]
      BY <2>1, <2>2, Zenon DEF DeliverInv
    <2>9. Delivered(sjAt'[t], sjStats'[t], sjGot'[t], sjEnd'[t], sjTold'[t])
      BY <1>1, <2>2, <2>3, <2>4, <2>5, <2>6, <2>7, <2>8 DEF DeliverInv, Delivered
    <2> QED  BY <1>1, <2>6, <2>7, <2>8, <2>9, Zenon DEF DeliverInv
  <1> QED  BY <1>2, <1>3, Zenon

\* A search ends, one way or another.
LEMMA EndsDelivers ==
    ASSUME DeliverInv, NEW t \in SjTasks, SjEnds(t)
    PROVE  DeliverInv'
  <1> DEFINE stats == IF sjAt[t] = "ended" THEN sjStats[t] ELSE NoStats
             status == IF t \in sjCancel THEN "Cancelled"
                       ELSE IF sjAt[t] = "ended" THEN "Completed" ELSE "Failed"
             e == SearchEvent(status, stats)
  <1>1. /\ sjEnd' = [sjEnd EXCEPT ![t] = e] /\ SjGo(t, "report") /\ sjAt[t] \in {"ended", "error"}
        /\ UNCHANGED <<sjFiles, sjStats, sjGot, sjTold>>
    BY Zenon DEF SjEnds
  <1>2. stats \in Counts /\ status \in {"Cancelled", "Completed", "Failed"}
    BY Zenon DEF NoStats, Counts, DeliverInv
  <1>3. status = "Completed" => stats = sjGot[t]
    BY <1>1, Zenon DEF DeliverInv, Delivered, Early
  <1>4. e \in Events /\ e.status = status /\ e.results = stats.results /\ e.batches = stats.batches
    <2> HIDE DEF stats, status
    <2> QED  BY <1>2, EventTyped DEF Statuses
  <1> HIDE DEF e, stats, status
  <1>5. /\ sjAt' \in [SjTasks -> SjPlaces] /\ sjAt'[t] = "report" /\ \A u \in SjTasks \ {t} : sjAt'[u] = sjAt[u]
        /\ sjEnd' \in [SjTasks -> Events] /\ sjEnd'[t] = e /\ \A u \in SjTasks \ {t} : sjEnd'[u] = sjEnd[u]
    BY <1>1, <1>4, Zenon DEF SjGo, DeliverInv, SjPlaces
  <1>6. Delivered(sjAt'[t], sjStats'[t], sjGot'[t], sjEnd'[t], sjTold'[t])
    BY <1>1, <1>2, <1>3, <1>4, <1>5, Zenon DEF DeliverInv, Delivered, Early, Reported
  <1> QED  BY <1>1, <1>5, <1>6, Zenon DEF DeliverInv

\* The event of a batch follows its delivery.
LEMMA AnnounceDelivers ==
    ASSUME DeliverInv, NEW t \in SjTasks, NEW at \in Posting, NEW d \in Delivery, SjAnnounce(t, at, d)
    PROVE  DeliverInv'
  <1> DEFINE e == SearchEvent("BatchReceived", sjStats[t])
             to == IF d = "ok" THEN Onward(t, at) ELSE "error"
  <1>1. /\ sjAt[t] \in {"batch told", "rest told", "mock told"} /\ Emits(t, e, d) /\ SjGo(t, to)
        /\ UNCHANGED <<sjFiles, sjStats, sjEnd, sjGot>>
    BY Announces, Zenon DEF SjAnnounce, Posting, sjRun
  <1>2. to \in Early \cup {"error"}
    BY Zenon DEF Onward, Early
  <1>3. sjStats[t] = sjGot[t] /\ sjStats[t] \in Counts
    BY <1>1, Zenon DEF DeliverInv, Delivered, Early
  <1>4. /\ e \in Events /\ e.status = "BatchReceived"
        /\ e.results = sjGot[t].results /\ e.batches = sjGot[t].batches
    BY <1>3, EventTyped DEF Statuses
  <1>5. e.results <= sjGot[t].results /\ e.batches <= sjGot[t].batches
    BY <1>3, <1>4 DEF Counts
  <1> HIDE DEF e, to
  <1> QED  BY <1>1, <1>2, <1>4, <1>5, Tells, Zenon DEF Early, SjPlaces, Reported

\* The final report.
LEMMA ReportDelivers ==
    ASSUME DeliverInv, NEW t \in SjTasks, NEW d \in Delivery, SjReport(t, d)
    PROVE  DeliverInv'
  <1>1. /\ sjAt[t] = "report" /\ Emits(t, sjEnd[t], d) /\ SjGo(t, "finish")
        /\ UNCHANGED <<sjFiles, sjStats, sjEnd, sjGot>>
    BY Zenon DEF SjReport, sjRun
  <1>2. /\ sjEnd[t] \in Events /\ sjEnd[t].status # "BatchReceived"
        /\ sjEnd[t].status = "Completed" =>
              sjEnd[t].results = sjGot[t].results /\ sjEnd[t].batches = sjGot[t].batches
    BY Zenon DEF DeliverInv, Delivered
  <1> QED  BY <1>1, <1>2, Tells, Zenon DEF Early, SjPlaces, Reported

\* The first report.
LEMMA StartedDelivers ==
    ASSUME DeliverInv, NEW t \in SjTasks, NEW d \in Delivery, SjStarted(t, d)
    PROVE  DeliverInv'
  <1> DEFINE e == SearchEvent("Started", NoStats)
  <1>1. /\ sjAt[t] = "starting" /\ Emits(t, e, d) /\ SjGo(t, "search")
        /\ UNCHANGED <<sjFiles, sjStats, sjEnd, sjGot>>
    BY Zenon DEF SjStarted, sjRun
  <1>2. NoStats \in Counts
    BY Zenon DEF NoStats, Counts
  <1>3. e \in Events /\ e.status = "Started"
    BY <1>2, EventTyped DEF Statuses
  <1> HIDE DEF e
  <1> QED  BY <1>1, <1>3, Tells, Zenon DEF Early, SjPlaces, Reported

\* The steps that only move a task on.
LEMMA QuietDelivers ==
    ASSUME DeliverInv, NEW t \in SjTasks,
           \/ \E runtime \in BOOLEAN : SjRequest(t, runtime)
           \/ SjBegin(t) \/ SjResult(t) \/ SjFails(t) \/ SjStreamEnds(t)
           \/ \E n \in 0 .. SjMost : SjBackground(t, n) \/ \E failed \in BOOLEAN : SjServers(t, n, failed)
           \/ SjMockFails(t) \/ SjFinish(t) \/ SjDegrade(t) \/ SjLeave(t)
    PROVE  DeliverInv'
  <1>0. sjFiles \in [SjTasks -> Nat]
    BY Zenon DEF DeliverInv
  <1> USE DEF sjRun, SjPlaces, Early, Reported
  <1>1. CASE \E runtime \in BOOLEAN : SjRequest(t, runtime)
    <2>1. /\ sjAt[t] = "new" /\ (SjGo(t, "rejected") \/ SjGo(t, "entered"))
          /\ UNCHANGED <<sjFiles, sjStats, sjEnd, sjGot, sjTold>>
      BY <1>1, Zenon DEF SjRequest
    <2> QED  BY <2>1, MovesOn, Zenon DEF DeliverInv
  <1>2. CASE SjBegin(t) \/ SjFails(t) \/ SjStreamEnds(t) \/ SjMockFails(t)
    <2>1. /\ sjAt[t] \in Early /\ (SjGo(t, "starting") \/ SjGo(t, "error") \/ SjGo(t, "rest"))
          /\ UNCHANGED <<sjFiles, sjStats, sjEnd, sjGot, sjTold>>
      BY <1>2, Zenon DEF SjBegin, SjFails, SjStreamEnds, SjMockFails
    <2> QED  BY <2>1, MovesOn, Zenon DEF DeliverInv
  <1>3. CASE SjFinish(t) \/ SjDegrade(t) \/ SjLeave(t)
    <2>1. /\ sjAt[t] \in Reported /\ (SjGo(t, "degrade") \/ SjGo(t, "leave") \/ SjGo(t, "gone"))
          /\ UNCHANGED <<sjFiles, sjStats, sjEnd, sjGot, sjTold>>
      BY <1>3, Zenon DEF SjFinish, SjDegrade, SjLeave
    <2> QED  BY <2>1, MovesOn, ZenonT(40) DEF DeliverInv
  <1>4. CASE SjResult(t)
    <2>1. /\ sjAt[t] = "search" /\ (SjGo(t, "batch") \/ SjGo(t, "search"))
          /\ UNCHANGED <<sjStats, sjEnd, sjGot, sjTold>>
          /\ sjFiles' = [sjFiles EXCEPT ![t] = sjFiles[t] + 1]
      BY <1>4, Zenon DEF SjResult
    <2>2. sjFiles' \in [SjTasks -> Nat]
      BY <1>0, <2>1
    <2> QED  BY <2>1, <2>2, MovesOn, Zenon
  <1>5. ASSUME NEW n \in 0 .. SjMost,
               SjBackground(t, n) \/ \E failed \in BOOLEAN : SjServers(t, n, failed)
        PROVE  DeliverInv'
    <2>1. /\ sjAt[t] \in {"search", "servers"}
          /\ SjGo(t, "servers") \/ SjGo(t, "rest") \/ SjGo(t, "error")
          /\ UNCHANGED <<sjStats, sjEnd, sjGot, sjTold>>
          /\ sjFiles' = [sjFiles EXCEPT ![t] = n]
      BY <1>5, Zenon DEF SjBackground, SjServers
    <2>2. sjFiles' \in [SjTasks -> Nat]
      BY <1>0, <2>1
    <2> QED  BY <2>1, <2>2, MovesOn, Zenon
  <1> QED  BY <1>1, <1>2, <1>3, <1>4, <1>5, Zenon

\* Every step keeps DeliverInv.
LEMMA StepDelivers == DeliverInv /\ [SjNext]_sjVars => DeliverInv'
  <1> SUFFICES ASSUME DeliverInv, [SjNext]_sjVars PROVE DeliverInv'
    OBVIOUS
  <1>1. CASE \/ SjDrain \/ UNCHANGED sjVars
             \/ \E i \in SjIds : SjCancelSearch(i)
             \/ \E t \in SjTasks : SjDrainCancels(t)
    BY <1>1 DEF SjDrain, sjVars, sjRun, SjCancelSearch, SjDrainCancels, DeliverInv, Delivered
  <1> QED
    BY <1>1, PostDelivers, EndsDelivers, AnnounceDelivers, ReportDelivers, StartedDelivers, QuietDelivers, Zenon
    DEF SjNext, SjTask

-----------------------------------------------------------------------------
(* The table of active searches                                            *)

TableInv ==
    /\ sjAt \in [SjTasks -> SjPlaces] /\ sjTable \in [SjIds -> SjTasks \cup {SjNone}]
    /\ JobsAccounted

\* The table is empty at first.
LEMMA TableInit == SjInit => TableInv
  BY Zenon DEF SjInit, TableInv, JobsAccounted, Going, SjPlaces, Early, JobId

LEMMA TaskHasId ==
    ASSUME NEW t \in SjTasks
    PROVE  JobId(t) \in SjIds
  BY Zenon DEF SjIds

\* A task enters the table.
LEMMA RequestAccounted ==
    ASSUME TableInv, NEW t \in SjTasks, NEW runtime \in BOOLEAN, SjRequest(t, runtime)
    PROVE  TableInv'
  <1>1. CASE ~runtime \/ AlreadyActive(JobId(t))
    <2>1. sjAt' = [sjAt EXCEPT ![t] = "rejected"] /\ UNCHANGED <<sjTable, sjDrained, sjCancel, sjReused, sjActive>>
      BY <1>1, Zenon DEF SjRequest, SjGo, sjTables, sjShown
    <2> QED  BY <2>1, Zenon DEF TableInv, JobsAccounted, Going, SjPlaces, Early
  <1>2. CASE runtime /\ ~AlreadyActive(JobId(t))
    <2>1. /\ sjAt' = [sjAt EXCEPT ![t] = "entered"] /\ sjTable' = [sjTable EXCEPT ![JobId(t)] = t]
          /\ sjAt[t] = "new" /\ sjTable[JobId(t)] = SjNone
          /\ UNCHANGED <<sjDrained, sjCancel, sjActive>>
      BY <1>2, Zenon DEF SjRequest, SjGo, sjShown, AlreadyActive
    <2>2. /\ sjReused \subseteq sjReused'
          /\ \A u \in SjTasks : Going(u) /\ JobId(u) = JobId(t) => JobId(t) \in sjReused'
      BY <1>2, <2>1, TaskHasId, Zenon DEF SjRequest
    <2>3. /\ sjAt' \in [SjTasks -> SjPlaces] /\ sjAt'[t] = "entered"
          /\ \A u \in SjTasks \ {t} : sjAt'[u] = sjAt[u]
      BY <2>1, Zenon DEF TableInv, SjPlaces, Early
    <2>4. /\ sjTable' \in [SjIds -> SjTasks \cup {SjNone}] /\ sjTable'[JobId(t)] = t
          /\ \A i \in SjIds \ {JobId(t)} : sjTable'[i] = sjTable[i]
      BY <2>1, TaskHasId, Zenon DEF TableInv
    <2> QED
      BY <2>1, <2>2, <2>3, <2>4, TaskHasId DEF TableInv, JobsAccounted, Going
  <1> QED  BY <1>1, <1>2, Zenon

\* A running task moves on, and its activity stays listed where it must be.
LEMMA RunAccounted ==
    ASSUME TableInv, NEW t \in SjTasks, NEW at \in SjPlaces \ {"new", "rejected", "entered"}, SjGo(t, at),
           Going(t), UNCHANGED <<sjTable, sjDrained, sjCancel, sjReused>>,
           \A u \in SjTasks : JobId(u) # JobId(t) /\ JobId(u) \in sjActive => JobId(u) \in sjActive',
           \/ JobId(t) \in sjActive'
           \/ at \in {"degrade", "leave", "gone"}
           \/ sjActive' = sjActive /\ sjAt[t] \notin {"entered", "degrade", "leave"}
    PROVE  TableInv'
  <1>1. /\ sjAt' \in [SjTasks -> SjPlaces] /\ sjAt'[t] = at
        /\ \A u \in SjTasks \ {t} : sjAt'[u] = sjAt[u]
    BY Zenon DEF TableInv, SjGo
  <1> QED  BY <1>1, Zenon DEF TableInv, JobsAccounted, Going

\* A task leaves the table.
LEMMA LeaveAccounted ==
    ASSUME TableInv, NEW t \in SjTasks, SjLeave(t)
    PROVE  TableInv'
  <1>1. /\ sjAt' = [sjAt EXCEPT ![t] = "gone"] /\ sjAt[t] = "leave"
        /\ sjTable' = [sjTable EXCEPT ![JobId(t)] = SjNone]
        /\ UNCHANGED <<sjDrained, sjCancel, sjReused, sjActive>>
    BY Zenon DEF SjLeave, SjGo, sjShown
  <1>2. /\ sjAt' \in [SjTasks -> SjPlaces] /\ sjAt'[t] = "gone"
        /\ \A u \in SjTasks \ {t} : sjAt'[u] = sjAt[u]
    BY <1>1, Zenon DEF TableInv, SjPlaces, Reported
  <1>3. /\ sjTable' \in [SjIds -> SjTasks \cup {SjNone}]
        /\ \A i \in SjIds \ {JobId(t)} : sjTable'[i] = sjTable[i]
    BY <1>1, TaskHasId, Zenon DEF TableInv
  <1> QED  BY <1>1, <1>2, <1>3, TaskHasId DEF TableInv, JobsAccounted, Going

\* A handle leaves the table only on its way to being cancelled.
LEMMA CancelAccounted ==
    ASSUME TableInv,
           \/ SjDrain
           \/ \E i \in SjIds : SjCancelSearch(i)
           \/ \E t \in SjTasks : SjDrainCancels(t)
    PROVE  TableInv'
  <1>1. CASE SjDrain
    <2>1. /\ sjTable' = [i \in SjIds |-> SjNone] /\ UNCHANGED <<sjAt, sjCancel, sjReused, sjActive>>
          /\ sjDrained' = sjDrained \cup {sjTable[i] : i \in {j \in SjIds : sjTable[j] # SjNone}}
      BY <1>1, Zenon DEF SjDrain, sjShown
    <2>2. \A u \in SjTasks : sjTable[JobId(u)] = u => u \in sjDrained'
      BY <2>1, TaskHasId, SjAssumption, Zenon
    <2>3. sjDrained \subseteq sjDrained'
      BY <2>1, Zenon
    <2> QED  BY <2>1, <2>2, <2>3, Zenon DEF TableInv, JobsAccounted, Going
  <1>2. CASE (\E i \in SjIds : SjCancelSearch(i)) \/ (\E t \in SjTasks : SjDrainCancels(t))
    <2>1. /\ UNCHANGED <<sjAt, sjTable, sjReused, sjActive>>
          /\ sjDrained \cup sjCancel \subseteq sjDrained' \cup sjCancel'
      BY <1>2, Zenon DEF SjCancelSearch, SjDrainCancels, sjShown
    <2> QED  BY <2>1, Zenon DEF TableInv, JobsAccounted, Going
  <1> QED  BY <1>1, <1>2, Zenon

\* Every step keeps TableInv.
LEMMA StepAccounted == TableInv /\ [SjNext]_sjVars => TableInv'
  <1> SUFFICES ASSUME TableInv, [SjNext]_sjVars PROVE TableInv'
    OBVIOUS
  <1>1. CASE UNCHANGED sjVars
    BY <1>1, Zenon DEF sjVars, sjTables, sjShown, TableInv, JobsAccounted, Going
  <1>2. ASSUME NEW t \in SjTasks, SjBegin(t) \/ SjFinish(t) \/ SjDegrade(t) PROVE TableInv'
    <2> USE DEF SjPlaces, Early, Reported, sjTables, Going
    <2>1. CASE SjBegin(t)
      BY <2>1, RunAccounted, Zenon DEF SjBegin
    <2>2. CASE SjFinish(t)
      BY <2>2, RunAccounted, Zenon DEF SjFinish
    <2>3. CASE SjDegrade(t)
      BY <2>3, RunAccounted, Zenon DEF SjDegrade
    <2> QED  BY <1>2, <2>1, <2>2, <2>3, Zenon
  <1>3. ASSUME NEW t \in SjTasks, NEW at \in SjPlaces \ {"new", "rejected", "entered"}, SjGo(t, at), Going(t),
               sjAt[t] \notin {"entered", "degrade", "leave"},
               UNCHANGED <<sjTable, sjDrained, sjCancel, sjReused, sjActive>>
        PROVE  TableInv'
    BY <1>3, RunAccounted, Zenon
  <1>4. ASSUME NEW t \in SjTasks, NEW d \in Delivery,
               \/ SjStarted(t, d) \/ SjPost(t, d) \/ SjReport(t, d)
               \/ \E at \in Posting : SjAnnounce(t, at, d)
        PROVE  TableInv'
    <2>1. UNCHANGED <<sjTable, sjDrained, sjCancel, sjReused, sjActive>>
      BY <1>4, Zenon DEF SjStarted, SjPost, SjReport, SjAnnounce, sjTables, sjShown
    <2>2. /\ Going(t) /\ sjAt[t] \notin {"entered", "degrade", "leave"}
          /\ \E at \in SjPlaces \ {"new", "rejected", "entered"} : SjGo(t, at)
      <3>1. CASE SjStarted(t, d) \/ SjReport(t, d)
        BY <3>1, Zenon DEF SjStarted, SjReport, Going, SjPlaces, Early, Reported
      <3>2. CASE SjPost(t, d)
        <4>1. /\ sjAt[t] \in {"batch", "rest", "mock"}
              /\ SjGo(t, Onward(t, sjAt[t])) \/ SjGo(t, AfterPost(sjAt[t], d))
          BY <3>2, Zenon DEF SjPost, Posting
        <4>2. /\ Onward(t, sjAt[t]) \in {"search", "mock", "ended"}
              /\ AfterPost(sjAt[t], d) \in {"batch told", "rest told", "mock told", "error"}
          BY <4>1, Announces, Zenon DEF Onward, AfterPost
        <4> QED  BY <4>1, <4>2, Zenon DEF Going, SjPlaces, Early
      <3>3. ASSUME NEW at \in Posting, SjAnnounce(t, at, d)
            PROVE  /\ sjAt[t] \in {"batch told", "rest told", "mock told"}
                   /\ \E to \in {"search", "mock", "ended", "error"} : SjGo(t, to)
        BY <3>3, Announces, Zenon DEF SjAnnounce, Posting, Onward
      <3> QED  BY <1>4, <3>1, <3>2, <3>3, Zenon DEF Going, SjPlaces, Early
    <2> QED  BY <1>3, <2>1, <2>2, Zenon
  <1>5. ASSUME NEW t \in SjTasks,
               \/ SjResult(t) \/ SjFails(t) \/ SjStreamEnds(t) \/ SjMockFails(t) \/ SjEnds(t)
               \/ \E n \in 0 .. SjMost : SjBackground(t, n) \/ \E failed \in BOOLEAN : SjServers(t, n, failed)
        PROVE  TableInv'
    <2>1. UNCHANGED <<sjTable, sjDrained, sjCancel, sjReused, sjActive>>
      BY <1>5, Zenon DEF SjResult, SjFails, SjStreamEnds, SjMockFails, SjEnds, SjBackground, SjServers, sjTables, sjShown
    <2>2. /\ sjAt[t] \in {"search", "servers", "mock", "ended", "error"}
          /\ \E at \in {"batch", "search", "error", "rest", "report", "servers"} : SjGo(t, at)
      BY <1>5, Zenon DEF SjResult, SjFails, SjStreamEnds, SjMockFails, SjEnds, SjBackground, SjServers
    <2> QED  BY <1>3, <2>1, <2>2, Zenon DEF Going, SjPlaces, Early
  <1> QED
    BY <1>1, <1>2, <1>4, <1>5, RequestAccounted, LeaveAccounted, CancelAccounted, Zenon DEF SjNext, SjTask

-----------------------------------------------------------------------------
\* Whatever is lost, fails or is cancelled, a search the coordinator knows as
\* completed delivered exactly what it counts, and no batch is announced before
\* the coordinator holds it.
THEOREM ToldAlwaysDelivered == SjSpec => []ToldIsDelivered
  <1>1. DeliverInv => ToldIsDelivered
    BY Zenon DEF DeliverInv, Delivered, ToldIsDelivered, Counts
  <1> QED  BY <1>1, DeliverInit, StepDelivers, PTL DEF SjSpec

\* A search that runs is the only one of its job, can be cancelled or is being
\* cancelled, and is shown as active, through any interleaving of requests,
\* cancellations and the drains of a reconcile; the exception is a job id that
\* was taken up again while a drained run of it was still going.
THEOREM JobsAlwaysAccounted == SjSpec => []JobsAccounted
  <1>1. TableInv => JobsAccounted
    BY Zenon DEF TableInv
  <1> QED  BY <1>1, TableInit, StepAccounted, PTL DEF SjSpec

----------------------------------------------------------------------------
\* The server session

\* The pending search is one that was sent to the server.
ServerInv ==
    /\ ServerHonest /\ DOMAIN slJob = SlReqs
    /\ slPending # NoReq => slPending \in slAsked

\* What a request that ends with its sources, its results or its error leaves
\* true of every job.
JobsHonest(asked) ==
    /\ DOMAIN slJob = SlReqs
    /\ \A r \in SlReqs :
          slJob[r] = "ok" =>
              /\ SlKind[r] = "source" => slGot[r] \subseteq {r}
              /\ (SlKind[r] = "keyword" => slGot[r] # {}) => r \in asked

\* Honesty, job by job.
LEMMA HonestParts ==
    ServerHonest /\ DOMAIN slJob = SlReqs <=> JobsHonest(slAsked) /\ ConnectedHonest
  BY DEF ServerHonest, SourceAnswerOwnFile, OkMeansAsked, JobsHonest

\* Requests that end otherwise than Ok disturb no job's answer.
LEMMA EndsBadly ==
    ASSUME JobsHonest(slAsked), NEW rs, NEW how \in {"error", "dropped"}, NEW got, Ends(rs, how, got),
           slAsked \subseteq slAsked'
    PROVE  JobsHonest(slAsked)'
  BY Zenon DEF JobsHonest, Ends

\* A request that ends Ok was asked or brings nothing, and a source search
\* brings sources of its own file.
LEMMA EndsWell ==
    ASSUME JobsHonest(slAsked), NEW q, NEW got, Ends({q}, "ok", got), slAsked \subseteq slAsked',
           SlKind[q] = "source" => got \subseteq {q},
           (SlKind[q] = "keyword" => got # {}) => q \in slAsked'
    PROVE  JobsHonest(slAsked)'
  BY Zenon DEF JobsHonest, Ends

\* A step that ends no job.
LEMMA JobsKept ==
    ASSUME JobsHonest(slAsked), UNCHANGED <<slJob, slGot>>, slAsked \subseteq slAsked'
    PROVE  JobsHonest(slAsked)'
  BY Zenon DEF JobsHonest

\* However a session ends, the jobs it held get no answer.
LEMMA Closed ==
    ASSUME ServerInv, NEW how \in {"error", "dropped"}, Close(how)
    PROVE  ServerInv'
  <1>1. JobsHonest(slAsked)'
    BY HonestParts, EndsBadly, Zenon DEF ServerInv, Close
  <1>2. ConnectedHonest'
    BY Zenon DEF Close, ConnectedHonest, Cleared
  <1> QED
    BY <1>1, <1>2, HonestParts, Zenon DEF ServerInv, Close, ServerHonest, SourceAnswerOwnFile, OkMeansAsked, JobsHonest

\* A request is dispatched, or refused at once.
LEMMA Started ==
    ASSUME ServerInv, NEW q, NEW wire, Start(q, wire)
    PROVE  /\ JobsHonest(slAsked)' /\ slAsked \subseteq slAsked'
           /\ slPending' # NoReq => slPending' \in slAsked'
  <1>0. JobsHonest(slAsked)
    BY HonestParts, Zenon DEF ServerInv
  <1>1. CASE SlKind[q] = "keyword" /\ Ends({q}, "ok", {}) /\ slPending' = NoReq /\ UNCHANGED slAsked
    BY <1>0, <1>1, EndsWell, Zenon
  <1>2. CASE Ends({q}, "dropped", {}) /\ slPending' = NoReq /\ UNCHANGED slAsked
    BY <1>0, <1>2, EndsBadly, Zenon
  <1>3. CASE /\ slAsked' = slAsked \cup {q}
             /\ SlKind[q] = "callback" /\ Ends({q}, "ok", {q}) /\ slPending' = NoReq
    BY <1>0, <1>3, EndsWell, Zenon
  <1>4. CASE slAsked' = slAsked \cup {q} /\ slPending' = q /\ UNCHANGED <<slJob, slGot>>
    BY <1>0, <1>4, JobsKept, Zenon
  <1> QED
    BY <1>1, <1>2, <1>3, <1>4, Zenon DEF Start

\* Steps that tell the jobs and the agent's state nothing.
LEMMA LinkKept ==
    ASSUME ServerInv, UNCHANGED <<slLink, slState>>, JobsHonest(slAsked)',
           slPending' # NoReq => slPending' \in slAsked'
    PROVE  ServerInv'
  <1>1. ConnectedHonest'
    BY Zenon DEF ServerInv, ServerHonest, ConnectedHonest
  <1> QED
    BY <1>1, Zenon DEF ServerInv, ServerHonest, SourceAnswerOwnFile, OkMeansAsked, JobsHonest

\* The parts of the invariant, before and after a step.
LEMMA InvParts ==
    ServerInv <=> JobsHonest(slAsked) /\ ConnectedHonest /\ (slPending # NoReq => slPending \in slAsked)
  BY HonestParts, Zenon DEF ServerInv

LEMMA InvPartsPrimed ==
    ServerInv' <=> /\ JobsHonest(slAsked)' /\ ConnectedHonest'
                   /\ slPending' # NoReq => slPending' \in slAsked'
  BY Zenon DEF ServerInv, ServerHonest, SourceAnswerOwnFile, OkMeansAsked, JobsHonest

\* A packet that is not the answer waited for: only an id change moves the
\* link, and it moves the state the agent reads along with it.
LEMMA HandledKeeps ==
    ASSUME ServerInv, NEW p, Handled(p)
    PROVE  ServerInv'
  <1>1. JobsHonest(slAsked) /\ ConnectedHonest
    BY InvParts, Zenon
  <1>2. ConnectedHonest'
    BY <1>1 DEF Handled, ConnectedHonest
  <1>3. CASE \E wire : Start(slQueued, wire)
    BY <1>2, <1>3, Started, InvPartsPrimed, Zenon
  <1>4. CASE UNCHANGED <<slPending, slJob, slGot, slAsked>>
    BY <1>1, <1>2, <1>4, JobsKept, InvPartsPrimed, Zenon DEF ServerInv
  <1> QED
    BY <1>3, <1>4 DEF Handled

\* A packet is read.
LEMMA ReadKeeps == ServerInv /\ SlRead => ServerInv'
  <1> SUFFICES ASSUME ServerInv, SlRead PROVE ServerInv'
    OBVIOUS
  <1> DEFINE p == Head(slTcp)
  <1>1. JobsHonest(slAsked)
    BY InvParts, Zenon
  <1>2. CASE /\ slPending # NoReq /\ SlKind[slPending] = "keyword" /\ KeywordPage(p)
             /\ UNCHANGED <<slLink, slState, slAsked>>
    <2>1. CASE p.more
      BY <1>1, <1>2, <2>1, JobsKept, LinkKept, Zenon DEF KeywordPage, ServerInv
    <2>2. CASE ~p.more
      BY <1>1, <1>2, <2>2, EndsWell, LinkKept DEF KeywordPage, ServerInv
    <2> QED
      BY <2>1, <2>2, Zenon
  <1>3. CASE /\ slPending # NoReq /\ SlKind[slPending] = "source" /\ FoundSources(p)
             /\ ValidSources(p.of, p.n, slPending) /\ UNCHANGED <<slLink, slState, slAsked>>
    BY <1>1, <1>3, EndsWell, LinkKept DEF FoundSources, ValidSources, ServerInv
  <1>4. CASE Close("dropped")
    BY <1>4, Closed, Zenon
  <1>5. CASE Handled(p)
    BY <1>5, HandledKeeps, Zenon
  <1> QED
    BY <1>2, <1>3, <1>4, <1>5, Zenon DEF SlRead

\* A datagram is matched with the search that is pending, whoever it answers.
LEMMA DatagramKeeps ==
    ASSUME ServerInv, NEW d, SlDatagram(d)
    PROVE  ServerInv'
  <1>1. JobsHonest(slAsked)
    BY InvParts, Zenon
  <1>2. CASE UNCHANGED <<slJob, slGot, slLink, slState, slPending, slAsked>>
    BY <1>1, <1>2, JobsKept, LinkKept, Zenon DEF ServerInv
  <1>3. CASE /\ slPending # NoReq /\ SlKind[slPending] = "keyword"
             /\ Ends({slPending}, "ok", slPages \cup {d.of}) /\ slPending' = NoReq
             /\ UNCHANGED <<slLink, slState, slAsked>>
    BY <1>1, <1>3, EndsWell, LinkKept, Zenon DEF ServerInv
  <1>4. CASE /\ slPending # NoReq /\ SlKind[slPending] = "source" /\ ValidSources(d.of, 1, slPending)
             /\ Ends({slPending}, "ok", {d.of}) /\ slPending' = NoReq
             /\ UNCHANGED <<slLink, slState, slAsked>>
    BY <1>1, <1>4, EndsWell, LinkKept DEF ServerInv, ValidSources
  <1>5. CASE /\ Ends({slPending}, "dropped", {}) /\ slPending' = NoReq
             /\ UNCHANGED <<slLink, slState, slAsked>>
    BY <1>1, <1>5, EndsBadly, LinkKept, Zenon
  <1> QED
    BY <1>2, <1>3, <1>4, <1>5, Zenon DEF SlDatagram

\* Every step keeps ServerInv.
LEMMA ServerStep == ServerInv /\ [SlNext]_slVars => ServerInv'
  <1> SUFFICES ASSUME ServerInv, [SlNext]_slVars PROVE ServerInv'
    OBVIOUS
  <1>1. JobsHonest(slAsked) /\ ConnectedHonest
    BY InvParts, Zenon
  <1>2. ASSUME NEW r \in SlReqs, SlAsk(r) \/ SlSend(r) \/ SlSendClosed(r) \/ SlGiveUp(r)
        PROVE  ServerInv'
    <2>1. JobsHonest(slAsked)'
      BY <1>1, <1>2, Zenon DEF JobsHonest, SlAsk, SlSend, SlSendClosed, SlGiveUp
    <2> QED
      BY <1>2, <2>1, LinkKept, Zenon DEF ServerInv, SlAsk, SlSend, SlSendClosed, SlGiveUp
  <1>3. CASE SlConnect
    <2>1. ConnectedHonest'
      BY <1>3 DEF SlConnect, ConnectedHonest, Cleared
    <2> QED
      BY <1>1, <1>3, <2>1, JobsKept, InvPartsPrimed, Zenon DEF SlConnect, slJobs, ServerInv
  <1>4. CASE SlRotate \/ SlLost \/ SlReadTorn
    BY <1>4, Closed, Zenon DEF SlRotate, SlLost, SlReadTorn
  <1>5. CASE SlStop
    <2>1. JobsHonest(slAsked)'
      BY <1>1, <1>5, Zenon DEF JobsHonest, SlStop
    <2>2. ConnectedHonest'
      BY <1>5, Zenon DEF ConnectedHonest, SlStop
    <2> QED
      BY <1>5, <2>1, <2>2, InvPartsPrimed, Zenon DEF SlStop
  <1>6. CASE SlRead
    BY <1>6, ReadKeeps, Zenon
  <1>7. CASE SlTake
    <2>1. CASE Start(Head(slInbox), slTcp)
      BY <1>7, <2>1, Started, LinkKept, Zenon DEF SlTake
    <2>2. CASE UNCHANGED <<slJob, slGot, slPending, slAsked>>
      BY <1>1, <1>7, <2>2, JobsKept, LinkKept, Zenon DEF SlTake, ServerInv
    <2> QED
      BY <1>7, <2>1, <2>2, Zenon DEF SlTake
  <1>8. CASE SlDeadline
    BY <1>1, <1>8, EndsBadly, LinkKept, Zenon DEF SlDeadline
  <1>9. ASSUME NEW d, SlDatagram(d) \/ SlDatagramWrong(d)
        PROVE  ServerInv'
    BY <1>9, DatagramKeeps, Closed, Zenon DEF SlDatagramWrong
  <1>10. CASE UNCHANGED <<slJob, slGot, slLink, slState, slPending, slAsked>>
    BY <1>1, <1>10, JobsKept, LinkKept, Zenon DEF ServerInv
  <1>11. CASE SlReadPart \/ SlKeepalive \/ SlCatalogGrows \/ (\E p \in Unasked : SlServerSends(p))
    BY <1>10, <1>11, Zenon DEF SlReadPart, SlKeepalive, SlCatalogGrows, SlServerSends, slJobs
  <1>12. CASE UNCHANGED slVars
    BY <1>10, <1>12, Zenon DEF slVars
  <1> QED
    BY <1>2, <1>3, <1>4, <1>5, <1>6, <1>7, <1>8, <1>9, <1>11, <1>12, Zenon DEF SlNext

\* What the server session tells the rest of the agent is so, for any requests
\* and any server: a source search hands over sources of its own file, a job told
\* Ok did reach the server, and the connected state is that of the session.
THEOREM ServerAlwaysHonest == SlSpec => []ServerHonest
  <1>1. SlInit => ServerInv
    BY DEF SlInit, ServerInv, ServerHonest, SourceAnswerOwnFile, OkMeansAsked, ConnectedHonest, Cleared
  <1>2. ServerInv => ServerHonest
    BY Zenon DEF ServerInv
  <1> QED
    BY <1>1, <1>2, ServerStep, PTL DEF SlSpec

----------------------------------------------------------------------------
\* Publishing

Underway == PuFamilies \cup {Waiting[f] : f \in PuFamilies} \cup {"report", "commit", "failed"}

PuTypes ==
    /\ puAt \in [Batches -> Underway \cup {"new", "gate", "ok", "error", "done"}]
    /\ puItem \in [Batches -> Nat]

\* Who publishes holds the gate, and the catalog shows the holder's items.
GateHeld ==
    \A b \in Batches : /\ puAt[b] \in Underway => puGate = b
                       /\ puGate = b => puHints = HintsOf(b)

AtItem == PuFamilies \cup {Waiting[f] : f \in PuFamilies} \cup {"report"}

\* A batch that is at an item has one there.
ItemHeld ==
    \A b \in Batches : /\ puAt[b] \in {"new", "gate"} => puItem[b] = 0
                       /\ puAt[b] \in AtItem => puItem[b] + 1 \in DOMAIN Items(b)

\* What is on its way parses and was handed to the store first.
SentIsHanded ==
    \A b \in Batches, f \in PuFamilies :
        puAt[b] = Waiting[f] => Current(b) \notin PuBad /\ <<f, Current(b)>> \in puHanded

PuInv == PuTypes /\ GateHeld /\ ItemHeld /\ SentIsHanded /\ HandedBeforeAnnounced

-----------------------------------------------------------------------------
\* The places of a batch, spelled out.
LEMMA Places ==
    /\ Underway = {"keyword", "source", "notes", "keyword sent", "source sent", "notes sent",
                   "report", "commit", "failed"}
    /\ AtItem = {"keyword", "source", "notes", "keyword sent", "source sent", "notes sent", "report"}
    /\ \A b \in Batches, f \in PuFamilies : After(b, f) \in {"source", "notes", "report"}
    /\ \A f \in PuFamilies : Waiting[f] \in {"keyword sent", "source sent", "notes sent"}
  <1>1. Waiting["keyword"] = "keyword sent" /\ Waiting["source"] = "source sent"
        /\ Waiting["notes"] = "notes sent"
    BY Zenon DEF Waiting
  <1> QED  BY <1>1, Zenon DEF Underway, AtItem, PuFamilies, After

LEMMA PuInitInv == PuInit => PuInv
  <1> SUFFICES ASSUME PuInit PROVE PuInv
    OBVIOUS
  <1>1. \A b \in Batches : puAt[b] = "new" /\ puGate # b /\ puItem[b] = 0
    BY PuNoneAssumption, Zenon DEF PuInit
  <1>2. PuTypes
    BY Zenon DEF PuInit, PuTypes
  <1>3. puAcked = {}
    BY Zenon DEF PuInit
  <1> QED
    BY <1>1, <1>2, <1>3, Places, Zenon DEF PuInv, GateHeld, ItemHeld, SentIsHanded, HandedBeforeAnnounced

\* A batch moves to a place where it publishes nothing: only whether it holds
\* the gate has to be shown.
LEMMA AsideKeepsInv ==
    ASSUME PuInv, NEW b \in Batches, NEW at \in {"new", "gate", "ok", "error", "done", "commit", "failed"},
           puAt' = [puAt EXCEPT ![b] = at], at \in {"new", "gate"} => puItem[b] = 0,
           UNCHANGED <<puItem, puHanded, puAcked>>, GateHeld'
    PROVE  PuInv'
  <1>1. puAt'[b] = at /\ \A c \in Batches \ {b} : puAt'[c] = puAt[c]
    BY Zenon DEF PuInv, PuTypes
  <1>2. PuTypes'
    BY Places, Zenon DEF PuInv, PuTypes
  <1>3. at \notin AtItem /\ \A f \in PuFamilies : at # Waiting[f]
    BY Places, Zenon
  <1>4. ItemHeld'
    BY <1>1, <1>3, Zenon DEF PuInv, ItemHeld
  <1>5. SentIsHanded'
    BY <1>1, <1>3, Zenon DEF PuInv, SentIsHanded, Current
  <1>6. HandedBeforeAnnounced'
    BY Zenon DEF PuInv, HandedBeforeAnnounced
  <1> QED  BY <1>2, <1>4, <1>5, <1>6, Zenon DEF PuInv

\* A batch moves between places that need no gate, or begins.
LEMMA OutsideKeepsInv ==
    ASSUME PuInv, NEW b \in Batches,
           \/ PuBegin(b) \/ PuFinish(b) \/ PuFail(b) \/ PuCommit(b) \/ PuAbort(b)
           \/ \E d, c \in BOOLEAN : PuDripTick(b, d, c)
    PROVE  PuInv'
  <1>1. PICK at \in {"new", "gate", "ok", "error", "done"} :
            /\ puAt' = [puAt EXCEPT ![b] = at]
            /\ at \in {"new", "gate"} => puItem[b] = 0
            /\ puGate' = puGate \/ (puGate = b /\ puGate' = PuNone)
            /\ puAt[b] \in Underway => puGate' = PuNone
            /\ UNCHANGED <<puItem, puHints, puHanded, puAcked>>
    BY Places, Zenon DEF PuInv, PuTypes, GateHeld, ItemHeld, PuBegin, PuFinish, PuFail, PuCommit, PuAbort,
                  PuDripTick, Begin, PuGo
  <1>2. GateHeld'
    BY <1>1, Places, PuNoneAssumption, Zenon DEF PuInv, PuTypes, GateHeld
  <1> QED  BY <1>1, <1>2, AsideKeepsInv, Zenon

\* A step of the batch that holds the gate.
LEMMA HolderMoves ==
    ASSUME PuInv, NEW b \in Batches, NEW at \in Underway,
           puAt' = [puAt EXCEPT ![b] = at],
           puItem' \in [Batches -> Nat], \A c \in Batches \ {b} : puItem'[c] = puItem[c],
           GateHeld', at \in AtItem => puItem'[b] + 1 \in DOMAIN Items(b),
           puHanded \subseteq puHanded', puAcked' \subseteq puHanded',
           \A f \in PuFamilies : at = Waiting[f] =>
               /\ Items(b)[puItem'[b] + 1] \notin PuBad
               /\ <<f, Items(b)[puItem'[b] + 1]>> \in puHanded'
    PROVE  PuInv'
  <1>1. puAt'[b] = at /\ \A c \in Batches \ {b} : puAt'[c] = puAt[c]
    BY Zenon DEF PuInv, PuTypes
  <1>2. PuTypes'
    BY Zenon DEF PuInv, PuTypes
  <1>3. ItemHeld'
    <2> SUFFICES ASSUME NEW c \in Batches
                 PROVE  /\ puAt'[c] \in {"new", "gate"} => puItem'[c] = 0
                        /\ puAt'[c] \in AtItem => puItem'[c] + 1 \in DOMAIN Items(c)
      BY Zenon DEF ItemHeld
    <2>1. CASE c = b
      BY <1>1, <2>1, Places, Zenon
    <2>2. CASE c # b
      BY <1>1, <2>2, Zenon DEF PuInv, ItemHeld
    <2> QED  BY <2>1, <2>2, Zenon
  <1>4. SentIsHanded'
    <2> SUFFICES ASSUME NEW c \in Batches, NEW f \in PuFamilies, puAt'[c] = Waiting[f]
                 PROVE  /\ Items(c)[puItem'[c] + 1] \notin PuBad
                        /\ <<f, Items(c)[puItem'[c] + 1]>> \in puHanded'
      BY Zenon DEF SentIsHanded, Current
    <2>1. CASE c = b
      BY <1>1, <2>1, Zenon
    <2>2. CASE c # b
      BY <1>1, <2>2, Zenon DEF PuInv, SentIsHanded, Current
    <2> QED  BY <2>1, <2>2, Zenon
  <1> QED  BY <1>2, <1>3, <1>4, Zenon DEF PuInv, HandedBeforeAnnounced

\* The holder of the gate moves on and keeps it.
LEMMA GateStays ==
    ASSUME PuInv, NEW b \in Batches, puAt[b] \in Underway, NEW at \in Underway,
           puAt' = [puAt EXCEPT ![b] = at], UNCHANGED <<puGate, puHints>>
    PROVE  GateHeld'
  BY Zenon DEF PuInv, PuTypes, GateHeld

LEMMA EnterKeepsInv ==
    ASSUME PuInv, NEW b \in Batches, NEW bound \in BOOLEAN, PuEnter(b, bound)
    PROVE  PuInv'
  <1>1. /\ puAt[b] = "gate" /\ puGate = PuNone /\ puGate' = b /\ puHints' = HintsOf(b)
        /\ UNCHANGED <<puItem, puHanded, puAcked>>
    BY Zenon DEF PuEnter, Gated
  <1>2. PICK at \in {"failed", "commit", "keyword"} :
            puAt' = [puAt EXCEPT ![b] = at] /\ (at = "keyword" => ~Empty(b))
    BY Zenon DEF PuEnter, PuGo
  <1>3. at \in Underway /\ \A f \in PuFamilies : at # Waiting[f]
    BY <1>2, Places, Zenon
  <1>4. GateHeld'
    BY <1>1, <1>2, <1>3, Places, PuNoneAssumption, Zenon DEF PuInv, PuTypes, GateHeld
  <1>5. puItem[b] = 0
    BY <1>1, Zenon DEF PuInv, ItemHeld
  <1>6. ASSUME at \in AtItem PROVE puItem[b] + 1 \in DOMAIN Items(b)
    <2>1. ~Empty(b)
      BY <1>2, <1>6, Places, Zenon
    <2> QED  BY <1>5, <2>1, PuItemsAssumption DEF Empty, Items
  <1>7. puAcked' \subseteq puHanded' /\ puItem \in [Batches -> Nat]
    BY <1>1, Zenon DEF PuInv, PuTypes, HandedBeforeAnnounced
  <1>8. puItem' = puItem /\ puHanded' = puHanded
    BY <1>1, Zenon
  <1> QED  BY <1>2, <1>3, <1>4, <1>6, <1>7, <1>8, HolderMoves, Zenon

LEMMA ReportKeepsInv ==
    ASSUME PuInv, NEW b \in Batches, PuReport(b)
    PROVE  PuInv'
  <1>1. PICK at \in {"commit", "keyword"} :
            /\ puAt' = [puAt EXCEPT ![b] = at]
            /\ at = "keyword" => puItem[b] + 1 # Len(Items(b))
    BY Zenon DEF PuReport, PuGo
  <1>2. /\ puAt[b] = "report" /\ UNCHANGED <<puGate, puHints, puHanded, puAcked>>
        /\ puItem' = [puItem EXCEPT ![b] = @ + 1]
    BY Zenon DEF PuReport
  <1>3. at \in Underway /\ puAt[b] \in Underway \cap AtItem /\ \A f \in PuFamilies : at # Waiting[f]
    BY <1>1, <1>2, Places, Zenon
  <1>4. GateHeld'
    BY <1>1, <1>2, <1>3, GateStays, Zenon
  <1>5. puItem \in [Batches -> Nat] /\ puItem[b] + 1 \in DOMAIN Items(b)
    BY <1>3, Zenon DEF PuInv, PuTypes, ItemHeld
  <1>6. /\ puItem' \in [Batches -> Nat] /\ \A c \in Batches \ {b} : puItem'[c] = puItem[c]
        /\ puItem'[b] = puItem[b] + 1
    BY <1>2, <1>5
  <1>7. ASSUME at \in AtItem PROVE puItem'[b] + 1 \in DOMAIN Items(b)
    <2>1. puItem[b] + 1 # Len(Items(b))
      BY <1>1, <1>7, Places, Zenon
    <2> QED  BY <1>5, <1>6, <2>1, PuItemsAssumption DEF Items
  <1>8. puAcked' \subseteq puHanded' /\ puHanded' = puHanded
    BY <1>2, Zenon DEF PuInv, HandedBeforeAnnounced
  <1> QED  BY <1>1, <1>3, <1>4, <1>6, <1>7, <1>8, HolderMoves, Zenon

LEMMA SendKeepsInv ==
    ASSUME PuInv, NEW b \in Batches, NEW f \in PuFamilies, PuSend(b, f)
    PROVE  PuInv'
  <1>1. /\ puAt[b] = f /\ UNCHANGED <<puItem, puGate, puHints, puAcked>>
        /\ puHanded \subseteq puHanded' /\ puAcked' \subseteq puHanded'
    BY Zenon DEF PuSend, PuInv, HandedBeforeAnnounced
  <1>2. puAt[b] \in Underway /\ puAt[b] \in AtItem
    BY <1>1, Zenon DEF Underway, AtItem
  <1>3. puItem \in [Batches -> Nat] /\ puItem[b] + 1 \in DOMAIN Items(b)
    BY <1>2, Zenon DEF PuInv, PuTypes, ItemHeld
  <1>4. CASE puAt' = [puAt EXCEPT ![b] = "failed"]
    <2>1. GateHeld'
      BY <1>1, <1>2, <1>4, Places, GateStays, Zenon
    <2>2. "failed" \in Underway /\ "failed" \notin AtItem /\ \A g \in PuFamilies : "failed" # Waiting[g]
      BY Places, Zenon
    <2> QED  BY <1>1, <1>3, <1>4, <2>1, <2>2, HolderMoves, Zenon
  <1>5. CASE /\ puAt' = [puAt EXCEPT ![b] = Waiting[f]] /\ Current(b) \notin PuBad
             /\ puHanded' = puHanded \cup {<<f, Current(b)>>}
    <2>1. \A g \in PuFamilies : Waiting[f] = Waiting[g] => f = g
      <3>1. Waiting["keyword"] = "keyword sent" /\ Waiting["source"] = "source sent"
            /\ Waiting["notes"] = "notes sent"
        BY Zenon DEF Waiting
      <3> QED  BY <3>1, Zenon DEF PuFamilies
    <2>2. Waiting[f] \in Underway
      BY Zenon DEF Underway
    <2>3. GateHeld'
      BY <1>1, <1>2, <1>5, <2>2, GateStays, Zenon
    <2>4. /\ Items(b)[puItem'[b] + 1] \notin PuBad
          /\ <<f, Items(b)[puItem'[b] + 1]>> \in puHanded'
      BY <1>1, <1>5, Zenon DEF Current
    <2>5. \A g \in PuFamilies : Waiting[f] = Waiting[g] =>
              /\ Items(b)[puItem'[b] + 1] \notin PuBad
              /\ <<g, Items(b)[puItem'[b] + 1]>> \in puHanded'
      BY <2>1, <2>4, Zenon
    <2>6. puItem' = puItem
      BY <1>1, Zenon
    <2> QED  BY <1>1, <1>3, <1>5, <2>2, <2>3, <2>5, <2>6, HolderMoves, Zenon
  <1> QED  BY <1>4, <1>5, Zenon DEF PuSend, PuGo, Parses

LEMMA SentKeepsInv ==
    ASSUME PuInv, NEW b \in Batches, NEW f \in PuFamilies, NEW r, PuSent(b, f, r)
    PROVE  PuInv'
  <1>1. /\ puAt[b] = Waiting[f] /\ UNCHANGED <<puItem, puGate, puHints, puHanded>>
        /\ puAt' = [puAt EXCEPT ![b] = After(b, f)]
        /\ puAcked' \subseteq puAcked \cup {<<f, Current(b)>>}
    BY Zenon DEF PuSent, PuGo
  <1>2. /\ After(b, f) \in Underway /\ puAt[b] \in Underway /\ puAt[b] \in AtItem
        /\ \A g \in PuFamilies : After(b, f) # Waiting[g]
    BY <1>1, Places, Zenon DEF AtItem
  <1>3. puAcked' \subseteq puHanded' /\ puHanded' = puHanded
    BY <1>1, Zenon DEF PuInv, SentIsHanded, HandedBeforeAnnounced
  <1>4. GateHeld'
    BY <1>1, <1>2, GateStays, Zenon
  <1>5. puItem' \in [Batches -> Nat] /\ puItem'[b] + 1 \in DOMAIN Items(b) /\ puItem' = puItem
    BY <1>1, <1>2, Zenon DEF PuInv, PuTypes, ItemHeld
  <1> QED  BY <1>1, <1>2, <1>3, <1>4, <1>5, HolderMoves, Zenon

LEMMA PuStepKeepsInv == PuInv /\ [PuNext]_puVars => PuInv'
  <1> SUFFICES ASSUME PuInv, [PuNext]_puVars PROVE PuInv'
    OBVIOUS
  <1>1. CASE PuBootstrapped \/ PuTick \/ UNCHANGED puVars
    <2>1. UNCHANGED <<puAt, puItem, puGate, puHints, puHanded, puAcked>>
      BY <1>1, Zenon DEF PuBootstrapped, PuTick, puVars
    <2> QED
      BY <2>1, Zenon DEF PuInv, PuTypes, GateHeld, ItemHeld, SentIsHanded, HandedBeforeAnnounced, Current
  <1> QED
    BY <1>1, OutsideKeepsInv, EnterKeepsInv, ReportKeepsInv, SendKeepsInv, SentKeepsInv, Zenon
    DEF PuNext, PuWork, PuStop

\* However batches of the API, the coordinator and the drip meet, fail and are
\* aborted: a publishing batch finds its own hints in the shared catalog, what
\* is on its way is among them, and whatever a remote node acknowledged was
\* handed to the local store before it was sent.
THEOREM AnnouncedAlwaysOffered == PuSpec => []AnnouncedIsOffered
  <1>1. PuInv => AnnouncedIsOffered
    <2> SUFFICES ASSUME PuInv PROVE AnnouncedIsOffered
      OBVIOUS
    <2>1. HintsMatchBatch
      BY Zenon DEF PuInv, HintsMatchBatch, Publishing, GateHeld, Underway
    <2>2. ASSUME NEW b \in Batches, NEW f \in PuFamilies, puAt[b] = Waiting[f]
          PROVE  Current(b) \in puHints
      <3>1. puHints = HintsOf(b)
        BY <2>2, Zenon DEF PuInv, GateHeld, Underway
      <3>2. puItem[b] + 1 \in DOMAIN Items(b) /\ Current(b) \notin PuBad
        BY <2>2, Zenon DEF PuInv, ItemHeld, SentIsHanded, AtItem
      <3>3. Current(b) \in ItemSet(b)
        BY <3>2, Zenon DEF Current, ItemSet
      <3>4. ~Empty(b)
        BY <3>2, PuItemsAssumption DEF Empty, Items
      <3> QED  BY <3>1, <3>2, <3>3, <3>4, Zenon DEF HintsOf
    <2>3. SentIsHinted
      BY <2>2, Zenon DEF SentIsHinted
    <2> QED  BY <2>1, <2>3, Zenon DEF PuInv, AnnouncedIsOffered
  <1> QED
    BY <1>1, PuInitInv, PuStepKeepsInv, PTL DEF PuSpec
=============================================================================
