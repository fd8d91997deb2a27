----------------------------- MODULE PublishRun -----------------------------
(***************************************************************************)
(* Seeding the Kad network (agent/publish_runtime.rs, agent/publish.rs,    *)
(* agent/background_publish.rs, agent/service.rs, agent/activity.rs).      *)
(* Manual API calls, the coordinator republish task and the synthetic drip *)
(* each run batches; a gate lets one batch publish at a time.  A batch     *)
(* publishes every item as keyword, source and, where enabled, notes, and  *)
(* reports its progress to what the stats endpoint shows.  A stopped       *)
(* runtime drops its tasks wherever they are.                              *)
(***************************************************************************)
EXTENDS Integers, Sequences, FiniteSets

CONSTANTS
    PuBatch,     \* the batches: id to [src, items, notes], items a sequence of hashes
    PuBad,       \* items whose hash does not parse
    PuSynthetic, \* the hashes of the synthetic seeds
    PuSeeds,     \* number of synthetic seeds
    PuDrip,      \* synthetic_publish_batch_items
    PuDefer,     \* ticks the drip waits for active downloads (8)
    PuMaxTime,   \* bound: clock
    PuNone

Batches == DOMAIN PuBatch

ASSUME PuNoneAssumption == PuNone \notin Batches

ASSUME PuItemsAssumption ==
    \A b \in Batches : LET items == PuBatch[b].items
                       IN  Len(items) \in Nat /\ DOMAIN items = 1..Len(items)

PuFamilies == {"keyword", "source", "notes"}

VARIABLES
    puNow,      \* clock, in milliseconds
    puUp,       \* dht.is_bootstrapped()
    puAt,       \* where each batch is
    puKey,      \* its activity key: <<src, time>>
    puItem,     \* items it has completed
    puTotal,    \* its totals, by family: [attempted, acked]
    puGate,     \* the batch that holds publish_batch_gate
    puHints,    \* compatibility hints in the shared catalog
    puHanded,   \* history: <<family, item>> handed to the local Kad store (KadStore)
    puAcked,    \* history: <<family, item>> a remote node acknowledged
    puLatest,   \* latest_*_batch: [items, attempted, acked, at] or PuNone
    puCount,    \* *_counters: [batches, items, attempted, acked, at]
    puSeedAt,   \* last_seed_at, 0 for None
    puActive,   \* active activity keys
    puDegraded, \* a degraded activity is recorded
    puCursor,   \* synthetic_cursor
    puDepth,    \* synthetic_drip_queue_depth
    puDeferred  \* deferred_active_download_ticks

puObs == <<puLatest, puCount, puSeedAt>>
puTask == <<puCursor, puDepth, puDeferred>>
puVars == <<puNow, puUp, puAt, puKey, puItem, puTotal, puGate, puHints, puHanded, puAcked,
            puObs, puActive, puDegraded, puTask>>

Zero == [attempted |-> 0, acked |-> 0]

PuInit ==
    /\ puNow = 1 /\ puUp = FALSE
    /\ puAt = [b \in Batches |-> "new"] /\ puKey = [b \in Batches |-> PuNone]
    /\ puItem = [b \in Batches |-> 0]
    /\ puTotal = [b \in Batches |-> [f \in PuFamilies |-> Zero]]
    /\ puGate = PuNone /\ puHints = {} /\ puHanded = {} /\ puAcked = {}
    /\ puLatest = [f \in PuFamilies |-> PuNone]
    /\ puCount = [f \in PuFamilies |->
                    [batches |-> 0, items |-> 0, attempted |-> 0, acked |-> 0, at |-> 0]]
    /\ puSeedAt = 0 /\ puActive = {} /\ puDegraded = FALSE
    /\ puCursor = 0 /\ puDepth = PuSeeds /\ puDeferred = 0

PuGo(b, at) == puAt' = [puAt EXCEPT ![b] = at]
Items(b) == PuBatch[b].items
ItemSet(b) == {Items(b)[i] : i \in DOMAIN Items(b)}
FamiliesOf(b) == IF PuBatch[b].notes THEN PuFamilies ELSE PuFamilies \ {"notes"}

----------------------------------------------------------------------------
\* Where batches come from

\* bootstrap_with_class succeeds.
PuBootstrapped ==
    /\ ~puUp /\ puUp' = TRUE
    /\ UNCHANGED <<puNow, puAt, puKey, puItem, puTotal, puGate, puHints, puHanded, puAcked, puObs,
                   puActive, puDegraded, puTask>>

\* begin_agent_activity: the batch shows up before it has the gate.  A manual
\* batch comes in whenever it is asked for; the tasks wait for the bootstrap.
Begin(b) ==
    /\ puAt[b] = "new" /\ (PuBatch[b].src # "manual" => puUp)
    /\ puKey' = [puKey EXCEPT ![b] = <<PuBatch[b].src, puNow>>]
    /\ puActive' = puActive \cup {<<PuBatch[b].src, puNow>>}
    /\ PuGo(b, "gate")

PuBegin(b) ==
    /\ PuBatch[b].src # "synthetic" /\ Begin(b)
    /\ UNCHANGED <<puNow, puUp, puItem, puTotal, puGate, puHints, puHanded, puAcked, puObs,
                   puDegraded, puTask>>

\* One tick of the drip: put off while downloads are active, until it has been
\* put off PuDefer times; not needed while the coordinator has hashes.
PuDripTick(b, downloading, coordinator) ==
    /\ PuBatch[b].src = "synthetic" /\ puAt[b] = "new" /\ puUp
    /\ LET deferred == IF downloading THEN puDeferred + 1 ELSE 0
       IN  /\ puDeferred' = IF deferred > PuDefer THEN PuDefer ELSE deferred
           /\ IF downloading /\ deferred < PuDefer
              THEN UNCHANGED <<puCursor, puDepth, puAt, puKey, puActive>>
              ELSE IF coordinator
                   THEN puDepth' = PuSeeds /\ UNCHANGED <<puCursor, puAt, puKey, puActive>>
                   ELSE LET n == IF PuDrip < PuSeeds THEN PuDrip ELSE PuSeeds
                        IN  /\ puCursor' = (puCursor + n) % PuSeeds
                            /\ puDepth' = PuSeeds - puCursor'
                            /\ Begin(b)
    /\ UNCHANGED <<puNow, puUp, puItem, puTotal, puGate, puHints, puHanded, puAcked, puObs,
                   puDegraded>>

----------------------------------------------------------------------------
\* seed_popular_from_source, seed_popular_impl

Latest(b, items, f) == [items |-> items, attempted |-> puTotal'[b][f].attempted,
                        acked |-> puTotal'[b][f].acked, at |-> puNow]

\* update_publish_progress.
Progress(b, items) ==
    /\ puSeedAt' = puNow
    /\ puLatest' = [f \in PuFamilies |->
                      IF f \in FamiliesOf(b) THEN Latest(b, items, f) ELSE puLatest[f]]
    /\ UNCHANGED puCount

\* Mutant: the catalog is refreshed without looking at the gate.
GatedNot(b) == TRUE

\* publish_batch_gate.lock().
Gated(b) == puGate = PuNone

Empty(b) == Len(Items(b)) = 0

\* refresh_ed2k_shared_catalog: the items that parse, or the synthetic seeds
\* where the batch (a manual one) is empty.
HintsOf(b) == IF Empty(b) THEN PuSynthetic ELSE ItemSet(b) \ PuBad

\* Under the gate: the hints are replaced, then the batch starts or bails out,
\* not bootstrapped or without a bound socket.  An empty batch has nothing to
\* publish and goes on to its summary.
PuEnter(b, bound) ==
    /\ puAt[b] = "gate" /\ Gated(b)
    /\ puGate' = b
    /\ puHints' = HintsOf(b)
    /\ PuGo(b, IF ~(puUp /\ bound) THEN "failed" ELSE IF Empty(b) THEN "commit" ELSE "keyword")
    /\ UNCHANGED puTotal
    /\ IF puUp /\ bound THEN Progress(b, 0) ELSE UNCHANGED puObs
    /\ UNCHANGED <<puNow, puUp, puKey, puItem, puHanded, puAcked, puActive, puDegraded, puTask>>

\* The family after f, or the progress report that ends the item.
After(b, f) == CASE f = "keyword" -> "source"
                 [] f = "source" /\ PuBatch[b].notes -> "notes"
                 [] OTHER -> "report"

\* A batch that awaits the publish of a family.
Waiting == [keyword |-> "keyword sent", source |-> "source sent", notes |-> "notes sent"]

Current(b) == Items(b)[puItem[b] + 1]

\* Ed2kHash::from_str.
Parses(item) == item \notin PuBad

\* An item whose hash does not parse fails the batch; otherwise it is handed to
\* the local store, which may refuse it, and the publish goes out.  The bind
\* address is IPv4 (build_runtime), so no family skips the store.
PuSend(b, f) ==
    /\ puAt[b] = f
    /\ IF ~Parses(Current(b))
       THEN PuGo(b, "failed") /\ UNCHANGED puHanded
       ELSE /\ puHanded' = puHanded \cup {<<f, Current(b)>>}
            /\ PuGo(b, Waiting[f])
    /\ UNCHANGED <<puNow, puUp, puKey, puItem, puTotal, puGate, puHints, puAcked, puObs, puActive,
                   puDegraded, puTask>>

\* The publish returns: acknowledged, not acknowledged, or an error, which
\* adds nothing to the totals.
PuSent(b, f, result) ==
    /\ puAt[b] = Waiting[f]
    /\ puTotal' = [puTotal EXCEPT ![b][f] =
                     [attempted |-> @.attempted + (IF result = "error" THEN 0 ELSE 1),
                      acked |-> @.acked + (IF result = "acked" THEN 1 ELSE 0)]]
    /\ puAcked' = IF result = "acked" THEN puAcked \cup {<<f, Current(b)>>} ELSE puAcked
    /\ PuGo(b, After(b, f))
    /\ UNCHANGED <<puNow, puUp, puKey, puItem, puGate, puHints, puHanded, puObs, puActive,
                   puDegraded, puTask>>

\* The item is done: progress is reported; after the last one comes the summary.
PuReport(b) ==
    /\ puAt[b] = "report"
    /\ puItem' = [puItem EXCEPT ![b] = @ + 1]
    /\ UNCHANGED puTotal
    /\ Progress(b, puItem[b] + 1)
    /\ PuGo(b, IF puItem[b] + 1 = Len(Items(b)) THEN "commit" ELSE "keyword")
    /\ UNCHANGED <<puNow, puUp, puKey, puGate, puHints, puHanded, puAcked, puActive, puDegraded,
                   puTask>>

\* apply_publish_summary.
Added(c, s) == [batches |-> c.batches + 1, items |-> c.items + s.items,
                attempted |-> c.attempted + s.attempted, acked |-> c.acked + s.acked,
                at |-> s.at]

\* record_publish_summaries; the gate is given back.
PuCommit(b) ==
    /\ puAt[b] = "commit"
    /\ UNCHANGED puTotal
    /\ LET s(f) == Latest(b, Len(Items(b)), f)
       IN  /\ puLatest' = [f \in PuFamilies |-> IF f \in FamiliesOf(b) THEN s(f) ELSE PuNone]
           /\ puCount' = [f \in PuFamilies |->
                            IF f \in FamiliesOf(b) THEN Added(puCount[f], s(f)) ELSE puCount[f]]
    /\ puSeedAt' = puNow
    /\ puGate' = PuNone /\ PuGo(b, "ok")
    /\ UNCHANGED <<puNow, puUp, puKey, puItem, puHints, puHanded, puAcked, puActive, puDegraded,
                   puTask>>

\* The batch failed: its error leaves the gate.
PuFail(b) ==
    /\ puAt[b] = "failed" /\ puGate = b
    /\ puGate' = PuNone /\ PuGo(b, "error")
    /\ UNCHANGED <<puNow, puUp, puKey, puItem, puTotal, puHints, puHanded, puAcked, puObs,
                   puActive, puDegraded, puTask>>

\* Mutant: a batch that failed keeps its activity.
LeftIfOk(b, ok) == IF ok THEN puActive \ {puKey[b]} ELSE puActive

\* finish_agent_activity.
Left(b, ok) == puActive \ {puKey[b]}

\* The activity ends, and the degraded record is cleared or set.
PuFinish(b) ==
    /\ puAt[b] \in {"ok", "error"}
    /\ puActive' = Left(b, puAt[b] = "ok")
    /\ puDegraded' = (puAt[b] = "error")
    /\ PuGo(b, "done")
    /\ UNCHANGED <<puNow, puUp, puKey, puItem, puTotal, puGate, puHints, puHanded, puAcked, puObs,
                   puTask>>

\* stop_runtime aborts the task of a coordinator or synthetic batch: the gate
\* is given back with it, its activity is not.
PuAbort(b) ==
    /\ PuBatch[b].src # "manual" /\ puAt[b] \notin {"new", "done"}
    /\ puGate' = IF puGate = b THEN PuNone ELSE puGate
    /\ PuGo(b, "done")
    /\ UNCHANGED <<puNow, puUp, puKey, puItem, puTotal, puHints, puHanded, puAcked, puObs,
                   puActive, puDegraded, puTask>>

PuTick ==
    /\ puNow < PuMaxTime /\ puNow' = puNow + 1
    /\ UNCHANGED <<puUp, puAt, puKey, puItem, puTotal, puGate, puHints, puHanded, puAcked, puObs,
                   puActive, puDegraded, puTask>>

PuWork ==
    \/ PuBootstrapped \/ PuTick
    \/ \E b \in Batches :
          \/ PuBegin(b) \/ PuReport(b) \/ PuCommit(b) \/ PuFail(b) \/ PuFinish(b)
          \/ \E bound \in BOOLEAN : PuEnter(b, bound)
          \/ \E d, c \in BOOLEAN : PuDripTick(b, d, c)
          \/ \E f \in PuFamilies :
                PuSend(b, f) \/ \E r \in {"acked", "silent", "error"} : PuSent(b, f, r)

PuStop == \E b \in Batches : PuAbort(b)

PuNext == PuWork \/ PuStop

PuSpec == PuInit /\ [][PuNext]_puVars

----------------------------------------------------------------------------
\* effective_publish_counters: what the stats endpoint shows for a family.

InFlight(f) == puSeedAt > puCount[f].at

Committed(f) == puCount[f].at = puLatest[f].at

HasProgress(s) == s.items > 0 \/ s.attempted > 0 \/ s.acked > 0

Effective(f) ==
    IF puLatest[f] = PuNone THEN puCount[f]
    ELSE IF InFlight(f) /\ ~Committed(f) /\ HasProgress(puLatest[f])
         THEN Added(puCount[f], puLatest[f]) ELSE puCount[f]

----------------------------------------------------------------------------
Publishing(b) == puAt[b] \in PuFamilies \cup {Waiting[f] : f \in PuFamilies} \cup {"report", "commit"}

\* While a batch publishes, the shared catalog's hints are this batch's: a batch
\* that waits, fails or is aborted does not replace them under a running one.
HintsMatchBatch == \A b \in Batches : Publishing(b) => puHints = HintsOf(b)

\* Whatever is on its way to the network is offered in the shared catalog at
\* that moment: the loop lets through what the catalog's filter lets through.
SentIsHinted ==
    \A b \in Batches, f \in PuFamilies : puAt[b] = Waiting[f] => Current(b) \in puHints

\* What a remote node acknowledged in a family was handed to the local store in
\* that family before (the store may refuse it or forget it since).
HandedBeforeAnnounced == puAcked \subseteq puHanded

\* A step after which no family's totals, committed and in flight together,
\* are lower in what the stats endpoint shows.
TotalsKept ==
    \A f \in PuFamilies : /\ Effective(f).items <= Effective(f)'.items
                         /\ Effective(f).acked <= Effective(f)'.acked

\* Where no task is aborted and no two batches of a source begin in the same
\* millisecond, an activity is shown exactly while its batch waits or runs.
ActivitiesHonest ==
    (\A b, c \in Batches : b # c /\ puKey[b] # PuNone => puKey[b] # puKey[c]) =>
        puActive = {puKey[b] : b \in {c \in Batches : puAt[c] \notin {"new", "done"}}}

\* What a batch announces is offered here: its items are the catalog's hints
\* while it publishes, what is on its way is one of them, and the local store
\* was given it before any node acknowledged it.
AnnouncedIsOffered == HintsMatchBatch /\ SentIsHinted /\ HandedBeforeAnnounced
=============================================================================
