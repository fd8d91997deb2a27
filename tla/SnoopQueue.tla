----------------------------- MODULE SnoopQueue -----------------------------
(***************************************************************************)
(* The queue of Kad search requests seen on the network                    *)
(* (overlord-agent-emule/src/snoop_queue.rs), the two workers that replay  *)
(* them (agent/background_passive.rs, agent/passive_replay.rs), the flush  *)
(* that reports them to the coordinator and the restore at start           *)
(* (agent/snoop.rs, agent/background_snoop.rs, agent/service.rs).          *)
(*                                                                         *)
(* A logical key is a number, its order the order of the key strings.      *)
(* first_seen is left out: nothing reads it.  last_result_count is left    *)
(* out: record_replay_outcome only ever stores 0 in it.  What a replay     *)
(* does is module PassiveReplay; here it ends with some result count.      *)
(***************************************************************************)
EXTENDS Integers, Sequences, FiniteSets, SequencesExt

CONSTANTS
    SnKeys,        \* logical keys, positive integers
    SnFamily,      \* their family: [SnKeys -> {"keyword", "source", "notes"}]
    SnUsable,      \* keys a request can be rebuilt from (size # 0, valid target)
    SnWindow,      \* the 600 s drain window, in ticks
    SnMax,         \* drains per window: ["general" | "source" -> Nat]
    SnCooldown,    \* drain cooldown: ["general" | "source" -> Nat]
    SnDedup,       \* dedup_window_secs
    SnGate,        \* PASSIVE_REPLAY_CONCURRENCY
    SnHitMax,      \* where the saturating u32 hit count stops
    SnMaxObs,      \* bound: observations in one behaviour
    SnMaxTime      \* bound: ticks of the clock

ASSUME SnBounds ==
    /\ SnKeys \subseteq Nat \ {0}
    /\ SnFamily \in [SnKeys -> {"keyword", "source", "notes"}]
    /\ SnUsable \subseteq SnKeys
    /\ SnHitMax \in Nat \ {0}

Families == <<"keyword", "source", "notes">>
Idle == 0
Never == -1

VARIABLES
    snNow,        \* Utc::now()
    snEntries,    \* entries: key -> [hits, last, drained]
    snFeedback,   \* replay_feedback: key -> [streak, at]; absent is NoFeedback
    snDrains,     \* recent_general_drains and recent_source_drains
    snWorker,     \* the key each worker replays, or Idle
    snEvents,     \* observed_snoop_events: the numbers of the observations
    snPost,       \* the flush waiting for the coordinator, and what it posted
    snSaved,      \* the snapshot the coordinator holds
    snPhase,      \* "up", "stopping" (final flush) or "down"
    snSeen,       \* observations made
    snTold,       \* history: observations the coordinator acknowledged
    snLost,       \* history: observations dropped by an abort, exit or crash
    snLog,        \* history: drain times per class in this process
    snPast        \* history: what was asked and replayed of each key, see NoPast

snVars == <<snNow, snEntries, snFeedback, snDrains, snWorker, snEvents, snPost,
            snSaved, snPhase, snSeen, snTold, snLost, snLog,
            snPast>>

NoFeedback == [streak |-> 0, at |-> Never]
Class(f) == IF f = "source" THEN "source" ELSE "general"
Classes == {"general", "source"}

(* How often (up to twice) and when last a shape was asked for since it was *)
(* last answered or forgotten, when it was last drained without an answer,  *)
(* and whether the queue has forgotten that drain.                          *)
NoPast == [asks |-> 0, at |-> Never, drained |-> Never, forgotten |-> FALSE]
NoPasts == [k \in SnKeys |-> NoPast]
Forgotten(past) ==
    [NoPast EXCEPT !.drained = past.drained, !.forgotten = past.drained # Never]

(* A snapshot and the history it was taken with.                            *)
NoSnapshot == [entries |-> <<>>, past |-> NoPasts]
Snapshot == [entries |-> snEntries, past |-> snPast]
NoPost == [busy |-> FALSE, snapshot |-> NoSnapshot, events |-> <<>>]
Posted == [busy |-> TRUE, snapshot |-> Snapshot, events |-> snEvents]
NoDrains == [c \in Classes |-> <<>>]

SnInit ==
    /\ snNow = 0
    /\ snEntries = <<>>
    /\ snFeedback = [k \in SnKeys |-> NoFeedback]
    /\ snDrains = NoDrains
    /\ snWorker = [w \in Classes |-> Idle]
    /\ snEvents = <<>> /\ snPost = NoPost
    /\ snSaved = NoSnapshot
    /\ snPhase = "up"
    /\ snSeen = 0 /\ snTold = {} /\ snLost = {}
    /\ snLog = NoDrains
    /\ snPast = NoPasts

Least(a, b) == IF a < b THEN a ELSE b
Most(a, b) == IF a > b THEN a ELSE b
Without(f, k) == [x \in DOMAIN f \ {k} |-> f[x]]
With(f, k, v) == [x \in DOMAIN f \cup {k} |-> IF x = k THEN v ELSE f[x]]

-----------------------------------------------------------------------------
(* Recording an observed request. *)

(* merge_entry on a key that is queued: hits add up and saturate, and a     *)
(* fresh observation does not clear the time of the last drain.            *)
Merged(old, new) ==
    [hits |-> Least(old.hits + new.hits, SnHitMax),
     last |-> Most(old.last, new.last),
     drained |-> Most(old.drained, new.drained)]

Recorded(entries, k, e) ==
    With(entries, k, IF k \in DOMAIN entries THEN Merged(entries[k], e) ELSE e)

(* record_snoop_entry: the queue entry and the observation to report.      *)
SnObserve(k) ==
    /\ snPhase = "up" /\ snSeen < SnMaxObs
    /\ snEntries' = Recorded(snEntries, k,
                             [hits |-> 1, last |-> snNow, drained |-> Never])
    /\ snSeen' = snSeen + 1
    /\ snEvents' = Append(snEvents, snSeen')
    /\ snPast' = [snPast EXCEPT ![k].asks = Least(@ + 1, 2), ![k].at = snNow]
    /\ UNCHANGED <<snNow, snFeedback, snDrains, snWorker, snPost,
                   snSaved, snPhase, snTold, snLost, snLog>>

-----------------------------------------------------------------------------
(* Choosing what to replay. *)

(* prune_recent_drains: drains older than the window leave the deque.      *)
Pruned(c) == SelectSeq(snDrains[c], LAMBDA t : t >= snNow - SnWindow)

(* replay_cooldown_cutoff: replays that found nothing back off, up to      *)
(* fourfold, until the shape is seen again.                                *)
CooldownCutoff(k) ==
    LET fb == snFeedback[k]
        base == SnCooldown[Class(SnFamily[k])]
        backedOff == fb.at # Never /\ fb.streak > 0 /\ snEntries[k].last <= fb.at
    IN  snNow - (IF backedOff THEN base * Least(fb.streak + 1, 4) ELSE base)

(* The entries select_next_*_request considers.                            *)
Eligible(f) ==
    {k \in DOMAIN snEntries :
        /\ SnFamily[k] = f /\ k \in SnUsable
        /\ \/ snEntries[k].drained = Never
           \/ snEntries[k].drained <= CooldownCutoff(k)}

HighQuality(k) == snEntries[k].hits >= 2

(* select_best_source_candidate: repeated demand hides one-off demand.     *)
Promoted(f) ==
    LET es == Eligible(f)
    IN  IF f = "source" /\ \E k \in es : HighQuality(k)
        THEN {k \in es : HighQuality(k)}
        ELSE es

ObservedAfterOutcome(k) ==
    snFeedback[k].at = Never \/ snEntries[k].last > snFeedback[k].at

Flag(b) == IF b THEN 0 ELSE 1

(* candidate_cmp, source_candidate_cmp and notes_candidate_cmp.            *)
Rank(k) ==
    <<Flag(ObservedAfterOutcome(k)), Flag(SnFamily[k] # "source" \/ HighQuality(k)),
      snFeedback[k].streak, -snEntries[k].hits, -snEntries[k].last, k>>

Before(a, b) ==
    \E i \in DOMAIN a : a[i] < b[i] /\ \A j \in 1..(i - 1) : a[j] = b[j]

Selected(f) ==
    LET all == Promoted(f)
        recent == {k \in all : snEntries[k].last >= snNow - SnDedup}
        pool == IF recent # {} THEN recent ELSE all
    IN  CHOOSE k \in pool : \A o \in pool \ {k} : Before(Rank(k), Rank(o))

(* A family offers a request while its class is within its drain budget.   *)
Offers(f) == Len(Pruned(Class(f))) < SnMax[Class(f)] /\ Eligible(f) # {}

FamilyCount(f) == Cardinality({k \in DOMAIN snEntries : SnFamily[k] = f})

(* preferred_passive_replay_families: the fullest family first.            *)
PreferredFamilies ==
    SetToSortSeq(1..3, LAMBDA i, j :
        Before(<<-FamilyCount(Families[i]), i>>, <<-FamilyCount(Families[j]), j>>))

(* The source worker serves its own family; the general one all three.     *)
FamilyOrder(w) ==
    IF w = "source" THEN <<"source">>
    ELSE [i \in 1..3 |-> Families[PreferredFamilies[i]]]

Busy == {w \in Classes : snWorker[w] # Idle}

(* One turn of a worker: it needs a permit of the gate, tries its families *)
(* in order, and marks what it selects as drained.  Looking at a family    *)
(* prunes the drains of its class whether or not it offers anything.       *)
SnWake(w) ==
    LET order == FamilyOrder(w)
        offering == {i \in DOMAIN order : Offers(order[i])}
        looked == IF offering = {} THEN Range(order)
                  ELSE {order[i] : i \in 1..(CHOOSE i \in offering :
                                               \A j \in offering : i <= j)}
        pruned == [c \in Classes |-> IF c \in {Class(f) : f \in looked}
                                     THEN Pruned(c) ELSE snDrains[c]]
    IN  /\ snPhase = "up" /\ snWorker[w] = Idle /\ Cardinality(Busy) < SnGate
        /\ IF offering = {}
           THEN /\ snDrains' = pruned
                /\ UNCHANGED <<snEntries, snWorker, snLog, snPast>>
           ELSE LET f == order[CHOOSE i \in offering : \A j \in offering : i <= j]
                    k == Selected(f)
                    c == Class(f)
                IN  /\ snEntries' = [snEntries EXCEPT ![k].drained = snNow]
                    /\ snDrains' = [pruned EXCEPT ![c] = Append(@, snNow)]
                    /\ snWorker' = [snWorker EXCEPT ![w] = k]
                    /\ snLog' = [snLog EXCEPT ![c] = Append(@, snNow)]
                    /\ snPast' = [snPast EXCEPT ![k].drained = snNow, ![k].forgotten = FALSE]
        /\ UNCHANGED <<snNow, snFeedback, snEvents, snPost, snSaved,
                       snPhase, snSeen, snTold, snLost>>

(* record_replay_outcome: results retire the shape; a second empty replay  *)
(* retires a source shape nobody asked for since it was drained.           *)
SnFinish(w, results) ==
    LET k == snWorker[w]
        streak == snFeedback[k].streak + 1
        unwanted == /\ k \in DOMAIN snEntries /\ SnFamily[k] = "source"
                    /\ snEntries[k].drained # Never
                    /\ snEntries[k].last <= snEntries[k].drained
        retired == results > 0 \/ (streak >= 2 /\ unwanted)
    IN  /\ k # Idle
        /\ snWorker' = [snWorker EXCEPT ![w] = Idle]
        /\ snEntries' = IF retired THEN Without(snEntries, k) ELSE snEntries
        /\ snFeedback' = [snFeedback EXCEPT ![k] =
                            IF retired THEN NoFeedback
                            ELSE [streak |-> streak, at |-> snNow]]
        /\ snPast' = [snPast EXCEPT ![k] = IF results > 0 THEN NoPast
                                           ELSE IF retired THEN Forgotten(@) ELSE @]
        /\ UNCHANGED <<snNow, snDrains, snEvents, snPost, snSaved,
                       snPhase, snSeen, snTold, snLost, snLog>>

-----------------------------------------------------------------------------
(* Reporting to the coordinator. *)

(* flush_snoop_queue up to the post: the snapshot and the observations.    *)
SnFlushStart ==
    /\ snPhase = "up" /\ ~snPost.busy
    /\ snPost' = Posted
    /\ snEvents' = <<>>
    /\ UNCHANGED <<snNow, snEntries, snFeedback, snDrains, snWorker, snSaved,
                   snPhase, snSeen, snTold, snLost, snLog, snPast>>

PutBackLast == snEvents \o snPost.events

(* A failed post puts its observations back in front, in their order.      *)
PutBack == snPost.events \o snEvents

(* The coordinator's answer.  A post that fails may still have stored the  *)
(* snapshot.  The final flush of stop() is followed by the exit, which     *)
(* takes what was put back with it.                                        *)
SnFlushEnd(ok) ==
    LET exits == snPhase = "stopping"
        kept == IF ok THEN snEvents ELSE PutBack
    IN  /\ snPost.busy
        /\ snPost' = NoPost
        /\ snSaved' \in IF ok THEN {snPost.snapshot} ELSE {snSaved, snPost.snapshot}
        /\ snTold' = IF ok THEN snTold \cup Range(snPost.events) ELSE snTold
        /\ snPhase' = IF exits THEN "down" ELSE snPhase
        /\ snEvents' = IF exits THEN <<>> ELSE kept
        /\ snLost' = IF exits THEN snLost \cup Range(kept) ELSE snLost
        /\ UNCHANGED <<snNow, snEntries, snFeedback, snDrains, snWorker, snSeen,
                       snLog, snPast>>

-----------------------------------------------------------------------------
(* Stopping, restarting and the clock. *)

(* stop_runtime aborts the workers and the flush task wherever they are;   *)
(* a post in flight may or may not have been stored.                       *)
Aborted ==
    /\ snPhase = "up"
    /\ snWorker' = [w \in Classes |-> Idle]
    /\ snLost' = snLost \cup Range(snPost.events)
    /\ snSaved' \in {snSaved} \cup (IF snPost.busy THEN {snPost.snapshot} ELSE {})
    /\ UNCHANGED <<snNow, snEntries, snFeedback, snDrains, snSeen, snTold, snLog,
                   snPast>>

(* A reconcile replaces the runtime; the queue belongs to the agent.       *)
SnReconcile == Aborted /\ snPost' = NoPost /\ UNCHANGED <<snEvents, snPhase>>

(* stop(): the runtime goes, then one last flush.                          *)
SnStop ==
    /\ Aborted
    /\ snPhase' = "stopping"
    /\ snPost' = Posted
    /\ snEvents' = <<>>

(* The process dies; only what the coordinator holds survives.             *)
SnCrash ==
    /\ snPhase # "down"
    /\ snPhase' = "down"
    /\ snWorker' = [w \in Classes |-> Idle]
    /\ snLost' = snLost \cup Range(snPost.events) \cup Range(snEvents)
    /\ snSaved' \in {snSaved} \cup (IF snPost.busy THEN {snPost.snapshot} ELSE {})
    /\ snPost' = NoPost /\ snEvents' = <<>>
    /\ UNCHANGED <<snNow, snEntries, snFeedback, snDrains, snSeen, snTold, snLog,
                   snPast>>

SkipsRestoredAll(k) ==
    SnFamily[k] = "source" /\ (snSaved.entries[k].drained # Never \/ snSaved.entries[k].hits <= 1)

(* should_skip_restored_entry: source shapes served or seen only once.     *)
SkipsRestored(k) ==
    /\ SnFamily[k] = "source"
    /\ \/ snSaved.entries[k].drained # Never /\ snSaved.entries[k].last <= snSaved.entries[k].drained
       \/ snSaved.entries[k].hits <= 1

(* A new process: an empty queue, then restore_snoop_queue, which may fail.*)
SnStart(restored) ==
    /\ snPhase = "down" /\ snPhase' = "up"
    /\ snEntries' = IF restored
                    THEN [k \in {x \in DOMAIN snSaved.entries : ~SkipsRestored(x)} |->
                            snSaved.entries[k]]
                    ELSE <<>>
    /\ snFeedback' = [k \in SnKeys |-> NoFeedback]
    /\ snDrains' = NoDrains /\ snLog' = NoDrains
    /\ snPast' = [k \in SnKeys |->
                    IF ~restored THEN NoPast
                    ELSE IF k \in DOMAIN snEntries' THEN snSaved.past[k]
                    ELSE Forgotten(snSaved.past[k])]
    /\ UNCHANGED <<snNow, snWorker, snEvents, snPost, snSaved, snSeen, snTold,
                   snLost>>

SnTick ==
    /\ snNow < SnMaxTime
    /\ snNow' = snNow + 1
    /\ UNCHANGED <<snEntries, snFeedback, snDrains, snWorker, snEvents, snPost,
                   snSaved, snPhase, snSeen, snTold, snLost, snLog, snPast>>

SnNextQuiet ==
    \/ \E w \in Classes : SnWake(w)
    \/ \E w \in Classes, results \in 0..1 : SnFinish(w, results)
    \/ SnFlushStart
    \/ \E ok \in BOOLEAN : SnFlushEnd(ok)
    \/ SnReconcile \/ SnStop \/ SnCrash
    \/ \E restored \in BOOLEAN : SnStart(restored)
    \/ SnTick

-----------------------------------------------------------------------------
(* Every observation is waiting to be reported, in a post, acknowledged or *)
(* was lost by an abort, an exit or a crash, and what waits is in the order *)
(* it was observed, whatever posts fail in between.                        *)
ObservationsKept ==
    LET waiting == snPost.events \o snEvents
    IN  /\ Range(waiting) \cup snTold \cup snLost = 1..snSeen
        /\ \A i, j \in DOMAIN waiting : i < j => waiting[i] < waiting[j]

(* No class is drained more often than its budget in any window of time,   *)
(* although the general budget is shared by two families and the source    *)
(* budget by two workers.                                                  *)
DrainsPaced ==
    \A c \in Classes : \A i \in DOMAIN snLog[c] :
        Cardinality({j \in 1..i : snLog[c][j] >= snLog[c][i] - SnWindow})
            <= SnMax[c]

(* Between two replays of one shape with no results in between the whole   *)
(* cooldown passes, however often it is asked for meanwhile, and after a   *)
(* restart too when a stored snapshot holds the first one.  The exception  *)
(* are source shapes the queue has dropped after empty replays, at run     *)
(* time or when it was restored: asked for anew, they are new to it.       *)
CooldownKept ==
    \A w \in Classes :
        snWorker[w] = Idle /\ snWorker'[w] # Idle =>
            LET k == snWorker'[w]
            IN  \/ snPast[k].drained = Never
                \/ snNow - snPast[k].drained >= SnCooldown[Class(SnFamily[k])]
                \/ snPast[k].forgotten /\ SnFamily[k] = "source"

(* A shape that was asked for twice, and since it was last drained,        *)
(* outlives the process once a flush has stored it, whether or not its     *)
(* answer arrived: a restart that reaches the coordinator queues it again, *)
(* as repeated demand (merge_entry, flush_snoop_queue, merge_snapshot).    *)
DemandOutlivesRestart ==
    SnStart(TRUE) =>
        \A k \in SnKeys :
            snSaved.past[k].asks = 2 /\ snSaved.past[k].at > snSaved.past[k].drained =>
                k \in DOMAIN snEntries' /\ HighQuality(k)'

(* Demand is replayed as it was asked for: within the budgets, after the   *)
(* cooldown, and once stored also after a restart.  (Initially nothing has *)
(* been drained.)                                                          *)
DemandHonoured == [][DrainsPaced' /\ CooldownKept /\ DemandOutlivesRestart]_snVars
=============================================================================
