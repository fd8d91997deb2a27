---------------------------- MODULE PassiveReplay ----------------------------
(***************************************************************************)
(* One passive replay (overlord-agent-emule/src/agent/passive_runtime.rs): *)
(* the search is repeated with ever more responders until enough results   *)
(* came, results are deduplicated and handed in batches to a poster task   *)
(* through a bounded channel, and the outcome is read once the poster has  *)
(* drained it.  The three families differ in the dedup key, in when a      *)
(* batch is sent and in when the replay stops widening.                    *)
(*                                                                         *)
(* A result is its dedup key; the latency and backpressure statistics are  *)
(* left out.                                                               *)
(***************************************************************************)
EXTENDS Integers, Sequences, FiniteSets, SequencesExt

CONSTANTS
    PrFamilies,    \* the families to replay
    PrIds,         \* results the network may send
    PrMappable,    \* results map_search_result_for accepts
    PrK,           \* K, the first tier's responder ceiling
    PrFanout,      \* search_phase2_fanout
    PrBatch,       \* PASSIVE_BATCH_SIZE
    PrDepth,       \* PASSIVE_POST_QUEUE_DEPTH
    PrThin,        \* PASSIVE_*_THIN_RESULT_THRESHOLD
    PrStopAfter    \* source_stop_after_results

VARIABLES
    prFamily, prPc, prTier,
    prSeen,       \* seen_hashes, seen_sources or seen_note_sources
    prFiles,      \* the batch being filled
    prHanded,     \* the batch being sent
    prNext,       \* where the code goes once it is sent
    prQueue,      \* the channel to the poster
    prPosting,    \* the batch the poster is posting
    prAlive,      \* the poster task has not died
    prCount, prTiers, prBatches, prError,  \* PassiveReplayRunOutcome
    prPosterError,
    prPosted      \* history: results the coordinator acknowledged

prVars == <<prFamily, prPc, prTier, prSeen, prFiles, prHanded, prNext, prQueue,
            prPosting, prAlive, prCount, prTiers, prBatches, prError,
            prPosterError, prPosted>>

(* passive_replay_tier_contact_limits: positive ceilings, rising, distinct. *)
TierLimits ==
    SetToSortSeq({l \in {PrK, 2 * PrK, PrFanout} : l > 0}, <)

(* When a replay has enough.                                               *)
Enough(n) ==
    IF prFamily = "source" THEN n >= (IF PrStopAfter > 1 THEN PrStopAfter ELSE 1)
    ELSE n >= PrThin

PrInit ==
    /\ prFamily \in PrFamilies
    /\ prPc = "search" /\ prTier = 1
    /\ prSeen = {} /\ prFiles = <<>> /\ prHanded = <<>> /\ prNext = "search"
    /\ prQueue = <<>> /\ prPosting = <<>> /\ prAlive = TRUE
    /\ prCount = 0 /\ prTiers = <<>> /\ prBatches = 0
    /\ prError = FALSE /\ prPosterError = FALSE /\ prPosted = <<>>

-----------------------------------------------------------------------------
Told(tiers) == FoldLeft(LAMBDA n, t : n + t, 0, tiers)

(* The end of a tier: its summary, then the next one if results are thin.  *)
TierOver ==
    /\ prTiers' = Append(prTiers, prCount' - Told(prTiers))
    /\ IF Enough(prCount') \/ prTier = Len(TierLimits)
       THEN prPc' = "flush" /\ prTier' = prTier
       ELSE prPc' = "search" /\ prTier' = prTier + 1

(* A batch goes out when it is full; keyword batches also when old.        *)
Sends(files, old) == Len(files) >= PrBatch \/ (prFamily = "keyword" /\ old)

(* One result of the search stream.                                        *)
PrResult(r, old) ==
    /\ prPc = "search" /\ r \notin prSeen
    /\ prSeen' = prSeen \cup {r}
    /\ IF prFamily = "keyword" /\ r \notin PrMappable
       THEN UNCHANGED <<prPc, prTier, prFiles, prHanded, prNext, prCount, prTiers>>
       ELSE LET files == Append(prFiles, r) IN
            /\ prCount' = prCount + 1
            /\ IF Sends(files, old)
               THEN /\ prFiles' = <<>> /\ prHanded' = files
                    /\ prPc' = "send" /\ prNext' = "search"
                    /\ UNCHANGED <<prTier, prTiers>>
               ELSE /\ prFiles' = files
                    /\ IF prFamily = "source" /\ Enough(prCount')
                       THEN TierOver
                       ELSE UNCHANGED <<prPc, prTier, prTiers>>
                    /\ UNCHANGED <<prHanded, prNext>>
    /\ UNCHANGED <<prFamily, prQueue, prPosting, prAlive, prBatches, prError,
                   prPosterError, prPosted>>

(* A result already seen, in this tier or in a narrower one.               *)
PrDuplicate(r) ==
    prPc = "search" /\ r \in prSeen /\ UNCHANGED prVars

(* send_passive_result_batch: waits while the channel is full; fails once  *)
(* the poster is gone, which ends the tier but not the replay.             *)
PrSend ==
    /\ prPc = "send"
    /\ \/ /\ prAlive /\ Len(prQueue) < PrDepth
          /\ prQueue' = Append(prQueue, prHanded)
          /\ UNCHANGED <<prError, prCount>>
          /\ IF prNext = "search" /\ prFamily = "source" /\ Enough(prCount)
             THEN TierOver
             ELSE prPc' = prNext /\ UNCHANGED <<prTier, prTiers>>
       \/ /\ ~prAlive
          /\ prError' = TRUE
          /\ UNCHANGED <<prQueue, prCount>>
          /\ IF prNext = "search" THEN TierOver
             ELSE prPc' = prNext /\ UNCHANGED <<prTier, prTiers>>
    /\ prHanded' = <<>>
    /\ UNCHANGED <<prFamily, prSeen, prFiles, prNext, prPosting, prAlive,
                   prBatches, prPosterError, prPosted>>

(* The stream of the tier ends.                                            *)
PrStreamEnds ==
    /\ prPc = "search"
    /\ UNCHANGED prCount
    /\ TierOver
    /\ UNCHANGED <<prFamily, prSeen, prFiles, prHanded, prNext, prQueue, prPosting,
                   prAlive, prBatches, prError, prPosterError, prPosted>>

PrFlushForgotten ==
    /\ prPc = "flush"
    /\ prPc' = "join"
    /\ UNCHANGED <<prFamily, prTier, prSeen, prFiles, prHanded, prNext, prQueue,
                   prPosting, prAlive, prCount, prTiers, prBatches, prError,
                   prPosterError, prPosted>>

(* After the last tier the batch being filled goes out.                    *)
PrFlush ==
    /\ prPc = "flush"
    /\ prPc' = IF prFiles = <<>> THEN "join" ELSE "send"
    /\ prHanded' = prFiles /\ prFiles' = <<>> /\ prNext' = "join"
    /\ UNCHANGED <<prFamily, prTier, prSeen, prQueue, prPosting, prAlive, prCount,
                   prTiers, prBatches, prError, prPosterError, prPosted>>

(* spawn_passive_batch_poster: takes a batch, posts it, counts it.         *)
PrPosterTakes ==
    /\ prAlive /\ prPosting = <<>> /\ prQueue # <<>>
    /\ prPosting' = Head(prQueue) /\ prQueue' = Tail(prQueue)
    /\ UNCHANGED <<prFamily, prPc, prTier, prSeen, prFiles, prHanded, prNext,
                   prAlive, prCount, prTiers, prBatches, prError, prPosterError,
                   prPosted>>

PrPosted(ok) ==
    /\ prAlive /\ prPosting # <<>>
    /\ prPosting' = <<>>
    /\ IF ok THEN /\ prBatches' = prBatches + 1
                  /\ prPosted' = prPosted \o prPosting
                  /\ UNCHANGED prPosterError
             ELSE /\ prPosterError' = TRUE
                  /\ UNCHANGED <<prBatches, prPosted>>
    /\ UNCHANGED <<prFamily, prPc, prTier, prSeen, prFiles, prHanded, prNext,
                   prQueue, prAlive, prCount, prTiers, prError>>

(* The poster task dies: its outcome is gone with it.                      *)
PrPosterDies ==
    /\ prAlive /\ prPc \notin {"done", "aborted"}
    /\ prAlive' = FALSE /\ prQueue' = <<>> /\ prPosting' = <<>> /\ prBatches' = 0
    /\ prPosterError' = TRUE
    /\ UNCHANGED <<prFamily, prPc, prTier, prSeen, prFiles, prHanded, prNext,
                   prCount, prTiers, prError, prPosted>>

(* finish_passive_batch_poster: the channel is closed and drained.         *)
PrJoin ==
    /\ prPc = "join" /\ prQueue = <<>> /\ prPosting = <<>>
    /\ prPc' = "done"
    /\ prError' = (prError \/ prPosterError)
    /\ UNCHANGED <<prFamily, prTier, prSeen, prFiles, prHanded, prNext, prQueue,
                   prPosting, prAlive, prCount, prTiers, prBatches,
                   prPosterError, prPosted>>

(* stop_runtime aborts the worker: the poster runs on and drains.          *)
PrAbort ==
    /\ prPc \notin {"done", "aborted"}
    /\ prPc' = "aborted" /\ prFiles' = <<>> /\ prHanded' = <<>>
    /\ UNCHANGED <<prFamily, prTier, prSeen, prNext, prQueue, prPosting, prAlive,
                   prCount, prTiers, prBatches, prError, prPosterError, prPosted>>

PrNext ==
    \/ \E r \in PrIds, old \in BOOLEAN : PrResult(r, old)
    \/ \E r \in PrIds : PrDuplicate(r)
    \/ PrSend \/ PrStreamEnds \/ PrFlush
    \/ PrPosterTakes \/ (\E ok \in BOOLEAN : PrPosted(ok)) \/ PrPosterDies
    \/ PrJoin \/ PrAbort

-----------------------------------------------------------------------------
(* A replay that reports no error has delivered every result it counts,    *)
(* exactly once, however batches were cut and whenever the channel filled: *)
(* record_replay_outcome retires the shape on that count.                  *)
OutcomeHonest ==
    prPc = "done" /\ ~prError =>
        /\ Len(prPosted) = prCount
        /\ \A i, j \in DOMAIN prPosted : prPosted[i] = prPosted[j] => i = j

(* More responders are asked only while results are thin, and the tiers    *)
(* account for every counted result.                                       *)
WidensOnlyWhenThin ==
    /\ \A i \in 1..(Len(prTiers) - 1) : ~Enough(Told(SubSeq(prTiers, 1, i)))
    /\ prPc = "done" => Told(prTiers) = prCount

(* A replay accounts for what it did: results counted are delivered, and   *)
(* wider tiers are asked only for want of them.                            *)
ReplayAccounted == OutcomeHonest /\ WidensOnlyWhenThin
=============================================================================
