------------------------------ MODULE KadIndex ------------------------------
(***************************************************************************)
(* What the agent does with the searches and publishes other Kad nodes     *)
(* send it (agent/kad_unsolicited.rs): a search is first recorded in the   *)
(* snoop queue, then answered from the store.                              *)
(***************************************************************************)
EXTENDS KadStore, SnoopQueue

CONSTANT KxRequest  \* the request behind a logical key: [t, start, size]

(* SearchKeyReq, SearchSourceReq and SearchNotesReq.                       *)
HandleSearch(k, passing) ==
    /\ SnObserve(k)
    /\ AnswerSearch(SnFamily[k], KxRequest[k].t, KxRequest[k].start,
                    KxRequest[k].size, passing)

(* One clock for both.                                                     *)
KxTick == KsTick /\ snNow' = ksNow' /\ UNCHANGED
    <<snEntries, snFeedback, snDrains, snWorker, snEvents, snPost, snSaved,
      snPhase, snSeen, snTold, snLost, snLog, snPast>>
=============================================================================
