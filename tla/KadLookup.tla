------------------------------ MODULE KadLookup ------------------------------
(***************************************************************************)
(* One iterative Kad lookup (crates/overlord-kad-dht: traversal.rs) and     *)
(* what its users make of it: a node lookup, a publish to the closest       *)
(* responders (publish.rs), or a keyword, source or notes search whose      *)
(* results travel over two bounded channels to a reader (search.rs).        *)
(*                                                                         *)
(* A contact's id is its XOR distance from the target, so the sorted vector *)
(* of candidates is the function lkState from ids to states.  Requests end  *)
(* with an answer or a failure, which is what KadCalls promises; an answer  *)
(* lists any contacts.  The deadline, a cancellation and the end of the     *)
(* search phase may come at any moment.                                    *)
(***************************************************************************)
EXTENDS Integers, Sequences, FiniteSets, SequencesExt

CONSTANTS
    LkContacts,     \* contacts [id, ip, net, lan]; net is the /24 of the IP
    LkK,            \* K, the closest contacts a lookup is about
    LkAlpha,        \* ALPHA, requests in flight
    LkReqCount,     \* contacts asked for, by kind
    LkFanout,       \* phase2_fanout, or publish_contact_fanout
    LkTolerance,    \* SEARCHTOLERANCE
    LkEntries,      \* search results that arrive
    LkBadEntries,   \* the ones without a name or a size
    LkCap,          \* result_cap
    LkBuffer,       \* SEARCH_RESULT_STREAM_BUFFER
    LkMaxPages      \* bound on the result pages that arrive

VARIABLES
    lkKind,         \* TraversalKind
    lkPc,           \* where run_traversal is
    lkState,        \* candidates seen so far: id -> CandidateState
    lkStopped,      \* ended by deadline or cancellation
    lkCancelled,    \* the CancellationToken
    lkToAsk,        \* phase 2 or publish: contacts still to be asked
    lkAsked,        \* contacts asked in phase 2, or publish calls in flight
    lkDrain,        \* entries of a page still to be forwarded
    lkRaw,          \* channel from the traversal to the search task
    lkTask,         \* the search task: off, reading, sending, joining, done
    lkSeen,         \* seen_hashes
    lkHand,         \* the result the task is sending
    lkStream,       \* channel to the reader
    lkRead,         \* results the reader took
    lkGone,         \* the reader dropped the stream
    lkPages         \* result pages that arrived

lkVars == <<lkKind, lkPc, lkState, lkStopped, lkCancelled, lkToAsk, lkAsked,
            lkDrain, lkRaw, lkTask, lkSeen, lkHand, lkStream, lkRead, lkGone, lkPages>>
lkWalkVars == <<lkKind, lkState, lkStopped, lkCancelled>>
lkSearchVars == <<lkDrain, lkRaw, lkTask, lkSeen, lkHand, lkStream, lkRead, lkGone, lkPages>>

LkIds == {c.id : c \in LkContacts}
LkKinds == {"FindNode", "Store", "Search"}
ById(id) == CHOOSE c \in LkContacts : c.id = id
Nearest(S, n) == {x \in S : Cardinality({y \in S : y < x}) < n}
InState(st) == {id \in DOMAIN lkState : lkState[id] = st}
Settled == InState("Responded") \cup InState("Failed")

LkInit ==
    /\ lkKind = "FindNode" /\ lkPc = "idle"
    /\ lkState = [id \in {} |-> "Pending"]
    /\ lkStopped = FALSE /\ lkCancelled = FALSE
    /\ lkToAsk = {} /\ lkAsked = {}
    /\ lkDrain = <<>> /\ lkRaw = <<>> /\ lkTask = "off"
    /\ lkSeen = {} /\ lkHand = <<>> /\ lkStream = <<>>
    /\ lkRead = <<>> /\ lkGone = FALSE /\ lkPages = 0

-----------------------------------------------------------------------------
(* Phase 1: run_traversal.                                                 *)

\* traversal_closest_limit; publishing passes fanout.max(K).
ClosestLimit == IF lkKind = "Store" /\ LkFanout > LkK THEN LkFanout ELSE LkK

\* get_closest of the routing table seeds the walk; a search whose try_lock of
\* the table fails starts with nobody (closest_search_contacts).
StartLookup(kind, seeds) ==
    /\ lkPc = "idle"
    /\ lkKind' = kind
    /\ lkPc' = "top"
    /\ lkState' = [id \in seeds |-> "Pending"]
    /\ lkTask' = IF kind = "Search" THEN "reading" ELSE "off"
    /\ UNCHANGED <<lkStopped, lkCancelled, lkToAsk, lkAsked, lkDrain, lkRaw,
                   lkSeen, lkHand, lkStream, lkRead, lkGone, lkPages>>

Responders == Nearest(InState("Responded"), ClosestLimit)

\* passes_search_tolerance and publish_target_is_within_tolerance.
Tolerated(ids) == {id \in ids : ById(id).lan \/ id <= LkTolerance}

\* abort_all, then what the kind asks for: nothing, a publish to the tolerated
\* closest responders (select_publish_contacts) or phase 2 across the
\* tolerated responders (select_phase2_contacts).
EndWalk(stopped) ==
    LET fanout == IF LkFanout = 0 THEN 1 ELSE LkFanout
        targets == Nearest(Tolerated(Responders), fanout)
        asked == IF LkFanout < LkK THEN LkFanout ELSE LkK IN
    /\ lkStopped' = stopped
    /\ \/ /\ lkKind = "FindNode" \/ (lkKind = "Search" /\ stopped)
          /\ lkPc' = "done"
          /\ UNCHANGED <<lkToAsk, lkAsked>>
       \/ /\ lkKind = "Store"
          /\ lkPc' = "publish"
          /\ lkAsked' = targets
          /\ UNCHANGED lkToAsk
       \/ /\ lkKind = "Search" /\ ~stopped
          /\ lkPc' = "emit"
          /\ lkToAsk' = Nearest(Tolerated(InState("Responded")), asked)
          /\ UNCHANGED <<lkAsked>>

Deadline ==
    /\ lkPc \in {"top", "wait"}
    /\ EndWalk(TRUE)
    /\ UNCHANGED <<lkKind, lkState, lkCancelled, lkSearchVars>>

\* Only searches hand out their token.
Cancel ==
    /\ lkKind = "Search" /\ lkPc \notin {"idle", "done"} /\ ~lkCancelled
    /\ lkCancelled' = TRUE
    /\ UNCHANGED <<lkKind, lkPc, lkState, lkStopped, lkToAsk, lkAsked, lkSearchVars>>

SeeCancel ==
    /\ lkCancelled /\ lkPc \in {"top", "wait"}
    /\ EndWalk(TRUE)
    /\ UNCHANGED <<lkKind, lkState, lkCancelled, lkSearchVars>>

\* Fill the free slots with the closest pending candidates; nobody to wait for
\* ends the walk.
Launch ==
    LET free == LkAlpha - Cardinality(InState("Inflight"))
        launched == Nearest(InState("Pending"), free) IN
    /\ lkPc = "top" /\ ~lkCancelled
    /\ lkState' = [id \in DOMAIN lkState |->
                      IF id \in launched THEN "Inflight" ELSE lkState[id]]
    /\ IF launched \cup InState("Inflight") = {}
       THEN EndWalk(FALSE)
       ELSE lkPc' = "wait" /\ UNCHANGED <<lkStopped, lkToAsk, lkAsked>>
    /\ UNCHANGED <<lkKind, lkCancelled, lkSearchVars>>

\* sanitize_res_contacts: one contact per IP and two per /24, the responder
\* counted.
Sanitized(responder, contacts) ==
    LET Keep(kept, c) ==
            LET before == kept \o <<ById(responder)>> IN
            IF \/ \E i \in DOMAIN before : before[i].ip = c.ip
               \/ Cardinality({i \in DOMAIN before : before[i].net = c.net}) >= 2
            THEN kept ELSE Append(kept, c)
    IN  {c.id : c \in ToSet(FoldLeft(Keep, <<>>, contacts))}

\* Mutant: requests in flight are not waited for.
ConvergedEarly(state) ==
    LET closest == Nearest({id \in DOMAIN state : state[id] = "Responded"}, LkK) IN
    /\ Cardinality(closest) = LkK
    /\ \A id \in DOMAIN state : state[id] = "Pending" => id > Max(closest)

\* find_node_lookup_converged, over the states after the answer.
Converged(state) ==
    LET closest == Nearest({id \in DOMAIN state : state[id] = "Responded"}, LkK) IN
    /\ Cardinality(closest) = LkK
    /\ \A id \in DOMAIN state :
          state[id] \in {"Pending", "Inflight"} => id > Max(closest)

\* The responder window is done and nothing is in flight.
WindowDone(state) ==
    /\ \A id \in Nearest(DOMAIN state, ClosestLimit) : state[id] \in {"Responded", "Failed"}
    /\ \A id \in DOMAIN state : state[id] # "Inflight"

GoOn(state) ==
    IF (lkKind = "FindNode" /\ Converged(state)) \/ WindowDone(state)
    THEN lkPc' = "ending" ELSE lkPc' = "top"

RequestFails(id) ==
    LET state == [lkState EXCEPT ![id] = "Failed"] IN
    /\ lkPc = "wait" /\ lkState[id] = "Inflight"
    /\ lkState' = state
    /\ GoOn(state)
    /\ UNCHANGED <<lkKind, lkStopped, lkCancelled, lkToAsk, lkAsked, lkSearchVars>>

\* An answer with more contacts than asked for counts as a response, adds
\* nobody and skips the tests for the end.
RequestAnswered(id, contacts) ==
    LET new == Sanitized(id, contacts) \ DOMAIN lkState
        state == [i \in DOMAIN lkState \cup new |->
                    IF i = id THEN "Responded" ELSE IF i \in new THEN "Pending" ELSE lkState[i]] IN
    /\ lkPc = "wait" /\ lkState[id] = "Inflight"
    /\ IF Len(contacts) > LkReqCount[lkKind]
       THEN lkPc' = "top" /\ lkState' = [lkState EXCEPT ![id] = "Responded"]
       ELSE GoOn(state) /\ lkState' = state
    /\ UNCHANGED <<lkKind, lkStopped, lkCancelled, lkToAsk, lkAsked, lkSearchVars>>

FinishWalk ==
    /\ lkPc = "ending"
    /\ EndWalk(FALSE)
    /\ UNCHANGED <<lkKind, lkState, lkCancelled, lkSearchVars>>

-----------------------------------------------------------------------------
(* Publishing: execute_publish_fanout and its callers; the tally of acks,  *)
(* timeouts and errors is only reported.                                   *)

PublishEnds(id) ==
    /\ lkPc = "publish" /\ id \in lkAsked
    /\ lkAsked' = lkAsked \ {id}
    /\ UNCHANGED <<lkKind, lkPc, lkState, lkStopped, lkCancelled, lkToAsk, lkSearchVars>>

PublishDone ==
    /\ lkPc = "publish" /\ lkAsked = {}
    /\ lkPc' = "done"
    /\ UNCHANGED <<lkKind, lkState, lkStopped, lkCancelled, lkToAsk, lkAsked, lkSearchVars>>

-----------------------------------------------------------------------------
(* Phase 2: run_search_phase and collect_search_results_until.             *)

\* One search packet per tick, to the closest contact not asked yet.
EmitSearch ==
    /\ lkPc = "emit" /\ ~lkCancelled /\ lkDrain = <<>> /\ lkToAsk # {}
    /\ lkToAsk' = lkToAsk \ {Min(lkToAsk)}
    /\ lkAsked' = lkAsked \cup {Min(lkToAsk)}
    /\ UNCHANGED <<lkWalkVars, lkPc, lkSearchVars>>

\* A broadcast SEARCH_RES; only contacts asked about this target are heard.
ResultPage(id, onTarget, entries) ==
    /\ lkPc = "emit" /\ ~lkCancelled /\ lkDrain = <<>> /\ lkPages < LkMaxPages
    /\ lkPages' = lkPages + 1
    /\ lkDrain' = IF id \in lkAsked /\ onTarget THEN entries ELSE <<>>
    /\ UNCHANGED <<lkWalkVars, lkPc, lkToAsk, lkAsked, lkRaw, lkTask, lkSeen, lkHand,
                   lkStream, lkRead, lkGone>>

\* Mutant: the end the task dropped is not noticed.
ForwardEntryBlocking ==
    /\ lkDrain # <<>>
    /\ lkTask \in {"reading", "sending"} /\ Len(lkRaw) < LkBuffer
    /\ lkRaw' = Append(lkRaw, Head(lkDrain))
    /\ lkDrain' = Tail(lkDrain)
    /\ UNCHANGED <<lkWalkVars, lkPc, lkToAsk, lkAsked, lkTask, lkSeen, lkHand, lkStream,
                   lkRead, lkGone, lkPages>>

\* tx.send waits for room in the channel, and fails once the task has dropped
\* its end.
ForwardEntry ==
    /\ lkDrain # <<>>
    /\ IF lkTask \in {"reading", "sending"}
       THEN Len(lkRaw) < LkBuffer /\ lkRaw' = Append(lkRaw, Head(lkDrain))
       ELSE UNCHANGED lkRaw
    /\ lkDrain' = Tail(lkDrain)
    /\ UNCHANGED <<lkWalkVars, lkPc, lkToAsk, lkAsked, lkTask, lkSeen, lkHand, lkStream,
                   lkRead, lkGone, lkPages>>

\* The deadline of the phase has passed, or the search was cancelled.
PhaseEnds ==
    /\ lkPc = "emit" /\ lkDrain = <<>>
    /\ lkPc' = "done"
    /\ UNCHANGED <<lkWalkVars, lkToAsk, lkAsked, lkSearchVars>>

-----------------------------------------------------------------------------
(* The search task and its reader: search_keywords_by_request and its      *)
(* siblings for sources and notes.                                         *)

TakeEntry ==
    LET e == Head(lkRaw) IN
    /\ lkTask = "reading" /\ lkRaw # <<>>
    /\ \/ /\ Cardinality(lkSeen) >= LkCap
          /\ lkTask' = "joining" /\ lkRaw' = <<>>
          /\ UNCHANGED <<lkSeen, lkHand>>
       \/ /\ Cardinality(lkSeen) < LkCap /\ e \in LkBadEntries \cup lkSeen
          /\ lkRaw' = Tail(lkRaw)
          /\ UNCHANGED <<lkTask, lkSeen, lkHand>>
       \/ /\ Cardinality(lkSeen) < LkCap /\ e \notin LkBadEntries \cup lkSeen
          /\ lkRaw' = Tail(lkRaw) /\ lkSeen' = lkSeen \cup {e}
          /\ lkHand' = <<e>> /\ lkTask' = "sending"
    /\ UNCHANGED <<lkWalkVars, lkPc, lkToAsk, lkAsked, lkDrain, lkStream, lkRead, lkGone, lkPages>>

SendResult ==
    /\ lkTask = "sending"
    /\ IF lkGone THEN lkTask' = "joining" /\ lkRaw' = <<>> /\ UNCHANGED lkStream
       ELSE /\ Len(lkStream) < LkBuffer
            /\ lkStream' = lkStream \o lkHand /\ lkTask' = "reading"
            /\ UNCHANGED lkRaw
    /\ lkHand' = <<>>
    /\ UNCHANGED <<lkWalkVars, lkPc, lkToAsk, lkAsked, lkDrain, lkSeen, lkRead, lkGone, lkPages>>

\* Cancelled, or the traversal has dropped its end of an empty channel.
StopReading ==
    /\ lkTask = "reading"
    /\ lkCancelled \/ (lkRaw = <<>> /\ lkPc = "done")
    /\ lkTask' = "joining" /\ lkRaw' = <<>>
    /\ UNCHANGED <<lkWalkVars, lkPc, lkToAsk, lkAsked, lkDrain, lkSeen, lkHand, lkStream,
                   lkRead, lkGone, lkPages>>

JoinTraversal ==
    /\ lkTask = "joining" /\ lkPc = "done"
    /\ lkTask' = "done"
    /\ UNCHANGED <<lkWalkVars, lkPc, lkToAsk, lkAsked, lkDrain, lkRaw, lkSeen, lkHand,
                   lkStream, lkRead, lkGone, lkPages>>

ReadResult ==
    /\ ~lkGone /\ lkStream # <<>>
    /\ lkRead' = Append(lkRead, Head(lkStream)) /\ lkStream' = Tail(lkStream)
    /\ UNCHANGED <<lkWalkVars, lkPc, lkToAsk, lkAsked, lkDrain, lkRaw, lkTask, lkSeen,
                   lkHand, lkGone, lkPages>>

DropStream ==
    /\ ~lkGone /\ lkTask # "off"
    /\ lkGone' = TRUE /\ lkStream' = <<>>
    /\ UNCHANGED <<lkWalkVars, lkPc, lkToAsk, lkAsked, lkDrain, lkRaw, lkTask, lkSeen,
                   lkHand, lkRead, lkPages>>

-----------------------------------------------------------------------------
RequestEnds ==
    \E id \in DOMAIN lkState :
        \/ RequestFails(id)
        \/ \E contacts \in SeqOf(LkContacts, LkReqCount[lkKind] + 1) : RequestAnswered(id, contacts)

WalkStep == Launch \/ RequestEnds \/ FinishWalk \/ SeeCancel
PublishStep == PublishDone \/ \E id \in LkIds : PublishEnds(id)
TaskStep == TakeEntry \/ SendResult \/ StopReading \/ JoinTraversal

LkNext ==
    \/ \E kind \in LkKinds, seeds \in SUBSET LkIds :
          Cardinality(seeds) <= LkK /\ StartLookup(kind, seeds)
    \/ WalkStep \/ Deadline \/ Cancel
    \/ PublishStep
    \/ EmitSearch \/ ForwardEntry \/ PhaseEnds
    \/ \E id \in LkIds, onTarget \in BOOLEAN, entries \in SeqOf(LkEntries, 2) :
          ResultPage(id, onTarget, entries)
    \/ TaskStep \/ ReadResult \/ DropStream

\* Requests end (KadCalls), the timer of the search phase fires, the tasks run
\* and the reader of a stream reads on or drops it.
LkFairness ==
    /\ WF_lkVars(WalkStep) /\ WF_lkVars(PublishStep)
    /\ WF_lkVars(ForwardEntry) /\ WF_lkVars(PhaseEnds)
    /\ WF_lkVars(TaskStep) /\ WF_lkVars(ReadResult \/ DropStream)

LkSpec == LkInit /\ [][LkNext]_lkVars /\ LkFairness

-----------------------------------------------------------------------------
(* Properties *)

\* A walk that ended by itself has settled its window: nobody among the
\* closest candidates it knows of was left unasked or still in flight, in
\* whatever order answers and failures came (traversal.rs, the two tests that
\* end the loop).
WindowSettled ==
    (lkPc \in {"ending", "publish", "emit", "done"} /\ ~lkStopped)
        => Nearest(DOMAIN lkState, ClosestLimit) \subseteq Settled

\* The reader gets each result once, at most result_cap of them and none that
\* lacks a name or a size, however pages repeat them and the channels fill.
ResultsOnce ==
    LET out == lkRead \o lkStream \o lkHand IN
    /\ \A i, j \in DOMAIN out : out[i] = out[j] => i = j
    /\ Len(out) <= LkCap
    /\ ToSet(out) \cap LkBadEntries = {}

\* Every lookup ends, and so does the task behind a search, although both
\* channels may be full and a cancellation may come while one is.
LookupEnds == (lkPc # "idle") ~> (lkPc = "done" /\ lkTask \in {"off", "done"})

\* A lookup's two products are sound: the nodes it settles on and the results
\* its reader gets.
LookupSound == WindowSettled /\ ResultsOnce
=============================================================================
