---------------------------- MODULE UploadQueue ----------------------------
(***************************************************************************)
(* The inbound ED2K upload queue (ed2k_transfer/upload_queue.rs and its     *)
(* runtime facade ed2k_transfer/upload.rs).                                 *)
(*                                                                         *)
(* One mutex-protected queue decides which remote peers may download from   *)
(* this agent.  A session is keyed by (peer, file); at most ActiveSlots     *)
(* sessions are active, the others wait, ranked by a score, and idle        *)
(* sessions are reaped lazily, by whichever operation comes next.           *)
(*                                                                         *)
(* The queue is a record so that one Rust method is one operator from a     *)
(* queue to the set of queues the method may leave.  The set is a           *)
(* singleton in every reachable state; it is written as a set because the   *)
(* promotion and eviction loops are given by what they compute (the best,   *)
(* or the worst, waiters) and not by their iterations.  The Vec             *)
(* waiting_order is a set: its order is never observed, because every       *)
(* reader sorts it by (score, waiting_sequence) and sequences are unique.   *)
(***************************************************************************)
EXTENDS Integers, FiniteSets

CONSTANTS
    Peers,             \* peer identities (ip, tcp port, user hash, client id)
    FriendPeers,       \* high-id peers whose friend_slot flag is set
    Files,             \* ED2K file hashes
    ActiveSlots,       \* config.active_slots
    WaitingCapacity,   \* config.waiting_capacity
    WaitingTimeout,    \* config.waiting_timeout
    GrantedTimeout,    \* config.granted_timeout
    UploadTimeout,     \* config.upload_timeout
    FilePriority,      \* DEFAULT_FILE_PRIORITY_SCORE
    FriendBonus,       \* FRIEND_SLOT_SCORE_BONUS
    MaxTime,           \* bound on the clock
    MaxConnections     \* bound on connection ids

ASSUME PolicyAssumption ==
    /\ ActiveSlots \in Nat
    /\ WaitingCapacity \in Nat
    /\ WaitingTimeout \in Nat
    /\ GrantedTimeout \in Nat
    /\ UploadTimeout \in Nat
    /\ FilePriority \in Nat
    /\ FriendBonus \in Nat
    /\ FriendPeers \subseteq Peers

ASSUME BoundAssumption ==
    /\ MaxTime \in Nat
    /\ MaxConnections \in Nat

VARIABLES
    queue,              \* Ed2kUploadQueueState
    now,                \* Instant::now(), in seconds
    next_connection_id, \* Ed2kTransferRuntime::next_upload_connection_id
    pending,            \* begin_upload_session calls between fetch_add and lock
    handles             \* session handles returned to listener connections

vars == <<queue, now, next_connection_id, pending, handles>>

Key == [peer : Peers, file : Files]
Phase == {"Waiting", "Granted", "Uploading"}
Entry == [phase : Phase, connection_id : Nat, queued_at : Nat,
          last_activity : Nat, waiting_sequence : Nat]
Handle == [key : Key, connection_id : Nat]
IsQueue(q) == /\ q.sessions \in [DOMAIN q.sessions -> Entry]
              /\ DOMAIN q.sessions \subseteq Key
              /\ q.waiting_order \subseteq Key
              /\ q.next_waiting_sequence \in Nat

Init ==
    /\ queue = [sessions |-> [k \in {} |-> k],
                waiting_order |-> {},
                next_waiting_sequence |-> 1]
    /\ now = 0
    /\ next_connection_id = 1
    /\ pending = {}
    /\ handles = {}

-----------------------------------------------------------------------------
(* Ranking. *)

Active(q) == {k \in DOMAIN q.sessions : q.sessions[k].phase \in {"Granted", "Uploading"}}

\* The filter of ranked_waiting_keys: queued keys whose session waits.
Ranked(q) == {k \in q.waiting_order :
                k \in DOMAIN q.sessions /\ q.sessions[k].phase = "Waiting"}

friend_slot_score(k) == IF k.peer \in FriendPeers THEN FriendBonus ELSE 0

waiting_score(k, session, t) ==
    (t - session.queued_at) * FilePriority + friend_slot_score(k)

\* The comparison of the sort: higher score first, then the older sequence.
OutranksAs(t, j, left, k, right) ==
    \/ waiting_score(j, left, t) > waiting_score(k, right, t)
    \/ /\ waiting_score(j, left, t) = waiting_score(k, right, t)
       /\ left.waiting_sequence < right.waiting_sequence

Outranks(q, t, j, k) == OutranksAs(t, j, q.sessions[j], k, q.sessions[k])

rank_for_key(q, k, t) ==
    IF k \in Ranked(q) THEN 1 + Cardinality({j \in Ranked(q) : Outranks(q, t, j, k)}) ELSE 0

status_for_key(q, k, t) ==
    IF k \notin DOMAIN q.sessions THEN [status |-> "Stale", rank |-> 0]
    ELSE IF q.sessions[k].phase = "Waiting"
         THEN [status |-> "Waiting", rank |-> rank_for_key(q, k, t)]
         ELSE [status |-> "Granted", rank |-> 0]

-----------------------------------------------------------------------------
(* The queue's own maintenance. *)

\* The queue q with its session map and waiting list replaced.
With(q, sessions, order) ==
    [sessions |-> sessions,
     waiting_order |-> order,
     next_waiting_sequence |-> q.next_waiting_sequence]

Drop(q, K) == With(q, [k \in DOMAIN q.sessions \ K |-> q.sessions[k]], q.waiting_order \ K)

\* Mutant: slots go to the longest queued peer, whatever its score.
PromotedFifo(q, t) ==
    {P \in SUBSET Ranked(q) :
        /\ \A j \in P, k \in Ranked(q) \ P :
              q.sessions[j].waiting_sequence < q.sessions[k].waiting_sequence
        /\ P # {} => Cardinality(Active(q)) + Cardinality(P) <= ActiveSlots
        /\ P = Ranked(q) \/ Cardinality(Active(q)) + Cardinality(P) >= ActiveSlots}

\* What the promotion loop grants: the best waiters, as many as there are free
\* slots, or all of them.
Promoted(q, t) ==
    {P \in SUBSET Ranked(q) :
        /\ \A j \in P, k \in Ranked(q) \ P : Outranks(q, t, j, k)
        /\ P # {} => Cardinality(Active(q)) + Cardinality(P) <= ActiveSlots
        /\ P = Ranked(q) \/ Cardinality(Active(q)) + Cardinality(P) >= ActiveSlots}

Grant(q, P, t) ==
    With(q,
         [k \in DOMAIN q.sessions |->
            IF k \in P
            THEN [q.sessions[k] EXCEPT !.phase = "Granted", !.last_activity = t]
            ELSE q.sessions[k]],
         q.waiting_order \ P)

promote_waiters(q, t) == {Grant(q, P, t) : P \in Promoted(q, t)}

\* Mutant: one waiter too many is kept.
EvictedLate(q, t) ==
    {V \in SUBSET Ranked(q) :
        /\ \A j \in Ranked(q) \ V, k \in V : Outranks(q, t, j, k)
        /\ V # {} => Cardinality(q.waiting_order) - Cardinality(V) > WaitingCapacity
        /\ V = Ranked(q) \/ Cardinality(q.waiting_order) - Cardinality(V) <= WaitingCapacity + 1}

\* What the trimming loop evicts: the worst waiters beyond the capacity.
Evicted(q, t) ==
    {V \in SUBSET Ranked(q) :
        /\ \A j \in Ranked(q) \ V, k \in V : Outranks(q, t, j, k)
        /\ V # {} => Cardinality(q.waiting_order) - Cardinality(V) >= WaitingCapacity
        /\ V = Ranked(q) \/ Cardinality(q.waiting_order) - Cardinality(V) <= WaitingCapacity}

trim_waiting_queue(q, t) == {Drop(q, V) : V \in Evicted(q, t)}

Timeout(phase) == CASE phase = "Waiting"   -> WaitingTimeout
                    [] phase = "Granted"   -> GrantedTimeout
                    [] phase = "Uploading" -> UploadTimeout

Expired(q, t) == {k \in DOMAIN q.sessions :
                    t - q.sessions[k].last_activity > Timeout(q.sessions[k].phase)}

\* Mutant: reaping frees slots and promotes nobody.
ReapOnly(q, t) == {Drop(q, Expired(q, t))}

reap_expired_sessions(q, t) == promote_waiters(Drop(q, Expired(q, t)), t)

-----------------------------------------------------------------------------
(* The public operations, as queue transformers. *)

SessionsOfPeer(q, peer) == {k \in DOMAIN q.sessions : k.peer = peer}

\* sessions without the key old and with entry under the key k.
Insert(sessions, old, k, entry) ==
    [j \in (DOMAIN sessions \ {old}) \cup {k} |-> IF j = k THEN entry ELSE sessions[j]]

\* A peer that already has a session keeps its phase, rank and sequence; only
\* the key, the owning connection and the activity time change.
Rekey(q, old, h, t) ==
    With(q,
         Insert(q.sessions, old, h.key,
                [q.sessions[old] EXCEPT !.connection_id = h.connection_id,
                                        !.last_activity = t]),
         IF q.sessions[old].phase = "Waiting" /\ old \in q.waiting_order
         THEN (q.waiting_order \ {old}) \cup {h.key} ELSE q.waiting_order)

\* A new session of handle h, granted or not, numbered next.
AdmitAs(q, h, t, granted, next) ==
    [sessions |-> Insert(q.sessions, h.key, h.key,
         [phase |-> IF granted THEN "Granted" ELSE "Waiting",
          connection_id |-> h.connection_id,
          queued_at |-> t,
          last_activity |-> t,
          waiting_sequence |-> q.next_waiting_sequence]),
     waiting_order |-> IF granted THEN q.waiting_order ELSE q.waiting_order \cup {h.key},
     next_waiting_sequence |-> next]

\* A peer without a session gets a free slot or the last place in the queue.
Admit(q, h, t) ==
    AdmitAs(q, h, t, Cardinality(Active(q)) < ActiveSlots, q.next_waiting_sequence + 1)

begin_session(q, h, t) ==
    UNION {IF SessionsOfPeer(r, h.key.peer) # {}
           THEN {Rekey(r, old, h, t) : old \in SessionsOfPeer(r, h.key.peer)}
           ELSE trim_waiting_queue(Admit(r, h, t), t) : r \in reap_expired_sessions(q, t)}

\* Mutant: the connection id is not compared.
OwnsKey(q, h) == h.key \in DOMAIN q.sessions

Owns(q, h) == h.key \in DOMAIN q.sessions
              /\ q.sessions[h.key].connection_id = h.connection_id

\* The session of handle h, active at time t and in the given phase.
Touch(q, h, t, phase) ==
    With(q,
         [q.sessions EXCEPT ![h.key] = [@ EXCEPT !.last_activity = t, !.phase = phase]],
         q.waiting_order)

poll_session(q, h, t, refresh_activity) ==
    {IF Owns(r, h) /\ refresh_activity THEN Touch(r, h, t, r.sessions[h.key].phase) ELSE r :
        r \in reap_expired_sessions(q, t)}

note_request_parts(q, h, t) ==
    {IF Owns(r, h)
     THEN Touch(r, h, t, IF h.key \in Active(r) THEN "Uploading" ELSE r.sessions[h.key].phase)
     ELSE r : r \in reap_expired_sessions(q, t)}

\* Mutant: waiting_order is left alone.
WithoutSessionOnly(q, k) ==
    With(q, [j \in DOMAIN q.sessions \ {k} |-> q.sessions[j]], q.waiting_order)

\* Only a waiting session is also taken off waiting_order.
Without(q, k) ==
    With(q, [j \in DOMAIN q.sessions \ {k} |-> q.sessions[j]],
         IF q.sessions[k].phase = "Waiting" THEN q.waiting_order \ {k} ELSE q.waiting_order)

release_session(q, h, t) ==
    IF ~ Owns(q, h) THEN {q}
    ELSE UNION {promote_waiters(r, t) : r \in reap_expired_sessions(Without(q, h.key), t)}

-----------------------------------------------------------------------------
(* The runtime facade: each call takes the queue lock once. *)

\* begin_upload_session draws its connection id before it waits for the lock.
TakeConnectionId(k) ==
    /\ next_connection_id <= MaxConnections
    /\ next_connection_id' = next_connection_id + 1
    /\ pending' = pending \cup {[key |-> k, connection_id |-> next_connection_id]}
    /\ UNCHANGED <<queue, now, handles>>

BeginUploadSession(h) ==
    /\ h \in pending
    /\ queue' \in begin_session(queue, h, now)
    /\ pending' = pending \ {h}
    /\ handles' = handles \cup {h}
    /\ UNCHANGED <<now, next_connection_id>>

PollUploadSession(h, refresh_activity) ==
    /\ queue' \in poll_session(queue, h, now, refresh_activity)
    /\ UNCHANGED <<now, next_connection_id, pending, handles>>

NoteUploadRequestParts(h) ==
    /\ queue' \in note_request_parts(queue, h, now)
    /\ UNCHANGED <<now, next_connection_id, pending, handles>>

ReleaseUploadSession(h) ==
    /\ queue' \in release_session(queue, h, now)
    /\ UNCHANGED <<now, next_connection_id, pending, handles>>

Tick ==
    /\ now < MaxTime
    /\ now' = now + 1
    /\ UNCHANGED <<queue, next_connection_id, pending, handles>>

Next ==
    \/ \E k \in Key : TakeConnectionId(k)
    \/ \E h \in pending : BeginUploadSession(h)
    \/ \E h \in handles, refresh_activity \in BOOLEAN : PollUploadSession(h, refresh_activity)
    \/ \E h \in handles : NoteUploadRequestParts(h)
    \/ \E h \in handles : ReleaseUploadSession(h)
    \/ Tick

Spec == Init /\ [][Next]_vars

-----------------------------------------------------------------------------
(* Properties. *)

\* Every session, handle and clock reading has the type of its Rust field, and
\* no session was active, or queued, in the future.
TypeOK ==
    /\ IsQueue(queue)
    /\ \A k \in DOMAIN queue.sessions :
          /\ queue.sessions[k].queued_at <= now
          /\ queue.sessions[k].last_activity <= now
    /\ now \in Nat
    /\ next_connection_id \in Nat
    /\ pending \subseteq Handle
    /\ handles \subseteq Handle

\* waiting_order lists exactly the sessions whose phase is Waiting.  The two
\* collections are updated by separate statements in begin_session,
\* release_session, reap_expired_sessions, promote_waiters and
\* remove_waiting_key; a key left behind would hold a place in the queue for
\* nobody, and a key lost would never be promoted.
OrderMatchesPhases ==
    queue.waiting_order =
        {k \in DOMAIN queue.sessions : queue.sessions[k].phase = "Waiting"}

\* A peer holds one session however many files it asks for and however often
\* it reconnects (session_key_for_peer in begin_session).
OneSessionPerPeer ==
    \A j, k \in DOMAIN queue.sessions : j.peer = k.peer => j = k

\* Admission, promotion and rekeying together never exceed active_slots.
SlotsRespected == Cardinality(Active(queue)) <= ActiveSlots

\* No upload slot stays free while a peer waits: every operation that frees a
\* slot also promotes, so between two lock acquisitions the queue is work
\* conserving.
NoIdleSlot == queue.waiting_order # {} => Cardinality(Active(queue)) = ActiveSlots

\* The waiting list never outgrows waiting_capacity between two operations.
WaitingWithinCapacity == Cardinality(queue.waiting_order) <= WaitingCapacity

\* Two sessions never share a waiting_sequence, so the ranking is a strict
\* total order and the unordered iteration of the HashMap is never observed.
SequencesUnique ==
    /\ \A k \in DOMAIN queue.sessions :
          queue.sessions[k].waiting_sequence < queue.next_waiting_sequence
    /\ \A j, k \in DOMAIN queue.sessions :
          queue.sessions[j].waiting_sequence = queue.sessions[k].waiting_sequence => j = k

\* The three collections of the queue say the same whatever operations meet:
\* who waits, whose session is whose, and in which order waiters came.
QueueConsistent == OrderMatchesPhases /\ OneSessionPerPeer /\ SequencesUnique

\* The slots are neither exceeded nor left idle while a peer waits.
SlotsUsed == SlotsRespected /\ NoIdleSlot

\* The session of the given peer in queue q that has the given sequence.
SameSession(q, peer, seq) ==
    {k \in DOMAIN q.sessions : k.peer = peer /\ q.sessions[k].waiting_sequence = seq}

StillIn(q, k, phases) ==
    \E j \in SameSession(q, k.peer, queue.sessions[k].waiting_sequence) :
        q.sessions[j].phase \in phases

\* A waiter is granted a slot only when it outranks everyone left waiting.
\* Sessions are followed by peer and sequence, because begin_session may rekey
\* a session in the step that promotes it.
PromotesByRank ==
    \A j, k \in queue.waiting_order :
        StillIn(queue', j, {"Granted", "Uploading"}) /\ StillIn(queue', k, {"Waiting"})
        => Outranks(queue, now, j, k)

\* A waiter that has not timed out leaves the queue only through its own
\* connection's release, or, trimmed by a newcomer, when every peer still
\* waiting outranks it.
EvictsByRank ==
    \A k \in queue.waiting_order \ Expired(queue, now) :
        ~ StillIn(queue', k, Phase)
        => \/ \E h \in handles : h.connection_id = queue.sessions[k].connection_id
                                /\ ReleaseUploadSession(h)
           \/ \A j \in queue'.waiting_order :
                 OutranksAs(now, j, queue'.sessions[j], k, queue.sessions[k])

\* Rank alone decides among waiters: who is granted a slot that is free and who
\* gives up a place when there are too many.
RankDecides == [][PromotesByRank /\ EvictsByRank]_vars

\* A slot that was granted and has not timed out is never taken back: the
\* session ends only when the connection that owns it now releases it.  A
\* handle left over from an earlier connection of the same peer cannot end
\* the session of the newer one, and no newcomer can displace it.
ActiveEndsByOwner ==
    \A k \in Active(queue) \ Expired(queue, now) :
        (\A j \in Active(queue') : j.peer # k.peer)
        => /\ \E h \in handles : ReleaseUploadSession(h)
           /\ \A h \in handles : ReleaseUploadSession(h) =>
                 h.connection_id = queue.sessions[k].connection_id

\* A peer that reconnects or asks for another file before its timeout keeps
\* its place: neither queued_at nor waiting_sequence is ever rewritten.
SeniorityKept ==
    \A k \in DOMAIN queue.sessions \ Expired(queue, now), j \in DOMAIN queue'.sessions :
        j.peer = k.peer
        => /\ queue'.sessions[j].waiting_sequence = queue.sessions[k].waiting_sequence
           /\ queue'.sessions[j].queued_at = queue.sessions[k].queued_at

\* A peer keeps the place it has, slot or rank, across reconnects, other files
\* and the releases of its own stale handles.
PlacesKept == [][ActiveEndsByOwner /\ SeniorityKept]_vars
=============================================================================
