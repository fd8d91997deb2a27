------------------------ MODULE UploadListenerProofs ------------------------
(***************************************************************************)
(* Proofs about the listener's connections and the queue they share, for   *)
(* any number of connections, peers and files and any policy.              *)
(*                                                                         *)
(* The listener uses the queue as the queue's own specification allows, so *)
(* every theorem about the queue holds under it (ListenerUsesQueue).  What *)
(* a connection was told stays true because a call made on one handle      *)
(* leaves the entries of the other handles alone, except that it may       *)
(* promote or drop them (Moves), and because no two connections ever hold  *)
(* handles with the same connection id (Apart).                            *)
(***************************************************************************)
EXTENDS UploadListener, UploadQueueProofs

\* The session of k in r is the one of q, as it was or promoted.
Stays(q, r, k) ==
    /\ k \in DOMAIN q.sessions
    /\ r.sessions[k].connection_id = q.sessions[k].connection_id
    /\ \/ /\ r.sessions[k].phase = q.sessions[k].phase
          /\ r.sessions[k].last_activity = q.sessions[k].last_activity
       \/ q.sessions[k].phase = "Waiting" /\ r.sessions[k].phase = "Granted"

StaysAll(q, r) == \A k \in DOMAIN r.sessions : Stays(q, r, k)

\* Every session of r is one of q, or belongs to handle h.
Moves(q, r, h) ==
    \A k \in DOMAIN r.sessions :
        Stays(q, r, k) \/ (k = h.key /\ r.sessions[k].connection_id = h.connection_id)

\* The sessions of r are sessions of q under the same connection.
SameOwners(q, r) ==
    \A k \in DOMAIN r.sessions :
        k \in DOMAIN q.sessions /\ r.sessions[k].connection_id = q.sessions[k].connection_id

-----------------------------------------------------------------------------
(* What the queue's operations do to the sessions of others. *)

\* A grant leaves every session in place.
LEMMA GrantStays ==
    ASSUME NEW q, IsQueue(q), NEW P, P \subseteq Ranked(q), NEW t \in Nat
    PROVE  StaysAll(q, Grant(q, P, t))
  <1> DEFINE G(e) == [e EXCEPT !.phase = "Granted", !.last_activity = t]
             r == Grant(q, P, t)
  <1>1. r.sessions = [k \in DOMAIN q.sessions |-> IF k \in P THEN G(q.sessions[k]) ELSE q.sessions[k]]
    BY Zenon DEF Grant, With
  <1>2. \A e \in Entry : G(e).phase = "Granted" /\ G(e).connection_id = e.connection_id
    BY Zenon DEF Entry, Phase
  <1> HIDE DEF G, r
  <1>3. \A k \in P : q.sessions[k].phase = "Waiting"
    BY Zenon DEF Ranked
  <1>4. \A k \in DOMAIN q.sessions : q.sessions[k] \in Entry
    BY QueueFields, Zenon
  <1> SUFFICES ASSUME NEW k \in DOMAIN r.sessions PROVE Stays(q, r, k)
    BY Zenon DEF StaysAll, r
  <1>5. k \in DOMAIN q.sessions
    BY <1>1, Zenon
  <1>6. CASE k \in P
    BY <1>1, <1>2, <1>3, <1>4, <1>5, <1>6, Zenon DEF Stays
  <1>7. CASE k \notin P
    BY <1>1, <1>5, <1>7, Zenon DEF Stays
  <1> QED
    BY <1>6, <1>7, Zenon

\* Dropping sessions leaves the others alone.
LEMMA DropStays ==
    ASSUME NEW q, NEW K
    PROVE  StaysAll(q, Drop(q, K))
  <1>1. Drop(q, K).sessions = [k \in DOMAIN q.sessions \ K |-> q.sessions[k]]
    BY Zenon DEF Drop, With
  <1> QED
    BY <1>1, Zenon DEF StaysAll, Stays

\* A session that waits is promoted once: Stays composes.
LEMMA StaysTwice ==
    ASSUME NEW p, NEW q, NEW r, StaysAll(p, q), StaysAll(q, r)
    PROVE  StaysAll(p, r)
  <1> SUFFICES ASSUME NEW k \in DOMAIN r.sessions PROVE Stays(p, r, k)
    BY Zenon DEF StaysAll
  <1>1. Stays(q, r, k) /\ Stays(p, q, k)
    BY Zenon DEF StaysAll, Stays
  <1> QED
    BY <1>1, Zenon DEF Stays

\* A move after a step that leaves the sessions in place is one move.
LEMMA MovesAfter ==
    ASSUME NEW p, NEW q, NEW r, NEW h, StaysAll(p, q), Moves(q, r, h)
    PROVE  Moves(p, r, h)
  <1> SUFFICES ASSUME NEW k \in DOMAIN r.sessions, Stays(q, r, k) PROVE Stays(p, r, k)
    BY Zenon DEF Moves
  <1>1. Stays(p, q, k)
    BY Zenon DEF StaysAll, Stays
  <1> QED
    BY <1>1, Zenon DEF Stays

\* promote_waiters only grants.
LEMMA PromoteStays ==
    ASSUME NEW q, IsQueue(q), NEW t \in Nat, NEW r \in promote_waiters(q, t)
    PROVE  StaysAll(q, r)
  BY GrantStays, Zenon DEF promote_waiters, Promoted

\* A reap drops sessions and grants, nothing else.
LEMMA ReapStays ==
    ASSUME NEW q, IsQueue(q), NEW t \in Nat, NEW r \in reap_expired_sessions(q, t)
    PROVE  StaysAll(q, r)
  <1> DEFINE d == Drop(q, Expired(q, t))
  <1>1. IsQueue(d) /\ StaysAll(q, d)
    BY DropFields, DropStays, Zenon
  <1>2. r \in promote_waiters(d, t)
    BY Zenon DEF reap_expired_sessions
  <1> HIDE DEF d
  <1>3. StaysAll(d, r)
    BY <1>1, <1>2, PromoteStays, Zenon
  <1> QED
    BY <1>1, <1>3, StaysTwice, Zenon

\* Polling or noting a request touches the session of its handle.
LEMMA TouchMoves ==
    ASSUME NEW q, IsQueue(q), NEW t \in Nat, NEW h, Owns(q, h), NEW phase
    PROVE  Moves(q, Touch(q, h, t, phase), h) /\ SameOwners(q, Touch(q, h, t, phase))
  <1> DEFINE r == Touch(q, h, t, phase)
             entry == [q.sessions[h.key] EXCEPT !.last_activity = t, !.phase = phase]
  <1>1. h.key \in DOMAIN q.sessions /\ q.sessions[h.key].connection_id = h.connection_id
    BY Zenon DEF Owns
  <1>2. entry.connection_id = h.connection_id
    <2>1. q.sessions[h.key] \in Entry
      BY <1>1, QueueFields, Zenon
    <2> QED  BY <1>1, <2>1, Zenon DEF Entry
  <1>3. r.sessions = [q.sessions EXCEPT ![h.key] = entry]
    BY Zenon DEF Touch, With
  <1> HIDE DEF entry, r
  <1>4. /\ DOMAIN r.sessions = DOMAIN q.sessions
        /\ \A k \in DOMAIN q.sessions : r.sessions[k] = IF k = h.key THEN entry ELSE q.sessions[k]
    BY <1>3, Zenon
  <1>5. Moves(q, r, h)
    BY <1>2, <1>4, Zenon DEF Moves, Stays
  <1>6. SameOwners(q, r)
    BY <1>1, <1>2, <1>4, Zenon DEF SameOwners
  <1> QED
    BY <1>5, <1>6, Zenon DEF r

\* A call on one handle leaves a session only its own handle may have.
LEMMA StaysMoves ==
    ASSUME NEW q, NEW r, NEW h, StaysAll(q, r)
    PROVE  Moves(q, r, h) /\ SameOwners(q, r)
  BY Zenon DEF StaysAll, Stays, Moves, SameOwners

\* The connections that own sessions, across two steps.
LEMMA OwnersAfter ==
    ASSUME NEW p, NEW q, NEW r, StaysAll(p, q), SameOwners(q, r)
    PROVE  SameOwners(p, r)
  BY Zenon DEF StaysAll, Stays, SameOwners

\* poll_session touches the entry of its own handle alone.
LEMMA PollMoves ==
    ASSUME NEW q, NEW t \in Nat, QInv(q, t), NEW h, NEW refresh, NEW r \in poll_session(q, h, t, refresh)
    PROVE  Moves(q, r, h) /\ SameOwners(q, r)
  <1>0. IsQueue(q) /\ QCore(q, t) /\ QRoom(q)
    BY Zenon DEF QInv, QCore, QTyped
  <1>1. PICK p \in reap_expired_sessions(q, t) :
           r = IF Owns(p, h) /\ refresh THEN Touch(p, h, t, p.sessions[h.key].phase) ELSE p
    BY Zenon DEF poll_session
  <1>2. StaysAll(q, p)
    BY <1>0, ReapStays, Zenon
  <1>3. IsQueue(p)
    BY <1>0, ReapKeeps, Zenon DEF QInv, QCore, QTyped
  <1>4. CASE r = p
    BY <1>2, <1>4, StaysMoves, Zenon
  <1>5. CASE Owns(p, h) /\ r = Touch(p, h, t, p.sessions[h.key].phase)
    <2>1. Moves(p, r, h) /\ SameOwners(p, r)
      BY <1>3, <1>5, TouchMoves, Zenon
    <2> QED
      BY <1>2, <2>1, MovesAfter, OwnersAfter, Zenon
  <1> QED
    BY <1>1, <1>4, <1>5, Zenon

\* note_request_parts touches the entry of its own handle alone.
LEMMA NoteMoves ==
    ASSUME NEW q, NEW t \in Nat, QInv(q, t), NEW h, NEW r \in note_request_parts(q, h, t)
    PROVE  Moves(q, r, h) /\ SameOwners(q, r)
  <1>0. IsQueue(q) /\ QCore(q, t) /\ QRoom(q)
    BY Zenon DEF QInv, QCore, QTyped
  <1>1. PICK p \in reap_expired_sessions(q, t) :
           r = IF Owns(p, h)
               THEN Touch(p, h, t, IF h.key \in Active(p) THEN "Uploading" ELSE p.sessions[h.key].phase)
               ELSE p
    BY Zenon DEF note_request_parts
  <1>2. StaysAll(q, p)
    BY <1>0, ReapStays, Zenon
  <1>3. IsQueue(p)
    BY <1>0, ReapKeeps, Zenon DEF QInv, QCore, QTyped
  <1>4. CASE r = p
    BY <1>2, <1>4, StaysMoves, Zenon
  <1>5. CASE Owns(p, h) /\ \E phase : r = Touch(p, h, t, phase)
    <2>1. Moves(p, r, h) /\ SameOwners(p, r)
      BY <1>3, <1>5, TouchMoves, Zenon
    <2> QED
      BY <1>2, <2>1, MovesAfter, OwnersAfter, Zenon
  <1> QED
    BY <1>1, <1>4, <1>5, Zenon

\* release_session takes an entry out and promotes.
LEMMA ReleaseStays ==
    ASSUME NEW q, NEW t \in Nat, QInv(q, t), NEW h, NEW r \in release_session(q, h, t)
    PROVE  StaysAll(q, r)
  <1>0. IsQueue(q) /\ QLinked(q) /\ QCore(q, t) /\ QRoom(q)
    BY Zenon DEF QInv, QCore, QTyped
  <1>1. CASE ~Owns(q, h)
    BY <1>1, Zenon DEF release_session, StaysAll, Stays
  <1>2. CASE Owns(q, h)
    <2> DEFINE d == Drop(q, {h.key})
    <2>1. Without(q, h.key) = d
      BY <1>0, <1>2, WithoutIsDrop, Zenon DEF Owns
    <2>2. StaysAll(q, d) /\ QCore(d, t) /\ QRoom(d)
      BY <1>0, DropStays, DropKeeps, Zenon
    <2> HIDE DEF d
    <2>3. PICK p \in reap_expired_sessions(d, t) : r \in promote_waiters(p, t)
      BY <1>2, <2>1, Zenon DEF release_session
    <2>4. StaysAll(d, p)
      BY <2>2, ReapStays, Zenon DEF QCore, QTyped
    <2>5. StaysAll(p, r)
      BY <2>2, <2>3, ReapKeeps, PromoteStays, Zenon DEF QInv, QCore, QTyped
    <2> QED
      BY <2>2, <2>4, <2>5, StaysTwice, Zenon
  <1> QED
    BY <1>1, <1>2, Zenon

\* A takeover moves the entry of the peer to the new handle.
LEMMA RekeyMoves ==
    ASSUME NEW q, IsQueue(q), QLinked(q), NEW t \in Nat, NEW h,
           NEW old \in SessionsOfPeer(q, h.key.peer)
    PROVE  Moves(q, Rekey(q, old, h, t), h)
  <1> DEFINE entry == [q.sessions[old] EXCEPT !.connection_id = h.connection_id, !.last_activity = t]
             r == Rekey(q, old, h, t)
  <1>1. entry.connection_id = h.connection_id
    <2>1. q.sessions[old] \in Entry
      BY QueueFields, Zenon DEF SessionsOfPeer
    <2> QED  BY <2>1, Zenon DEF Entry
  <1>2. r.sessions = Insert(q.sessions, old, h.key, entry)
    BY Zenon DEF Rekey, With
  <1> HIDE DEF entry, r
  <1>3. Moves(q, r, h)
    BY <1>1, <1>2, Zenon DEF Insert, Moves, Stays
  <1> QED
    BY <1>3, Zenon DEF r

\* An admission adds the entry of the new handle.
LEMMA AdmitMoves ==
    ASSUME NEW q, NEW t, NEW h
    PROVE  Moves(q, Admit(q, h, t), h)
  <1> DEFINE entry == [phase |-> IF Cardinality(Active(q)) < ActiveSlots THEN "Granted" ELSE "Waiting",
                       connection_id |-> h.connection_id,
                       queued_at |-> t,
                       last_activity |-> t,
                       waiting_sequence |-> q.next_waiting_sequence]
             r == Admit(q, h, t)
  <1>1. entry.connection_id = h.connection_id
    OBVIOUS
  <1>2. r.sessions = Insert(q.sessions, h.key, h.key, entry)
    BY Zenon DEF Admit, AdmitAs
  <1> HIDE DEF entry, r
  <1>3. Moves(q, r, h)
    BY <1>1, <1>2, Zenon DEF Insert, Moves, Stays
  <1> QED
    BY <1>3, Zenon DEF r

\* Beginning a session moves the peer's session to the new handle or admits it.
LEMMA BeginMoves ==
    ASSUME NEW q, NEW t \in Nat, QInv(q, t), NEW h \in Handle, NEW r \in begin_session(q, h, t)
    PROVE  Moves(q, r, h)
  <1>0. IsQueue(q) /\ QCore(q, t) /\ QRoom(q)
    BY Zenon DEF QInv, QCore, QTyped
  <1>1. PICK p \in reap_expired_sessions(q, t) :
           r \in IF SessionsOfPeer(p, h.key.peer) # {}
                 THEN {Rekey(p, old, h, t) : old \in SessionsOfPeer(p, h.key.peer)}
                 ELSE trim_waiting_queue(Admit(p, h, t), t)
    BY Zenon DEF begin_session
  <1>2. StaysAll(q, p) /\ IsQueue(p) /\ QLinked(p)
    BY <1>0, ReapStays, ReapKeeps, Zenon DEF QInv, QCore, QTyped
  <1>3. Moves(p, r, h)
    <2>1. CASE \E old \in SessionsOfPeer(p, h.key.peer) : r = Rekey(p, old, h, t)
      BY <1>2, <2>1, RekeyMoves, Zenon
    <2>2. CASE r \in trim_waiting_queue(Admit(p, h, t), t)
      <3>1. PICK V : r = Drop(Admit(p, h, t), V)
        BY <2>2, Zenon DEF trim_waiting_queue
      <3>2. StaysAll(Admit(p, h, t), r) /\ Moves(p, Admit(p, h, t), h)
        BY <3>1, DropStays, AdmitMoves, Zenon
      <3>3. r.sessions = [k \in DOMAIN Admit(p, h, t).sessions \ V |-> Admit(p, h, t).sessions[k]]
        BY <3>1, Zenon DEF Drop, With
      <3> QED
        BY <3>2, <3>3, Zenon DEF Moves, Stays
    <2> QED
      BY <1>1, <2>1, <2>2, Zenon
  <1> QED
    BY <1>2, <1>3, MovesAfter, Zenon

-----------------------------------------------------------------------------
(* The inductive invariant. *)

\* A connection id that was drawn and not yet used is nobody's.
IdsFresh ==
    /\ \A h \in pending : h.connection_id < next_connection_id
    /\ \A g, h \in pending : g.connection_id = h.connection_id => g = h
    /\ \A k \in DOMAIN queue.sessions :
          /\ queue.sessions[k].connection_id < next_connection_id
          /\ \A h \in pending : queue.sessions[k].connection_id # h.connection_id

\* The handles a connection holds or is about to hold.
Holds(s) == {s.session, s.begun} \ {NoHandle}

\* What connection state s was told agrees with queue q.
Told(s, q) ==
    s.session # NoHandle /\ Owns(q, s.session) =>
        IF q.sessions[s.session.key].phase = "Waiting"
        THEN ~s.granted_sent /\ s.last_rank > 0
        ELSE s.granted_sent \/ s.last_rank > 0

\* No two connections hold handles of one connection id.
Apart ==
    \A c, d \in Conns :
        c # d => \A g \in Holds(conn[c]), h \in Holds(conn[d]) : g.connection_id # h.connection_id

ConnInv ==
    /\ conn \in [Conns -> ConnState]
    /\ \A c \in Conns : conn[c].session # NoHandle => conn[c].session \in handles
    /\ \A c \in Conns : conn[c].begun # NoHandle => conn[c].begun \in pending
    /\ \A c \in Conns : conn[c].step = "note" => conn[c].session # NoHandle
    /\ \A c \in Conns : \A h \in Holds(conn[c]) : h.connection_id < next_connection_id
    /\ Apart
    /\ \A c \in Conns : Told(conn[c], queue)

LInv == IInv /\ IdsFresh /\ ConnInv

\* The fields of a connection.
LEMMA ConnFields ==
    ASSUME NEW s \in ConnState
    PROVE  /\ s.session \in Handle \cup {NoHandle} /\ s.begun \in Handle \cup {NoHandle}
           /\ s.granted_sent \in BOOLEAN /\ s.last_rank \in Nat /\ s.identity \in Peers
           /\ s.file_hash \in Files \cup {NoFile}
  BY Zenon DEF ConnState

\* What was told to a connection stays true when another handle is used.
LEMMA ToldStays ==
    ASSUME NEW s, NEW q, NEW r, NEW h, Told(s, q), Moves(q, r, h),
           s.session # NoHandle => s.session.connection_id # h.connection_id
    PROVE  Told(s, r)
  <1> SUFFICES ASSUME s.session # NoHandle, Owns(r, s.session)
               PROVE  IF r.sessions[s.session.key].phase = "Waiting"
                      THEN ~s.granted_sent /\ s.last_rank > 0
                      ELSE s.granted_sent \/ s.last_rank > 0
    BY Zenon DEF Told
  <1> DEFINE k == s.session.key
  <1>1. Stays(q, r, k)
    BY Zenon DEF Moves, Owns
  <1>2. Owns(q, s.session)
    BY <1>1, Zenon DEF Stays, Owns
  <1> QED
    BY <1>1, <1>2, Zenon DEF Stays, Told

\* What a peer was told stays true when the sessions stay.
LEMMA ToldStaysAll ==
    ASSUME NEW s, NEW q, NEW r, Told(s, q), StaysAll(q, r)
    PROVE  Told(s, r)
  <1> SUFFICES ASSUME s.session # NoHandle, Owns(r, s.session)
               PROVE  IF r.sessions[s.session.key].phase = "Waiting"
                      THEN ~s.granted_sent /\ s.last_rank > 0
                      ELSE s.granted_sent \/ s.last_rank > 0
    BY Zenon DEF Told
  <1>1. Stays(q, r, s.session.key)
    BY Zenon DEF StaysAll, Owns
  <1>2. Owns(q, s.session)
    BY <1>1, Zenon DEF Stays, Owns
  <1> QED
    BY <1>1, <1>2, Zenon DEF Stays, Told

\* A waiting session has a rank, counted from 1.
LEMMA RankPositive ==
    ASSUME NEW q, NEW t, QTyped(q, t), QLinked(q), NEW k \in DOMAIN q.sessions,
           q.sessions[k].phase = "Waiting", NEW u
    PROVE  rank_for_key(q, k, u) \in Nat /\ rank_for_key(q, k, u) > 0
  <1>1. Ranked(q) = q.waiting_order /\ IsFiniteSet(q.waiting_order)
    BY ActiveFinite, Zenon
  <1>2. k \in Ranked(q)
    BY <1>1 DEF QLinked
  <1>3. Cardinality({j \in Ranked(q) : Outranks(q, u, j, k)}) \in Nat
    BY <1>1, FS_Subset, FS_CardinalityType, Zenon
  <1> QED
    BY <1>2, <1>3 DEF rank_for_key

\* s is a connection that holds what it held and was told what q says.
Replied(s, was, q) ==
    s \in ConnState /\ s.session = was.session /\ s.begun = was.begun /\ Told(s, q)

\* Telling a connection the status of its session makes the two agree.
LEMMA Replies ==
    ASSUME now \in Nat, NEW q, QInv(q, now), NEW s \in ConnState
    PROVE  /\ Replied(send_status(s, StatusOf(q, s.session)), s, q)
           /\ Replied(start_upload_reply(s, StatusOf(q, s.session)), s, q)
  <1> DEFINE h == s.session
             st == StatusOf(q, h)
  <1>0. QTyped(q, now) /\ QLinked(q)
    BY Zenon DEF QInv, QCore
  <1>1. \A n \in Nat : /\ mark_waiting(s, n) \in ConnState
                       /\ mark_waiting(s, n).session = h /\ mark_waiting(s, n).begun = s.begun
                       /\ ~mark_waiting(s, n).granted_sent /\ mark_waiting(s, n).last_rank = n
    BY DEF mark_waiting, ConnState
  <1>2. /\ mark_granted_sent(s) \in ConnState
        /\ mark_granted_sent(s).session = h /\ mark_granted_sent(s).begun = s.begun
        /\ mark_granted_sent(s).granted_sent
    BY Zenon DEF mark_granted_sent, ConnState
  <1>3. CASE Owns(q, h) /\ q.sessions[h.key].phase = "Waiting"
    <2>1. st = [status |-> "Waiting", rank |-> rank_for_key(q, h.key, now)]
      BY <1>3, Zenon DEF StatusOf, status_for_key, Owns
    <2>2. rank_for_key(q, h.key, now) \in Nat /\ rank_for_key(q, h.key, now) > 0
      BY <1>0, <1>3, RankPositive, Zenon DEF Owns
    <2>3. /\ send_status(s, st) = mark_waiting(s, rank_for_key(q, h.key, now))
          /\ start_upload_reply(s, st) = mark_waiting(s, rank_for_key(q, h.key, now))
      BY <2>1 DEF send_status, start_upload_reply
    <2> QED
      BY <1>1, <1>3, <2>2, <2>3 DEF Replied, Told
  <1>4. CASE Owns(q, h) /\ q.sessions[h.key].phase # "Waiting"
    <2>1. st = [status |-> "Granted", rank |-> 0]
      BY <1>4, Zenon DEF StatusOf, status_for_key, Owns
    <2>2. send_status(s, st) = mark_granted_sent(s) /\ start_upload_reply(s, st) = mark_granted_sent(s)
      BY <2>1 DEF send_status, start_upload_reply
    <2> QED
      BY <1>2, <1>4, <2>2, Zenon DEF Replied, Told
  <1>5. CASE ~Owns(q, h)
    <2>1. st = [status |-> "Stale", rank |-> 0]
      BY <1>5, Zenon DEF StatusOf
    <2>2. send_status(s, st) = s /\ start_upload_reply(s, st) = mark_waiting(s, 1)
      BY <2>1 DEF send_status, start_upload_reply
    <2> QED
      BY <1>1, <1>5, <2>2 DEF Replied, Told
  <1> QED
    BY <1>3, <1>4, <1>5, Zenon

-----------------------------------------------------------------------------
(* Steps. *)

\* What a connection holds are handles.
LEMMA HoldsTyped ==
    ASSUME NEW s \in ConnState, NEW h \in Holds(s)
    PROVE  h \in Handle /\ h.connection_id \in Nat /\ h.key \in Key /\ h # NoHandle
  <1>1. h \in Handle /\ h # NoHandle
    BY ConnFields, Zenon DEF Holds
  <1> QED
    BY <1>1, HandleFields, Zenon

\* One connection changes: it was told what the queue says and holds handles no
\* other connection holds; the others are told what they were.
LEMMA OneConn ==
    ASSUME ConnInv, NEW c \in Conns, NEW s \in ConnState, conn' = [conn EXCEPT ![c] = s],
           handles \subseteq handles', next_connection_id \in Nat,
           next_connection_id' \in Nat, next_connection_id <= next_connection_id',
           \A d \in Conns \ {c} : /\ Told(conn[d], queue')
                                  /\ conn[d].begun # NoHandle => conn[d].begun \in pending',
           Told(s, queue'),
           s.session # NoHandle => s.session \in handles',
           s.begun # NoHandle => s.begun \in pending',
           s.step = "note" => s.session # NoHandle,
           \A h \in Holds(s) :
              /\ h.connection_id < next_connection_id'
              /\ \A d \in Conns \ {c} : \A g \in Holds(conn[d]) : g.connection_id # h.connection_id
    PROVE  ConnInv'
  <1>1. conn \in [Conns -> ConnState]
    BY Zenon DEF ConnInv
  <1>2. /\ conn' \in [Conns -> ConnState] /\ conn'[c] = s
        /\ \A d \in Conns \ {c} : conn'[d] = conn[d]
    BY <1>1, Zenon
  <1>3. \A d \in Conns : \A h \in Holds(conn[d]) : h.connection_id < next_connection_id'
    <2> SUFFICES ASSUME NEW d \in Conns, NEW h \in Holds(conn[d])
                 PROVE  h.connection_id < next_connection_id'
      OBVIOUS
    <2>1. h.connection_id \in Nat
      BY <1>1, HoldsTyped, Zenon
    <2> QED
      BY <2>1 DEF ConnInv
  <1>4. \A d \in Conns : \A h \in Holds(conn'[d]) : h.connection_id < next_connection_id'
    BY <1>2, <1>3, Zenon
  <1>5. Apart'
    <2> SUFFICES ASSUME NEW a \in Conns, NEW b \in Conns, a # b,
                        NEW g \in Holds(conn'[a]), NEW h \in Holds(conn'[b])
                 PROVE  g.connection_id # h.connection_id
      BY Zenon DEF Apart, Holds
    <2>1. CASE a = c
      BY <1>2, <2>1, Zenon
    <2>2. CASE b = c
      BY <1>2, <2>2, Zenon
    <2>3. CASE a # c /\ b # c
      BY <1>2, <2>3 DEF ConnInv, Apart
    <2> QED
      BY <2>1, <2>2, <2>3, Zenon
  <1>6. \A d \in Conns : /\ Told(conn'[d], queue')
                         /\ conn'[d].session # NoHandle => conn'[d].session \in handles'
                         /\ conn'[d].begun # NoHandle => conn'[d].begun \in pending'
                         /\ conn'[d].step = "note" => conn'[d].session # NoHandle
    BY <1>2, Zenon DEF ConnInv
  <1>7. /\ \A d \in Conns : Told(conn[d], queue)'
        /\ \A d \in Conns : \A h \in Holds(conn[d])' : h.connection_id < next_connection_id'
    BY <1>4, <1>6, Zenon DEF Told, Holds
  <1> QED
    BY <1>2, <1>5, <1>6, <1>7, Zenon DEF ConnInv

\* The same when the connection holds no handle it did not hold.
LEMMA OneConnSameHandles ==
    ASSUME ConnInv, NEW c \in Conns, NEW s \in ConnState, conn' = [conn EXCEPT ![c] = s],
           UNCHANGED next_connection_id, next_connection_id \in Nat, handles \subseteq handles',
           \A d \in Conns \ {c} : /\ Told(conn[d], queue')
                                  /\ conn[d].begun # NoHandle => conn[d].begun \in pending',
           Told(s, queue'), Holds(s) \subseteq Holds(conn[c]),
           s.session # NoHandle => s.session \in handles',
           s.begun # NoHandle => s.begun \in pending',
           s.step = "note" => s.session # NoHandle
    PROVE  ConnInv'
  <1>1. \A h \in Holds(s) :
           /\ h.connection_id < next_connection_id'
           /\ \A d \in Conns \ {c} : \A g \in Holds(conn[d]) : g.connection_id # h.connection_id
    BY Zenon DEF ConnInv, Apart
  <1>2. next_connection_id' \in Nat /\ next_connection_id <= next_connection_id'
    OBVIOUS
  <1> QED
    BY <1>1, <1>2, OneConn, Zenon

\* Only a drawn id enters the queue, and it leaves the pending ones as it does.
LEMMA FreshStep == IInv /\ IdsFresh /\ [Next]_vars => IdsFresh'
  <1> SUFFICES ASSUME IInv, IdsFresh, [Next]_vars PROVE IdsFresh'
    OBVIOUS
  <1>0. /\ next_connection_id \in Nat /\ now \in Nat /\ QInv(queue, now)
        /\ \A h \in pending : h \in Handle /\ h.connection_id \in Nat
        /\ \A k \in DOMAIN queue.sessions : queue.sessions[k].connection_id \in Nat
    <2>1. \A k \in DOMAIN queue.sessions : queue.sessions[k] \in Entry
      BY QueueFields, Zenon DEF IInv, QInv, QCore, QTyped
    <2> QED
      BY <2>1, HandleFields, EntryFields, Zenon DEF IInv
  <1>1. ASSUME NEW k \in Key, TakeConnectionId(k) PROVE IdsFresh'
    <2> DEFINE h == [key |-> k, connection_id |-> next_connection_id]
    <2>1. /\ pending' = pending \cup {h} /\ h.connection_id = next_connection_id
          /\ queue' = queue /\ next_connection_id' = next_connection_id + 1
      BY <1>1, Zenon DEF TakeConnectionId
    <2> HIDE DEF h
    <2> QED
      BY <1>0, <2>1 DEF IdsFresh
  <1>2. ASSUME NEW h \in pending, BeginUploadSession(h) PROVE IdsFresh'
    <2>1. Moves(queue, queue', h)
      BY <1>0, <1>2, BeginMoves, Zenon DEF BeginUploadSession
    <2>2. pending' = pending \ {h} /\ next_connection_id' = next_connection_id
      BY <1>2, Zenon DEF BeginUploadSession
    <2>3. ASSUME NEW k \in DOMAIN queue'.sessions
          PROVE  /\ queue'.sessions[k].connection_id < next_connection_id
                 /\ \A g \in pending' : queue'.sessions[k].connection_id # g.connection_id
      <3>1. CASE Stays(queue, queue', k)
        BY <2>2, <3>1, Zenon DEF Stays, IdsFresh
      <3>2. CASE queue'.sessions[k].connection_id = h.connection_id
        BY <2>2, <3>2, Zenon DEF IdsFresh
      <3> QED
        BY <2>1, <3>1, <3>2, Zenon DEF Moves
    <2> QED
      BY <2>2, <2>3, Zenon DEF IdsFresh
  <1>3. ASSUME SameOwners(queue, queue'), UNCHANGED <<next_connection_id, pending>> PROVE IdsFresh'
    BY <1>3, Zenon DEF SameOwners, IdsFresh
  <1>4. ASSUME NEW h \in handles, NEW b \in BOOLEAN, PollUploadSession(h, b) PROVE IdsFresh'
    BY <1>0, <1>3, <1>4, PollMoves, Zenon DEF PollUploadSession
  <1>5. ASSUME NEW h \in handles, NoteUploadRequestParts(h) PROVE IdsFresh'
    BY <1>0, <1>3, <1>5, NoteMoves, Zenon DEF NoteUploadRequestParts
  <1>6. ASSUME NEW h \in handles, ReleaseUploadSession(h) PROVE IdsFresh'
    BY <1>0, <1>3, <1>6, ReleaseStays, StaysMoves, Zenon DEF ReleaseUploadSession
  <1>7. CASE Tick \/ UNCHANGED vars
    BY <1>7, Zenon DEF Tick, vars, IdsFresh
  <1> QED
    BY <1>1, <1>2, <1>4, <1>5, <1>6, <1>7, Zenon DEF Next

\* The listener calls the queue only as the queue's specification allows.
LEMMA UsesQueue ==
    ASSUME ConnInv, [LNext]_lvars
    PROVE  [Next]_vars
  <1>0. conn \in [Conns -> ConnState]
    BY Zenon DEF ConnInv
  <1>1. ASSUME NEW c \in Conns, NEW f \in Files, NEW step, CallBegin(c, f, step) PROVE Next
    <2>1. [peer |-> conn[c].identity, file |-> f] \in Key
      BY <1>0, ConnFields, Zenon DEF Key
    <2> QED
      BY <1>1, <2>1, Zenon DEF CallBegin, Next
  <1>2. ASSUME NEW c \in Conns, FinishStartUpload(c) \/ FinishEnsureSession(c) PROVE Next
    BY <1>2, Zenon DEF FinishStartUpload, FinishEnsureSession, BeginUploadSession, Next
  <1>3. ASSUME NEW c \in Conns, StartUploadAgain(c) PROVE Next
    BY <1>3, Zenon DEF StartUploadAgain, ConnInv, Next
  <1>4. ASSUME NEW c \in Conns, NoteRequestParts(c) PROVE Next
    BY <1>4, Zenon DEF NoteRequestParts, ConnInv, Next
  <1>5. ASSUME NEW c \in Conns, ReadTimeout(c) PROVE [Next]_vars
    BY <1>5, Zenon DEF ReadTimeout, ConnInv, Next
  <1>6. ASSUME NEW c \in Conns, Disconnect(c) PROVE [Next]_vars
    BY <1>6, Zenon DEF Disconnect, ConnInv, Next
  <1>7. ASSUME NEW c \in Conns,
               Accept(c) \/ (\E p \in Peers : Hello(c, p)) \/ RequestParts(c) \/ FinishServing(c) \/ Fail(c)
        PROVE  UNCHANGED vars
    BY <1>7, Zenon DEF Accept, Hello, RequestParts, FinishServing, Fail
  <1>8. CASE LTick
    BY <1>8, Zenon DEF LTick, Next
  <1>9. CASE UNCHANGED lvars
    BY <1>9, Zenon DEF lvars
  <1> QED
    BY <1>1, <1>2, <1>3, <1>4, <1>5, <1>6, <1>7, <1>8, <1>9, Zenon DEF LNext

\* A connection that changes without changing what it holds or was told, or
\* that gives up its session.
Settles(s, was) ==
    /\ s \in ConnState
    /\ s.begun = was.begun
    /\ \/ s.session = NoHandle /\ s.step # "note"
       \/ /\ s.session = was.session
          /\ s.granted_sent = was.granted_sent /\ s.last_rank = was.last_rank
          /\ s.step = "note" => s.session # NoHandle

\* A closed connection holds nothing.
LEMMA ClosedSettles ==
    ASSUME NEW s \in ConnState
    PROVE  Settles(Closed(s), s)
  BY Zenon DEF Settles, Closed, ConnState

\* A connection that settles knows no more than before.
LEMMA SettlesTold ==
    ASSUME NEW s, NEW was, NEW q, Settles(s, was), Told(was, q)
    PROVE  Told(s, q) /\ Holds(s) \subseteq Holds(was)
  BY Zenon DEF Settles, Told, Holds

\* The queue is left alone, or reaped and thinned.
LEMMA SettleStep ==
    ASSUME IInv, ConnInv, NEW c \in Conns, NEW s, conn' = [conn EXCEPT ![c] = s],
           Settles(s, conn[c]), StaysAll(queue, queue'),
           UNCHANGED <<next_connection_id, pending, handles>>
    PROVE  ConnInv'
  <1>1. \A d \in Conns : Told(conn[d], queue')
    BY ToldStaysAll, Zenon DEF ConnInv
  <1>2. Told(s, queue') /\ Holds(s) \subseteq Holds(conn[c])
    BY <1>1, SettlesTold, Zenon
  <1>3. /\ s \in ConnState
        /\ s.session # NoHandle => s.session \in handles'
        /\ s.begun # NoHandle => s.begun \in pending'
        /\ s.step = "note" => s.session # NoHandle
    BY Zenon DEF Settles, ConnInv
  <1>4. /\ next_connection_id \in Nat /\ handles \subseteq handles'
        /\ \A d \in Conns \ {c} : /\ Told(conn[d], queue')
                                  /\ conn[d].begun # NoHandle => conn[d].begun \in pending'
    BY <1>1, Zenon DEF IInv, ConnInv
  <1> QED
    BY <1>2, <1>3, <1>4, OneConnSameHandles, Zenon

\* A queue that is left alone keeps its sessions.
LEMMA StaysSelf == \A q : StaysAll(q, q)
  BY Zenon DEF StaysAll, Stays

\* The steps of a connection that do not touch the queue.
LEMMA QuietStep ==
    ASSUME IInv, ConnInv, NEW c \in Conns,
           \/ Accept(c) \/ (\E p \in Peers : Hello(c, p)) \/ RequestParts(c) \/ FinishServing(c)
           \/ Fail(c)
    PROVE  ConnInv'
  <1>0. conn[c] \in ConnState /\ UNCHANGED vars
    BY Zenon DEF ConnInv, Accept, Hello, RequestParts, FinishServing, Fail
  <1>1. StaysAll(queue, queue') /\ UNCHANGED <<next_connection_id, pending, handles>>
    BY <1>0, StaysSelf, Zenon DEF vars
  <1>2. conn[c].step = "note" => conn[c].session # NoHandle
    BY DEF ConnInv
  <1>3. CASE Accept(c)
    <2> DEFINE s == [conn[c] EXCEPT !.status = "open"]
    <2>1. Settles(s, conn[c])
      BY <1>0, <1>2 DEF Settles, ConnState
    <2>2. conn' = [conn EXCEPT ![c] = s]
      BY <1>3 DEF Accept
    <2> QED
      BY <1>1, <2>1, <2>2, SettleStep, Zenon
  <1>4. ASSUME NEW p \in Peers, Hello(c, p) PROVE ConnInv'
    <2> DEFINE s == [conn[c] EXCEPT !.identity = p]
    <2>1. Settles(s, conn[c])
      BY <1>0, <1>2 DEF Settles, ConnState
    <2>2. conn' = [conn EXCEPT ![c] = s]
      BY <1>4 DEF Hello
    <2> QED
      BY <1>1, <2>1, <2>2, SettleStep, Zenon
  <1>5. CASE RequestParts(c)
    <2> DEFINE s == [conn[c] EXCEPT !.step = "note"]
    <2>1. Settles(s, conn[c])
      BY <1>0, <1>5 DEF Settles, ConnState, RequestParts
    <2>2. conn' = [conn EXCEPT ![c] = s]
      BY <1>5 DEF RequestParts
    <2> QED
      BY <1>1, <2>1, <2>2, SettleStep, Zenon
  <1>6. CASE FinishServing(c)
    <2> DEFINE s == [conn[c] EXCEPT !.step = "idle"]
    <2>1. Settles(s, conn[c])
      BY <1>0 DEF Settles, ConnState
    <2>2. conn' = [conn EXCEPT ![c] = s]
      BY <1>6 DEF FinishServing
    <2> QED
      BY <1>1, <2>1, <2>2, SettleStep, Zenon
  <1>7. CASE Fail(c)
    <2>1. conn' = [conn EXCEPT ![c] = Closed(conn[c])]
      BY <1>7 DEF Fail
    <2> QED
      BY <1>0, <1>1, <2>1, ClosedSettles, SettleStep, Zenon
  <1> QED
    BY <1>3, <1>4, <1>5, <1>6, <1>7, Zenon

\* A connection uses its own session: the others' sessions stay, and it is
\* told what the queue then says, or closes.
LEMMA CallStep ==
    ASSUME IInv, ConnInv, NEW c \in Conns, conn[c].session # NoHandle,
           Moves(queue, queue', conn[c].session), UNCHANGED <<next_connection_id, pending, handles>>,
           NEW s, conn' = [conn EXCEPT ![c] = s],
           (Settles(s, conn[c]) /\ s.session = NoHandle) \/ Replied(s, conn[c], queue')
    PROVE  ConnInv'
  <1> DEFINE h == conn[c].session
  <1>0. conn \in [Conns -> ConnState] /\ h \in Holds(conn[c])
    BY DEF ConnInv, Holds
  <1>1. \A d \in Conns \ {c} : Told(conn[d], queue')
    <2> SUFFICES ASSUME NEW d \in Conns \ {c} PROVE Told(conn[d], queue')
      OBVIOUS
    <2>1. conn[d].session # NoHandle => conn[d].session.connection_id # h.connection_id
      BY <1>0, Zenon DEF ConnInv, Apart, Holds
    <2> QED
      BY <2>1, ToldStays, Zenon DEF ConnInv
  <1>2. /\ s \in ConnState /\ Told(s, queue') /\ Holds(s) \subseteq Holds(conn[c])
        /\ s.session # NoHandle => s.session \in handles'
        /\ s.begun # NoHandle => s.begun \in pending'
        /\ s.step = "note" => s.session # NoHandle
    BY Zenon DEF Settles, Replied, Told, Holds, ConnInv
  <1>3. /\ next_connection_id \in Nat /\ handles \subseteq handles'
        /\ \A d \in Conns \ {c} : /\ Told(conn[d], queue')
                                  /\ conn[d].begun # NoHandle => conn[d].begun \in pending'
    BY <1>1 DEF IInv, ConnInv
  <1> QED
    BY <1>2, <1>3, OneConnSameHandles, Zenon

\* A repeated OP_STARTUPLOADREQ polls the session.
LEMMA StartAgainStep ==
    ASSUME IInv, IInv', ConnInv, NEW c \in Conns, StartUploadAgain(c)
    PROVE  ConnInv'
  <1> DEFINE h == conn[c].session
             s == start_upload_reply(conn[c], StatusOf(queue', h))
  <1>1. /\ conn[c] \in ConnState /\ h # NoHandle /\ now \in Nat /\ QInv(queue, now)
        /\ queue' \in poll_session(queue, h, now, TRUE)
        /\ now' = now /\ UNCHANGED <<next_connection_id, pending, handles>>
        /\ conn' = [conn EXCEPT ![c] = s]
    BY Zenon DEF ConnInv, IInv, StartUploadAgain, PollUploadSession
  <1>2. QInv(queue', now)
    BY <1>1 DEF IInv
  <1>3. Replied(s, conn[c], queue')
    BY <1>1, <1>2, Replies
  <1>4. Moves(queue, queue', h)
    BY <1>1, PollMoves, Zenon
  <1> HIDE DEF s
  <1> QED
    BY <1>1, <1>3, <1>4, CallStep, Zenon

\* A read timeout polls the session and tells the peer of a change.
LEMMA TimeoutStep ==
    ASSUME IInv, IInv', ConnInv, NEW c \in Conns, ReadTimeout(c)
    PROVE  ConnInv'
  <1> DEFINE h == conn[c].session
             st == StatusOf(queue', h)
             s == IF st.status = "Stale" THEN Closed(conn[c]) ELSE send_status(conn[c], st)
  <1>0. conn[c] \in ConnState /\ now \in Nat /\ QInv(queue, now)
    BY DEF ConnInv, IInv
  <1>1. CASE h = NoHandle
    <2>1. conn' = [conn EXCEPT ![c] = Closed(conn[c])] /\ UNCHANGED vars
      BY <1>1 DEF ReadTimeout
    <2> QED
      BY <1>0, <2>1, ClosedSettles, SettleStep, StaysSelf, Zenon DEF vars
  <1>2. CASE h # NoHandle
    <2>1. /\ queue' \in poll_session(queue, h, now, TRUE)
          /\ now' = now /\ UNCHANGED <<next_connection_id, pending, handles>>
          /\ conn' = [conn EXCEPT ![c] = s]
      BY <1>2, Zenon DEF ReadTimeout, PollUploadSession
    <2>2. QInv(queue', now)
      BY <2>1 DEF IInv
    <2>3. Replied(send_status(conn[c], st), conn[c], queue')
      BY <1>0, <2>2, Replies
    <2>4. Settles(Closed(conn[c]), conn[c]) /\ Closed(conn[c]).session = NoHandle
      BY <1>0, ClosedSettles, Zenon DEF Closed, ConnState
    <2>5. Moves(queue, queue', h)
      BY <1>0, <2>1, PollMoves, Zenon
    <2>6. (Settles(s, conn[c]) /\ s.session = NoHandle) \/ Replied(s, conn[c], queue')
      BY <2>3, <2>4
    <2> HIDE DEF s
    <2> QED
      BY <1>2, <2>1, <2>5, <2>6, CallStep, Zenon
  <1> QED
    BY <1>1, <1>2

\* A request for parts marks the session active and learns its state.
LEMMA NoteStep ==
    ASSUME IInv, IInv', ConnInv, NEW c \in Conns, NoteRequestParts(c)
    PROVE  ConnInv'
  <1> DEFINE h == conn[c].session
             st == StatusOf(queue', h)
             next == IF st.status = "Granted" THEN "serving" ELSE "idle"
             was == [conn[c] EXCEPT !.step = next]
             s == IF st.status = "Stale" THEN Closed(conn[c]) ELSE send_status(was, st)
  <1>0. conn[c] \in ConnState /\ now \in Nat /\ QInv(queue, now) /\ h # NoHandle
    BY DEF ConnInv, IInv, NoteRequestParts
  <1>1. /\ queue' \in note_request_parts(queue, h, now)
        /\ now' = now /\ UNCHANGED <<next_connection_id, pending, handles>>
        /\ conn' = [conn EXCEPT ![c] = s]
    BY Zenon DEF NoteRequestParts, NoteUploadRequestParts
  <1>2. QInv(queue', now)
    BY <1>1, Zenon DEF IInv
  <1>3. was \in ConnState /\ was.session = h /\ was.begun = conn[c].begun
    BY <1>0, Zenon DEF ConnState
  <1> HIDE DEF was
  <1>4. Replied(send_status(was, st), was, queue')
    BY <1>0, <1>2, <1>3, Replies, Zenon
  <1>5. Replied(send_status(was, st), conn[c], queue')
    BY <1>3, <1>4, Zenon DEF Replied
  <1>6. Settles(Closed(conn[c]), conn[c]) /\ Closed(conn[c]).session = NoHandle
    BY <1>0, ClosedSettles, Zenon DEF Closed, ConnState
  <1>7. Moves(queue, queue', h)
    BY <1>0, <1>1, NoteMoves, Zenon
  <1>8. (Settles(s, conn[c]) /\ s.session = NoHandle) \/ Replied(s, conn[c], queue')
    BY <1>5, <1>6, Zenon
  <1> HIDE DEF s
  <1> QED
    BY <1>0, <1>1, <1>7, <1>8, CallStep, Zenon

\* A connection that ends releases its session.
LEMMA DisconnectStep ==
    ASSUME IInv, ConnInv, NEW c \in Conns, Disconnect(c)
    PROVE  ConnInv'
  <1>1. /\ conn[c] \in ConnState /\ now \in Nat /\ QInv(queue, now)
        /\ conn' = [conn EXCEPT ![c] = Closed(conn[c])]
    BY DEF ConnInv, IInv, Disconnect
  <1>2. StaysAll(queue, queue') /\ UNCHANGED <<next_connection_id, pending, handles>>
    BY <1>1, ReleaseStays, StaysSelf DEF Disconnect, ReleaseUploadSession, vars
  <1> QED
    BY <1>1, <1>2, ClosedSettles, SettleStep, Zenon

\* A connection id is drawn: nobody holds it yet.
LEMMA CallBeginStep ==
    ASSUME IInv, ConnInv, NEW c \in Conns, NEW f \in Files, NEW step \in {"begin_start", "begin_parts"},
           CallBegin(c, f, step)
    PROVE  ConnInv'
  <1> DEFINE h == [key |-> [peer |-> conn[c].identity, file |-> f],
                   connection_id |-> next_connection_id]
             s == [conn[c] EXCEPT !.step = step, !.begun = h]
  <1>0. conn \in [Conns -> ConnState] /\ conn[c] \in ConnState /\ next_connection_id \in Nat
    BY Zenon DEF ConnInv, IInv
  <1>1. h \in Handle /\ h.connection_id = next_connection_id
    BY <1>0, ConnFields, Zenon DEF Handle, Key
  <1>2. /\ conn' = [conn EXCEPT ![c] = s]
        /\ next_connection_id' = next_connection_id + 1 /\ pending' = pending \cup {h}
        /\ queue' = queue /\ handles' = handles
    BY Zenon DEF CallBegin, TakeConnectionId
  <1> HIDE DEF h
  <1>3. /\ s \in ConnState /\ s.session = conn[c].session /\ s.begun = h /\ s.step # "note"
        /\ s.granted_sent = conn[c].granted_sent /\ s.last_rank = conn[c].last_rank
    BY <1>0, <1>1, Zenon DEF ConnState
  <1> HIDE DEF s
  <1>4. Told(s, queue')
    BY <1>2, <1>3, Zenon DEF Told, ConnInv
  <1>5. \A d \in Conns \ {c} : /\ Told(conn[d], queue')
                               /\ conn[d].begun # NoHandle => conn[d].begun \in pending'
    BY <1>2, Zenon DEF ConnInv
  <1>6. \A g \in Holds(s) :
           /\ g.connection_id < next_connection_id'
           /\ \A d \in Conns \ {c} : \A i \in Holds(conn[d]) : i.connection_id # g.connection_id
    <2> SUFFICES ASSUME NEW g \in Holds(s)
                 PROVE  /\ g.connection_id < next_connection_id'
                        /\ \A d \in Conns \ {c} : \A i \in Holds(conn[d]) : i.connection_id # g.connection_id
      OBVIOUS
    <2>1. CASE g = h
      <3>1. \A d \in Conns \ {c} : \A i \in Holds(conn[d]) : i.connection_id < next_connection_id
        BY DEF ConnInv
      <3>2. \A d \in Conns \ {c} : \A i \in Holds(conn[d]) : i.connection_id \in Nat
        BY <1>0, HoldsTyped, Zenon
      <3> QED
        BY <1>0, <1>1, <1>2, <2>1, <3>1, <3>2
    <2>2. CASE g \in Holds(conn[c])
      <3>1. g.connection_id \in Nat /\ g.connection_id < next_connection_id
        BY <1>0, <2>2, HoldsTyped, Zenon DEF ConnInv
      <3> QED
        BY <1>0, <1>2, <2>2, <3>1 DEF ConnInv, Apart
    <2> QED
      BY <1>3, <2>1, <2>2, Zenon DEF Holds
  <1>7. /\ s.session # NoHandle => s.session \in handles'
        /\ s.begun # NoHandle => s.begun \in pending'
    BY <1>2, <1>3, Zenon DEF ConnInv
  <1>8. /\ next_connection_id' \in Nat /\ next_connection_id <= next_connection_id'
        /\ handles \subseteq handles'
    BY <1>0, <1>2
  <1> QED
    BY <1>0, <1>2, <1>3, <1>4, <1>5, <1>6, <1>7, <1>8, OneConn, Zenon

\* begin_upload_session returns: the drawn handle is the connection's session.
LEMMA BegunStep ==
    ASSUME IInv, IInv', ConnInv, NEW c \in Conns, BeginUploadSession(conn[c].begun),
           NEW s, conn' = [conn EXCEPT ![c] = s], NEW was, was.session = conn[c].begun,
           was.begun = NoHandle, Replied(s, was, queue')
    PROVE  ConnInv'
  <1> DEFINE h == conn[c].begun
  <1>0. /\ conn \in [Conns -> ConnState] /\ next_connection_id \in Nat /\ now \in Nat
        /\ QInv(queue, now)
    BY Zenon DEF ConnInv, IInv
  <1>1. /\ h \in pending /\ h \in Handle /\ h # NoHandle /\ h \in Holds(conn[c])
        /\ queue' \in begin_session(queue, h, now) /\ pending' = pending \ {h}
        /\ handles' = handles \cup {h} /\ next_connection_id' = next_connection_id
    <2>1. h \in pending /\ pending \subseteq Handle
      BY Zenon DEF BeginUploadSession, IInv
    <2> QED
      BY <2>1, ListenerAssumption, Zenon DEF BeginUploadSession, Holds
  <1>2. Moves(queue, queue', h)
    BY <1>0, <1>1, BeginMoves, Zenon
  <1>3. \A d \in Conns \ {c} : \A g \in Holds(conn[d]) : g.connection_id # h.connection_id
    BY <1>1, Zenon DEF ConnInv, Apart
  <1>4. \A d \in Conns \ {c} : /\ Told(conn[d], queue')
                               /\ conn[d].begun # NoHandle => conn[d].begun \in pending'
    <2> SUFFICES ASSUME NEW d \in Conns \ {c}
                 PROVE  /\ Told(conn[d], queue')
                        /\ conn[d].begun # NoHandle => conn[d].begun \in pending'
      OBVIOUS
    <2>1. conn[d].session # NoHandle => conn[d].session.connection_id # h.connection_id
      BY <1>3, Zenon DEF Holds
    <2>2. conn[d].begun # NoHandle => conn[d].begun # h
      BY <1>3, Zenon DEF Holds
    <2> QED
      BY <1>1, <1>2, <2>1, <2>2, ToldStays, Zenon DEF ConnInv
  <1>5. /\ s \in ConnState /\ Told(s, queue') /\ s.session = h /\ s.begun = NoHandle
        /\ Holds(s) \subseteq Holds(conn[c])
    BY <1>1, Zenon DEF Replied, Holds
  <1>6. /\ s.session # NoHandle => s.session \in handles'
        /\ s.begun # NoHandle => s.begun \in pending'
        /\ s.step = "note" => s.session # NoHandle
        /\ handles \subseteq handles'
    BY <1>1, <1>5, Zenon
  <1> QED
    BY <1>0, <1>1, <1>4, <1>5, <1>6, OneConnSameHandles, Zenon

\* A connection that has its session.
LEMMA BegunTyped ==
    ASSUME NEW s \in ConnState, s.begun \in Handle, NEW step \in {"idle", "note"}
    PROVE  /\ Begun(s, step) \in ConnState
           /\ Begun(s, step).session = s.begun /\ Begun(s, step).begun = NoHandle
  <1>1. s.begun.key.file \in Files
    BY HandleFields DEF Key
  <1> QED
    BY <1>1, Zenon DEF Begun, ConnState

\* The second half of begin_upload_session: the id drawn before the lock is
\* used under it.
LEMMA FinishStep ==
    ASSUME IInv, IInv', ConnInv, NEW c \in Conns, FinishStartUpload(c) \/ FinishEnsureSession(c)
    PROVE  ConnInv'
  <1> DEFINE h == conn[c].begun
             st == StatusOf(queue', h)
  <1>0. /\ conn[c] \in ConnState /\ now \in Nat /\ h \in Handle /\ BeginUploadSession(h)
        /\ QInv(queue', now)
    <2>1. BeginUploadSession(h)
      BY DEF FinishStartUpload, FinishEnsureSession
    <2>2. h \in pending /\ now' = now
      BY <2>1, Zenon DEF BeginUploadSession
    <2> QED
      BY <2>1, <2>2 DEF ConnInv, IInv
  <1>1. CASE FinishStartUpload(c)
    <2> DEFINE was == Begun(conn[c], "idle")
    <2>1. was \in ConnState /\ was.session = h /\ was.begun = NoHandle
      BY <1>0, BegunTyped
    <2>2. conn' = [conn EXCEPT ![c] = start_upload_reply(was, st)]
      BY <1>1 DEF FinishStartUpload
    <2> HIDE DEF was
    <2>3. Replied(start_upload_reply(was, st), was, queue')
      BY <1>0, <2>1, Replies
    <2> QED
      BY <1>0, <2>1, <2>2, <2>3, BegunStep, Zenon
  <1>2. CASE FinishEnsureSession(c)
    <2> DEFINE next == IF st.status = "Granted" THEN "note" ELSE "idle"
               begun == Begun(conn[c], next)
               was == [begun EXCEPT !.granted_sent = FALSE]
    <2>1. begun \in ConnState /\ begun.session = h /\ begun.begun = NoHandle
      BY <1>0, BegunTyped
    <2>2. conn' = [conn EXCEPT ![c] = send_status(was, st)]
      BY <1>2 DEF FinishEnsureSession
    <2> HIDE DEF begun
    <2>3. was \in ConnState /\ was.session = h /\ was.begun = NoHandle
      BY <2>1, Zenon DEF ConnState
    <2> HIDE DEF was
    <2>4. Replied(send_status(was, st), was, queue')
      BY <1>0, <2>3, Replies
    <2> QED
      BY <1>0, <2>2, <2>3, <2>4, BegunStep, Zenon
  <1> QED
    BY <1>1, <1>2

\* Every step keeps the invariant of the connections.
LEMMA ConnStep ==
    ASSUME IInv, IInv', ConnInv, [LNext]_lvars
    PROVE  ConnInv'
  <1>1. CASE LTick \/ UNCHANGED lvars
    <2>1. UNCHANGED <<conn, queue, next_connection_id, pending, handles>>
      BY <1>1, Zenon DEF LTick, Tick, lvars, vars
    <2> QED
      BY <2>1 DEF ConnInv, Apart, Holds, Told
  <1> QED
    BY <1>1, QuietStep, StartAgainStep, TimeoutStep, NoteStep, DisconnectStep, CallBeginStep,
       FinishStep DEF LNext

\* Every step keeps the whole invariant.
LEMMA LInvStep == LInv /\ [LNext]_lvars => LInv'
  <1> SUFFICES ASSUME IInv, IdsFresh, ConnInv, [LNext]_lvars PROVE LInv'
    BY DEF LInv
  <1>1. [Next]_vars
    BY UsesQueue, Zenon
  <1> QED
    BY <1>1, NextIInv, FreshStep, ConnStep, Zenon DEF LInv

\* The invariant holds before the first connection.
LEMMA LInvInit == LInit => LInv
  <1> SUFFICES ASSUME LInit PROVE LInv
    OBVIOUS
  <1>1. Init /\ IInv
    BY InitIInv, Zenon DEF LInit
  <1>2. IdsFresh
    BY <1>1, Zenon DEF Init, IdsFresh
  <1>3. \A c \in Conns : /\ conn[c] \in ConnState /\ conn[c].session = NoHandle
                         /\ conn[c].begun = NoHandle /\ conn[c].step = "idle"
    <2> SUFFICES ASSUME NEW c \in Conns
                 PROVE  /\ conn[c] \in ConnState /\ conn[c].session = NoHandle
                        /\ conn[c].begun = NoHandle /\ conn[c].step = "idle"
      OBVIOUS
    <2>1. PICK p \in Peers :
             conn[c] = [status |-> "new", step |-> "idle", identity |-> p,
                        session |-> NoHandle, begun |-> NoHandle, file_hash |-> NoFile,
                        granted_sent |-> FALSE, last_rank |-> 0]
      BY Zenon DEF LInit
    <2> QED
      BY <2>1 DEF ConnState
  <1>4. conn \in [Conns -> ConnState]
    BY <1>3 DEF LInit
  <1> QED
    BY <1>1, <1>2, <1>3, <1>4, Zenon DEF LInv, ConnInv, Apart, Holds, Told

\* The invariant of queue and connections holds throughout.
THEOREM ListenerInductive == LSpec => []LInv
  BY LInvInit, LInvStep, PTL DEF LSpec

\* The listener uses the queue as the queue's specification allows, so that the
\* theorems about the queue hold of the queue the connections share.
THEOREM ListenerUsesQueue == LSpec => Spec
  <1>1. LInv /\ [LNext]_lvars => [Next]_vars
    BY UsesQueue, Zenon DEF LInv
  <1>2. LInit => Init
    BY DEF LInit
  <1> QED
    BY <1>1, <1>2, ListenerInductive, PTL DEF LSpec, Spec

\* While a connection owns its session, what its peer was told agrees with the
\* queue, whatever the other connections did in between.
THEOREM AnswersAlwaysMatch == LSpec => []AnswerMatchesQueue
  <1>1. LInv => AnswerMatchesQueue
    BY Zenon DEF LInv, ConnInv, Told, AnswerMatchesQueue
  <1> QED
    BY <1>1, ListenerInductive, PTL

\* The handle a connection used is the one session a step may refresh.
LEMMA OrphansStep ==
    ASSUME IInv, IdsFresh, ConnInv, [LNext]_lvars,
           NEW k \in DOMAIN queue.sessions, k \in DOMAIN queue'.sessions,
           ~Held([key |-> k, connection_id |-> queue.sessions[k].connection_id]),
           queue'.sessions[k].connection_id = queue.sessions[k].connection_id
    PROVE  \/ queue'.sessions[k].last_activity = queue.sessions[k].last_activity
           \/ queue.sessions[k].phase = "Waiting" /\ queue'.sessions[k].phase = "Granted"
  <1>0. now \in Nat /\ QInv(queue, now) /\ conn \in [Conns -> ConnState]
    BY Zenon DEF IInv, ConnInv
  <1>1. SUFFICES Stays(queue, queue', k)
    BY Zenon DEF Stays
  <1>2. CASE StaysAll(queue, queue')
    BY <1>2, Zenon DEF StaysAll
  <1>3. ASSUME NEW c \in Conns, conn[c].session # NoHandle, Moves(queue, queue', conn[c].session)
        PROVE  Stays(queue, queue', k)
    <2>1. conn[c].session \in Handle
      BY <1>0, <1>3, ConnFields, Zenon
    <2>2. conn[c].session = [key |-> conn[c].session.key, connection_id |-> conn[c].session.connection_id]
      BY <2>1, Zenon DEF Handle
    <2> QED
      BY <1>3, <2>2, Zenon DEF Moves, Held
  <1>4. ASSUME NEW c \in Conns, BeginUploadSession(conn[c].begun)
        PROVE  Stays(queue, queue', k)
    <2>1. Moves(queue, queue', conn[c].begun) /\ conn[c].begun \in pending
      BY <1>0, <1>4, BeginMoves, Zenon DEF BeginUploadSession, IInv
    <2>2. queue.sessions[k].connection_id # conn[c].begun.connection_id
      BY <2>1, Zenon DEF IdsFresh
    <2> QED
      BY <2>1, <2>2, Zenon DEF Moves
  <1>5. CASE queue' = queue
    BY <1>2, <1>5, StaysSelf, Zenon
  <1>6. ASSUME NEW c \in Conns, StartUploadAgain(c) \/ ReadTimeout(c) PROVE Stays(queue, queue', k)
    BY <1>0, <1>3, <1>5, <1>6, PollMoves, Zenon DEF StartUploadAgain, ReadTimeout, PollUploadSession, vars
  <1>7. ASSUME NEW c \in Conns, NoteRequestParts(c) PROVE Stays(queue, queue', k)
    BY <1>0, <1>3, <1>7, NoteMoves DEF NoteRequestParts, NoteUploadRequestParts, ConnInv
  <1>8. ASSUME NEW c \in Conns, Disconnect(c) PROVE Stays(queue, queue', k)
    BY <1>0, <1>2, <1>5, <1>8, ReleaseStays DEF Disconnect, ReleaseUploadSession, vars
  <1>9. ASSUME NEW c \in Conns, FinishStartUpload(c) \/ FinishEnsureSession(c)
        PROVE  Stays(queue, queue', k)
    BY <1>4, <1>9, Zenon DEF FinishStartUpload, FinishEnsureSession
  <1>10. ASSUME NEW c \in Conns,
                \/ Accept(c) \/ (\E p \in Peers : Hello(c, p)) \/ RequestParts(c) \/ FinishServing(c)
                \/ Fail(c) \/ \E f \in Files, step \in {"begin_start", "begin_parts"} : CallBegin(c, f, step)
         PROVE  Stays(queue, queue', k)
    BY <1>5, <1>10, Zenon DEF Accept, Hello, RequestParts, FinishServing, Fail, CallBegin, TakeConnectionId, vars
  <1>11. CASE LTick \/ UNCHANGED lvars
    BY <1>5, <1>11, Zenon DEF LTick, Tick, lvars, vars
  <1> QED
    BY <1>6, <1>7, <1>8, <1>9, <1>10, <1>11, Zenon DEF LNext

\* A session no connection holds is never refreshed: only its promotion restarts
\* its idle clock, so that reaping gets to it.
THEOREM OrphansAlwaysAge == LSpec => OrphansAgeOut
  <1>1. ASSUME LInv, [LNext]_lvars,
               NEW k \in DOMAIN queue.sessions, k \in DOMAIN queue'.sessions,
               ~Held([key |-> k, connection_id |-> queue.sessions[k].connection_id]),
               queue'.sessions[k].connection_id = queue.sessions[k].connection_id
        PROVE  \/ queue'.sessions[k].last_activity = queue.sessions[k].last_activity
               \/ queue.sessions[k].phase = "Waiting" /\ queue'.sessions[k].phase = "Granted"
    BY <1>1, OrphansStep, Zenon DEF LInv
  <1>2. LInv /\ [LNext]_lvars =>
          \A k \in DOMAIN queue.sessions :
             LET before == queue.sessions[k]
                 after == queue'.sessions[k]
             IN  /\ ~Held([key |-> k, connection_id |-> before.connection_id])
                 /\ k \in DOMAIN queue'.sessions
                 /\ after.waiting_sequence = before.waiting_sequence
                 /\ after.connection_id = before.connection_id
                 => \/ after.last_activity = before.last_activity
                    \/ before.phase = "Waiting" /\ after.phase = "Granted"
    BY <1>1, Zenon
  <1> QED
    BY <1>2, ListenerInductive, PTL DEF LSpec, OrphansAgeOut
=============================================================================
