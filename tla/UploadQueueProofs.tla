------------------------- MODULE UploadQueueProofs -------------------------
(***************************************************************************)
(* Proofs about the upload queue for every set of peers and files and      *)
(* every queue policy.  The inductive invariant is the conjunction of the  *)
(* invariants of module UploadQueue with the finiteness of the session     *)
(* map.  It is stated for an arbitrary queue and time, so that each        *)
(* operator of the queue gets one lemma: what it preserves and what it     *)
(* establishes.                                                            *)
(*                                                                         *)
(* The second half is about the queue's action properties: what one call   *)
(* may never do to the peers that are in the queue.  A session is followed *)
(* by its peer, because begin_session may move it to another key.  Evolves *)
(* says where the sessions of a queue come from and by what right they     *)
(* became active; every operator satisfies it, and the four action         *)
(* properties follow from it and from what the operator lets go.           *)
(***************************************************************************)
EXTENDS UploadQueue, FiniteSetTheorems, TLAPS

\* The typing part of the invariant, for queue q at time t.
QTyped(q, t) ==
    /\ IsQueue(q)
    /\ IsFiniteSet(DOMAIN q.sessions)
    /\ \A k \in DOMAIN q.sessions :
          q.sessions[k].queued_at <= t /\ q.sessions[k].last_activity <= t

\* The parts of the invariant that no operator ever breaks.
QLinked(q) ==
    /\ q.waiting_order = {k \in DOMAIN q.sessions : q.sessions[k].phase = "Waiting"}
    /\ \A j, k \in DOMAIN q.sessions : j.peer = k.peer => j = k
    /\ \A k \in DOMAIN q.sessions :
          q.sessions[k].waiting_sequence < q.next_waiting_sequence
    /\ \A j, k \in DOMAIN q.sessions :
          q.sessions[j].waiting_sequence = q.sessions[k].waiting_sequence => j = k

QSlots(q) == Cardinality(Active(q)) <= ActiveSlots
QBusy(q) == q.waiting_order # {} => Cardinality(Active(q)) = ActiveSlots
QRoom(q) == Cardinality(q.waiting_order) <= WaitingCapacity

QCore(q, t) == QTyped(q, t) /\ QLinked(q) /\ QSlots(q)
QInv(q, t) == QCore(q, t) /\ QBusy(q) /\ QRoom(q)

-----------------------------------------------------------------------------
(* What the typing says about the fields of a queue. *)

\* A typed queue has a session map on keys, a set of keys and a number.
LEMMA QueueFields ==
    ASSUME NEW q, IsQueue(q)
    PROVE  /\ DOMAIN q.sessions \subseteq Key
           /\ q.sessions \in [DOMAIN q.sessions -> Entry]
           /\ q.waiting_order \subseteq Key
           /\ q.next_waiting_sequence \in Nat
  BY Zenon DEF IsQueue

\* Every field of a session entry has the type of its Rust field.
LEMMA EntryFields ==
    ASSUME NEW e \in Entry
    PROVE  /\ e.phase \in Phase
           /\ e.connection_id \in Nat
           /\ e.queued_at \in Nat
           /\ e.last_activity \in Nat
           /\ e.waiting_sequence \in Nat
  BY Zenon DEF Entry

\* A queue assembled from well-typed parts (With, AdmitAs) is well typed.
LEMMA MakeQueue ==
    ASSUME NEW D, NEW s, D \subseteq Key, s \in [D -> Entry],
           NEW w, w \subseteq Key, NEW n \in Nat
    PROVE  IsQueue([sessions |-> s, waiting_order |-> w, next_waiting_sequence |-> n])
  BY Zenon DEF IsQueue

\* The active and the waiting sessions partition a finite session map.
LEMMA ActiveFinite ==
    ASSUME NEW q, NEW t, QTyped(q, t), QLinked(q)
    PROVE  /\ IsFiniteSet(Active(q)) /\ Cardinality(Active(q)) \in Nat
           /\ IsFiniteSet(q.waiting_order) /\ Cardinality(q.waiting_order) \in Nat
           /\ Ranked(q) = q.waiting_order
           /\ Active(q) = DOMAIN q.sessions \ q.waiting_order
           /\ q.waiting_order \subseteq DOMAIN q.sessions
  <1>1. Active(q) \subseteq DOMAIN q.sessions /\ q.waiting_order \subseteq DOMAIN q.sessions
    BY Zenon DEF Active, QLinked
  <1>2. IsFiniteSet(Active(q)) /\ IsFiniteSet(q.waiting_order)
    BY <1>1, FS_Subset, Zenon DEF QTyped
  <1>3. Ranked(q) = q.waiting_order
    BY Zenon DEF Ranked, QLinked
  <1>4. Active(q) = DOMAIN q.sessions \ q.waiting_order
    BY QueueFields, EntryFields DEF Active, QTyped, QLinked, Phase
  <1> QED
    BY <1>1, <1>2, <1>3, <1>4, FS_CardinalityType, Zenon

-----------------------------------------------------------------------------
(* Removal. *)

\* What is left of a queue once the sessions K are removed by a reap or a trim.
LEMMA DropFields ==
    ASSUME NEW q, IsQueue(q), NEW K
    PROVE  /\ IsQueue(Drop(q, K))
           /\ Drop(q, K).sessions = [k \in DOMAIN q.sessions \ K |-> q.sessions[k]]
           /\ Drop(q, K).waiting_order = q.waiting_order \ K
           /\ Drop(q, K).next_waiting_sequence = q.next_waiting_sequence
  <1> DEFINE s == [k \in DOMAIN q.sessions \ K |-> q.sessions[k]]
  <1>1. Drop(q, K) = [sessions |-> s, waiting_order |-> q.waiting_order \ K,
                      next_waiting_sequence |-> q.next_waiting_sequence]
    BY Zenon DEF Drop, With
  <1>2. s \in [DOMAIN q.sessions \ K -> Entry]
    BY QueueFields, Zenon
  <1>3. IsQueue(Drop(q, K))
    BY <1>1, <1>2, MakeQueue, QueueFields
  <1> QED
    BY <1>1, <1>3

\* Removing sessions keeps the core, and the waiting list within its room.
LEMMA DropKeeps ==
    ASSUME NEW q, NEW t, QCore(q, t), NEW K
    PROVE  /\ QCore(Drop(q, K), t)
           /\ QRoom(q) => QRoom(Drop(q, K))
  <1> DEFINE d == Drop(q, K)
  <1>0. IsQueue(q) /\ QTyped(q, t) /\ QLinked(q) /\ QSlots(q)
    BY Zenon DEF QCore, QTyped
  <1>1. /\ IsQueue(d)
        /\ d.sessions = [k \in DOMAIN q.sessions \ K |-> q.sessions[k]]
        /\ d.waiting_order = q.waiting_order \ K
        /\ d.next_waiting_sequence = q.next_waiting_sequence
    BY <1>0, DropFields, Zenon
  <1> HIDE DEF d
  <1>2. DOMAIN d.sessions = DOMAIN q.sessions \ K
    BY <1>1, Zenon
  <1>3. QTyped(d, t)
    <2>1. IsFiniteSet(DOMAIN d.sessions)
      BY <1>0, <1>2, FS_Subset, Zenon DEF QTyped
    <2> QED
      BY <2>1, <1>0, <1>1, <1>2, Zenon DEF QTyped
  <1>4. QLinked(d)
    BY <1>0, <1>1, <1>2 DEF QLinked
  <1>5. QSlots(d)
    <2>1. Active(d) \subseteq Active(q)
      BY <1>1, <1>2, Zenon DEF Active
    <2>2. Cardinality(Active(d)) \in Nat /\ Cardinality(Active(d)) <= Cardinality(Active(q))
      BY <2>1, <1>0, <1>3, <1>4, ActiveFinite, FS_Subset, Zenon
    <2> QED
      BY <2>2, <1>0, ActiveFinite, PolicyAssumption DEF QSlots
  <1>6. QRoom(q) => QRoom(d)
    <2>1. d.waiting_order \subseteq q.waiting_order
      BY <1>1, Zenon
    <2>2. Cardinality(d.waiting_order) \in Nat
          /\ Cardinality(d.waiting_order) <= Cardinality(q.waiting_order)
      BY <2>1, <1>0, <1>3, <1>4, ActiveFinite, FS_Subset, Zenon
    <2> QED
      BY <2>2, <1>0, ActiveFinite, PolicyAssumption DEF QRoom
  <1> QED
    BY <1>3, <1>4, <1>5, <1>6, Zenon DEF QCore, d

-----------------------------------------------------------------------------
(* Promotion. *)

\* What promote_waiters changes: the phase and the activity time of P, no more.
LEMMA GrantFields ==
    ASSUME NEW q, IsQueue(q), NEW P, NEW t \in Nat
    PROVE  /\ IsQueue(Grant(q, P, t))
           /\ DOMAIN Grant(q, P, t).sessions = DOMAIN q.sessions
           /\ \A k \in DOMAIN q.sessions \ P : Grant(q, P, t).sessions[k] = q.sessions[k]
           /\ \A k \in DOMAIN q.sessions \cap P :
                 /\ Grant(q, P, t).sessions[k].phase = "Granted"
                 /\ Grant(q, P, t).sessions[k].last_activity = t
                 /\ Grant(q, P, t).sessions[k].queued_at = q.sessions[k].queued_at
                 /\ Grant(q, P, t).sessions[k].waiting_sequence = q.sessions[k].waiting_sequence
           /\ Grant(q, P, t).waiting_order = q.waiting_order \ P
           /\ Grant(q, P, t).next_waiting_sequence = q.next_waiting_sequence
  <1> DEFINE G(e) == [e EXCEPT !.phase = "Granted", !.last_activity = t]
             s == [k \in DOMAIN q.sessions |-> IF k \in P THEN G(q.sessions[k])
                                                         ELSE q.sessions[k]]
  <1>1. Grant(q, P, t) = [sessions |-> s, waiting_order |-> q.waiting_order \ P,
                          next_waiting_sequence |-> q.next_waiting_sequence]
    BY Zenon DEF Grant, With
  <1>2. \A e \in Entry : /\ G(e) \in Entry
                          /\ G(e).phase = "Granted" /\ G(e).last_activity = t
                          /\ G(e).queued_at = e.queued_at
                          /\ G(e).waiting_sequence = e.waiting_sequence
    BY Zenon DEF Entry, Phase
  <1> HIDE DEF G
  <1>3. s \in [DOMAIN q.sessions -> Entry]
    BY <1>2, QueueFields, Zenon
  <1>4. IsQueue(Grant(q, P, t))
    BY <1>1, <1>3, MakeQueue, QueueFields, Zenon
  <1> QED
    BY <1>1, <1>2, <1>4, QueueFields

\* Promotion fills the free slots: from a core queue it restores the work
\* conservation that removals break, and breaks nothing.
LEMMA PromoteKeeps ==
    ASSUME NEW q, NEW t \in Nat, QCore(q, t), NEW r \in promote_waiters(q, t)
    PROVE  /\ QCore(r, t)
           /\ QBusy(r)
           /\ QRoom(q) => QRoom(r)
  <1>0. IsQueue(q) /\ QTyped(q, t) /\ QLinked(q) /\ QSlots(q)
    BY Zenon DEF QCore, QTyped
  <1>p. PICK P \in Promoted(q, t) : r = Grant(q, P, t)
    BY Zenon DEF promote_waiters
  <1>1. /\ P \subseteq q.waiting_order
        /\ P # {} => Cardinality(Active(q)) + Cardinality(P) <= ActiveSlots
        /\ P = q.waiting_order \/ Cardinality(Active(q)) + Cardinality(P) >= ActiveSlots
    BY <1>0, ActiveFinite, Zenon DEF Promoted
  <1>2. /\ IsQueue(r)
        /\ DOMAIN r.sessions = DOMAIN q.sessions
        /\ \A k \in DOMAIN q.sessions \ P : r.sessions[k] = q.sessions[k]
        /\ \A k \in DOMAIN q.sessions \cap P :
              /\ r.sessions[k].phase = "Granted"
              /\ r.sessions[k].last_activity = t
              /\ r.sessions[k].queued_at = q.sessions[k].queued_at
              /\ r.sessions[k].waiting_sequence = q.sessions[k].waiting_sequence
        /\ r.waiting_order = q.waiting_order \ P
        /\ r.next_waiting_sequence = q.next_waiting_sequence
    BY <1>0, <1>p, GrantFields
  <1>3. QTyped(r, t)
    BY <1>0, <1>2 DEF QTyped
  <1>4. QLinked(r)
    <2>1. \A k \in DOMAIN r.sessions :
             r.sessions[k].waiting_sequence = q.sessions[k].waiting_sequence
      BY <1>2, Zenon
    <2>2. r.waiting_order = {k \in DOMAIN r.sessions : r.sessions[k].phase = "Waiting"}
      BY <1>0, <1>2 DEF QLinked
    <2> QED
      BY <2>1, <2>2, <1>0, <1>2, Zenon DEF QLinked
  <1>5. Active(r) = Active(q) \cup P /\ Active(q) \cap P = {}
    BY <1>0, <1>1, <1>2, <1>3, <1>4, ActiveFinite, Zenon
  <1>6. IsFiniteSet(P) /\ Cardinality(P) \in Nat
    BY <1>0, <1>1, ActiveFinite, FS_Subset, FS_CardinalityType, Zenon
  <1>7. Cardinality(Active(r)) = Cardinality(Active(q)) + Cardinality(P)
    <2>1. Cardinality(Active(q) \cap P) = 0
      BY <1>5, FS_EmptySet, Zenon
    <2>2. /\ IsFiniteSet(Active(q)) /\ Cardinality(Active(q)) \in Nat
      BY <1>0, ActiveFinite, Zenon
    <2>3. Cardinality(Active(q) \cup P)
             = Cardinality(Active(q)) + Cardinality(P) - Cardinality(Active(q) \cap P)
      BY <2>2, <1>6, FS_Union, Zenon
    <2> QED
      BY <2>1, <2>2, <2>3, <1>5, <1>6
  <1>8. QSlots(r)
    <2>1. CASE P = {}
      BY <2>1, <1>0, <1>5, Zenon DEF QSlots
    <2>2. CASE P # {}
      BY <2>2, <1>1, <1>7, Zenon DEF QSlots
    <2> QED
      BY <2>1, <2>2, Zenon
  <1>9. QBusy(r)
    <2> SUFFICES ASSUME r.waiting_order # {}
                 PROVE  Cardinality(Active(r)) = ActiveSlots
      BY Zenon DEF QBusy
    <2>1. Cardinality(Active(r)) >= ActiveSlots
      BY <1>1, <1>2, <1>7, Zenon
    <2> QED
      BY <2>1, <1>0, <1>3, <1>4, <1>8, ActiveFinite, PolicyAssumption DEF QSlots
  <1>10. QRoom(q) => QRoom(r)
    <2>1. r.waiting_order \subseteq q.waiting_order
      BY <1>2, Zenon
    <2>2. Cardinality(r.waiting_order) \in Nat
          /\ Cardinality(r.waiting_order) <= Cardinality(q.waiting_order)
      BY <2>1, <1>0, <1>3, <1>4, ActiveFinite, FS_Subset, Zenon
    <2> QED
      BY <2>2, <1>0, ActiveFinite, PolicyAssumption DEF QRoom
  <1> QED
    BY <1>3, <1>4, <1>8, <1>9, <1>10, Zenon DEF QCore

\* Reaping idle sessions, then promoting, keeps the whole invariant.
LEMMA ReapKeeps ==
    ASSUME NEW q, NEW t \in Nat, QCore(q, t), QRoom(q),
           NEW r \in reap_expired_sessions(q, t)
    PROVE  QInv(r, t)
  BY DropKeeps, PromoteKeeps DEF reap_expired_sessions, QInv

-----------------------------------------------------------------------------
(* The session operations. *)

\* Dropping waiters touches no active session.
LEMMA DropWaitersKeepsActive ==
    ASSUME NEW q, NEW t, QCore(q, t), NEW V, V \subseteq q.waiting_order
    PROVE  Active(Drop(q, V)) = Active(q)
  <1>1. IsQueue(q) /\ QLinked(q)
    BY Zenon DEF QCore, QTyped
  <1>2. /\ Drop(q, V).sessions = [k \in DOMAIN q.sessions \ V |-> q.sessions[k]]
        /\ DOMAIN Drop(q, V).sessions = DOMAIN q.sessions \ V
    BY <1>1, DropFields
  <1> QED
    BY <1>1, <1>2, Zenon DEF Active, QLinked

\* Trimming restores the room for waiters and keeps the rest.
LEMMA TrimKeeps ==
    ASSUME NEW q, NEW t \in Nat, QCore(q, t), QBusy(q), NEW r \in trim_waiting_queue(q, t)
    PROVE  QInv(r, t)
  <1>0. IsQueue(q) /\ QTyped(q, t) /\ QLinked(q)
    BY Zenon DEF QCore, QTyped
  <1>p. PICK V \in Evicted(q, t) : r = Drop(q, V)
    BY Zenon DEF trim_waiting_queue
  <1>1. /\ V \subseteq q.waiting_order
        /\ V = q.waiting_order
           \/ Cardinality(q.waiting_order) - Cardinality(V) <= WaitingCapacity
    BY <1>0, ActiveFinite, Zenon DEF Evicted
  <1>2. QCore(r, t) /\ Active(r) = Active(q) /\ r.waiting_order = q.waiting_order \ V
    BY <1>0, <1>1, <1>p, DropKeeps, DropWaitersKeepsActive, DropFields, Zenon
  <1>3. QBusy(r)
    BY <1>2, Zenon DEF QBusy
  <1>4. QRoom(r)
    <2>1. CASE V = q.waiting_order
      <3>1. r.waiting_order = {}
        BY <2>1, <1>2, Zenon
      <3> QED
        BY <3>1, FS_EmptySet, PolicyAssumption DEF QRoom
    <2>2. CASE Cardinality(q.waiting_order) - Cardinality(V) <= WaitingCapacity
      <3>1. q.waiting_order \cap V = V
        BY <1>1, Zenon
      <3>2. IsFiniteSet(q.waiting_order)
        BY <1>0, ActiveFinite, Zenon
      <3>3. Cardinality(r.waiting_order) = Cardinality(q.waiting_order) - Cardinality(V)
        BY <3>1, <3>2, <1>2, FS_Difference, Zenon
      <3> QED
        BY <3>3, <2>2, Zenon DEF QRoom
    <2> QED
      BY <1>1, <2>1, <2>2, Zenon
  <1> QED
    BY <1>2, <1>3, <1>4, Zenon DEF QInv

\* A handle consists of a key and a connection id.
LEMMA HandleFields ==
    ASSUME NEW h \in Handle
    PROVE  h.key \in Key /\ h.connection_id \in Nat
  BY Zenon DEF Handle

\* Moving a peer's session to another key leaves the number of active and of
\* waiting sessions as they were.
LEMMA RekeyKeeps ==
    ASSUME NEW q, NEW t \in Nat, QInv(q, t), NEW h \in Handle,
           NEW old \in SessionsOfPeer(q, h.key.peer)
    PROVE  QInv(Rekey(q, old, h, t), t)
  <1> DEFINE r == Rekey(q, old, h, t)
             new == h.key
             entry == [q.sessions[old] EXCEPT !.connection_id = h.connection_id,
                                              !.last_activity = t]
  <1>0. IsQueue(q) /\ QCore(q, t) /\ QTyped(q, t) /\ QLinked(q)
    BY Zenon DEF QInv, QCore, QTyped
  <1>1. old \in DOMAIN q.sessions /\ old.peer = new.peer /\ new \in Key
    BY HandleFields, Zenon DEF SessionsOfPeer
  <1>2. new \in DOMAIN q.sessions => new = old
    BY <1>0, <1>1, Zenon DEF QLinked
  <1>3. /\ entry \in Entry
        /\ entry.phase = q.sessions[old].phase
        /\ entry.queued_at = q.sessions[old].queued_at
        /\ entry.waiting_sequence = q.sessions[old].waiting_sequence
        /\ entry.last_activity = t
    <2>1. q.sessions[old] \in Entry /\ h.connection_id \in Nat
      BY <1>0, <1>1, QueueFields, HandleFields, Zenon
    <2> QED
      BY <2>1, Zenon DEF Entry
  <1> HIDE DEF entry
  <1>4. /\ r.sessions = Insert(q.sessions, old, new, entry)
        /\ r.next_waiting_sequence = q.next_waiting_sequence
        /\ r.waiting_order = IF q.sessions[old].phase = "Waiting" /\ old \in q.waiting_order
                             THEN (q.waiting_order \ {old}) \cup {new} ELSE q.waiting_order
    BY Zenon DEF Rekey, With, entry
  <1>5. /\ DOMAIN r.sessions = (DOMAIN q.sessions \ {old}) \cup {new}
        /\ r.sessions[new] = entry
        /\ \A k \in DOMAIN q.sessions \ {old} : k # new /\ r.sessions[k] = q.sessions[k]
    BY <1>2, <1>4, Zenon DEF Insert
  <1>6. IsQueue(r)
    <2>1. r.sessions \in [DOMAIN r.sessions -> Entry]
      BY <1>0, <1>3, <1>4, <1>5, QueueFields DEF Insert
    <2> QED
      BY <2>1, <1>0, <1>1, <1>4, <1>5 DEF IsQueue
  <1> HIDE DEF r
  <1>7. QTyped(r, t)
    <2>1. IsFiniteSet(DOMAIN q.sessions \ {old})
      BY <1>0, FS_Subset, Zenon DEF QTyped
    <2>2. IsFiniteSet(DOMAIN r.sessions)
      BY <2>1, <1>5, FS_AddElement
    <2>3. t <= t
      OBVIOUS
    <2> QED
      BY <2>2, <2>3, <1>0, <1>1, <1>3, <1>5, <1>6, Zenon DEF QTyped
  <1>8. QLinked(r)
    <2>1. r.waiting_order = {k \in DOMAIN r.sessions : r.sessions[k].phase = "Waiting"}
      <3>1. CASE q.sessions[old].phase = "Waiting"
        BY <3>1, <1>0, <1>1, <1>3, <1>4, <1>5 DEF QLinked
      <3>2. CASE q.sessions[old].phase # "Waiting"
        BY <3>2, <1>0, <1>1, <1>2, <1>3, <1>4, <1>5 DEF QLinked
      <3> QED
        BY <3>1, <3>2, Zenon
    <2>2. \A j, k \in DOMAIN r.sessions : j.peer = k.peer => j = k
      BY <1>0, <1>1, <1>5 DEF QLinked
    <2>3. \A k \in DOMAIN r.sessions :
             r.sessions[k].waiting_sequence < r.next_waiting_sequence
      BY <1>0, <1>1, <1>3, <1>4, <1>5 DEF QLinked
    <2>4. \A j, k \in DOMAIN r.sessions :
             r.sessions[j].waiting_sequence = r.sessions[k].waiting_sequence => j = k
      BY <1>0, <1>1, <1>3, <1>5 DEF QLinked
    <2> QED
      BY <2>1, <2>2, <2>3, <2>4, Zenon DEF QLinked
  <1>9. /\ Cardinality(Active(r)) = Cardinality(Active(q))
        /\ Cardinality(r.waiting_order) = Cardinality(q.waiting_order)
    <2>0. /\ IsFiniteSet(Active(q)) /\ IsFiniteSet(q.waiting_order)
          /\ Active(q) = DOMAIN q.sessions \ q.waiting_order
          /\ Active(r) = DOMAIN r.sessions \ r.waiting_order
          /\ q.waiting_order \subseteq DOMAIN q.sessions
      BY <1>0, <1>7, <1>8, ActiveFinite, Zenon
    <2>s. ASSUME NEW S, IsFiniteSet(S), old \in S, new \notin S \ {old}
          PROVE  Cardinality((S \ {old}) \cup {new}) = Cardinality(S)
      <3>1. IsFiniteSet(S \ {old}) /\ Cardinality(S \ {old}) = Cardinality(S) - 1
        BY <2>s, FS_RemoveElement, Zenon
      <3>2. Cardinality((S \ {old}) \cup {new}) = Cardinality(S \ {old}) + 1
        BY <3>1, <2>s, FS_AddElement, Zenon
      <3> QED
        BY <3>1, <3>2, <2>s, FS_CardinalityType
    <2>1. CASE q.sessions[old].phase = "Waiting"
      <3>1. /\ old \in q.waiting_order
            /\ r.waiting_order = (q.waiting_order \ {old}) \cup {new}
            /\ Active(r) = Active(q)
        BY <2>0, <2>1, <1>0, <1>1, <1>2, <1>4, <1>5 DEF QLinked
      <3>2. new \notin q.waiting_order \ {old}
        BY <2>0, <1>2, Zenon
      <3> QED
        BY <3>1, <3>2, <2>0, <2>s, Zenon
    <2>2. CASE q.sessions[old].phase # "Waiting"
      <3>1. /\ old \in Active(q)
            /\ r.waiting_order = q.waiting_order
            /\ Active(r) = (Active(q) \ {old}) \cup {new}
        BY <2>0, <2>2, <1>0, <1>1, <1>2, <1>4, <1>5 DEF QLinked
      <3>2. new \notin Active(q) \ {old}
        BY <2>0, <1>2, Zenon
      <3> QED
        BY <3>1, <3>2, <2>0, <2>s, SMTT(40)
    <2> QED
      BY <2>1, <2>2, Zenon
  <1>10. r.waiting_order # {} => q.waiting_order # {}
    BY <1>4, Zenon
  <1> QED
    BY <1>7, <1>8, <1>9, <1>10, Zenon DEF QInv, QCore, QSlots, QBusy, QRoom, r

\* Admission takes a slot only when one is free, and queues otherwise.
LEMMA AdmitKeeps ==
    ASSUME NEW q, NEW t \in Nat, QInv(q, t), NEW h \in Handle,
           SessionsOfPeer(q, h.key.peer) = {}
    PROVE  QCore(Admit(q, h, t), t) /\ QBusy(Admit(q, h, t))
  <1> DEFINE r == Admit(q, h, t)
             new == h.key
             granted == Cardinality(Active(q)) < ActiveSlots
             entry == [phase |-> IF granted THEN "Granted" ELSE "Waiting",
                       connection_id |-> h.connection_id,
                       queued_at |-> t,
                       last_activity |-> t,
                       waiting_sequence |-> q.next_waiting_sequence]
  <1>0. IsQueue(q) /\ QTyped(q, t) /\ QLinked(q) /\ QSlots(q) /\ QBusy(q)
    BY Zenon DEF QInv, QCore, QTyped
  <1>1. new \notin DOMAIN q.sessions /\ new \in Key
        /\ \A k \in DOMAIN q.sessions : k.peer # new.peer
    BY HandleFields, Zenon DEF SessionsOfPeer
  <1>2. /\ entry \in Entry
        /\ entry.phase = IF granted THEN "Granted" ELSE "Waiting"
        /\ entry.queued_at = t /\ entry.last_activity = t
        /\ entry.waiting_sequence = q.next_waiting_sequence
    BY <1>0, QueueFields, HandleFields, Zenon DEF Entry, Phase
  <1>3. /\ r.sessions = Insert(q.sessions, new, new, entry)
        /\ r.next_waiting_sequence = q.next_waiting_sequence + 1
        /\ r.waiting_order = IF granted THEN q.waiting_order ELSE q.waiting_order \cup {new}
    BY Zenon DEF Admit, AdmitAs
  <1> HIDE DEF entry, r, granted
  <1>4. /\ DOMAIN r.sessions = DOMAIN q.sessions \cup {new}
        /\ r.sessions[new] = entry
        /\ \A k \in DOMAIN q.sessions : k # new /\ r.sessions[k] = q.sessions[k]
    BY <1>1, <1>3, Zenon DEF Insert
  <1>5. IsQueue(r)
    <2>1. r.sessions \in [DOMAIN r.sessions -> Entry]
      BY <1>0, <1>2, <1>3, <1>4, QueueFields DEF Insert
    <2> QED
      BY <2>1, <1>0, <1>1, <1>3, <1>4 DEF IsQueue
  <1>6. QTyped(r, t)
    <2>1. IsFiniteSet(DOMAIN r.sessions)
      BY <1>0, <1>4, FS_AddElement, Zenon DEF QTyped
    <2>2. t <= t
      OBVIOUS
    <2> QED
      BY <2>1, <2>2, <1>0, <1>2, <1>4, <1>5, Zenon DEF QTyped
  <1>7. QLinked(r)
    <2>0. \A k \in DOMAIN q.sessions : q.sessions[k].waiting_sequence \in Nat
      BY <1>0, QueueFields, EntryFields, Zenon
    <2>1. r.waiting_order = {k \in DOMAIN r.sessions : r.sessions[k].phase = "Waiting"}
      <3>1. CASE granted
        BY <3>1, <1>0, <1>1, <1>2, <1>3, <1>4, SMTT(40) DEF QLinked
      <3>2. CASE ~ granted
        BY <3>2, <1>0, <1>1, <1>2, <1>3, <1>4 DEF QLinked
      <3> QED
        BY <3>1, <3>2, Zenon
    <2>2. \A j, k \in DOMAIN r.sessions : j.peer = k.peer => j = k
      BY <1>0, <1>1, <1>4, SMTT(40) DEF QLinked
    <2>3. \A k \in DOMAIN r.sessions :
             r.sessions[k].waiting_sequence < r.next_waiting_sequence
      BY <2>0, <1>0, <1>2, <1>3, <1>4, QueueFields, SMTT(40) DEF QLinked
    <2>4. \A j, k \in DOMAIN r.sessions :
             r.sessions[j].waiting_sequence = r.sessions[k].waiting_sequence => j = k
      BY <2>0, <1>0, <1>2, <1>3, <1>4, QueueFields DEF QLinked
    <2> QED
      BY <2>1, <2>2, <2>3, <2>4, Zenon DEF QLinked
  <1>8. /\ IsFiniteSet(Active(q)) /\ Cardinality(Active(q)) \in Nat
        /\ Active(q) = DOMAIN q.sessions \ q.waiting_order
        /\ Active(r) = DOMAIN r.sessions \ r.waiting_order
        /\ q.waiting_order \subseteq DOMAIN q.sessions
    BY <1>0, <1>6, <1>7, ActiveFinite, Zenon
  <1>9. QSlots(r) /\ QBusy(r)
    <2>1. CASE granted
      <3>1. Active(r) = Active(q) \cup {new} /\ new \notin Active(q)
        BY <2>1, <1>1, <1>3, <1>4, <1>8, Zenon
      <3>2. Cardinality(Active(r)) = Cardinality(Active(q)) + 1
        BY <3>1, <1>8, FS_AddElement, Zenon
      <3>3. q.waiting_order = {}
        BY <2>1, <1>0, <1>8, PolicyAssumption DEF QBusy, granted
      <3> QED
        BY <3>2, <3>3, <2>1, <1>3, <1>8, PolicyAssumption DEF QSlots, QBusy, granted
    <2>2. CASE ~ granted
      <3>1. Active(r) = Active(q)
        BY <2>2, <1>1, <1>3, <1>4, <1>8
      <3> QED
        BY <3>1, <2>2, <1>0, <1>8, PolicyAssumption DEF QSlots, QBusy, granted
    <2> QED
      BY <2>1, <2>2, Zenon
  <1> QED
    BY <1>6, <1>7, <1>9, Zenon DEF QCore, r

\* begin_session keeps the invariant, whether it rekeys or admits.
LEMMA BeginKeeps ==
    ASSUME NEW q, NEW t \in Nat, QInv(q, t), NEW h \in Handle,
           NEW r \in begin_session(q, h, t)
    PROVE  QInv(r, t)
  <1>p. PICK p \in reap_expired_sessions(q, t) :
           r \in IF SessionsOfPeer(p, h.key.peer) # {}
                 THEN {Rekey(p, old, h, t) : old \in SessionsOfPeer(p, h.key.peer)}
                 ELSE trim_waiting_queue(Admit(p, h, t), t)
    BY Zenon DEF begin_session
  <1>1. QInv(p, t)
    BY ReapKeeps, Zenon DEF QInv
  <1>2. CASE SessionsOfPeer(p, h.key.peer) # {}
    BY <1>p, <1>1, <1>2, RekeyKeeps, Zenon
  <1>3. CASE SessionsOfPeer(p, h.key.peer) = {}
    BY <1>p, <1>1, <1>3, AdmitKeeps, TrimKeeps, Zenon
  <1> QED
    BY <1>2, <1>3, Zenon

\* Refreshing a session, or moving an active one to Uploading, keeps the
\* sets of active and of waiting sessions.
LEMMA TouchKeeps ==
    ASSUME NEW q, NEW t \in Nat, QInv(q, t), NEW h, h.key \in DOMAIN q.sessions,
           NEW phase \in Phase,
           phase = "Waiting" <=> q.sessions[h.key].phase = "Waiting"
    PROVE  QInv(Touch(q, h, t, phase), t)
  <1> DEFINE r == Touch(q, h, t, phase)
             new == h.key
             entry == [q.sessions[new] EXCEPT !.last_activity = t, !.phase = phase]
  <1>0. IsQueue(q) /\ QTyped(q, t) /\ QLinked(q) /\ QSlots(q) /\ QBusy(q) /\ QRoom(q)
    BY Zenon DEF QInv, QCore, QTyped
  <1>1. /\ entry \in Entry
        /\ entry.phase = phase
        /\ entry.queued_at = q.sessions[new].queued_at
        /\ entry.waiting_sequence = q.sessions[new].waiting_sequence
        /\ entry.last_activity = t
    <2>1. q.sessions[new] \in Entry
      BY <1>0, QueueFields, Zenon
    <2> QED
      BY <2>1, Zenon DEF Entry
  <1>2. /\ r.sessions = [q.sessions EXCEPT ![new] = entry]
        /\ r.next_waiting_sequence = q.next_waiting_sequence
        /\ r.waiting_order = q.waiting_order
    BY Zenon DEF Touch, With
  <1> HIDE DEF entry, r
  <1>3. /\ DOMAIN r.sessions = DOMAIN q.sessions
        /\ r.sessions[new] = entry
        /\ \A k \in DOMAIN q.sessions \ {new} : r.sessions[k] = q.sessions[k]
    BY <1>0, <1>2, QueueFields, Zenon
  <1>4. IsQueue(r)
    <2>1. r.sessions \in [DOMAIN r.sessions -> Entry]
      BY <1>0, <1>1, <1>2, QueueFields, Zenon
    <2> QED
      BY <2>1, <1>0, <1>2, <1>3, Zenon DEF IsQueue
  <1>5. QTyped(r, t)
    <2>1. t <= t
      OBVIOUS
    <2> QED
      BY <2>1, <1>0, <1>1, <1>3, <1>4, Zenon DEF QTyped
  <1>6. QLinked(r)
    <2>1. \A k \in DOMAIN q.sessions :
             /\ r.sessions[k].waiting_sequence = q.sessions[k].waiting_sequence
             /\ r.sessions[k].phase = "Waiting" <=> q.sessions[k].phase = "Waiting"
      BY <1>1, <1>3, SMTT(40)
    <2> QED
      BY <2>1, <1>0, <1>2, <1>3 DEF QLinked
  <1>7. Active(r) = Active(q)
    BY <1>0, <1>2, <1>3, <1>5, <1>6, ActiveFinite, Zenon
  <1> QED
    BY <1>0, <1>2, <1>5, <1>6, <1>7, Zenon DEF QInv, QCore, QSlots, QBusy, QRoom, r

\* poll_session keeps the invariant, with and without a refresh.
LEMMA PollKeeps ==
    ASSUME NEW q, NEW t \in Nat, QInv(q, t), NEW h \in Handle, NEW refresh,
           NEW r \in poll_session(q, h, t, refresh)
    PROVE  QInv(r, t)
  <1>p. PICK p \in reap_expired_sessions(q, t) :
           r = IF Owns(p, h) /\ refresh THEN Touch(p, h, t, p.sessions[h.key].phase) ELSE p
    BY Zenon DEF poll_session
  <1>1. QInv(p, t)
    BY ReapKeeps, Zenon DEF QInv
  <1>2. CASE Owns(p, h) /\ refresh
    <2>1. h.key \in DOMAIN p.sessions
      BY <1>2, Zenon DEF Owns
    <2>2. p.sessions[h.key].phase \in Phase
      BY <2>1, <1>1, QueueFields, EntryFields, Zenon DEF QInv, QCore, QTyped
    <2> QED
      BY <2>1, <2>2, <1>p, <1>1, <1>2, TouchKeeps, Zenon
  <1> QED
    BY <1>p, <1>1, <1>2, Zenon

\* note_request_parts keeps the invariant: an active session stays active.
LEMMA NoteKeeps ==
    ASSUME NEW q, NEW t \in Nat, QInv(q, t), NEW h \in Handle,
           NEW r \in note_request_parts(q, h, t)
    PROVE  QInv(r, t)
  <1>p. PICK p \in reap_expired_sessions(q, t) :
           r = IF Owns(p, h)
               THEN Touch(p, h, t, IF h.key \in Active(p) THEN "Uploading"
                                                         ELSE p.sessions[h.key].phase)
               ELSE p
    BY Zenon DEF note_request_parts
  <1>1. QInv(p, t)
    BY ReapKeeps, Zenon DEF QInv
  <1>2. CASE Owns(p, h)
    <2> DEFINE phase == IF h.key \in Active(p) THEN "Uploading" ELSE p.sessions[h.key].phase
    <2>1. h.key \in DOMAIN p.sessions
      BY <1>2, Zenon DEF Owns
    <2>2. p.sessions[h.key].phase \in Phase
      BY <2>1, <1>1, QueueFields, EntryFields, Zenon DEF QInv, QCore, QTyped
    <2>3. phase \in Phase /\ (phase = "Waiting" <=> p.sessions[h.key].phase = "Waiting")
      BY <2>1, <2>2, Zenon DEF Active, Phase
    <2> HIDE DEF phase
    <2>4. QInv(Touch(p, h, t, phase), t)
      BY <2>1, <2>3, <1>1, TouchKeeps, Zenon
    <2> QED
      BY <2>4, <1>p, <1>2, Zenon DEF phase
  <1> QED
    BY <1>p, <1>1, <1>2, Zenon

\* A released session that waits is on waiting_order and one that is active is
\* not, so the conditional removal of release_session is a plain removal.
LEMMA WithoutIsDrop ==
    ASSUME NEW q, QLinked(q), NEW k \in DOMAIN q.sessions
    PROVE  Without(q, k) = Drop(q, {k})
  <1>1. (IF q.sessions[k].phase = "Waiting" THEN q.waiting_order \ {k} ELSE q.waiting_order)
          = q.waiting_order \ {k}
    BY Zenon DEF QLinked
  <1> QED
    BY <1>1, Zenon DEF Without, Drop

\* release_session keeps the invariant, because it reaps and promotes.
LEMMA ReleaseKeeps ==
    ASSUME NEW q, NEW t \in Nat, QInv(q, t), NEW h \in Handle,
           NEW r \in release_session(q, h, t)
    PROVE  QInv(r, t)
  <1>1. CASE ~ Owns(q, h)
    BY <1>1, Zenon DEF release_session
  <1>2. CASE Owns(q, h)
    <2>1. Without(q, h.key) = Drop(q, {h.key})
      BY <1>2, WithoutIsDrop, Zenon DEF Owns, QInv, QCore
    <2>2. QCore(Without(q, h.key), t) /\ QRoom(Without(q, h.key))
      BY <2>1, DropKeeps, Zenon DEF QInv
    <2>3. PICK p \in reap_expired_sessions(Without(q, h.key), t) : r \in promote_waiters(p, t)
      BY <1>2, Zenon DEF release_session
    <2>4. QInv(p, t)
      BY <2>2, <2>3, ReapKeeps, Zenon
    <2> QED
      BY <2>3, <2>4, PromoteKeeps, Zenon DEF QInv
  <1> QED
    BY <1>1, <1>2, Zenon

-----------------------------------------------------------------------------
(* The inductive invariant of the runtime facade. *)

IInv ==
    /\ QInv(queue, now)
    /\ now \in Nat
    /\ next_connection_id \in Nat
    /\ pending \subseteq Handle
    /\ handles \subseteq Handle

\* The empty queue of Ed2kUploadQueueState::new satisfies the invariant.
LEMMA InitIInv == Init => IInv
  <1> SUFFICES ASSUME Init PROVE IInv
    OBVIOUS
  <1>1. /\ DOMAIN queue.sessions = {}
        /\ queue.sessions = [k \in {} |-> k]
        /\ queue.waiting_order = {}
        /\ queue.next_waiting_sequence = 1
        /\ now = 0
    BY Zenon DEF Init
  <1>2. IsQueue(queue)
    BY <1>1 DEF IsQueue
  <1>3. Active(queue) = {}
    BY <1>1, Zenon DEF Active
  <1>4. QTyped(queue, now)
    BY <1>1, <1>2, FS_EmptySet, Zenon DEF QTyped
  <1>5. QLinked(queue)
    BY <1>1 DEF QLinked
  <1>6. QSlots(queue) /\ QBusy(queue) /\ QRoom(queue)
    BY <1>1, <1>3, FS_EmptySet, PolicyAssumption DEF QSlots, QBusy, QRoom
  <1> QED
    BY <1>4, <1>5, <1>6, Zenon DEF Init, IInv, QInv, QCore

\* Every call into the queue, and the passing of time, keeps the invariant.
LEMMA NextIInv == IInv /\ [Next]_vars => IInv'
  <1> SUFFICES ASSUME IInv, [Next]_vars PROVE IInv'
    OBVIOUS
  <1> USE DEF IInv
  <1>1. ASSUME NEW k \in Key, TakeConnectionId(k) PROVE IInv'
    <2>1. [key |-> k, connection_id |-> next_connection_id] \in Handle
      BY DEF Handle
    <2> QED
      BY <1>1, <2>1 DEF TakeConnectionId
  <1>2. ASSUME NEW h \in pending, BeginUploadSession(h) PROVE IInv'
    <2>1. QInv(queue', now)
      BY <1>2, BeginKeeps DEF BeginUploadSession
    <2> QED
      BY <1>2, <2>1 DEF BeginUploadSession
  <1>3. ASSUME NEW h \in handles, NEW b \in BOOLEAN, PollUploadSession(h, b) PROVE IInv'
    <2>1. QInv(queue', now)
      BY <1>3, PollKeeps DEF PollUploadSession
    <2> QED
      BY <1>3, <2>1 DEF PollUploadSession
  <1>4. ASSUME NEW h \in handles, NoteUploadRequestParts(h) PROVE IInv'
    <2>1. QInv(queue', now)
      BY <1>4, NoteKeeps, Zenon DEF NoteUploadRequestParts
    <2> QED
      BY <1>4, <2>1 DEF NoteUploadRequestParts
  <1>5. ASSUME NEW h \in handles, ReleaseUploadSession(h) PROVE IInv'
    <2>1. QInv(queue', now)
      BY <1>5, ReleaseKeeps DEF ReleaseUploadSession
    <2> QED
      BY <1>5, <2>1 DEF ReleaseUploadSession
  <1>6. CASE Tick
    <2>1. queue' = queue /\ now' = now + 1 /\ UNCHANGED <<next_connection_id, pending, handles>>
      BY <1>6 DEF Tick
    <2>2. QTyped(queue, now)
      BY Zenon DEF QInv, QCore
    <2>3. \A k \in DOMAIN queue.sessions :
            /\ queue.sessions[k].queued_at \in Nat /\ queue.sessions[k].queued_at <= now
            /\ queue.sessions[k].last_activity \in Nat /\ queue.sessions[k].last_activity <= now
      BY <2>2, QueueFields, EntryFields, Zenon DEF QTyped
    <2>4. QTyped(queue, now + 1)
      BY <2>2, <2>3 DEF QTyped
    <2> QED
      BY <2>1, <2>4 DEF QInv, QCore
  <1>7. CASE UNCHANGED vars
    BY <1>7, Zenon DEF vars
  <1> QED
    BY <1>1, <1>2, <1>3, <1>4, <1>5, <1>6, <1>7, Zenon DEF Next

\* The inductive invariant implies every invariant the runs check.
LEMMA IInvImplies ==
    IInv => /\ TypeOK /\ OrderMatchesPhases /\ OneSessionPerPeer /\ SlotsRespected
            /\ NoIdleSlot /\ WaitingWithinCapacity /\ SequencesUnique
  BY DEF IInv, QInv, QCore, QTyped, QLinked, QSlots, QBusy, QRoom, TypeOK,
         OrderMatchesPhases, OneSessionPerPeer, SlotsRespected, NoIdleSlot,
         WaitingWithinCapacity, SequencesUnique

\* Every reachable queue satisfies the inductive invariant.
THEOREM Inductive == Spec => []IInv
  BY InitIInv, NextIInv, PTL DEF Spec

\* The session map, the handles and the clock keep their types.
THEOREM TypeCorrect == Spec => []TypeOK
  <1>1. IInv => TypeOK
    BY IInvImplies, Zenon
  <1> QED
    BY <1>1, Inductive, PTL

\* waiting_order lists exactly the sessions that wait, no peer holds two
\* sessions and no two sessions share a sequence, whatever mix of admissions,
\* reconnects, releases and lazy reaps the listener performs.
THEOREM QueueAlwaysConsistent == Spec => []QueueConsistent
  <1>1. IInv => QueueConsistent
    BY IInvImplies DEF QueueConsistent
  <1> QED
    BY <1>1, Inductive, PTL

\* The number of granted sessions never exceeds active_slots, and the queue is
\* work conserving: no slot is free while a peer waits.
THEOREM SlotsAlwaysUsed == Spec => []SlotsUsed
  <1>1. IInv => SlotsUsed
    BY IInvImplies DEF SlotsUsed
  <1> QED
    BY <1>1, Inductive, PTL

\* The waiting list never exceeds waiting_capacity.
THEOREM WaitersBounded == Spec => []WaitingWithinCapacity
  <1>1. IInv => WaitingWithinCapacity
    BY IInvImplies
  <1> QED
    BY <1>1, Inductive, PTL

----------------------------------------------------------------------------
\* The places of the peers

\* Two entries have the same seniority.
Same(e, f) == e.waiting_sequence = f.waiting_sequence /\ e.queued_at = f.queued_at

\* The sessions of q that are not timed out at t.
Alive(q, t) == DOMAIN q.sessions \ Expired(q, t)

\* Every session of r is one of q with its seniority, still active if it was,
\* or that of a newcomer; and whoever was promoted outranked who still waits.
Evolves(q, r, t) ==
    /\ \A a \in DOMAIN r.sessions :
          \/ \E k \in Alive(q, t) : /\ k.peer = a.peer /\ Same(r.sessions[a], q.sessions[k])
                                    /\ a \in r.waiting_order => k \in q.waiting_order
          \/ /\ r.sessions[a].waiting_sequence = q.next_waiting_sequence
             /\ \A k \in Alive(q, t) : k.peer # a.peer
    /\ \A a \in DOMAIN r.sessions \ r.waiting_order, b \in r.waiting_order,
          j \in q.waiting_order \cap Alive(q, t), k \in q.waiting_order \cap Alive(q, t) :
             a.peer = j.peer /\ b.peer = k.peer => Outranks(q, t, j, k)

\* Every peer of q that is not timed out, K apart, has a session in r.
Survive(q, r, t, K) == \A k \in Alive(q, t) \ K : \E a \in DOMAIN r.sessions : a.peer = k.peer

-----------------------------------------------------------------------------
(* The shape of what the operators return. *)

\* A rank depends on seniority alone.
LEMMA RankBySeniority ==
    ASSUME NEW t, NEW j, NEW k, NEW d, NEW e, NEW f, NEW g, Same(d, f), Same(e, g)
    PROVE  OutranksAs(t, j, d, k, e) <=> OutranksAs(t, j, f, k, g)
  BY Zenon DEF Same, OutranksAs, waiting_score

\* What promote_waiters returns.
LEMMA PromoteShape ==
    ASSUME NEW q, NEW t \in Nat, QCore(q, t), NEW r \in promote_waiters(q, t)
    PROVE  /\ DOMAIN r.sessions = DOMAIN q.sessions
           /\ \A k \in DOMAIN q.sessions : Same(r.sessions[k], q.sessions[k])
           /\ r.waiting_order \subseteq q.waiting_order
           /\ r.next_waiting_sequence = q.next_waiting_sequence
           /\ \A j \in q.waiting_order \ r.waiting_order, k \in r.waiting_order : Outranks(q, t, j, k)
  <1>0. IsQueue(q) /\ QTyped(q, t) /\ QLinked(q)
    BY DEF QCore, QTyped
  <1>1. PICK P \in Promoted(q, t) : r = Grant(q, P, t)
    BY DEF promote_waiters
  <1>2. Ranked(q) = q.waiting_order
    BY <1>0, ActiveFinite, Zenon
  <1>3. /\ P \subseteq q.waiting_order
        /\ \A j \in P, k \in q.waiting_order \ P : Outranks(q, t, j, k)
    BY <1>2, Zenon DEF Promoted
  <1>4. /\ DOMAIN r.sessions = DOMAIN q.sessions
        /\ \A k \in DOMAIN q.sessions \ P : r.sessions[k] = q.sessions[k]
        /\ \A k \in DOMAIN q.sessions \cap P :
              /\ r.sessions[k].queued_at = q.sessions[k].queued_at
              /\ r.sessions[k].waiting_sequence = q.sessions[k].waiting_sequence
        /\ r.waiting_order = q.waiting_order \ P
        /\ r.next_waiting_sequence = q.next_waiting_sequence
    BY <1>0, <1>1, GrantFields
  <1> QED
    BY <1>3, <1>4, Zenon DEF Same

\* What a reap returns.
LEMMA ReapShape ==
    ASSUME NEW q, NEW t \in Nat, QCore(q, t), NEW r \in reap_expired_sessions(q, t)
    PROVE  /\ DOMAIN r.sessions = Alive(q, t)
           /\ \A k \in DOMAIN r.sessions : Same(r.sessions[k], q.sessions[k])
           /\ r.waiting_order \subseteq q.waiting_order
           /\ r.next_waiting_sequence = q.next_waiting_sequence
           /\ \A j \in (q.waiting_order \cap DOMAIN r.sessions) \ r.waiting_order, k \in r.waiting_order :
                 Outranks(q, t, j, k)
  <1> DEFINE d == Drop(q, Expired(q, t))
  <1>0. IsQueue(q) /\ QLinked(q)
    BY DEF QCore, QTyped
  <1>1. QCore(d, t) /\ r \in promote_waiters(d, t)
    BY DropKeeps, Zenon DEF reap_expired_sessions
  <1>2. /\ d.sessions = [k \in DOMAIN q.sessions \ Expired(q, t) |-> q.sessions[k]]
        /\ d.waiting_order = q.waiting_order \ Expired(q, t)
        /\ d.next_waiting_sequence = q.next_waiting_sequence
    BY <1>0, DropFields
  <1> HIDE DEF d
  <1>3. DOMAIN d.sessions = Alive(q, t) /\ \A k \in Alive(q, t) : d.sessions[k] = q.sessions[k]
    BY <1>2, Zenon DEF Alive
  <1>4. /\ DOMAIN r.sessions = DOMAIN d.sessions
        /\ \A k \in DOMAIN d.sessions : Same(r.sessions[k], d.sessions[k])
        /\ r.waiting_order \subseteq d.waiting_order
        /\ r.next_waiting_sequence = d.next_waiting_sequence
        /\ \A j \in d.waiting_order \ r.waiting_order, k \in r.waiting_order : Outranks(d, t, j, k)
    BY <1>1, PromoteShape, Zenon
  <1>5. d.waiting_order \subseteq DOMAIN d.sessions
    BY <1>1, Zenon DEF QCore, QLinked
  <1>6. \A j, k \in d.waiting_order : Outranks(d, t, j, k) <=> Outranks(q, t, j, k)
    BY <1>3, <1>5 DEF Outranks
  <1>7. q.waiting_order \cap DOMAIN r.sessions \subseteq d.waiting_order
    BY <1>2, <1>3, <1>4, Zenon DEF Alive
  <1> QED
    BY <1>2, <1>3, <1>4, <1>6, <1>7, Zenon

\* Sessions under their own keys, with their seniority: what a reap leaves,
\* and what a promotion or a touch after it leaves too.
LEMMA ThinnedEvolves ==
    ASSUME NEW q, NEW t, QLinked(q), NEW r, QLinked(r),
           DOMAIN r.sessions \subseteq Alive(q, t),
           \A k \in DOMAIN r.sessions : Same(r.sessions[k], q.sessions[k]),
           r.waiting_order \subseteq q.waiting_order,
           \A j \in (q.waiting_order \cap DOMAIN r.sessions) \ r.waiting_order, k \in r.waiting_order :
                 Outranks(q, t, j, k)
    PROVE  Evolves(q, r, t)
  <1>1. \A a \in DOMAIN r.sessions, k \in DOMAIN q.sessions : a.peer = k.peer => a = k
    BY Zenon DEF QLinked, Alive
  <1>2. q.waiting_order \subseteq DOMAIN q.sessions /\ r.waiting_order \subseteq DOMAIN r.sessions
    BY Zenon DEF QLinked
  <1>3. ASSUME NEW a \in DOMAIN r.sessions
        PROVE  \E k \in Alive(q, t) : /\ k.peer = a.peer /\ Same(r.sessions[a], q.sessions[k])
                                      /\ a \in r.waiting_order => k \in q.waiting_order
    OBVIOUS
  <1>4. ASSUME NEW a \in DOMAIN r.sessions \ r.waiting_order, NEW b \in r.waiting_order,
               NEW j \in q.waiting_order, NEW k \in q.waiting_order, a.peer = j.peer, b.peer = k.peer
        PROVE  Outranks(q, t, j, k)
    <2>1. a = j /\ b = k
      BY <1>1, <1>2, <1>4, Zenon
    <2> QED  BY <2>1, Zenon
  <1> QED  BY <1>3, <1>4, Zenon DEF Evolves

\* A touched session keeps its key, its seniority and its side of the queue.
LEMMA TouchShape ==
    ASSUME NEW q, IsQueue(q), NEW t \in Nat, NEW h, h.key \in DOMAIN q.sessions, NEW phase
    PROVE  /\ DOMAIN Touch(q, h, t, phase).sessions = DOMAIN q.sessions
           /\ \A k \in DOMAIN q.sessions : Same(Touch(q, h, t, phase).sessions[k], q.sessions[k])
           /\ Touch(q, h, t, phase).waiting_order = q.waiting_order
  <1> DEFINE r == Touch(q, h, t, phase)
             entry == [q.sessions[h.key] EXCEPT !.last_activity = t, !.phase = phase]
  <1>1. Same(entry, q.sessions[h.key])
    <2>1. q.sessions[h.key] \in Entry
      BY QueueFields
    <2> QED  BY <2>1 DEF Same, Entry
  <1>2. r.sessions = [q.sessions EXCEPT ![h.key] = entry] /\ r.waiting_order = q.waiting_order
    BY DEF Touch, With
  <1> HIDE DEF entry, r
  <1>3. \A k \in DOMAIN q.sessions : Same(q.sessions[k], q.sessions[k])
    BY DEF Same
  <1>4. /\ DOMAIN r.sessions = DOMAIN q.sessions
        /\ r.sessions[h.key] = entry
        /\ \A k \in DOMAIN q.sessions \ {h.key} : r.sessions[k] = q.sessions[k]
    BY <1>2, QueueFields, Zenon
  <1>5. \A k \in DOMAIN q.sessions : Same(r.sessions[k], q.sessions[k])
    BY <1>1, <1>3, <1>4, Zenon
  <1> QED  BY <1>2, <1>4, <1>5, Zenon DEF r

\* A session that moves to another key keeps its seniority and its side.
LEMMA RekeyShape ==
    ASSUME NEW q, IsQueue(q), QLinked(q), NEW t \in Nat, NEW h \in Handle,
           NEW old \in SessionsOfPeer(q, h.key.peer), NEW r, r = Rekey(q, old, h, t)
    PROVE  /\ DOMAIN r.sessions = (DOMAIN q.sessions \ {old}) \cup {h.key}
           /\ Same(r.sessions[h.key], q.sessions[old])
           /\ \A k \in DOMAIN q.sessions \ {old} : k # h.key /\ r.sessions[k] = q.sessions[k]
           /\ h.key \in r.waiting_order <=> old \in q.waiting_order
           /\ \A k \in DOMAIN q.sessions \ {old} : k \in r.waiting_order <=> k \in q.waiting_order
  <1> DEFINE entry == [q.sessions[old] EXCEPT !.connection_id = h.connection_id, !.last_activity = t]
  <1>1. old \in DOMAIN q.sessions /\ old.peer = h.key.peer
    BY Zenon DEF SessionsOfPeer
  <1>2. h.key \in DOMAIN q.sessions => h.key = old
    BY <1>1 DEF QLinked
  <1>3. Same(entry, q.sessions[old])
    <2>1. q.sessions[old] \in Entry
      BY <1>1, QueueFields
    <2> QED  BY <2>1, Zenon DEF Same, Entry
  <1> HIDE DEF entry
  <1>4. /\ r.sessions = Insert(q.sessions, old, h.key, entry)
        /\ r.waiting_order = IF q.sessions[old].phase = "Waiting" /\ old \in q.waiting_order
                             THEN (q.waiting_order \ {old}) \cup {h.key} ELSE q.waiting_order
    BY Zenon DEF Rekey, With, entry
  <1>5. /\ DOMAIN r.sessions = (DOMAIN q.sessions \ {old}) \cup {h.key}
        /\ r.sessions[h.key] = entry
        /\ \A k \in DOMAIN q.sessions \ {old} : k # h.key /\ r.sessions[k] = q.sessions[k]
    BY <1>2, <1>4, Zenon DEF Insert
  <1>6. old \in q.waiting_order <=> q.sessions[old].phase = "Waiting"
    BY <1>1, Zenon DEF QLinked
  <1>7. h.key \in q.waiting_order => h.key = old
    BY <1>2, Zenon DEF QLinked
  <1> QED  BY <1>3, <1>4, <1>5, <1>6, <1>7, Zenon

\* A newcomer has the next sequence and leaves everyone else as they were.
LEMMA AdmitShape ==
    ASSUME NEW q, NEW t, NEW h, h.key \notin DOMAIN q.sessions, NEW r, r = Admit(q, h, t)
    PROVE  /\ DOMAIN r.sessions = DOMAIN q.sessions \cup {h.key}
           /\ r.sessions[h.key].waiting_sequence = q.next_waiting_sequence
           /\ \A k \in DOMAIN q.sessions : r.sessions[k] = q.sessions[k]
           /\ r.waiting_order \subseteq q.waiting_order \cup {h.key} /\ q.waiting_order \subseteq r.waiting_order
  <1> DEFINE granted == Cardinality(Active(q)) < ActiveSlots
             entry == [phase |-> IF granted THEN "Granted" ELSE "Waiting",
                       connection_id |-> h.connection_id,
                       queued_at |-> t,
                       last_activity |-> t,
                       waiting_sequence |-> q.next_waiting_sequence]
  <1>1. entry.waiting_sequence = q.next_waiting_sequence
    OBVIOUS
  <1>2. /\ r.sessions = Insert(q.sessions, h.key, h.key, entry)
        /\ r.waiting_order = IF granted THEN q.waiting_order ELSE q.waiting_order \cup {h.key}
    BY Zenon DEF Admit, AdmitAs
  <1> HIDE DEF entry, granted
  <1>3. /\ DOMAIN r.sessions = DOMAIN q.sessions \cup {h.key}
        /\ r.sessions[h.key] = entry
        /\ \A k \in DOMAIN q.sessions : r.sessions[k] = q.sessions[k]
    BY <1>2, Zenon DEF Insert
  <1> QED  BY <1>1, <1>2, <1>3, Zenon

-----------------------------------------------------------------------------
(* The operations. *)

\* The waiters K are let go, and whoever waits in r outranks them.
Displaced(q, r, t, K) ==
    /\ K \subseteq q.waiting_order
    /\ \A k \in K, j \in r.waiting_order : OutranksAs(t, j, r.sessions[j], k, q.sessions[k])

\* A takeover keeps the place of its peer.
LEMMA RekeyEvolves ==
    ASSUME NEW q, NEW t \in Nat, QInv(q, t), NEW h \in Handle, NEW p \in reap_expired_sessions(q, t),
           NEW old \in SessionsOfPeer(p, h.key.peer), NEW r, r = Rekey(p, old, h, t)
    PROVE  Evolves(q, r, t) /\ Survive(q, r, t, {})
  <1>0. QCore(q, t) /\ QLinked(q) /\ QInv(p, t) /\ IsQueue(p) /\ QLinked(p)
    BY ReapKeeps, Zenon DEF QInv, QCore, QTyped
  <1>1. /\ DOMAIN p.sessions = Alive(q, t)
        /\ \A k \in DOMAIN p.sessions : Same(p.sessions[k], q.sessions[k])
        /\ p.waiting_order \subseteq q.waiting_order
        /\ \A j \in (q.waiting_order \cap DOMAIN p.sessions) \ p.waiting_order, k \in p.waiting_order :
              Outranks(q, t, j, k)
    BY <1>0, ReapShape, Zenon
  <1>2. /\ DOMAIN r.sessions = (DOMAIN p.sessions \ {old}) \cup {h.key}
        /\ Same(r.sessions[h.key], p.sessions[old])
        /\ \A k \in DOMAIN p.sessions \ {old} : k # h.key /\ r.sessions[k] = p.sessions[k]
        /\ h.key \in r.waiting_order <=> old \in p.waiting_order
        /\ \A k \in DOMAIN p.sessions \ {old} : k \in r.waiting_order <=> k \in p.waiting_order
    BY <1>0, RekeyShape
  <1>3. old \in DOMAIN p.sessions /\ old.peer = h.key.peer
    BY Zenon DEF SessionsOfPeer
  <1>4. \A a \in DOMAIN r.sessions : \E k \in DOMAIN p.sessions :
           /\ k.peer = a.peer /\ Same(r.sessions[a], q.sessions[k])
           /\ a \in r.waiting_order <=> k \in p.waiting_order
    <2> TAKE a \in DOMAIN r.sessions
    <2>1. CASE a = h.key
      <3>1. Same(r.sessions[a], q.sessions[old])
        BY <1>1, <1>2, <1>3, <2>1, Zenon DEF Same
      <3> QED  BY <1>2, <1>3, <2>1, <3>1, Zenon
    <2>2. CASE a # h.key
      BY <1>1, <1>2, <2>2, Zenon
    <2> QED  BY <2>1, <2>2, Zenon
  <1>5. \A i, k \in DOMAIN p.sessions : i.peer = k.peer => i = k
    BY <1>0, Zenon DEF QLinked
  <1>6. QInv(r, t)
    BY <1>0, RekeyKeeps, Zenon
  <1>7. r.waiting_order \subseteq DOMAIN r.sessions
    BY <1>6, Zenon DEF QInv, QCore, QLinked
  <1>8. ASSUME NEW a \in DOMAIN r.sessions \ r.waiting_order, NEW b \in r.waiting_order,
               NEW j \in q.waiting_order \cap Alive(q, t), NEW k \in q.waiting_order \cap Alive(q, t),
               a.peer = j.peer, b.peer = k.peer
        PROVE  Outranks(q, t, j, k)
    <2>1. j \notin p.waiting_order
      BY <1>1, <1>4, <1>5, <1>8, Zenon
    <2>2. k \in p.waiting_order
      BY <1>1, <1>4, <1>5, <1>7, <1>8
    <2> QED  BY <1>1, <2>1, <2>2, Zenon
  <1>9. Survive(q, r, t, {})
    BY <1>1, <1>2, <1>3, Zenon DEF Survive
  <1> QED  BY <1>1, <1>4, <1>8, <1>9 DEF Evolves

\* A newcomer displaces only those whom everyone still waiting outranks.
LEMMA AdmitEvolves ==
    ASSUME NEW q, NEW t \in Nat, QInv(q, t), NEW h \in Handle, NEW p \in reap_expired_sessions(q, t),
           SessionsOfPeer(p, h.key.peer) = {}, NEW r \in trim_waiting_queue(Admit(p, h, t), t)
    PROVE  /\ Evolves(q, r, t)
           /\ \E K : Survive(q, r, t, K) /\ Displaced(q, r, t, K)
  <1> DEFINE m == Admit(p, h, t)
  <1>0. QCore(q, t) /\ QLinked(q) /\ QInv(p, t) /\ QLinked(p)
    BY ReapKeeps, Zenon DEF QInv, QCore, QTyped
  <1>1. /\ DOMAIN p.sessions = Alive(q, t)
        /\ \A k \in DOMAIN p.sessions : Same(p.sessions[k], q.sessions[k])
        /\ p.waiting_order \subseteq q.waiting_order
        /\ p.next_waiting_sequence = q.next_waiting_sequence
        /\ \A j \in (q.waiting_order \cap DOMAIN p.sessions) \ p.waiting_order, k \in p.waiting_order :
              Outranks(q, t, j, k)
    BY <1>0, ReapShape, Zenon
  <1>2. \A k \in DOMAIN p.sessions : k.peer # h.key.peer
    BY Zenon DEF SessionsOfPeer
  <1>3. /\ DOMAIN m.sessions = DOMAIN p.sessions \cup {h.key}
        /\ m.sessions[h.key].waiting_sequence = p.next_waiting_sequence
        /\ \A k \in DOMAIN p.sessions : m.sessions[k] = p.sessions[k]
        /\ m.waiting_order \subseteq p.waiting_order \cup {h.key} /\ p.waiting_order \subseteq m.waiting_order
    BY <1>2, AdmitShape, Zenon
  <1>4. QTyped(m, t) /\ QLinked(m) /\ IsQueue(m)
    BY <1>0, AdmitKeeps, Zenon DEF QCore, QTyped
  <1>5. PICK V \in Evicted(m, t) : r = Drop(m, V)
    BY Zenon DEF trim_waiting_queue
  <1> HIDE DEF m
  <1>6. Ranked(m) = m.waiting_order /\ m.waiting_order \subseteq DOMAIN m.sessions
    BY <1>4, ActiveFinite, Zenon
  <1>7. V \subseteq m.waiting_order /\ \A j \in m.waiting_order \ V, k \in V : Outranks(m, t, j, k)
    BY <1>5, <1>6, Zenon DEF Evicted
  <1>8. /\ r.sessions = [k \in DOMAIN m.sessions \ V |-> m.sessions[k]]
        /\ r.waiting_order = m.waiting_order \ V
    BY <1>4, <1>5, DropFields
  <1>9. DOMAIN r.sessions = DOMAIN m.sessions \ V /\ \A k \in DOMAIN r.sessions : r.sessions[k] = m.sessions[k]
    BY <1>8, Zenon
  <1>10. Evolves(q, r, t)
    <2>1. ASSUME NEW a \in DOMAIN r.sessions
          PROVE  \/ \E k \in Alive(q, t) : /\ k.peer = a.peer /\ Same(r.sessions[a], q.sessions[k])
                                           /\ a \in r.waiting_order => k \in q.waiting_order
                 \/ /\ r.sessions[a].waiting_sequence = q.next_waiting_sequence
                    /\ \A k \in Alive(q, t) : k.peer # a.peer
      <3>1. CASE a = h.key
        BY <1>1, <1>2, <1>3, <1>9, <3>1, SMTT(40)
      <3>2. CASE a # h.key
        <4>1. a \in Alive(q, t) /\ Same(r.sessions[a], q.sessions[a])
          BY <1>1, <1>3, <1>9, <3>2, Zenon
        <4>2. a \in r.waiting_order => a \in q.waiting_order
          BY <1>1, <1>3, <1>8, <3>2, Zenon
        <4> QED  BY <4>1, <4>2, Zenon
      <3> QED  BY <3>1, <3>2, Zenon
    <2>2. ASSUME NEW a \in DOMAIN r.sessions \ r.waiting_order, NEW b \in r.waiting_order,
                 NEW j \in q.waiting_order \cap Alive(q, t), NEW k \in q.waiting_order \cap Alive(q, t),
                 a.peer = j.peer, b.peer = k.peer
          PROVE  Outranks(q, t, j, k)
      <3>1. j \in DOMAIN p.sessions /\ k \in DOMAIN p.sessions
        BY <1>1, Zenon
      <3>2. a # h.key /\ b # h.key /\ b \in DOMAIN m.sessions
        BY <1>2, <1>6, <1>8, <2>2, <3>1, Zenon
      <3>3. a \in DOMAIN p.sessions /\ b \in DOMAIN p.sessions
        BY <1>3, <1>9, <3>2, Zenon
      <3>4. a = j /\ b = k
        BY <1>0, <2>2, <3>1, <3>3, SMTT(40) DEF QLinked
      <3>5. a \notin p.waiting_order /\ b \in p.waiting_order
        BY <1>3, <1>8, <1>9, <3>2, SMTT(40)
      <3> QED  BY <1>1, <3>1, <3>4, <3>5, Zenon
    <2> QED  BY <2>1, <2>2 DEF Evolves
  <1> DEFINE K == V \ {h.key}
  <1>11. Survive(q, r, t, K)
    <2> SUFFICES ASSUME NEW k \in Alive(q, t) \ K PROVE k \in DOMAIN r.sessions
      BY Zenon DEF Survive
    <2> QED  BY <1>1, <1>2, <1>3, <1>9, Zenon
  <1>12. Displaced(q, r, t, K)
    <2>1. K \subseteq p.waiting_order
      BY <1>3, <1>7, Zenon
    <2>2. ASSUME NEW k \in K, NEW j \in r.waiting_order
          PROVE  OutranksAs(t, j, r.sessions[j], k, q.sessions[k])
      <3>1. Outranks(m, t, j, k)
        BY <1>7, <1>8, Zenon
      <3>2. k \in DOMAIN p.sessions /\ j \in DOMAIN r.sessions
        BY <1>0, <1>6, <1>8, <1>9, <2>1, SMTT(40) DEF QLinked
      <3>3. Same(m.sessions[k], q.sessions[k]) /\ Same(m.sessions[j], r.sessions[j])
        BY <1>1, <1>3, <1>9, <3>2, Zenon DEF Same
      <3> QED  BY <3>1, <3>3, RankBySeniority DEF Outranks
    <2> QED  BY <1>1, <2>1, <2>2, Zenon DEF Displaced
  <1> QED  BY <1>10, <1>11, <1>12, Zenon

\* begin_session, either way.
LEMMA BeginEvolves ==
    ASSUME NEW q, NEW t \in Nat, QInv(q, t), NEW h \in Handle, NEW r \in begin_session(q, h, t)
    PROVE  /\ Evolves(q, r, t)
           /\ \E K : Survive(q, r, t, K) /\ Displaced(q, r, t, K)
  <1>1. PICK p \in reap_expired_sessions(q, t) :
           r \in IF SessionsOfPeer(p, h.key.peer) # {}
                 THEN {Rekey(p, old, h, t) : old \in SessionsOfPeer(p, h.key.peer)}
                 ELSE trim_waiting_queue(Admit(p, h, t), t)
    BY DEF begin_session
  <1>2. CASE SessionsOfPeer(p, h.key.peer) # {}
    <2>1. Evolves(q, r, t) /\ Survive(q, r, t, {})
      BY <1>1, <1>2, RekeyEvolves, Zenon
    <2>2. Displaced(q, r, t, {})
      BY Zenon DEF Displaced
    <2> QED  BY <2>1, <2>2, Zenon
  <1>3. CASE SessionsOfPeer(p, h.key.peer) = {}
    BY <1>1, <1>3, AdmitEvolves, Zenon
  <1> QED  BY <1>2, <1>3, Zenon

\* A call that reaps and then at most touches one session.
LEMMA PollEvolves ==
    ASSUME NEW q, NEW t \in Nat, QInv(q, t), NEW h \in Handle, NEW r, QInv(r, t),
           NEW p \in reap_expired_sessions(q, t),
           \/ r = p
           \/ Owns(p, h) /\ \E phase : r = Touch(p, h, t, phase)
    PROVE  Evolves(q, r, t) /\ Survive(q, r, t, {})
  <1>0. QCore(q, t) /\ QLinked(q) /\ QInv(p, t) /\ IsQueue(p) /\ QLinked(r)
    BY ReapKeeps, Zenon DEF QInv, QCore, QTyped
  <1>1. /\ DOMAIN p.sessions = Alive(q, t)
        /\ \A k \in DOMAIN p.sessions : Same(p.sessions[k], q.sessions[k])
        /\ p.waiting_order \subseteq q.waiting_order
        /\ \A j \in (q.waiting_order \cap DOMAIN p.sessions) \ p.waiting_order, k \in p.waiting_order :
              Outranks(q, t, j, k)
    BY <1>0, ReapShape, Zenon
  <1>2. /\ DOMAIN r.sessions = DOMAIN p.sessions /\ r.waiting_order = p.waiting_order
        /\ \A k \in DOMAIN p.sessions : Same(r.sessions[k], p.sessions[k])
    BY <1>0, TouchShape DEF Owns, Same
  <1>3. \A k \in DOMAIN r.sessions : Same(r.sessions[k], q.sessions[k])
    BY <1>1, <1>2, SMTT(40) DEF Same
  <1>4. Evolves(q, r, t)
    BY <1>0, <1>1, <1>2, <1>3, ThinnedEvolves, Zenon
  <1> QED  BY <1>1, <1>2, <1>4, SMTT(40) DEF Survive

\* The owner's release lets its own session go and nobody else's.
LEMMA ReleaseEvolves ==
    ASSUME NEW q, NEW t \in Nat, QInv(q, t), NEW h \in Handle, Owns(q, h),
           NEW r \in release_session(q, h, t)
    PROVE  Evolves(q, r, t) /\ Survive(q, r, t, {h.key})
  <1> DEFINE d == Drop(q, {h.key})
  <1>0. QCore(q, t) /\ QLinked(q) /\ IsQueue(q) /\ QRoom(q)
    BY Zenon DEF QInv, QCore, QTyped
  <1>1. Without(q, h.key) = d
    BY <1>0, WithoutIsDrop, Zenon DEF Owns
  <1>2. PICK p \in reap_expired_sessions(d, t) : r \in promote_waiters(p, t)
    BY <1>1, Zenon DEF release_session
  <1>3. QCore(d, t) /\ QRoom(d)
    BY <1>0, DropKeeps, Zenon
  <1>4. /\ d.sessions = [k \in DOMAIN q.sessions \ {h.key} |-> q.sessions[k]]
        /\ d.waiting_order = q.waiting_order \ {h.key}
    BY Zenon DEF Drop, With
  <1> HIDE DEF d
  <1>5. DOMAIN d.sessions = DOMAIN q.sessions \ {h.key} /\ \A k \in DOMAIN d.sessions : d.sessions[k] = q.sessions[k]
    BY <1>4, Zenon
  <1>6. Alive(d, t) = Alive(q, t) \ {h.key}
    BY <1>5, Zenon DEF Alive, Expired
  <1>7. QInv(p, t) /\ QCore(p, t)
    BY <1>2, <1>3, ReapKeeps, Zenon DEF QInv
  <1>8. /\ DOMAIN p.sessions = Alive(d, t)
        /\ \A k \in DOMAIN p.sessions : Same(p.sessions[k], d.sessions[k])
        /\ p.waiting_order \subseteq d.waiting_order
        /\ \A j \in (d.waiting_order \cap DOMAIN p.sessions) \ p.waiting_order, k \in p.waiting_order :
              Outranks(d, t, j, k)
    BY <1>2, <1>3, ReapShape, Zenon
  <1>9. /\ DOMAIN r.sessions = DOMAIN p.sessions
        /\ \A k \in DOMAIN p.sessions : Same(r.sessions[k], p.sessions[k])
        /\ r.waiting_order \subseteq p.waiting_order
        /\ \A j \in p.waiting_order \ r.waiting_order, k \in r.waiting_order : Outranks(p, t, j, k)
    BY <1>2, <1>7, PromoteShape, Zenon
  <1>10. p.waiting_order \subseteq DOMAIN p.sessions /\ DOMAIN p.sessions \subseteq DOMAIN d.sessions
    BY <1>7, <1>8, Zenon DEF QCore, QLinked, Alive
  <1>11. \A k \in DOMAIN p.sessions : Same(p.sessions[k], q.sessions[k])
    BY <1>5, <1>8, <1>10, Zenon DEF Same
  <1>12. \A k \in DOMAIN r.sessions : Same(r.sessions[k], q.sessions[k])
    BY <1>9, <1>11, SMTT(40) DEF Same
  <1>13. \A j, k \in DOMAIN p.sessions :
            (Outranks(p, t, j, k) => Outranks(q, t, j, k)) /\ (Outranks(d, t, j, k) => Outranks(q, t, j, k))
    BY <1>5, <1>10, <1>11, RankBySeniority, SMTT(40) DEF Outranks
  <1>14. \A j \in (q.waiting_order \cap DOMAIN r.sessions) \ r.waiting_order, k \in r.waiting_order :
            Outranks(q, t, j, k)
    <2> TAKE j \in (q.waiting_order \cap DOMAIN r.sessions) \ r.waiting_order, k \in r.waiting_order
    <2>1. j \in DOMAIN p.sessions /\ k \in DOMAIN p.sessions /\ k \in p.waiting_order /\ j \in d.waiting_order
      BY <1>4, <1>5, <1>9, <1>10, Zenon
    <2>2. CASE j \in p.waiting_order
      BY <1>9, <1>13, <2>1, <2>2, Zenon
    <2>3. CASE j \notin p.waiting_order
      BY <1>8, <1>13, <2>1, <2>3, Zenon
    <2> QED  BY <2>2, <2>3, Zenon
  <1>15. QLinked(r)
    BY <1>2, <1>7, PromoteKeeps, Zenon DEF QCore
  <1>16. r.waiting_order \subseteq q.waiting_order /\ DOMAIN r.sessions \subseteq Alive(q, t)
    BY <1>4, <1>6, <1>8, <1>9, SMTT(40)
  <1>17. Evolves(q, r, t)
    BY <1>0, <1>12, <1>14, <1>15, <1>16, ThinnedEvolves, SMTT(40)
  <1>18. Survive(q, r, t, {h.key})
    BY <1>6, <1>8, <1>9, Zenon DEF Survive
  <1> QED  BY <1>17, <1>18, Zenon

-----------------------------------------------------------------------------
(* The action properties. *)

\* A release by a connection that does not own the session changes nothing.
LEMMA ReleaseShape ==
    ASSUME IInv, NEW h \in handles, ReleaseUploadSession(h)
    PROVE  \/ queue' = queue
           \/ /\ now' = now /\ Owns(queue, h)
              /\ Evolves(queue, queue', now) /\ Survive(queue, queue', now, {h.key})
  <1>1. CASE ~Owns(queue, h)
    BY <1>1, Zenon DEF ReleaseUploadSession, release_session
  <1>2. CASE Owns(queue, h)
    BY <1>2, ReleaseEvolves DEF ReleaseUploadSession, IInv
  <1> QED  BY <1>1, <1>2, Zenon

\* A step leaves the queue alone, lets waiters be displaced, or is the release
\* of a session by the connection that owns it.
LEMMA StepShape ==
    ASSUME IInv, [Next]_vars
    PROVE  \/ queue' = queue
           \/ /\ Evolves(queue, queue', now)
              /\ \E K : Survive(queue, queue', now, K) /\ Displaced(queue, queue', now, K)
              /\ now' = now
           \/ /\ now' = now
              /\ \E h \in handles : /\ ReleaseUploadSession(h) /\ Owns(queue, h)
                                    /\ Evolves(queue, queue', now) /\ Survive(queue, queue', now, {h.key})
  <1>0. IInv'
    BY NextIInv, Zenon
  <1> USE DEF IInv
  <1>1. ASSUME NEW k \in Key, TakeConnectionId(k) PROVE queue' = queue
    BY <1>1, Zenon DEF TakeConnectionId
  <1>2. CASE Tick \/ UNCHANGED vars
    BY <1>2, Zenon DEF Tick, vars
  <1>3. ASSUME NEW h \in pending, BeginUploadSession(h)
        PROVE  /\ Evolves(queue, queue', now) /\ now' = now
               /\ \E K : Survive(queue, queue', now, K) /\ Displaced(queue, queue', now, K)
    BY <1>3, BeginEvolves, Zenon DEF BeginUploadSession
  <1>4. Displaced(queue, queue', now, {})
    BY Zenon DEF Displaced
  <1>5. ASSUME NEW h \in handles, NEW b \in BOOLEAN, PollUploadSession(h, b)
        PROVE  Evolves(queue, queue', now) /\ Survive(queue, queue', now, {}) /\ now' = now
    <2>1. now' = now /\ QInv(queue', now)
      BY <1>0, <1>5, Zenon DEF PollUploadSession
    <2>2. PICK p \in reap_expired_sessions(queue, now) :
             queue' = IF Owns(p, h) /\ b THEN Touch(p, h, now, p.sessions[h.key].phase) ELSE p
      BY <1>5, Zenon DEF PollUploadSession, poll_session
    <2> QED  BY <2>1, <2>2, PollEvolves, Zenon
  <1>6. ASSUME NEW h \in handles, NoteUploadRequestParts(h)
        PROVE  Evolves(queue, queue', now) /\ Survive(queue, queue', now, {}) /\ now' = now
    <2>1. now' = now /\ QInv(queue', now)
      BY <1>0, <1>6, Zenon DEF NoteUploadRequestParts
    <2>2. PICK p \in reap_expired_sessions(queue, now) :
             queue' = IF Owns(p, h)
                      THEN Touch(p, h, now, IF h.key \in Active(p) THEN "Uploading"
                                                                   ELSE p.sessions[h.key].phase)
                      ELSE p
      BY <1>6, Zenon DEF NoteUploadRequestParts, note_request_parts
    <2> QED  BY <2>1, <2>2, PollEvolves, Zenon
  <1>7. ASSUME NEW h \in handles, ReleaseUploadSession(h)
        PROVE  \/ queue' = queue
               \/ /\ now' = now /\ Owns(queue, h)
                  /\ Evolves(queue, queue', now) /\ Survive(queue, queue', now, {h.key})
    BY <1>7, ReleaseShape, Zenon
  <1> QED
    BY <1>1, <1>2, <1>3, <1>4, <1>5, <1>6, <1>7, Zenon DEF Next

\* A step that keeps the queue, or lets it evolve, promotes by rank.
LEMMA PromotesStep ==
    ASSUME IInv, IInv', queue' = queue \/ Evolves(queue, queue', now)
    PROVE  PromotesByRank
  <1>0. QLinked(queue) /\ QLinked(queue')
    BY Zenon DEF IInv, QInv, QCore
  <1> SUFFICES ASSUME NEW j \in queue.waiting_order, NEW k \in queue.waiting_order,
                      StillIn(queue', j, {"Granted", "Uploading"}), StillIn(queue', k, {"Waiting"})
               PROVE  Outranks(queue, now, j, k)
    BY Zenon DEF PromotesByRank
  <1>1. PICK a \in DOMAIN queue'.sessions :
           /\ a.peer = j.peer /\ queue'.sessions[a].waiting_sequence = queue.sessions[j].waiting_sequence
           /\ queue'.sessions[a].phase \in {"Granted", "Uploading"}
    BY Zenon DEF StillIn, SameSession
  <1>2. PICK b \in DOMAIN queue'.sessions :
           /\ b.peer = k.peer /\ queue'.sessions[b].waiting_sequence = queue.sessions[k].waiting_sequence
           /\ queue'.sessions[b].phase = "Waiting"
    BY Zenon DEF StillIn, SameSession
  <1>3. a \notin queue'.waiting_order /\ b \in queue'.waiting_order
    BY <1>0, <1>1, <1>2, Zenon DEF QLinked
  <1>4. j \in DOMAIN queue.sessions /\ k \in DOMAIN queue.sessions
    BY <1>0, SMTT(40) DEF QLinked
  <1>5. CASE queue' = queue
    BY <1>0, <1>1, <1>3, <1>4, <1>5, SMTT(40) DEF QLinked
  <1>6. CASE Evolves(queue, queue', now)
    <2>1. /\ queue.sessions[j].waiting_sequence # queue.next_waiting_sequence
          /\ queue.sessions[k].waiting_sequence # queue.next_waiting_sequence
      <3>1. IsQueue(queue)
        BY Zenon DEF IInv, QInv, QCore, QTyped
      <3>2. queue.sessions[j] \in Entry /\ queue.sessions[k] \in Entry /\ queue.next_waiting_sequence \in Nat
        BY <1>4, <3>1, QueueFields, Zenon
      <3>3. /\ queue.sessions[j].waiting_sequence \in Nat
            /\ queue.sessions[k].waiting_sequence \in Nat
        BY <3>2, Zenon DEF Entry
      <3>4. /\ queue.sessions[j].waiting_sequence < queue.next_waiting_sequence
            /\ queue.sessions[k].waiting_sequence < queue.next_waiting_sequence
        BY <1>0, <1>4, SMTT(40) DEF QLinked
      <3> QED  BY <3>2, <3>3, <3>4, SMTT(40)
    <2>2. j \in Alive(queue, now)
      <3>1. PICK m \in Alive(queue, now) : Same(queue'.sessions[a], queue.sessions[m])
        BY <1>1, <1>6, <2>1, Zenon DEF Evolves
      <3>2. m \in DOMAIN queue.sessions
        BY DEF Alive
      <3> QED  BY <1>0, <1>1, <1>4, <3>1, <3>2, Zenon DEF QLinked, Same
    <2>3. k \in Alive(queue, now)
      <3>1. PICK m \in Alive(queue, now) : Same(queue'.sessions[b], queue.sessions[m])
        BY <1>2, <1>6, <2>1, Zenon DEF Evolves
      <3>2. m \in DOMAIN queue.sessions
        BY DEF Alive
      <3> QED  BY <1>0, <1>2, <1>4, <3>1, <3>2, Zenon DEF QLinked, Same
    <2> QED  BY <1>1, <1>2, <1>3, <1>6, <2>2, <2>3 DEF Evolves
  <1> QED  BY <1>5, <1>6, Zenon

\* Whoever has a session of the peer of an unexpired session k in the evolved
\* queue holds that very session, with its seniority and no further back.
LEMMA Descends ==
    ASSUME IInv, Evolves(queue, queue', now),
           NEW k \in Alive(queue, now), NEW a \in DOMAIN queue'.sessions, a.peer = k.peer
    PROVE  Same(queue'.sessions[a], queue.sessions[k]) /\ (a \in queue'.waiting_order => k \in queue.waiting_order)
  <1>1. QLinked(queue) /\ k \in DOMAIN queue.sessions
    BY Zenon DEF IInv, QInv, QCore, Alive
  <1>2. PICK m \in Alive(queue, now) :
           /\ m.peer = a.peer /\ Same(queue'.sessions[a], queue.sessions[m])
           /\ a \in queue'.waiting_order => m \in queue.waiting_order
    BY Zenon DEF Evolves
  <1>3. m = k
    BY <1>1, <1>2, Zenon DEF QLinked, Alive
  <1> QED  BY <1>2, <1>3, Zenon

\* A session of a well formed queue is in some phase.
LEMMA PhaseOf ==
    ASSUME IInv', NEW a \in DOMAIN queue'.sessions
    PROVE  queue'.sessions[a].phase \in Phase
  <1>1. IsQueue(queue')
    BY Zenon DEF IInv, QInv, QCore, QTyped
  <1>2. queue'.sessions[a] \in Entry
    BY <1>1, QueueFields, SMTT(40)
  <1> QED  BY <1>2, Zenon DEF Entry

\* Who survives a step keeps a session in some phase.
LEMMA SurvivorStill ==
    ASSUME IInv, IInv', Evolves(queue, queue', now), NEW K, Survive(queue, queue', now, K),
           NEW k \in Alive(queue, now) \ K
    PROVE  StillIn(queue', k, Phase)
  <1>1. PICK a \in DOMAIN queue'.sessions : a.peer = k.peer
    BY Zenon DEF Survive
  <1>2. Same(queue'.sessions[a], queue.sessions[k])
    BY <1>1, Descends, Zenon
  <1>3. queue'.sessions[a].phase \in Phase
    BY <1>1, PhaseOf, Zenon
  <1> QED  BY <1>1, <1>2, <1>3, Zenon DEF StillIn, SameSession, Same

\* Who was active and survives a step is active after it.
LEMMA SurvivorActive ==
    ASSUME IInv, IInv', Evolves(queue, queue', now), NEW K, Survive(queue, queue', now, K),
           NEW k \in Active(queue) \cap (Alive(queue, now) \ K)
    PROVE  \E j \in Active(queue') : j.peer = k.peer
  <1>1. PICK a \in DOMAIN queue'.sessions : a.peer = k.peer
    BY Zenon DEF Survive
  <1>2. k \notin queue.waiting_order
    BY ActiveFinite, SMTT(40) DEF IInv, QInv, QCore
  <1>3. a \notin queue'.waiting_order
    BY <1>1, <1>2, Descends, SMTT(40)
  <1>4. Active(queue') = DOMAIN queue'.sessions \ queue'.waiting_order
    BY ActiveFinite, SMTT(40) DEF IInv, QInv, QCore
  <1> QED  BY <1>1, <1>3, <1>4, Zenon

\* A waiter leaves an unchanged or evolved queue by its owner's release or
\* because everyone still waiting outranks it.
LEMMA EvictsStep ==
    ASSUME IInv, IInv', [Next]_vars
    PROVE  EvictsByRank
  <1> SUFFICES ASSUME NEW k \in queue.waiting_order \ Expired(queue, now), ~ StillIn(queue', k, Phase)
               PROVE  \/ \E h \in handles : h.connection_id = queue.sessions[k].connection_id
                                           /\ ReleaseUploadSession(h)
                      \/ \A j \in queue'.waiting_order :
                            OutranksAs(now, j, queue'.sessions[j], k, queue.sessions[k])
    BY Zenon DEF EvictsByRank
  <1>1. k \in Alive(queue, now) /\ k \in DOMAIN queue.sessions
    BY Zenon DEF Alive, IInv, QInv, QCore, QLinked
  <1>2. CASE queue' = queue
    BY <1>1, <1>2, PhaseOf, SMTT(40) DEF StillIn, SameSession
  <1>3. CASE /\ Evolves(queue, queue', now)
             /\ \E K : Survive(queue, queue', now, K) /\ Displaced(queue, queue', now, K)
    <2>1. PICK K : Survive(queue, queue', now, K) /\ Displaced(queue, queue', now, K)
      BY <1>3, SMTT(40)
    <2>2. k \in K
      BY <1>1, <1>3, <2>1, SurvivorStill, SMTT(40)
    <2> QED  BY <2>1, <2>2, Zenon DEF Displaced
  <1>4. CASE \E h \in handles : /\ ReleaseUploadSession(h) /\ Owns(queue, h)
                                /\ Evolves(queue, queue', now) /\ Survive(queue, queue', now, {h.key})
    <2>1. PICK h \in handles : /\ ReleaseUploadSession(h) /\ Owns(queue, h)
                               /\ Evolves(queue, queue', now) /\ Survive(queue, queue', now, {h.key})
      BY <1>4, Zenon
    <2>2. k = h.key
      BY <1>1, <2>1, SurvivorStill, Zenon
    <2> QED  BY <2>1, <2>2, SMTT(40) DEF Owns
  <1> QED  BY <1>2, <1>3, <1>4, StepShape, Zenon

\* An unexpired active peer loses its slot only by a release, and every release
\* that takes it comes from the connection that owns the session.
LEMMA EndsStep ==
    ASSUME IInv, IInv', [Next]_vars
    PROVE  ActiveEndsByOwner
  <1> SUFFICES ASSUME NEW k \in Active(queue) \ Expired(queue, now),
                      \A j \in Active(queue') : j.peer # k.peer
               PROVE  /\ \E h \in handles : ReleaseUploadSession(h)
                      /\ \A h \in handles : ReleaseUploadSession(h) =>
                            h.connection_id = queue.sessions[k].connection_id
    BY Zenon DEF ActiveEndsByOwner
  <1>1. k \in Alive(queue, now)
    BY Zenon DEF Alive, Active
  <1>2. queue' # queue
    BY Zenon DEF Active
  <1>3. ~ (Evolves(queue, queue', now) /\ \E K : Survive(queue, queue', now, K) /\ Displaced(queue, queue', now, K))
    <2> SUFFICES ASSUME Evolves(queue, queue', now),
                        NEW K, Survive(queue, queue', now, K), Displaced(queue, queue', now, K)
                 PROVE  FALSE
      BY SMTT(40)
    <2>1. k \notin queue.waiting_order
      BY ActiveFinite, Zenon DEF IInv, QInv, QCore
    <2>2. k \notin K
      BY <2>1, Zenon DEF Displaced
    <2> QED  BY <1>1, <2>2, SurvivorActive, Zenon
  <1>4. ASSUME NEW h \in handles, Evolves(queue, queue', now), Survive(queue, queue', now, {h.key}), Owns(queue, h)
        PROVE  h.connection_id = queue.sessions[k].connection_id
    <2>1. k = h.key
      BY <1>1, <1>4, SurvivorActive
    <2> QED  BY <1>4, <2>1, Zenon DEF Owns
  <1>5. \E h \in handles : ReleaseUploadSession(h)
    BY <1>2, <1>3, StepShape, Zenon
  <1>6. ASSUME NEW h \in handles, ReleaseUploadSession(h)
        PROVE  h.connection_id = queue.sessions[k].connection_id
    BY <1>2, <1>4, <1>6, ReleaseShape, Zenon
  <1> QED  BY <1>5, <1>6, Zenon

\* A peer that has an unexpired session keeps its place in line.
LEMMA SeniorityStep ==
    ASSUME IInv, [Next]_vars
    PROVE  SeniorityKept
  <1> SUFFICES ASSUME NEW k \in DOMAIN queue.sessions \ Expired(queue, now),
                      NEW j \in DOMAIN queue'.sessions, j.peer = k.peer
               PROVE  Same(queue'.sessions[j], queue.sessions[k])
    BY Zenon DEF SeniorityKept, Same
  <1>1. k \in Alive(queue, now)
    BY Zenon DEF Alive
  <1>2. CASE queue' = queue
    BY <1>2, Zenon DEF IInv, QInv, QCore, QLinked, Same
  <1>3. CASE Evolves(queue, queue', now)
    BY <1>1, <1>3, Descends, Zenon
  <1> QED  BY <1>2, <1>3, StepShape, Zenon

\* Slots go to whoever ranks first and room is made by dropping whoever ranks
\* last: promote_waiters and make_room_for never pass over a better waiter.
THEOREM RankAlwaysDecides == Spec => RankDecides
  <1>1. IInv /\ IInv' /\ [Next]_vars => PromotesByRank /\ EvictsByRank
    BY PromotesStep, EvictsStep, StepShape, Zenon
  <1> QED
    BY <1>1, Inductive, PTL DEF Spec, RankDecides

\* An active session that has not timed out ends only by the release of the
\* connection that owns it, and a session keeps its seniority across
\* reconnects, polls and reaps.
THEOREM PlacesAlwaysKept == Spec => PlacesKept
  <1>1. IInv /\ IInv' /\ [Next]_vars => ActiveEndsByOwner /\ SeniorityKept
    BY EndsStep, SeniorityStep
  <1> QED
    BY <1>1, Inductive, PTL DEF Spec, PlacesKept
=============================================================================
