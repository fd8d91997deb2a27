---------------------------- MODULE KadRpcProofs ----------------------------
(***************************************************************************)
(* Proofs about the Kad request layer, for every number of calls, every set *)
(* of endpoints, opcodes and budgets, and any number of packets.  The       *)
(* inductive invariant RpcInv ties three pieces of state the tasks change   *)
(* separately: how far a call has come, whether its entry is in the pending *)
(* map, and whether the receive loop has already handed it a packet.        *)
(***************************************************************************)
EXTENDS KadRpc, WellFoundedInduction, TLAPS

OpenStates == {"queued", "classed", "sealing", "sent"}
CallStates == OpenStates \cup {"idle", "answered", "failed", "aborted"}
Modes == {"none", "node_id", "receiver_key", "plaintext"}

CallRecord ==
    [st : CallStates,
     addr : RpcAddrs \cup {Unasked.addr},
     req : {q[1] : q \in RpcQuestions} \cup {"none"},
     res : {q[2] : q \in RpcQuestions} \cup {"none"},
     class : RpcClasses \cup {"none"},
     mode : Modes,
     got : BOOLEAN]

RpcTypes ==
    /\ rpcCall \in [RpcIds -> CallRecord]
    /\ rpcPending \subseteq RpcIds
    /\ rpcPeer \in [RpcAddrs -> [id : BOOLEAN, version : RpcVersions \cup {-1}]]

\* A call that was started asks a known endpoint.
Asking == \A i \in RpcIds : rpcCall[i].st # "idle" => rpcCall[i].addr \in RpcAddrs

\* The pending map holds exactly the calls that are still open and have no
\* packet yet, and entries of aborted tasks.
Fits(c, pending) ==
    /\ c.st \in OpenStates /\ ~c.got => pending
    /\ pending => c.st \in OpenStates \cup {"aborted"} /\ ~c.got
    /\ c.st = "sent" => ~c.got

Entries == \A i \in RpcIds : Fits(rpcCall[i], i \in rpcPending)

RpcInv == RpcTypes /\ Asking /\ Entries /\ ModeStillBacked

-----------------------------------------------------------------------------
(* The operators of the layer.                                             *)

\* The least of some numbers is one of them: the oldest of the matching
\* entries (receive_loop.rs min_by_key on created_at) is a matching entry.
LEMMA LeastIsMember ==
    ASSUME NEW S, S \subseteq Nat, S # {}
    PROVE  Min(S) \in S
  <1>1. PICK x \in S : \A y \in S : ~(<<y, x>> \in OpToRel(<, Nat))
    BY NatLessThanWellFounded, WFMin, Zenon
  <1>2. OpToRel(<, Nat) = {ss \in Nat \X Nat : ss[1] < ss[2]}
    BY Zenon DEF OpToRel
  <1>3. \A y \in S : x <= y
    <2> SUFFICES ASSUME NEW y \in S PROVE ~(y < x)
      OBVIOUS
    <2>1. <<y, x>> \notin {ss \in Nat \X Nat : ss[1] < ss[2]}
      BY <1>1, <1>2, Zenon
    <2> QED  BY <2>1, Zenon
  <1> QED  BY <1>3, ZenonT(40) DEF Min

\* What the receive loop takes out of the pending map is in it, and awaits the
\* opcode that arrived from the IP it arrived from.
LEMMA MatchedIsPending ==
    ASSUME RpcTypes, NEW a \in RpcAddrs, NEW op, MatchedCall(a, op) # 0
    PROVE  /\ MatchedCall(a, op) \in rpcPending
           /\ MatchedCall(a, op) \in RpcIds
           /\ rpcCall[MatchedCall(a, op)].res = op
           /\ rpcCall[MatchedCall(a, op)].addr.ip = a.ip
  <1> DEFINE awaits == {i \in rpcPending : rpcCall[i].res = op}
             exact == {i \in awaits : rpcCall[i].addr = a}
             near == {i \in awaits : rpcCall[i].addr.ip = a.ip}
             from == IF exact # {} THEN exact ELSE near
  <1>1. from # {} /\ MatchedCall(a, op) = Min(from)
    BY Zenon DEF MatchedCall
  <1>2. from \subseteq near
    OBVIOUS
  <1>3. from \subseteq Nat
    <2>1. RpcIds \subseteq Nat
      BY RpcCallsAssumption DEF RpcIds
    <2> QED  BY <2>1, Zenon DEF RpcTypes
  <1>4. Min(from) \in near
    BY <1>1, <1>2, <1>3, LeastIsMember, Zenon
  <1> QED  BY <1>1, <1>4, Zenon DEF RpcTypes

\* The mode encrypt chooses is backed by what is known of the peer.
LEMMA ModeIsBacked ==
    ASSUME RpcTypes, NEW a \in RpcAddrs, NEW op
    PROVE  /\ OutboundMode(a, op) \in Modes
           /\ OutboundMode(a, op) = "node_id" => rpcPeer[a].id
           /\ OutboundMode(a, op) = "receiver_key" => a.ip \in rpcKey
  BY Zenon DEF OutboundMode, Modes, RpcTypes

\* What a packet tells of its sender never makes a known node id unknown
\* (register_peer_identity and register_peer_version).
LEMMA LearnedKeeps ==
    ASSUME RpcTypes, NEW a \in RpcAddrs, NEW op, NEW v \in RpcVersions
    PROVE  /\ Learned(a, op, v) \in [id : BOOLEAN, version : RpcVersions \cup {-1}]
           /\ rpcPeer[a].id => Learned(a, op, v).id
  BY Zenon DEF Learned, RpcTypes

-----------------------------------------------------------------------------
(* Every step keeps RpcInv.                                                *)

LEMMA RpcInitInv == RpcInit => RpcInv
  BY DEF RpcInit, RpcInv, RpcTypes, CallRecord, CallStates, OpenStates, Modes, Unasked, Asking, Entries,
         Fits, ModeStillBacked

\* A step that changes one call, perhaps with its entry, and forgets nothing
\* about the peers keeps RpcInv when the call's new state fits by itself.
LEMMA OneCallChanges ==
    ASSUME RpcInv, NEW i \in RpcIds, NEW c \in CallRecord,
           rpcCall' = [rpcCall EXCEPT ![i] = c],
           rpcPending' \subseteq RpcIds,
           \A k \in RpcIds \ {i} : k \in rpcPending' <=> k \in rpcPending,
           rpcPeer' \in [RpcAddrs -> [id : BOOLEAN, version : RpcVersions \cup {-1}]],
           \A b \in RpcAddrs : rpcPeer[b].id => rpcPeer'[b].id,
           rpcKey \subseteq rpcKey',
           c.st # "idle" => c.addr \in RpcAddrs,
           Fits(c, i \in rpcPending'),
           c.st = "sealing" => /\ c.mode = "node_id" => rpcPeer'[c.addr].id
                               /\ c.mode = "receiver_key" => c.addr.ip \in rpcKey'
    PROVE  RpcInv'
  <1> USE DEF RpcInv
  <1>1. rpcCall'[i] = c /\ \A k \in RpcIds \ {i} : rpcCall'[k] = rpcCall[k]
    BY Zenon DEF RpcTypes
  <1>2. RpcTypes'
    BY Zenon DEF RpcTypes
  <1>3. Asking'
    BY <1>1, Zenon DEF Asking
  <1>4. Entries'
    <2> SUFFICES ASSUME NEW k \in RpcIds PROVE Fits(rpcCall'[k], k \in rpcPending')
      BY Zenon DEF Entries
    <2>1. CASE k = i
      BY <1>1, <2>1, SMTT(40)
    <2>2. CASE k # i
      BY <1>1, <2>2, SMTT(40) DEF Entries, Fits
    <2> QED  BY <2>1, <2>2, SMTT(40)
  <1>5. ModeStillBacked'
    <2> SUFFICES ASSUME NEW k \in RpcIds, rpcCall'[k].st = "sealing"
                 PROVE  /\ rpcCall'[k].mode = "node_id" => rpcPeer'[rpcCall'[k].addr].id
                        /\ rpcCall'[k].mode = "receiver_key" => rpcCall'[k].addr.ip \in rpcKey'
      BY Zenon DEF ModeStillBacked
    <2>1. CASE k = i
      BY <1>1, <2>1, SMTT(40)
    <2>2. CASE k # i
      BY <1>1, <2>2 DEF ModeStillBacked, Asking
    <2> QED  BY <2>1, <2>2, SMTT(40)
  <1> QED  BY <1>2, <1>3, <1>4, <1>5, SMTT(40)

\* The caller's side: request_with_class up to the datagram.
LEMMA CallerKeepsInv ==
    ASSUME RpcInv, NEW i \in RpcIds,
           \/ \E a \in RpcAddrs, q \in RpcQuestions, class \in RpcClasses : StartCall(i, a, q, class)
           \/ RpcStep(i) \/ AbortCall(i)
    PROVE  RpcInv'
  <1> DEFINE c == rpcCall[i]
  <1>1. /\ c \in CallRecord
        /\ rpcPending \subseteq RpcIds
        /\ rpcPeer \in [RpcAddrs -> [id : BOOLEAN, version : RpcVersions \cup {-1}]]
        /\ c.st # "idle" => c.addr \in RpcAddrs
        /\ Fits(c, i \in rpcPending)
        /\ c.st = "sealing" => /\ c.mode = "node_id" => rpcPeer[c.addr].id
                               /\ c.mode = "receiver_key" => c.addr.ip \in rpcKey
    BY Zenon DEF RpcInv, RpcTypes, Asking, Entries, ModeStillBacked
  <1>2. ASSUME NEW d \in CallRecord,
               rpcCall' = [rpcCall EXCEPT ![i] = d],
               rpcPending' \in {rpcPending, rpcPending \cup {i}, rpcPending \ {i}},
               UNCHANGED <<rpcPeer, rpcKey>>,
               d.st # "idle" => d.addr \in RpcAddrs,
               Fits(d, i \in rpcPending'),
               d.st = "sealing" => /\ d.mode = "node_id" => rpcPeer[d.addr].id
                                   /\ d.mode = "receiver_key" => d.addr.ip \in rpcKey
        PROVE  RpcInv'
    <2>1. rpcPending' \subseteq RpcIds /\ \A k \in RpcIds \ {i} : k \in rpcPending' <=> k \in rpcPending
      BY <1>1, <1>2, Zenon
    <2> QED  BY <1>1, <1>2, <2>1, OneCallChanges, Zenon
  <1> USE DEF CallRecord, CallStates, OpenStates, Fits
  <1>3. ASSUME NEW a \in RpcAddrs, NEW q \in RpcQuestions, NEW class \in RpcClasses,
               StartCall(i, a, q, class)
        PROVE  RpcInv'
    <2> DEFINE d == [Unasked EXCEPT !.st = "queued", !.addr = a, !.req = q[1], !.res = q[2],
                                    !.class = class]
    <2>1. d \in CallRecord /\ d.st = "queued" /\ d.addr = a /\ ~d.got
      BY Zenon DEF Unasked, Modes
    <2> HIDE DEF d
    <2>2. /\ rpcCall' = [rpcCall EXCEPT ![i] = d] /\ rpcPending' = rpcPending \cup {i}
          /\ UNCHANGED <<rpcPeer, rpcKey>>
      BY <1>3, Zenon DEF StartCall, d
    <2> QED  BY <1>2, <2>1, <2>2, Zenon
  <1>4. ASSUME NEW st \in CallStates \ {"idle", "sealing"}, c.st # "idle",
               rpcCall' = [rpcCall EXCEPT ![i].st = st],
               rpcPending' \in {rpcPending, rpcPending \ {i}},
               UNCHANGED <<rpcPeer, rpcKey>>,
               Fits([c EXCEPT !.st = st], i \in rpcPending')
        PROVE  RpcInv'
    <2> DEFINE d == [c EXCEPT !.st = st]
    <2>1. d \in CallRecord /\ d.st = st /\ d.addr = c.addr
      BY <1>1
    <2>2. rpcCall' = [rpcCall EXCEPT ![i] = d]
      BY <1>4, Zenon
    <2> HIDE DEF d
    <2>3. Fits(d, i \in rpcPending')
      BY <1>4, Zenon DEF d
    <2> QED  BY <1>1, <1>2, <1>4, <2>1, <2>2, <2>3, Zenon
  <1>5. CASE AcquireClass(i)
    BY <1>1, <1>4, <1>5, Zenon DEF AcquireClass
  <1>6. CASE ChooseMode(i)
    <2> DEFINE m == OutboundMode(c.addr, c.req)
               d == [c EXCEPT !.st = "sealing", !.mode = m]
    <2>1. /\ m \in Modes
          /\ m = "node_id" => rpcPeer[c.addr].id
          /\ m = "receiver_key" => c.addr.ip \in rpcKey
      BY <1>1, <1>6, ModeIsBacked, Zenon DEF ChooseMode, RpcInv
    <2>2. /\ rpcCall' = [rpcCall EXCEPT ![i] = d]
          /\ UNCHANGED <<rpcPending, rpcPeer, rpcKey>> /\ c.st = "classed"
      BY <1>6, Zenon DEF ChooseMode
    <2> HIDE DEF m
    <2>3. /\ d \in CallRecord /\ d.st = "sealing" /\ d.addr = c.addr
          /\ d.mode = m /\ d.got = c.got
      BY <1>1, <2>1, Zenon
    <2> HIDE DEF d
    <2> QED  BY <1>1, <1>2, <2>1, <2>2, <2>3, Zenon
  <1>7. CASE EncodeFails(i)
    BY <1>1, <1>4, <1>7, Zenon DEF EncodeFails, Unpended
  <1>8. CASE SendCall(i)
    BY <1>1, <1>4, <1>8, Zenon DEF SendCall
  <1>9. CASE SendFails(i)
    BY <1>1, <1>4, <1>9, Zenon DEF SendFails, Unpended
  <1>10. CASE CallTimesOut(i)
    BY <1>1, <1>4, <1>10, Zenon DEF CallTimesOut, Unpended
  <1>11. CASE AbortCall(i)
    BY <1>1, <1>4, <1>11, Zenon DEF AbortCall
  <1> QED
    BY <1>3, <1>5, <1>6, <1>7, <1>8, <1>9, <1>10, <1>11, SMTT(40) DEF RpcStep

\* The receive loop, whatever packet comes and whenever.
LEMMA ReceiveKeepsInv ==
    ASSUME RpcInv, NEW a \in RpcAddrs, NEW op, NEW v \in RpcVersions, NEW keyed \in BOOLEAN,
           RpcReceive(a, op, v, keyed)
    PROVE  RpcInv'
  <1> USE DEF RpcInv
  <1>1. rpcPeer' = [rpcPeer EXCEPT ![a] = Learned(a, op, v)] /\ rpcKey \subseteq rpcKey'
    BY Zenon DEF RpcReceive
  <1>2. /\ rpcPeer' \in [RpcAddrs -> [id : BOOLEAN, version : RpcVersions \cup {-1}]]
        /\ \A b \in RpcAddrs : rpcPeer[b].id => rpcPeer'[b].id
    BY <1>1, LearnedKeeps, Zenon DEF RpcTypes
  <1>3. \/ UNCHANGED <<rpcCall, rpcPending>>
        \/ /\ MatchedCall(a, op) # 0
           /\ Hand(MatchedCall(a, op)) /\ rpcPending' = Unpended(MatchedCall(a, op))
    BY Zenon DEF RpcReceive, Dispatch
  <1>4. CASE UNCHANGED <<rpcCall, rpcPending>>
    BY <1>1, <1>2, <1>4, SMTT(40) DEF RpcTypes, Asking, Entries, ModeStillBacked
  <1>5. CASE /\ MatchedCall(a, op) # 0
             /\ Hand(MatchedCall(a, op)) /\ rpcPending' = Unpended(MatchedCall(a, op))
    <2> DEFINE m == MatchedCall(a, op)
    <2>1. m \in rpcPending /\ m \in RpcIds
      BY <1>5, MatchedIsPending, Zenon
    <2>2. Hand(m) /\ rpcPending' = rpcPending \ {m}
      BY <1>5, Zenon DEF Unpended
    <2> HIDE DEF m
    <2> DEFINE c == rpcCall[m]
               d == [c EXCEPT !.st = IF c.st = "sent" THEN "answered" ELSE c.st,
                              !.got = c.st # "aborted"]
    <2>3. /\ c \in CallRecord /\ c.addr \in RpcAddrs /\ c.st \in OpenStates \cup {"aborted"}
          /\ c.st = "sealing" => /\ c.mode = "node_id" => rpcPeer[c.addr].id
                                 /\ c.mode = "receiver_key" => c.addr.ip \in rpcKey
      BY <2>1, Zenon DEF RpcTypes, Asking, Entries, Fits, ModeStillBacked, OpenStates
    <2>4. rpcCall' = [rpcCall EXCEPT ![m] = d]
      BY <2>2, Zenon DEF Hand
    <2>5. /\ d \in CallRecord /\ d.addr = c.addr /\ d.mode = c.mode
          /\ d.st = (IF c.st = "sent" THEN "answered" ELSE c.st) /\ d.got = (c.st # "aborted")
      BY <2>3, Zenon DEF CallRecord, CallStates, OpenStates
    <2> HIDE DEF d
    <2>6. Fits(d, m \in rpcPending')
      BY <2>2, <2>3, <2>5, Zenon DEF Fits, OpenStates
    <2>7. rpcPending' \subseteq RpcIds /\ \A k \in RpcIds \ {m} : k \in rpcPending' <=> k \in rpcPending
      BY <2>2, Zenon DEF RpcTypes
    <2>8. /\ d.st # "idle" => d.addr \in RpcAddrs
          /\ d.st = "sealing" => /\ d.mode = "node_id" => rpcPeer'[d.addr].id
                                 /\ d.mode = "receiver_key" => d.addr.ip \in rpcKey'
      BY <1>1, <1>2, <2>3, <2>5, SMTT(40)
    <2> QED
      BY <1>1, <1>2, <2>1, <2>4, <2>5, <2>6, <2>7, <2>8, OneCallChanges, Zenon
  <1> QED  BY <1>3, <1>4, <1>5

LEMMA StepKeepsInv == RpcInv /\ [RpcNext]_rpcVars => RpcInv'
  <1> SUFFICES ASSUME RpcInv, [RpcNext]_rpcVars PROVE RpcInv'
    OBVIOUS
  <1> DEFINE Same == UNCHANGED <<rpcCall, rpcPending, rpcPeer, rpcKey>>
  <1>1. CASE Same
    BY <1>1, Zenon DEF RpcInv, RpcTypes, Asking, Entries, ModeStillBacked
  <1>2. ASSUME NEW l \in DOMAIN rpcTokens, Refill(l) PROVE Same
    BY <1>2, Zenon DEF Refill
  <1>3. ASSUME NEW a \in RpcAddrs, NEW op, SendNotice(a, op) PROVE Same
    BY <1>3, Zenon DEF SendNotice
  <1>4. ASSUME NEW ip, NEW b, ElapseFlood(ip, b) PROVE Same
    BY <1>4, Zenon DEF ElapseFlood
  <1>5. ExpireTracked \/ UNCHANGED rpcVars => Same
    BY Zenon DEF ExpireTracked, rpcVars
  <1>6. ASSUME NEW a \in RpcAddrs, NEW v \in RpcVersions, NEW keyed \in BOOLEAN,
               RegisterContact(a, v, keyed)
        PROVE  RpcInv'
    BY <1>6, Zenon DEF RegisterContact, RpcInv, RpcTypes, Asking, Entries, ModeStillBacked
  <1> HIDE DEF Same
  <1> QED
    BY <1>1, <1>2, <1>3, <1>4, <1>5, <1>6, CallerKeepsInv, ReceiveKeepsInv, SMTT(40) DEF RpcNext

\* Whatever callers, aborted tasks and packets do in whatever order: the key a
\* chosen mode needs stays known until it is unwrapped, and a caller's entry is
\* in the pending map exactly as long as its answer can still be matched.
THEOREM CallsAlwaysBacked == RpcSpec => []CallsBacked
  <1>1. RpcInv => CallsBacked
    BY Zenon DEF RpcInv, Entries, Fits, OpenStates, CallsBacked, WaitersArePending
  <1> QED
    BY <1>1, RpcInitInv, StepKeepsInv, PTL DEF RpcSpec

-----------------------------------------------------------------------------
(* The refinement, up to liveness.                                         *)

\* A step of the layer opens one call, ends one open call, or is none of the
\* callers' business: no answer revives a call that was given up, and none is
\* answered twice.
THEOREM StepsKeepPromise ==
    RpcSpec => Promise!Init /\ [][Promise!Next]_(Promise!vars)
  <1>1. RpcInit => Promise!Init
    BY DEF RpcInit, Unasked, Promise!Init, Promise!Nobody, Outcome
  <1>2. RpcInv /\ [RpcNext]_rpcVars => [Promise!Next]_(Promise!vars)
    <2> SUFFICES ASSUME RpcInv, [RpcNext]_rpcVars
                 PROVE  Promise!Next \/ UNCHANGED Promise!vars
      OBVIOUS
    <2> DEFINE out == [k \in RpcIds |-> Outcome(rpcCall[k].st)]
               ask == [k \in RpcIds |-> [host |-> rpcCall[k].addr.ip, kind |-> rpcCall[k].res]]
    <2>1. CASE UNCHANGED rpcCall
      BY <2>1, Zenon DEF Promise!vars
    <2>2. ASSUME NEW i \in RpcIds, NEW c, rpcCall' = [rpcCall EXCEPT ![i] = c],
                 c.addr = rpcCall[i].addr, c.res = rpcCall[i].res,
                 \/ Outcome(c.st) = Outcome(rpcCall[i].st)
                 \/ Outcome(rpcCall[i].st) = "open" /\ Outcome(c.st) \in {"answered", "failed"}
          PROVE  Promise!Next \/ UNCHANGED Promise!vars
      <3>1. rpcCall'[i] = c /\ \A k \in RpcIds \ {i} : rpcCall'[k] = rpcCall[k]
        BY <2>2, Zenon DEF RpcInv, RpcTypes
      <3>2. ask' = ask
        BY <2>2, <3>1, Zenon
      <3>3. out' = [out EXCEPT ![i] = Outcome(c.st)]
        BY <3>1, Zenon
      <3>4. CASE Outcome(c.st) = Outcome(rpcCall[i].st)
        <4>1. out' = out
          BY <3>3, <3>4, Zenon
        <4> QED  BY <3>2, <4>1, Zenon DEF Promise!vars
      <3>5. CASE Outcome(rpcCall[i].st) = "open" /\ Outcome(c.st) \in {"answered", "failed"}
        BY <3>2, <3>3, <3>5, Zenon DEF Promise!Next, Promise!End
      <3> QED  BY <2>2, <3>4, <3>5, SMTT(40)
    <2>3. ASSUME NEW i \in RpcIds, NEW st \in CallStates, rpcCall' = [rpcCall EXCEPT ![i].st = st],
                 \/ rpcCall[i].st \in OpenStates /\ st # "idle"
          PROVE  Promise!Next \/ UNCHANGED Promise!vars
      <3> DEFINE c == [rpcCall[i] EXCEPT !.st = st]
      <3>1. rpcCall[i] \in CallRecord
        BY Zenon DEF RpcInv, RpcTypes
      <3>2. c.st = st /\ c.addr = rpcCall[i].addr /\ c.res = rpcCall[i].res
        BY <3>1, Zenon DEF CallRecord
      <3>3. rpcCall' = [rpcCall EXCEPT ![i] = c]
        BY <2>3, Zenon
      <3> HIDE DEF c
      <3>4. Outcome(rpcCall[i].st) = "open" /\ Outcome(c.st) \in {"open", "answered", "failed"}
        BY <2>3, <3>2, Zenon DEF Outcome, OpenStates, CallStates
      <3> QED  BY <2>2, <3>2, <3>3, <3>4, Zenon
    <2>4. ASSUME NEW i \in RpcIds, NEW a \in RpcAddrs, NEW q \in RpcQuestions, NEW class \in RpcClasses,
                 StartCall(i, a, q, class)
          PROVE  Promise!Next
      <3> DEFINE c == [Unasked EXCEPT !.st = "queued", !.addr = a, !.req = q[1], !.res = q[2],
                                      !.class = class]
      <3>1. c.st = "queued" /\ c.addr = a /\ c.res = q[2]
        BY Zenon DEF Unasked
      <3>2. rpcCall' = [rpcCall EXCEPT ![i] = c] /\ rpcCall[i].st = "idle"
        BY <2>4, Zenon DEF StartCall
      <3> HIDE DEF c
      <3>3. rpcCall'[i] = c /\ \A k \in RpcIds \ {i} : rpcCall'[k] = rpcCall[k]
        BY <3>2, Zenon DEF RpcInv, RpcTypes
      <3>4. ask' = [ask EXCEPT ![i] = [host |-> a.ip, kind |-> q[2]]]
        BY <3>1, <3>3, Zenon
      <3>5. out[i] = "idle" /\ out' = [out EXCEPT ![i] = "open"]
        BY <3>1, <3>2, <3>3, ZenonT(40) DEF Outcome
      <3>6. a.ip \in RpcIps /\ q[2] \in {r[2] : r \in RpcQuestions}
        BY Zenon DEF RpcIps
      <3>7. \E h \in RpcIps, k \in {r[2] : r \in RpcQuestions} :
               ask' = [ask EXCEPT ![i] = [host |-> h, kind |-> k]]
        <4> HIDE DEF ask
        <4> QED  BY <3>4, <3>6, Zenon
      <3>8. Promise!Open(i)
        BY <3>5, <3>7, Zenon DEF Promise!Open
      <3> QED  BY <3>8, Zenon DEF Promise!Next
    <2>5. ASSUME NEW i \in RpcIds, RpcStep(i) \/ AbortCall(i)
          PROVE  Promise!Next \/ UNCHANGED Promise!vars
      <3> USE DEF OpenStates, CallStates
      <3>1. CASE AcquireClass(i)
        BY <2>3, <3>1, Zenon DEF AcquireClass
      <3>2. CASE ChooseMode(i)
        <4> DEFINE c == [rpcCall[i] EXCEPT !.st = "sealing",
                                           !.mode = OutboundMode(rpcCall[i].addr, rpcCall[i].req)]
        <4>1. rpcCall' = [rpcCall EXCEPT ![i] = c] /\ rpcCall[i].st = "classed"
          BY <3>2, Zenon DEF ChooseMode
        <4>2. rpcCall[i] \in CallRecord
          BY Zenon DEF RpcInv, RpcTypes
        <4>3. c.st = "sealing" /\ c.addr = rpcCall[i].addr /\ c.res = rpcCall[i].res
          BY <4>2, Zenon DEF CallRecord
        <4> HIDE DEF c
        <4> QED  BY <2>2, <4>1, <4>3, Zenon DEF Outcome
      <3>3. CASE EncodeFails(i)
        BY <2>3, <3>3, Zenon DEF EncodeFails
      <3>4. CASE SendCall(i)
        BY <2>3, <3>4, Zenon DEF SendCall
      <3>5. CASE SendFails(i)
        BY <2>3, <3>5, Zenon DEF SendFails
      <3>6. CASE CallTimesOut(i)
        BY <2>3, <3>6, Zenon DEF CallTimesOut
      <3>7. CASE AbortCall(i)
        BY <2>3, <3>7, Zenon DEF AbortCall
      <3> QED  BY <2>5, <3>1, <3>2, <3>3, <3>4, <3>5, <3>6, <3>7, SMTT(40) DEF RpcStep
    <2>6. ASSUME NEW a \in RpcAddrs, NEW op, NEW v, NEW keyed, RpcReceive(a, op, v, keyed)
          PROVE  Promise!Next \/ UNCHANGED Promise!vars
      <3>1. \/ UNCHANGED rpcCall
            \/ MatchedCall(a, op) # 0 /\ Hand(MatchedCall(a, op))
        BY <2>6, Zenon DEF RpcReceive, Dispatch
      <3>2. CASE MatchedCall(a, op) # 0 /\ Hand(MatchedCall(a, op))
        <4> DEFINE m == MatchedCall(a, op)
                   c == [rpcCall[m] EXCEPT !.st = IF rpcCall[m].st = "sent" THEN "answered" ELSE rpcCall[m].st,
                                           !.got = rpcCall[m].st # "aborted"]
        <4>1. m \in RpcIds
          BY <3>2, MatchedIsPending, Zenon DEF RpcInv
        <4>2. rpcCall' = [rpcCall EXCEPT ![m] = c]
          BY <3>2, Zenon DEF Hand
        <4> HIDE DEF m
        <4>3. rpcCall[m] \in CallRecord
          BY <4>1, Zenon DEF RpcInv, RpcTypes
        <4>4. /\ c.st = IF rpcCall[m].st = "sent" THEN "answered" ELSE rpcCall[m].st
              /\ c.addr = rpcCall[m].addr /\ c.res = rpcCall[m].res
          BY <4>3, Zenon DEF CallRecord
        <4> HIDE DEF c
        <4> QED  BY <2>2, <4>1, <4>2, <4>4, Zenon DEF Outcome
      <3> QED  BY <2>1, <3>1, <3>2, Zenon
    <2>7. \/ UNCHANGED rpcCall
          \/ \E i \in RpcIds, a \in RpcAddrs, q \in RpcQuestions, class \in RpcClasses :
                StartCall(i, a, q, class)
          \/ \E i \in RpcIds : RpcStep(i) \/ AbortCall(i)
          \/ \E a \in RpcAddrs, op \in RpcInbound, v \in RpcVersions, keyed \in BOOLEAN :
                RpcReceive(a, op, v, keyed)
      BY Zenon DEF RpcNext, rpcVars, Refill, SendNotice, RegisterContact, ElapseFlood, ExpireTracked
    <2> QED  BY <2>1, <2>4, <2>5, <2>6, <2>7, SMTT(40)
  <1> QED
    BY <1>1, <1>2, RpcInitInv, StepKeepsInv, PTL DEF RpcSpec
=============================================================================
