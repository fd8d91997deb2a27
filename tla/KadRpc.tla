------------------------------- MODULE KadRpc -------------------------------
(***************************************************************************)
(* The Kad RPC layer (crates/overlord-kad-net: rpc/outbound.rs,             *)
(* rpc/receive_loop.rs, rpc/packet_info.rs, tracker.rs, rate_limit.rs,      *)
(* obfuscation/).                                                          *)
(*                                                                         *)
(* Callers run concurrently with one receive loop.  A call enters the table *)
(* of pending calls, waits for a token of its work class and a global one,  *)
(* picks how to obfuscate, is sent, and waits for its answer or a timeout;  *)
(* its task may be aborted at any await.  Kad packets carry no transaction  *)
(* id: the receive loop gives a packet to the oldest pending call with the  *)
(* same endpoint and opcode, else with the same IP and opcode, and          *)
(* broadcasts what no call awaits if the tracker of sent requests or its    *)
(* opcode allows it.  UDP may lose, repeat, delay and reorder packets, so   *)
(* any packet may arrive at any time.                                      *)
(*                                                                         *)
(* Time is abstract: a window may elapse at any moment (ElapseFlood,        *)
(* ExpireTracked), a token may be refilled at any moment.                  *)
(***************************************************************************)
EXTENDS Integers, Sequences, FiniteSets, SequencesExt

CONSTANTS
    RpcAddrs,         \* UDP endpoints, records [ip, port]
    RpcCalls,         \* how many calls are made
    RpcQuestions,     \* <<request opcode, awaited opcode>> of the calls
    RpcNotices,       \* opcodes sent without waiting for an answer
    RpcInbound,       \* opcodes that arrive
    RpcVersions,      \* Kad versions peers advertise
    RpcClasses,       \* work classes of the calls
    RpcBudget,        \* packets per second: [RpcClasses \cup {"global"} -> Nat]
    RpcFloodMax,      \* max_packets of each bucket, [buckets -> Nat]
    RpcMaxPackets,    \* bound on the packets that arrive
    RpcMaxNotices     \* bound on the notices sent

ASSUME RpcCallsAssumption == RpcCalls \in Nat

VARIABLES
    rpcCall,          \* the request futures
    rpcPending,       \* ids in the pending map; calls start in the order of their ids
    rpcTokens,        \* tokens of the rate limiters
    rpcTracked,       \* OutboundRequestTracker, newest first
    rpcFlood,         \* PacketTracker counts of the current window
    rpcPeer,          \* node id and version known of each endpoint
    rpcKey,           \* IPs whose receiver verify key is known
    rpcArrived,       \* packets that arrived, up to the bound
    rpcSent,          \* history: requests sent to an IP, by opcode
    rpcOut            \* history: packets broadcast from an IP, by opcode

rpcVars == <<rpcCall, rpcPending, rpcTokens, rpcTracked, rpcFlood, rpcPeer,
             rpcKey, rpcArrived, rpcSent, rpcOut>>

RpcIps == {a.ip : a \in RpcAddrs}
RpcIds == 1 .. RpcCalls
RpcRequests == {q[1] : q \in RpcQuestions} \cup RpcNotices

-----------------------------------------------------------------------------
(* The opcode tables.                                                      *)

PublishRequests == {"PUBLISH_KEY_REQ", "PUBLISH_SOURCE_REQ", "PUBLISH_NOTES_REQ"}

TracksOutbound == PublishRequests \cup
    {"BOOTSTRAP_REQ", "HELLO_REQ", "HELLO_RES", "REQ", "SEARCH_NOTES_REQ",
     "FINDBUDDY_REQ", "CALLBACK_REQ", "PING"}

TrackedResponses ==
    {"BOOTSTRAP_RES", "HELLO_RES", "HELLO_RES_ACK", "RES", "PUBLISH_RES",
     "PUBLISH_RES_ACK", "FIREWALLED_RES", "FIREWALLED_ACK_RES",
     "FINDBUDDY_RES", "PONG"}

LearnsKey == PublishRequests \cup
    {"BOOTSTRAP_REQ", "BOOTSTRAP_RES", "HELLO_REQ", "HELLO_RES",
     "HELLO_RES_ACK", "REQ", "SEARCH_KEY_REQ", "SEARCH_SOURCE_REQ",
     "SEARCH_NOTES_REQ", "PUBLISH_RES", "PUBLISH_RES_ACK", "FIREWALLED_REQ",
     "FIREWALLED2_REQ", "FINDBUDDY_REQ", "FINDBUDDY_RES", "CALLBACK_REQ", "PING"}

LearnsIdentity ==
    {"BOOTSTRAP_RES", "HELLO_REQ", "HELLO_RES", "HELLO_RES_ACK", "SEARCH_RES"}
LearnsVersion == {"BOOTSTRAP_RES", "HELLO_REQ", "HELLO_RES"}

Bucket(op) ==
    CASE op \in {"SEARCH_KEY_REQ", "SEARCH_SOURCE_REQ", "SEARCH_NOTES_REQ"} -> "SearchReq"
      [] op \in {"FIREWALLED_REQ", "FIREWALLED2_REQ"} -> "FirewalledReq"
      [] op \in PublishRequests \cup {"BOOTSTRAP_REQ", "HELLO_REQ", "REQ",
                "FINDBUDDY_REQ", "CALLBACK_REQ", "PING", "SEARCH_RES"} -> op
      [] OTHER -> "none"

\* The requests whose record an answer uses up, in the order they are tried.
RequestsFor(op) ==
    CASE op = "BOOTSTRAP_RES" -> <<"BOOTSTRAP_REQ">>
      [] op = "HELLO_RES" -> <<"HELLO_REQ">>
      [] op = "HELLO_RES_ACK" -> <<"HELLO_RES">>
      [] op = "RES" -> <<"REQ">>
      [] op = "PUBLISH_RES" -> <<"PUBLISH_KEY_REQ", "PUBLISH_SOURCE_REQ", "PUBLISH_NOTES_REQ">>
      [] op \in {"FIREWALLED_RES", "FIREWALLED_ACK_RES"} -> <<"FIREWALLED_REQ", "FIREWALLED2_REQ">>
      [] op = "FINDBUDDY_RES" -> <<"FINDBUDDY_REQ">>
      [] op = "PONG" -> <<"PING">>
      [] OTHER -> <<>>

-----------------------------------------------------------------------------
Unasked == [st |-> "idle", addr |-> [ip |-> "none", port |-> 0], req |-> "none",
            res |-> "none", class |-> "none", mode |-> "none", got |-> FALSE]

RpcInit ==
    /\ rpcCall = [i \in RpcIds |-> Unasked]
    /\ rpcPending = {}
    /\ rpcTokens = RpcBudget
    /\ rpcTracked = <<>>
    /\ rpcFlood = [k \in RpcIps \X DOMAIN RpcFloodMax |-> 0]
    /\ rpcPeer = [a \in RpcAddrs |-> [id |-> FALSE, version |-> -1]]
    /\ rpcKey = {}
    /\ rpcArrived = 0
    /\ rpcSent = [k \in RpcIps \X RpcRequests |-> 0]
    /\ rpcOut = [k \in RpcIps \X RpcInbound |-> 0]

Unpended(i) == rpcPending \ {i}

-----------------------------------------------------------------------------
(* The caller's side: request_with_class and send_with_class.              *)

\* The entry is inserted before the rate limiters are asked.
StartCall(i, a, q, class) ==
    /\ rpcCall[i].st = "idle"
    /\ i > 1 => rpcCall[i - 1].st # "idle"
    /\ rpcCall' = [rpcCall EXCEPT ![i] =
          [Unasked EXCEPT !.st = "queued", !.addr = a, !.req = q[1], !.res = q[2], !.class = class]]
    /\ rpcPending' = rpcPending \cup {i}
    /\ UNCHANGED <<rpcTokens, rpcTracked, rpcFlood, rpcPeer, rpcKey, rpcArrived, rpcSent, rpcOut>>

\* RateLimiter::try_acquire of all of ls; a budget of 0 is unlimited.
TakeTokens(ls) ==
    LET limited == {l \in ls : RpcBudget[l] > 0} IN
    /\ \A l \in limited : rpcTokens[l] > 0
    /\ rpcTokens' = [l \in DOMAIN rpcTokens |->
                        IF l \in limited THEN rpcTokens[l] - 1 ELSE rpcTokens[l]]

Refill(l) ==
    /\ rpcTokens[l] < RpcBudget[l]
    /\ rpcTokens' = [rpcTokens EXCEPT ![l] = @ + 1]
    /\ UNCHANGED <<rpcCall, rpcPending, rpcTracked, rpcFlood, rpcPeer, rpcKey, rpcArrived, rpcSent, rpcOut>>

AcquireClass(i) ==
    /\ rpcCall[i].st = "queued"
    /\ TakeTokens({rpcCall[i].class})
    /\ rpcCall' = [rpcCall EXCEPT ![i].st = "classed"]
    /\ UNCHANGED <<rpcPending, rpcTracked, rpcFlood, rpcPeer, rpcKey, rpcArrived, rpcSent, rpcOut>>

\* can_use_node_id_mode, should_prefer_receiver_verify_key, inspect_outbound.
OutboundMode(a, op) ==
    CASE op = "FIREWALLED2_REQ" /\ a.ip \in rpcKey -> "receiver_key"
      [] rpcPeer[a].id /\ rpcPeer[a].version \notin 0 .. 5 -> "node_id"
      [] a.ip \in rpcKey -> "receiver_key"
      [] OTHER -> "plaintext"

\* encrypt reads the peer state once to choose the mode ...
ChooseMode(i) ==
    /\ rpcCall[i].st = "classed"
    /\ TakeTokens({"global"})
    /\ rpcCall' = [rpcCall EXCEPT ![i].st = "sealing",
                                  ![i].mode = OutboundMode(rpcCall[i].addr, rpcCall[i].req)]
    /\ UNCHANGED <<rpcPending, rpcTracked, rpcFlood, rpcPeer, rpcKey, rpcArrived, rpcSent, rpcOut>>

\* The packet cannot be encoded: the tokens are spent, nothing is recorded.
EncodeFails(i) ==
    /\ rpcCall[i].st = "classed"
    /\ TakeTokens({"global"})
    /\ rpcCall' = [rpcCall EXCEPT ![i].st = "failed"]
    /\ rpcPending' = Unpended(i)
    /\ UNCHANGED <<rpcTracked, rpcFlood, rpcPeer, rpcKey, rpcArrived, rpcSent, rpcOut>>

\* OutboundRequestTracker::record.
Tracked(ip, op) ==
    IF op \in TracksOutbound THEN <<[ip |-> ip, op |-> op]>> \o rpcTracked ELSE rpcTracked

\* ... and once more for the key it unwraps; then the datagram is recorded and
\* sent.  A call whose answer came before it was sent returns at once.
SendCall(i) ==
    LET c == rpcCall[i] IN
    /\ c.st = "sealing"
    /\ rpcTracked' = Tracked(c.addr.ip, c.req)
    /\ rpcSent' = [rpcSent EXCEPT ![<<c.addr.ip, c.req>>] = @ + 1]
    /\ rpcCall' = [rpcCall EXCEPT ![i].st = IF c.got THEN "answered" ELSE "sent"]
    /\ UNCHANGED <<rpcPending, rpcTokens, rpcFlood, rpcPeer, rpcKey, rpcArrived, rpcOut>>

\* send_raw fails after the request was recorded; the entry is removed.
SendFails(i) ==
    LET c == rpcCall[i] IN
    /\ c.st = "sealing"
    /\ rpcTracked' = Tracked(c.addr.ip, c.req)
    /\ rpcSent' = [rpcSent EXCEPT ![<<c.addr.ip, c.req>>] = @ + 1]
    /\ rpcCall' = [rpcCall EXCEPT ![i].st = "failed"]
    /\ rpcPending' = Unpended(i)
    /\ UNCHANGED <<rpcTokens, rpcFlood, rpcPeer, rpcKey, rpcArrived, rpcOut>>

\* Mutant: a timeout leaves the entry behind.
CallTimesOutLeaking(i) ==
    /\ rpcCall[i].st = "sent"
    /\ rpcCall' = [rpcCall EXCEPT ![i].st = "failed"]
    /\ UNCHANGED <<rpcPending, rpcTokens, rpcTracked, rpcFlood, rpcPeer, rpcKey, rpcArrived, rpcSent, rpcOut>>

CallTimesOut(i) ==
    /\ rpcCall[i].st = "sent"
    /\ rpcCall' = [rpcCall EXCEPT ![i].st = "failed"]
    /\ rpcPending' = Unpended(i)
    /\ UNCHANGED <<rpcTokens, rpcTracked, rpcFlood, rpcPeer, rpcKey, rpcArrived, rpcSent, rpcOut>>

\* The task that awaits the call is aborted (abort_all of a traversal, abort of
\* a background task): nothing removes the entry.
AbortCall(i) ==
    /\ rpcCall[i].st \in {"queued", "classed", "sent"}
    /\ rpcCall' = [rpcCall EXCEPT ![i].st = "aborted"]
    /\ UNCHANGED <<rpcPending, rpcTokens, rpcTracked, rpcFlood, rpcPeer, rpcKey, rpcArrived, rpcSent, rpcOut>>

\* send: the same path without an entry, both tokens taken in one step.
SendNotice(a, op) ==
    /\ rpcSent[a.ip, op] < RpcMaxNotices
    /\ TakeTokens({"Interactive", "global"})
    /\ rpcTracked' = Tracked(a.ip, op)
    /\ rpcSent' = [rpcSent EXCEPT ![<<a.ip, op>>] = @ + 1]
    /\ UNCHANGED <<rpcCall, rpcPending, rpcFlood, rpcPeer, rpcKey, rpcArrived, rpcOut>>

\* DhtNode::add_contact registers what a contact carries: its id, its version
\* and its key; one that carries no key is given the one known of its IP.
RegisterContact(a, version, keyed) ==
    /\ rpcPeer' = [rpcPeer EXCEPT ![a] = [id |-> TRUE, version |-> version]]
    /\ rpcKey' = IF keyed THEN rpcKey \cup {a.ip} ELSE rpcKey
    /\ UNCHANGED <<rpcCall, rpcPending, rpcTokens, rpcTracked, rpcFlood, rpcArrived, rpcSent, rpcOut>>

-----------------------------------------------------------------------------
(* The receive loop.                                                       *)

\* register_peer_identity and register_peer_version: the last one counts.
Learned(a, op, version) ==
    [id |-> rpcPeer[a].id \/ op \in LearnsIdentity,
     version |-> IF op \in LearnsVersion THEN version ELSE rpcPeer[a].version]

\* The pending call a packet belongs to: same endpoint first, then same IP,
\* the oldest of them; 0 when there is none.
MatchedCall(a, op) ==
    LET awaits == {i \in rpcPending : rpcCall[i].res = op}
        exact == {i \in awaits : rpcCall[i].addr = a}
        near == {i \in awaits : rpcCall[i].addr.ip = a.ip}
        from == IF exact # {} THEN exact ELSE near
    IN  IF from = {} THEN 0 ELSE Min(from)

\* The record of a sent request an answer uses up; 0 when there is none.
TrackedRequest(ip, op) ==
    LET reqs == RequestsFor(op)
        Hits(r) == {j \in DOMAIN rpcTracked : rpcTracked[j] = [ip |-> ip, op |-> reqs[r]]}
        tried == {r \in DOMAIN reqs : Hits(r) # {}}
    IN  IF tried = {} THEN 0 ELSE Min(Hits(Min(tried)))

\* Mutant: the answer revives a call that was given up.
HandLate(i) ==
    rpcCall' = [rpcCall EXCEPT ![i].st = IF @ \in {"sent", "aborted"} THEN "answered" ELSE @,
                               ![i].got = TRUE]

\* oneshot::Sender::send: a task that still waits takes the packet.
Hand(i) ==
    LET c == rpcCall[i] IN
    rpcCall' = [rpcCall EXCEPT ![i].st = IF c.st = "sent" THEN "answered" ELSE c.st,
                               ![i].got = c.st # "aborted"]

\* Mutant: an answer does not use up the record of its request.
DispatchForgetful(a, op) ==
    LET i == MatchedCall(a, op)
        j == TrackedRequest(a.ip, op) IN
    /\ UNCHANGED rpcTracked
    /\ \/ /\ i # 0
          /\ Hand(i)
          /\ rpcPending' = Unpended(i)
          /\ UNCHANGED rpcOut
       \/ /\ i = 0 /\ op \in TrackedResponses /\ j = 0
          /\ UNCHANGED <<rpcCall, rpcPending, rpcOut>>
       \/ /\ i = 0 /\ (op \in TrackedResponses => j # 0)
          /\ rpcOut' = [rpcOut EXCEPT ![<<a.ip, op>>] = @ + 1]
          /\ UNCHANGED <<rpcCall, rpcPending>>

\* Flood check passed: match, use up the record of the request, and broadcast
\* or drop what nobody awaits.
Dispatch(a, op) ==
    LET i == MatchedCall(a, op)
        j == TrackedRequest(a.ip, op) IN
    /\ rpcTracked' = IF j = 0 THEN rpcTracked ELSE RemoveAt(rpcTracked, j)
    /\ \/ /\ i # 0
          /\ Hand(i)
          /\ rpcPending' = Unpended(i)
          /\ UNCHANGED rpcOut
       \/ /\ i = 0 /\ op \in TrackedResponses /\ j = 0
          /\ UNCHANGED <<rpcCall, rpcPending, rpcOut>>
       \/ /\ i = 0 /\ (op \in TrackedResponses => j # 0)
          /\ rpcOut' = [rpcOut EXCEPT ![<<a.ip, op>>] = @ + 1]
          /\ UNCHANGED <<rpcCall, rpcPending>>

RpcReceive(a, op, version, keyed) ==
    LET b == Bucket(op)
        n == IF b = "none" THEN 0 ELSE rpcFlood[a.ip, b] + 1 IN
    /\ rpcArrived < RpcMaxPackets
    /\ rpcArrived' = rpcArrived + 1
    /\ rpcPeer' = [rpcPeer EXCEPT ![a] = Learned(a, op, version)]
    /\ rpcKey' = IF keyed /\ op \in LearnsKey THEN rpcKey \cup {a.ip} ELSE rpcKey
    /\ rpcFlood' = IF b = "none" THEN rpcFlood ELSE [rpcFlood EXCEPT ![<<a.ip, b>>] = n]
    /\ IF b # "none" /\ n > RpcFloodMax[b]
       THEN UNCHANGED <<rpcCall, rpcPending, rpcTracked, rpcOut>>
       ELSE Dispatch(a, op)
    /\ UNCHANGED <<rpcTokens, rpcSent>>

\* The window of a bucket is over: the next packet starts a new one.
ElapseFlood(ip, b) ==
    /\ rpcFlood[ip, b] > 0
    /\ rpcFlood' = [rpcFlood EXCEPT ![<<ip, b>>] = 0]
    /\ UNCHANGED <<rpcCall, rpcPending, rpcTokens, rpcTracked, rpcPeer, rpcKey, rpcArrived, rpcSent, rpcOut>>

\* OutboundRequestTracker::prune: the oldest record is past the window.
ExpireTracked ==
    /\ rpcTracked # <<>>
    /\ rpcTracked' = Front(rpcTracked)
    /\ UNCHANGED <<rpcCall, rpcPending, rpcTokens, rpcFlood, rpcPeer, rpcKey, rpcArrived, rpcSent, rpcOut>>

RpcStep(i) ==
    \/ AcquireClass(i) \/ ChooseMode(i) \/ EncodeFails(i)
    \/ SendCall(i) \/ SendFails(i) \/ CallTimesOut(i)

RpcNext ==
    \/ \E i \in RpcIds, a \in RpcAddrs, q \in RpcQuestions, class \in RpcClasses :
          StartCall(i, a, q, class)
    \/ \E i \in RpcIds : RpcStep(i) \/ AbortCall(i)
    \/ \E l \in DOMAIN rpcTokens : Refill(l)
    \/ \E a \in RpcAddrs, op \in RpcNotices : SendNotice(a, op)
    \/ \E a \in RpcAddrs, v \in RpcVersions, keyed \in BOOLEAN :
          RegisterContact(a, v, keyed)
    \/ \E a \in RpcAddrs, op \in RpcInbound, v \in RpcVersions, keyed \in BOOLEAN :
          RpcReceive(a, op, v, keyed)
    \/ \E ip \in RpcIps, b \in DOMAIN RpcFloodMax : ElapseFlood(ip, b)
    \/ ExpireTracked

\* Ready tasks run, timers fire and limiters refill.
RpcFairness ==
    /\ \A i \in RpcIds : WF_rpcVars(RpcStep(i))
    /\ \A l \in DOMAIN RpcBudget : WF_rpcVars(Refill(l))

RpcSpec == RpcInit /\ [][RpcNext]_rpcVars /\ RpcFairness

-----------------------------------------------------------------------------
(* Properties *)

\* A response is broadcast to the unsolicited handlers only when this node
\* asked for it: repeated, late and reordered answers of a host never add up
\* to more broadcasts than requests sent to it (the tracker of
\* packet_info.rs tracked_request_opcode_for_response, whose records answers
\* to pending calls use up as well).
BroadcastOnlyAsked ==
    \A ip \in RpcIps, op \in RpcInbound \cap TrackedResponses :
        rpcOut[ip, op] <=
            FoldSet(LAMBDA r, n : n + rpcSent[ip, r], 0, ToSet(RequestsFor(op)) \cap RpcRequests)

\* Whoever picked an obfuscation mode still finds the node id or key that the
\* second read of the peer state unwraps (obfuscation/outbound.rs encrypt),
\* although the receive loop registers identities in between.
ModeStillBacked ==
    \A i \in RpcIds : rpcCall[i].st = "sealing" =>
        /\ rpcCall[i].mode = "node_id" => rpcPeer[rpcCall[i].addr].id
        /\ rpcCall[i].mode = "receiver_key" => rpcCall[i].addr.ip \in rpcKey

\* A caller that waits for its answer can still get it: its entry is in the
\* table.  An ended call has left the table unless its task was aborted.
WaitersArePending ==
    \A i \in RpcIds :
        /\ rpcCall[i].st = "sent" => i \in rpcPending
        /\ rpcCall[i].st \in {"answered", "failed"} => i \notin rpcPending

\* What callers and the receive loop share backs what a caller relies on after
\* an await: the key its mode needs, and the entry its answer is matched with.
CallsBacked == ModeStillBacked /\ WaitersArePending

\* The calls of this layer behave as KadCalls promises its users: a call ends
\* once, through one packet or a failure, and every call ends.
Outcome(st) ==
    CASE st = "idle" -> "idle"
      [] st \in {"queued", "classed", "sealing", "sent"} -> "open"
      [] st = "answered" -> "answered"
      [] OTHER -> "failed"

Promise == INSTANCE KadCalls WITH
    Calls <- RpcIds,
    Hosts <- RpcIps,
    Kinds <- {q[2] : q \in RpcQuestions},
    outcome <- [i \in RpcIds |-> Outcome(rpcCall[i].st)],
    question <- [i \in RpcIds |-> [host |-> rpcCall[i].addr.ip, kind |-> rpcCall[i].res]]

\* The request layer implements KadCalls, its liveness included: every call to
\* request_with_class ends, once, through an answer or a failure.
ImplementsCalls == Promise!Spec

=============================================================================
