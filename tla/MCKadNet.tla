------------------------------ MODULE MCKadNet ------------------------------
(***************************************************************************)
(* The Kad node, one part to a scene: the routing table ("routing"), the   *)
(* request layer with calls that compete for pending slots and budgets     *)
(* ("rpc") and with peers whose keys and versions are learned ("seal"),    *)
(* and the iterative lookup ("lookup").  The request layer is also shown   *)
(* to implement KadCalls.  A behaviour plays one scene.                    *)
(***************************************************************************)
EXTENDS KadRouting, KadRpc, KadLookup, TLC

CONSTANT Scenes
VARIABLE scene

MCRtIds == [1 .. 3 -> {0, 1}] \ {<<0, 1, 1>>, <<1, 1, 0>>, <<1, 0, 0>>}
MCRtSubnet == "a1" :> "a" @@ "a2" :> "a" @@ "a3" :> "a" @@ "b1" :> "b" @@ "lan" :> "l"

MCRpcAddrs == [ip : {"x"}, port : {1, 2}]
MCRpcQuestions == {<<"REQ", "RES">>, <<"FIREWALLED2_REQ", "FIREWALLED_RES">>}
MCRpcBudget == "Interactive" :> 1 @@ "global" :> 0
MCRpcFloodMax == "SearchReq" :> 1

MCLkContacts ==
    {[id |-> 1, ip |-> "p", net |-> "n", lan |-> FALSE],
     [id |-> 2, ip |-> "q", net |-> "n", lan |-> FALSE],
     [id |-> 3, ip |-> "r", net |-> "n", lan |-> FALSE],
     [id |-> 4, ip |-> "r", net |-> "n", lan |-> TRUE]}
MCLkReqCount == "FindNode" :> 2 @@ "Store" :> 1 @@ "Search" :> 1

vars == <<rtVars, rpcVars, lkVars, scene>>

Init == scene \in Scenes /\ RtInit /\ RpcInit /\ LkInit

Next ==
    /\ UNCHANGED scene
    /\ \/ scene = "routing" /\ RtNext /\ UNCHANGED <<rpcVars, lkVars>>
       \/ /\ scene = "rpc" /\ RpcNext
          /\ rpcPeer' = rpcPeer /\ rpcKey' = rpcKey /\ rpcFlood' = rpcFlood
          /\ \A k \in RpcIps \X RpcNotices : rpcSent'[k] = 0
          /\ UNCHANGED <<rtVars, lkVars>>
       \/ /\ scene = "seal" /\ RpcNext
          /\ \A i \in RpcIds \ {1} : rpcCall'[i] = rpcCall[i]
          /\ \A a \in RpcAddrs : a.port # 1 => rpcPeer'[a] = rpcPeer[a]
          /\ UNCHANGED <<rtVars, lkVars>>
       \/ /\ scene = "lookup" /\ LkNext
          /\ lkKind' = "Search" => DOMAIN lkState' \subseteq {1, 2}
          /\ UNCHANGED <<rtVars, rpcVars>>

Fairness ==
    /\ LkFairness
    /\ scene \in {"rpc", "seal"} => RpcFairness

Spec == Init /\ [][Next]_vars /\ Fairness
=============================================================================
