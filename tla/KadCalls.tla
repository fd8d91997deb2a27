------------------------------ MODULE KadCalls ------------------------------
(***************************************************************************)
(* What the Kad RPC layer promises its callers: a call that was opened ends *)
(* exactly once.  It is answered by one arriving packet of the kind it      *)
(* waits for from the host it asked, one packet answers at most one call,   *)
(* and a call nobody answers fails, so that no caller waits for ever.       *)
(***************************************************************************)
CONSTANTS Calls, Hosts, Kinds

VARIABLES
    outcome,   \* [Calls -> "idle", "open", "answered" or "failed"]
    question   \* [Calls -> the host asked and the kind of answer awaited]

vars == <<outcome, question>>

Nobody == [host |-> "none", kind |-> "none"]

Init ==
    /\ outcome = [i \in Calls |-> "idle"]
    /\ question = [i \in Calls |-> Nobody]

Open(i) ==
    /\ outcome[i] = "idle"
    /\ outcome' = [outcome EXCEPT ![i] = "open"]
    /\ \E h \in Hosts, k \in Kinds :
          question' = [question EXCEPT ![i] = [host |-> h, kind |-> k]]

End(i, how) ==
    /\ outcome[i] = "open"
    /\ outcome' = [outcome EXCEPT ![i] = how]
    /\ UNCHANGED question

Next == \E i \in Calls : Open(i) \/ End(i, "answered") \/ End(i, "failed")

Spec ==
    /\ Init
    /\ [][Next]_vars
    /\ \A i \in Calls : WF_vars(End(i, "answered") \/ End(i, "failed"))
=============================================================================
