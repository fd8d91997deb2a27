------------------------------ MODULE MCEd2kNet ------------------------------
(***************************************************************************)
(* The ED2K network components on small instances.  They share no state in *)
(* the scenes below, so each behaviour picks one scene and moves only its  *)
(* component.  The background session gets two scenes: one in which two    *)
(* source searches meet late and foreign answers over several sessions,    *)
(* and one in which requests of all kinds meet a packet torn by select!.   *)
(* In the listener's scene two peers on two connections compete for one    *)
(* slot and one waiting place.  In the scene of the search jobs two        *)
(* requests carry the same job id.                                         *)
(***************************************************************************)
EXTENDS ServerLink, ActiveSearch, SourceHunt, PeerTransport, UploadListener, SearchJobs

CONSTANTS Scenes, c1, c2, p1, p2, f1, f2
VARIABLE scene

MCSlKind == [r \in SlReqs |-> CASE r = "k" -> "keyword" [] r = "c" -> "callback" [] OTHER -> "source"]

MCAcServers == <<"a1", "a2", "a3">>

MCShSources ==
    {[ep |-> "p", low |-> FALSE, opt |-> "may"], [ep |-> "p", low |-> FALSE, opt |-> "none"],
     [ep |-> "q", low |-> TRUE, opt |-> "none"], [ep |-> "l", low |-> FALSE, opt |-> "must"]}

MCSjJob == [j1 |-> [id |-> 1, kind |-> "keyword"], j2 |-> [id |-> 1, kind |-> "hash"],
            j3 |-> [id |-> 2, kind |-> "ed2k"]]

MCConns == {c1, c2}
MCPeers == {p1, p2}
MCFriendPeers == {}
MCFiles == {f1, f2}

MCInit ==
    /\ scene \in Scenes /\ SlInit /\ AcInit /\ ShInit /\ PtInit /\ LInit /\ SjInit
    /\ scene # "listener" => conn[c1].identity = p1 /\ conn[c2].identity = p1

\* The server sends two packets unasked in the first session only.  Of three
\* kinds of request two meet a torn packet, and all three meet whole ones.
Link ==
    /\ SlNext
    /\ scene = "files" => /\ slJob'["k"] = "idle" /\ slJob'["c"] = "idle"
                          /\ ~slPartial' /\ slCatalog' = 1
                          /\ slSessions' = 2 => slNews' <= 1
    /\ scene = "mixed" => /\ slJob'["s2"] = "idle" /\ slSessions' <= 1 /\ slNews' <= 1
                          /\ slCatalog' = 2 => slJob'["c"] = "idle" /\ slJob'["s"] = "idle"
                          /\ \/ \E r \in {"k", "s", "c"} : slJob'[r] = "idle"
                             \/ ~slPartial' /\ ~slTorn'

\* The clock stands at 2 only while no third connection was handed out; the
\* second file is asked for on c1 only.
Listens ==
    /\ LNext
    /\ next_connection_id' > 3 => now' <= 1
    /\ conn'[c2].file_hash # f2

\* j1 and j2 share a job id and meet; the other pairs share nothing and are
\* left out.  A search that is alone yields two results and meets every outcome
\* of a call; of two, one yields a result and their calls arrive.
Jobs ==
    /\ SjNext
    /\ sjAt'["j3"] # "new" => sjAt'["j1"] = "new" /\ sjAt'["j2"] = "new"
    /\ sjAt'["j1"] # "new" /\ sjAt'["j2"] # "new" =>
           /\ sjSeen'["j1"] <= 1 /\ sjSeen'["j2"] = 0
           /\ \A t \in {"j1", "j2"} :
                 /\ sjGot'[t] = sjStats'[t]
                 /\ sjAt'[t] = "search" => sjTold'[t].status # "none"
                 /\ sjAt'[t] = "finish" => sjTold'[t] = sjEnd'[t]

MCNext ==
    /\ UNCHANGED scene
    /\ \/ /\ scene \in {"files", "mixed"} /\ Link
          /\ UNCHANGED <<acVars, shVars, ptVars, lvars, sjVars>>
       \/ scene = "active" /\ AcStep /\ UNCHANGED <<slVars, shVars, ptVars, lvars, sjVars>>
       \/ scene = "hunt" /\ ShNext /\ UNCHANGED <<slVars, acVars, ptVars, lvars, sjVars>>
       \/ scene = "peer" /\ PtNext /\ UNCHANGED <<slVars, acVars, shVars, lvars, sjVars>>
       \/ scene = "listener" /\ Listens /\ UNCHANGED <<slVars, acVars, shVars, ptVars, sjVars>>
       \/ scene = "jobs" /\ Jobs /\ UNCHANGED <<slVars, acVars, shVars, ptVars, lvars>>

MCSpec ==
    MCInit /\ [][MCNext]_<<slVars, acVars, shVars, ptVars, lvars, sjVars, scene>>
=============================================================================
