------------------------ MODULE MCUploadListenerLive ------------------------
(***************************************************************************)
(* Two scenes of the peer connections.  In "listener" two connections and  *)
(* one file: what the listener eventually tells a peer.  In "dialogue" one *)
(* download connection with both of its ends; the uploader is a client of  *)
(* one of three generations and volunteers one thing at most.              *)
(***************************************************************************)
EXTENDS UploadListener, PeerDialogue

CONSTANTS Scenes, c1, c2, p1, p2, f1
VARIABLE scene

MCConns == {c1, c2}
MCPeers == {p1, p2}
MCFriendPeers == {}
MCFiles == {f1}

\* An early client that tells the rest in its OP_EMULEINFO, a legacy one, a recent one.
MCPdCaps == {{"aich"}, {"sec", "multi", "aich", "sx"}, {"sec", "ids", "multi", "aich", "sx"}}

MCInit ==
    /\ scene \in Scenes /\ LInit /\ PdInit
    /\ pdPeer.info = {} \/ pdPeer.caps = {"aich"}
    /\ pdFile.sources /\ (pdFile.shared \/ pdFile.size = "small")
    /\ scene # "dialogue" =>
           /\ pdPeer = [call |-> "dialled", caps |-> {"aich"}, info |-> {}, ask |-> 2]
           /\ pdFile.size = "small" /\ pdFile.shared /\ pdFile.known /\ pdD.sx_allowed
    /\ scene # "listener" => conn[c1].identity = p1 /\ conn[c2].identity = p1

Refused == pdToD # <<>> /\ Head(pdToD).op = "FILEREQANSNOFIL"

\* An end gives up, or an aside comes, while a large file is asked for; an early
\* client tells its abilities whatever the file.
Dialogue ==
    /\ PdNext
    /\ pdU'.informed => pdPeer.caps = {"aich"} /\ pdU'.asides = 0
    /\ pdU'.asides = 1 \/ ~pdU'.open \/ (pdD.open /\ ~pdD'.open /\ ~Refused) =>
           pdFile.size = "large" /\ pdFile.known /\ pdFile.hashset

MCNext ==
    /\ UNCHANGED scene
    /\ \/ scene = "listener" /\ LNext /\ UNCHANGED pdVars
       \/ scene = "dialogue" /\ Dialogue /\ UNCHANGED lvars

\* The fairness is the listener's; the dialogue's properties are about safety.
MCSpec == MCInit /\ [][MCNext]_<<lvars, pdVars, scene>> /\ Fairness
=============================================================================
