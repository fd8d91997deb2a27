----------------------------- MODULE ServerLink -----------------------------
(***************************************************************************)
(* The long-lived ED2K server session: the loop that connects, logs in and *)
(* rotates (loop_runtime.rs, session_driver.rs), the bounded channel over  *)
(* which jobs hand it keyword searches, source searches and callback       *)
(* requests (background.rs), and the packets it handles meanwhile          *)
(* (packet_handler.rs).  One search is dispatched at a time, over TCP and  *)
(* over UDP; the server answers each on its own, in its own time, and      *)
(* neither answer says which request it belongs to, except that an entry   *)
(* of a source answer carries the hash of its file.                        *)
(***************************************************************************)
EXTENDS Integers, Sequences, FiniteSets

CONSTANTS
    SlReqs,        \* requests of the jobs; a request also names its query or hash
    SlKind,        \* of each request: "keyword", "source" or "callback"
    SlCapacity,    \* ED2K_BACKGROUND_SEARCH_QUEUE_CAPACITY
    SlProbes,      \* probe_search_term is configured
    SlRotates,     \* session_rotation_secs > 0
    SlMaxSessions, \* bound: sessions opened
    SlMaxNews,     \* bound: packets the server sends unasked in a session
    NoReq,         \* None
    Probe          \* the probe search, whose answer nobody waits for

VARIABLES
    slJob,      \* per request: idle, sending, waiting, or how it ended
    slGot,      \* per request: the queries whose results its Ok carries
    slInbox,    \* the mpsc channel
    slLink,     \* down, login (login request sent), up (login_accepted) or gone (aborted)
    slQueued,   \* queued_background_search
    slPending,  \* pending_background_search: its request, or NoReq
    slPages,    \* results collected so far for slPending
    slState,    \* Ed2kServerState: [endpoint, connected, id]
    slProbed,   \* probe_search_sent
    slOffered,  \* offer_files_catalog_fingerprint, 0 before the first offer
    slCatalog,  \* fingerprint of the shared catalog
    slPartial,  \* part of a packet is read: TRUE while read_packet holds bytes
    slTorn,     \* bytes of a packet were dropped with the read that held them
    slTcp,      \* packets of the server on their way, in order
    slUdp,      \* datagrams of the server that may still arrive
    slAsked,    \* requests that reached the server in some session
    slSessions, \* sessions opened
    slNews      \* packets sent unasked in this session

slWire == <<slTcp, slUdp>>
slJobs == <<slJob, slGot, slInbox>>
slVars == <<slJob, slGot, slInbox, slLink, slQueued, slPending, slPages, slState, slProbed,
            slOffered, slCatalog, slPartial, slTorn, slTcp, slUdp, slAsked, slSessions, slNews>>

Cleared == [endpoint |-> FALSE, connected |-> FALSE, id |-> 0]

SlInit ==
    /\ slJob = [r \in SlReqs |-> "idle"]
    /\ slGot = [r \in SlReqs |-> {}]
    /\ slInbox = <<>>
    /\ slLink = "down"
    /\ slQueued = NoReq /\ slPending = NoReq /\ slPages = {}
    /\ slState = Cleared
    /\ slProbed = FALSE /\ slOffered = 0 /\ slCatalog = 1
    /\ slPartial = FALSE /\ slTorn = FALSE
    /\ slTcp = <<>> /\ slUdp = {}
    /\ slAsked = {} /\ slSessions = 0 /\ slNews = 0

(***************************************************************************)
(* The jobs.  The send waits for room in the channel outside the timeout   *)
(* and outside the cancellation; the timeout runs from then on.            *)
(***************************************************************************)
SlAsk(r) ==
    /\ slJob[r] = "idle"
    /\ slJob' = [slJob EXCEPT ![r] = "sending"]
    /\ UNCHANGED <<slGot, slInbox, slLink, slQueued, slPending, slPages, slState, slProbed,
                   slOffered, slCatalog, slPartial, slTorn, slWire, slAsked, slSessions, slNews>>

SlSend(r) ==
    /\ slJob[r] = "sending"
    /\ Len(slInbox) < SlCapacity /\ slLink # "gone"
    /\ slInbox' = Append(slInbox, r)
    /\ slJob' = [slJob EXCEPT ![r] = "waiting"]
    /\ UNCHANGED <<slGot, slLink, slQueued, slPending, slPages, slState, slProbed,
                   slOffered, slCatalog, slPartial, slTorn, slWire, slAsked, slSessions, slNews>>

SlSendClosed(r) ==
    /\ slJob[r] = "sending" /\ slLink = "gone"
    /\ slJob' = [slJob EXCEPT ![r] = "error"]
    /\ UNCHANGED <<slGot, slInbox, slLink, slQueued, slPending, slPages, slState, slProbed,
                   slOffered, slCatalog, slPartial, slTorn, slWire, slAsked, slSessions, slNews>>

SlGiveUp(r) ==
    /\ slJob[r] = "waiting"
    /\ \E how \in {"timeout", "cancelled"} : slJob' = [slJob EXCEPT ![r] = how]
    /\ UNCHANGED <<slGot, slInbox, slLink, slQueued, slPending, slPages, slState, slProbed,
                   slOffered, slCatalog, slPartial, slTorn, slWire, slAsked, slSessions, slNews>>

\* response.send, or the sender dropped: lost on a job that gave up.
Ends(rs, how, got) ==
    /\ slJob' = [r \in SlReqs |-> IF r \in rs /\ slJob[r] = "waiting" THEN how ELSE slJob[r]]
    /\ slGot' = [r \in SlReqs |-> IF r \in rs /\ slJob[r] = "waiting" THEN got ELSE slGot[r]]

HeldReqs == {slQueued, slPending} \ {NoReq}
Live == slLink \in {"login", "up"}

(***************************************************************************)
(* Sessions.  run_one_server_session returns Ok on rotation and Err on any *)
(* error; both ways the state is cleared and what was queued or pending is *)
(* answered with an error or dropped.  Sockets die with the session.       *)
(***************************************************************************)
SlConnect ==
    /\ slLink = "down" /\ slSessions < SlMaxSessions
    /\ slSessions' = slSessions + 1
    /\ \/ /\ slLink' = "login"
          /\ slState' = [Cleared EXCEPT !.endpoint = TRUE]
       \/ slLink' = "down" /\ slState' = Cleared   \* resolve, connect or login send failed
    /\ slProbed' = FALSE /\ slOffered' = 0 /\ slNews' = 0
    /\ slPartial' = FALSE /\ slTorn' = FALSE
    /\ slTcp' = <<>> /\ slUdp' = {}
    /\ UNCHANGED <<slJobs, slQueued, slPending, slPages, slCatalog, slAsked>>

\* What every way out of the session does, with the requests that fall with it.
Close(how) ==
    /\ slLink' = "down" /\ slState' = Cleared
    /\ Ends(HeldReqs, how, {})
    /\ slQueued' = NoReq /\ slPending' = NoReq /\ slPages' = {}
    /\ slPartial' = FALSE /\ slTorn' = FALSE
    /\ slTcp' = <<>> /\ slUdp' = {}
    /\ UNCHANGED <<slInbox, slProbed, slOffered, slCatalog, slAsked, slSessions, slNews>>

SlRotate ==
    /\ SlRotates /\ Live /\ HeldReqs = {}
    /\ Close("error")

\* The server closes the connection, or a read or a send fails.
SlLost ==
    /\ Live
    /\ Close("error") \/ Close("dropped")

(* stop_runtime: the flag is set and the task aborted, the channel falls with it. *)
SlStop ==
    /\ slLink # "gone" /\ slLink' = "gone"
    /\ slState' \in {slState, Cleared}
    /\ slJob' = [r \in SlReqs |->
                   CASE slJob[r] = "waiting" -> "dropped"
                     [] slJob[r] = "sending" -> "error"
                     [] OTHER -> slJob[r]]
    /\ slInbox' = <<>> /\ slQueued' = NoReq /\ slPending' = NoReq /\ slPages' = {}
    /\ slPartial' = FALSE /\ slTorn' = FALSE
    /\ slTcp' = <<>> /\ slUdp' = {}
    /\ UNCHANGED <<slGot, slProbed, slOffered, slCatalog, slAsked, slSessions, slNews>>

\* select! drops the read_packet future of this turn with the bytes it holds.
DropsRead == slPartial' = FALSE /\ slTorn' = (slTorn \/ slPartial)

SlReadPart ==
    /\ Live /\ slTcp # <<>> /\ ~slPartial /\ ~slTorn
    /\ slPartial' = TRUE
    /\ UNCHANGED <<slJobs, slLink, slQueued, slPending, slPages, slState, slProbed, slOffered,
                   slCatalog, slTorn, slWire, slAsked, slSessions, slNews>>

\* What follows a torn packet is read as a header: another protocol byte ends the session.
SlReadTorn ==
    /\ Live /\ slTorn
    /\ Close("dropped")

(***************************************************************************)
(* Dispatch of a request (start_background_server_search), after the login *)
(* and after the offer has settled.  The server queues its TCP answer and  *)
(* may send a datagram; an Err drops the responder and is only logged.     *)
(***************************************************************************)
Answers(r) ==
    CASE r = Probe \/ SlKind[r] = "keyword" ->
           {<<[op |-> "result", of |-> r, more |-> m]>> : m \in BOOLEAN}
      [] SlKind[r] = "source" ->
           {<<[op |-> "found", of |-> r, n |-> k]>> : k \in {0, 1}}
      [] SlKind[r] = "callback" -> {<<>>, <<[op |-> "callback_fail"]>>}

Datagrams(r) ==
    IF r = Probe \/ SlKind[r] = "callback" THEN {}
    ELSE {[op |-> IF SlKind[r] = "keyword" THEN "globsearchres" ELSE "globfound", of |-> r]}

Start(r, wire) ==
    \/ /\ SlKind[r] = "keyword"          \* an empty payload is answered at once
       /\ Ends({r}, "ok", {})
       /\ slPending' = NoReq /\ slTcp' = wire
       /\ UNCHANGED <<slPages, slUdp, slAsked>>
    \/ /\ Ends({r}, "dropped", {})       \* the send failed
       /\ slPending' = NoReq /\ slTcp' = wire
       /\ UNCHANGED <<slPages, slUdp, slAsked>>
    \/ /\ \E a \in Answers(r) : slTcp' = wire \o a
       /\ slUdp' = slUdp \cup Datagrams(r)
       /\ slAsked' = slAsked \cup {r}
       /\ IF SlKind[r] = "callback"
          THEN Ends({r}, "ok", {r}) /\ slPending' = NoReq /\ UNCHANGED slPages
          ELSE slPending' = r /\ slPages' = {} /\ UNCHANGED <<slJob, slGot>>

SlTake ==
    /\ Live /\ HeldReqs = {} /\ slInbox # <<>>
    /\ slInbox' = Tail(slInbox)
    /\ DropsRead
    /\ IF slLink = "up"
       THEN Start(Head(slInbox), slTcp) /\ UNCHANGED slQueued
       ELSE /\ slQueued' = Head(slInbox)
            /\ UNCHANGED <<slJob, slGot, slPending, slPages, slWire, slAsked>>
    /\ UNCHANGED <<slLink, slState, slProbed, slOffered, slCatalog, slSessions, slNews>>

SlDeadline ==
    /\ Live /\ slPending # NoReq
    /\ Ends({slPending}, "error", {})
    /\ slPending' = NoReq /\ slPages' = {}
    /\ DropsRead
    /\ UNCHANGED <<slInbox, slLink, slQueued, slState, slProbed, slOffered, slCatalog,
                   slWire, slAsked, slSessions, slNews>>

(***************************************************************************)
(* Packets of the server.                                                  *)
(***************************************************************************)
Unasked ==
    {[op |-> "idchange", id |-> i] : i \in {0, 1}}
    \cup {[op |-> "news"],          \* server ident, list and message
          [op |-> "callback"],      \* OP_CALLBACKREQUESTED: a task dials the peer
          [op |-> "reject"]}

SlServerSends(p) ==
    /\ Live /\ slNews < SlMaxNews /\ ~slTorn
    /\ slTcp' = Append(slTcp, p)
    /\ slNews' = slNews + 1
    /\ UNCHANGED <<slJobs, slLink, slQueued, slPending, slPages, slState, slProbed, slOffered,
                   slCatalog, slPartial, slTorn, slUdp, slAsked, slSessions>>

\* maybe_send_probe_search: once per session, and not while a job's search waits.
SendsProbe(link) == SlProbes /\ link = "up" /\ ~slProbed /\ HeldReqs = {}

\* handle_server_packet, which ends with the dispatch of a queued request.
Handled(p) ==
    LET up == IF p.op # "idchange" THEN slLink ELSE IF p.id = 0 THEN "login" ELSE "up"
        probes == p.op \in {"idchange", "news"} /\ SendsProbe(up)
        more == IF p.op = "result" /\ p.more THEN <<[p EXCEPT !.more = FALSE]>> ELSE <<>>
        probe == IF probes THEN <<[op |-> "result", of |-> Probe, more |-> FALSE]>> ELSE <<>>
        wire == Tail(slTcp) \o more \o probe
    IN  /\ slLink' = up
        /\ slState' = IF p.op # "idchange" THEN slState
                      ELSE [endpoint |-> TRUE, connected |-> p.id # 0, id |-> p.id]
        /\ slOffered' = IF p.op = "idchange" /\ p.id # 0 THEN slCatalog ELSE slOffered
        /\ slProbed' = (slProbed \/ probes)
        /\ IF up = "up" /\ slPending = NoReq /\ slQueued # NoReq
           THEN Start(slQueued, wire) /\ slQueued' = NoReq
           ELSE /\ slTcp' = wire
                /\ UNCHANGED <<slQueued, slPending, slPages, slJob, slGot, slUdp, slAsked>>

\* A page of results for the pending keyword search: ask for more, or answer.
KeywordPage(p) ==
    IF p.more
    THEN /\ slTcp' = Append(Tail(slTcp), [p EXCEPT !.more = FALSE])
         /\ slPages' = slPages \cup {p.of}
         /\ UNCHANGED <<slPending, slJob, slGot>>
    ELSE /\ Ends({slPending}, "ok", slPages \cup {p.of})
         /\ slPending' = NoReq /\ slPages' = {}
         /\ slTcp' = Tail(slTcp)

\* Mutant: the entries are taken whichever file they name.
ValidSourcesAny(of, n, r) == TRUE

\* validate_found_sources accepts every entry: they name the file asked for.
ValidSources(of, n, r) == n = 0 \/ of = r

FoundSources(p) ==
    /\ Ends({slPending}, "ok", IF p.n = 0 THEN {} ELSE {p.of})
    /\ slPending' = NoReq /\ slTcp' = Tail(slTcp)
    /\ UNCHANGED slPages

SlRead ==
    /\ Live /\ ~slTorn /\ slTcp # <<>>
    /\ LET p == Head(slTcp)
           kind == IF slPending = NoReq THEN "none" ELSE SlKind[slPending]
           own == \/ p.op = "result" /\ kind = "keyword"
                  \/ p.op = "found" /\ kind = "source"
       IN  \/ /\ own /\ p.op = "result"
              /\ KeywordPage(p)
              /\ slPartial' = FALSE
              /\ UNCHANGED <<slInbox, slLink, slQueued, slState, slProbed, slOffered, slCatalog,
                             slTorn, slUdp, slAsked, slSessions, slNews>>
           \/ /\ own /\ p.op = "found" /\ ValidSources(p.of, p.n, slPending)
              /\ FoundSources(p)
              /\ slPartial' = FALSE
              /\ UNCHANGED <<slInbox, slLink, slQueued, slState, slProbed, slOffered, slCatalog,
                             slTorn, slUdp, slAsked, slSessions, slNews>>
           \/ /\ own /\ p.op = "found" /\ ~ValidSources(p.of, p.n, slPending)
              /\ Close("dropped")
           \/ p.op = "reject" /\ Close("dropped")
           \/ /\ ~own /\ p.op # "reject"
              /\ Handled(p)
              /\ slPartial' = FALSE
              /\ UNCHANGED <<slInbox, slCatalog, slTorn, slSessions, slNews>>

(***************************************************************************)
(* handle_background_udp_packet: the pending search is taken before its    *)
(* kind is looked at.  A datagram may come twice, or late, or not at all.  *)
(***************************************************************************)
SlDatagram(d) ==
    /\ Live /\ d \in slUdp
    /\ slUdp' \in {slUdp, slUdp \ {d}}
    /\ LET kind == IF slPending = NoReq THEN "none" ELSE SlKind[slPending]
       IN  \/ /\ kind = "none"
              /\ DropsRead
              /\ UNCHANGED <<slJob, slGot, slLink, slState, slPending, slPages, slQueued, slTcp>>
           \/ /\ d.op = "globsearchres" /\ kind = "keyword"
              /\ Ends({slPending}, "ok", slPages \cup {d.of})
              /\ slPending' = NoReq /\ slPages' = {}
              /\ DropsRead
              /\ UNCHANGED <<slLink, slState, slQueued, slTcp>>
           \/ /\ d.op = "globfound" /\ kind = "source" /\ ValidSources(d.of, 1, slPending)
              /\ Ends({slPending}, "ok", {d.of})
              /\ slPending' = NoReq
              /\ DropsRead
              /\ UNCHANGED <<slLink, slState, slPages, slQueued, slTcp>>
           \/ /\ \/ d.op = "globsearchres" /\ kind = "source"
                 \/ d.op = "globfound" /\ kind = "keyword"
              /\ Ends({slPending}, "dropped", {})
              /\ slPending' = NoReq /\ slPages' = {}
              /\ DropsRead
              /\ UNCHANGED <<slLink, slState, slQueued, slTcp>>
    /\ UNCHANGED <<slInbox, slProbed, slOffered, slCatalog, slAsked, slSessions, slNews>>

\* A source datagram for another file: the error ends the session.
SlDatagramWrong(d) ==
    /\ Live /\ d \in slUdp
    /\ d.op = "globfound" /\ slPending # NoReq /\ SlKind[slPending] = "source"
    /\ ~ValidSources(d.of, 1, slPending)
    /\ Close("dropped")

(* The keepalive turn: a changed catalog is offered again, whatever the login's fate. *)
SlKeepalive ==
    /\ Live
    /\ slOffered' = slCatalog
    /\ DropsRead
    /\ UNCHANGED <<slJobs, slLink, slQueued, slPending, slPages, slState, slProbed, slCatalog,
                   slWire, slAsked, slSessions, slNews>>

SlCatalogGrows ==
    /\ slCatalog = 1 /\ slCatalog' = 2
    /\ UNCHANGED <<slJobs, slLink, slQueued, slPending, slPages, slState, slProbed, slOffered,
                   slPartial, slTorn, slWire, slAsked, slSessions, slNews>>

SlNext ==
    \/ \E r \in SlReqs : SlAsk(r) \/ SlSend(r) \/ SlSendClosed(r) \/ SlGiveUp(r)
    \/ SlConnect \/ SlRotate \/ SlLost \/ SlStop
    \/ SlReadPart \/ SlReadTorn \/ SlRead \/ SlTake \/ SlDeadline
    \/ \E p \in Unasked : SlServerSends(p)
    \/ \E d \in slUdp : SlDatagram(d) \/ SlDatagramWrong(d)
    \/ SlKeepalive \/ SlCatalogGrows

SlSpec == SlInit /\ [][SlNext]_slVars

(* A source search never hands a job sources of another file, although the    *)
(* answer to an earlier search, over TCP or UDP, may arrive while a later one *)
(* is pending (validate_found_sources).                                       *)
SourceAnswerOwnFile ==
    \A r \in SlReqs : slJob[r] = "ok" /\ SlKind[r] = "source" => slGot[r] \subseteq {r}

(* A job told Ok with anything to show for it did reach the server: the       *)
(* callback was requested, the search dispatched, in a session that had been  *)
(* accepted, however often sessions were lost while the request waited.       *)
OkMeansAsked ==
    \A r \in SlReqs :
        slJob[r] = "ok" /\ (SlKind[r] = "keyword" => slGot[r] # {}) => r \in slAsked

(* The state the agent's firewall check reads says connected only while a     *)
(* session is logged in, after any number of rotations, closures and refused  *)
(* logins; only the abort of the whole runtime leaves it behind.              *)
ConnectedHonest ==
    /\ slState.connected => slLink \in {"up", "gone"}
    /\ slLink = "up" => slState.connected /\ slState.id # 0

(* What the server session tells the rest of the agent is so: a job's        *)
(* sources, its success, and the connected state.                            *)
ServerHonest == SourceAnswerOwnFile /\ OkMeansAsked /\ ConnectedHonest
=============================================================================
