--------------------------- MODULE UploadListener ---------------------------
(***************************************************************************)
(* Inbound ED2K connections driving the upload queue                        *)
(* (ed2k_tcp/listener/session.rs, listener/session/upload_queue.rs,         *)
(* listener/session/upload_payload.rs).                                     *)
(*                                                                         *)
(* Every accepted connection is a task that reads packets one at a time.    *)
(* It keeps at most one upload session handle; each call into the queue is  *)
(* one action, because the queue's lock is taken once per call, and other   *)
(* tasks run between two calls.  The actions conjoin the actions of         *)
(* UploadQueue, so this module composes the two components.                 *)
(***************************************************************************)
EXTENDS UploadQueue

CONSTANTS
    Conns,      \* accepted TCP connections
    NoFile,     \* file_hash = None
    NoHandle    \* session = None

VARIABLE conn   \* per connection: the locals of handle_connection

lvars == <<vars, conn>>

\* status:       new, open, closed
\* step:         what the task is doing between two packets: idle, begin_start
\*               and begin_parts (inside begin_upload_session), note (about to
\*               call note_upload_request_parts), serving (writing payload)
\* begun:        the handle begin_upload_session is about to return
\* last_rank:    last_queue_rank, 0 for None
ConnState ==
    [status : {"new", "open", "closed"},
     step : {"idle", "begin_start", "begin_parts", "note", "serving"},
     identity : Peers,
     session : Handle \cup {NoHandle},
     begun : Handle \cup {NoHandle},
     file_hash : Files \cup {NoFile},
     granted_sent : BOOLEAN,
     last_rank : Nat]

ASSUME ListenerAssumption == NoFile \notin Files /\ NoHandle \notin Handle

LInit ==
    /\ Init
    /\ conn \in [Conns -> {[status |-> "new", step |-> "idle", identity |-> p,
                            session |-> NoHandle, begun |-> NoHandle, file_hash |-> NoFile,
                            granted_sent |-> FALSE, last_rank |-> 0] : p \in Peers}]

Idle(c) == conn[c].status = "open" /\ conn[c].step = "idle"

-----------------------------------------------------------------------------
(* What the connection remembers of the answers it sent. *)

mark_granted_sent(s) == [s EXCEPT !.granted_sent = TRUE, !.last_rank = 0]

\* Mutant: granted_sent is not reset.
MarkRankOnly(s, rank) == [s EXCEPT !.last_rank = rank]

mark_waiting(s, rank) == [s EXCEPT !.granted_sent = FALSE, !.last_rank = rank]

\* Mutant: a grant is not announced after a rank was.
SendRankOnly(s, status) ==
    IF status.status = "Waiting" THEN mark_waiting(s, status.rank) ELSE s

\* send_status: accept once, or report the rank, or send nothing.
send_status(s, status) ==
    CASE status.status = "Granted" -> mark_granted_sent(s)
      [] status.status = "Waiting" -> mark_waiting(s, status.rank)
      [] status.status = "Stale"   -> s

\* start_upload_reply answers a stale session with rank 1.
start_upload_reply(s, status) ==
    IF status.status = "Stale" THEN mark_waiting(s, 1) ELSE send_status(s, status)

\* The status of handle h in queue q.
StatusOf(q, h) ==
    IF Owns(q, h) THEN status_for_key(q, h.key, now) ELSE [status |-> "Stale", rank |-> 0]

Closed(s) == [s EXCEPT !.status = "closed", !.step = "idle", !.session = NoHandle,
                       !.file_hash = NoFile, !.granted_sent = FALSE, !.last_rank = 0]

-----------------------------------------------------------------------------
(* Packets. *)

\* The socket identity is fixed at accept time (it is the one Init chose).
Accept(c) ==
    /\ conn[c].status = "new"
    /\ conn' = [conn EXCEPT ![c].status = "open"]
    /\ UNCHANGED vars

\* OP_HELLO: the identity of the connection changes; its session does not.
Hello(c, p) ==
    /\ Idle(c)
    /\ conn' = [conn EXCEPT ![c].identity = p]
    /\ UNCHANGED vars

\* OP_STARTUPLOADREQ for the file the connection already asked for.
StartUploadAgain(c) ==
    /\ Idle(c)
    /\ conn[c].session # NoHandle
    /\ PollUploadSession(conn[c].session, TRUE)
    /\ conn' = [conn EXCEPT ![c] = start_upload_reply(@, StatusOf(queue', @.session))]

\* OP_STARTUPLOADREQ or OP_REQUESTPARTS for another file: begin_upload_session
\* draws a connection id and then waits for the queue lock.
CallBegin(c, f, step) ==
    /\ Idle(c)
    /\ conn[c].file_hash # f
    /\ TakeConnectionId([peer |-> conn[c].identity, file |-> f])
    /\ conn' = [conn EXCEPT ![c].step = step,
                            ![c].begun = [key |-> [peer |-> conn[c].identity, file |-> f],
                                          connection_id |-> next_connection_id]]

\* The call returns: the new handle replaces the old one, which is forgotten.
Begun(s, step) == [s EXCEPT !.step = step, !.session = s.begun, !.begun = NoHandle,
                            !.file_hash = s.begun.key.file]

FinishStartUpload(c) ==
    /\ conn[c].step = "begin_start"
    /\ BeginUploadSession(conn[c].begun)
    /\ conn' = [conn EXCEPT ![c] = start_upload_reply(Begun(@, "idle"),
                                                      StatusOf(queue', @.begun))]

\* ensure_session_for_parts: go on to note_request_parts only when granted.
FinishEnsureSession(c) ==
    /\ conn[c].step = "begin_parts"
    /\ BeginUploadSession(conn[c].begun)
    /\ LET status == StatusOf(queue', conn[c].begun)
           next == IF status.status = "Granted" THEN "note" ELSE "idle"
       IN  conn' = [conn EXCEPT ![c] = send_status([Begun(@, next) EXCEPT !.granted_sent = FALSE],
                                                   status)]

\* OP_REQUESTPARTS for the file of the session needs no ensure step.
RequestParts(c) ==
    /\ Idle(c)
    /\ conn[c].session # NoHandle
    /\ conn' = [conn EXCEPT ![c].step = "note"]
    /\ UNCHANGED vars

\* note_request_parts: serve, report the rank, or close a stale session (its
\* release at the end of the task finds another owner and does nothing).
NoteRequestParts(c) ==
    /\ conn[c].step = "note"
    /\ NoteUploadRequestParts(conn[c].session)
    /\ LET status == StatusOf(queue', conn[c].session)
           next == IF status.status = "Granted" THEN "serving" ELSE "idle"
       IN  conn' = [conn EXCEPT ![c] = IF status.status = "Stale" THEN Closed(@)
                                       ELSE send_status([@ EXCEPT !.step = next], status)]

FinishServing(c) ==
    /\ conn[c].step = "serving"
    /\ conn' = [conn EXCEPT ![c].step = "idle"]
    /\ UNCHANGED vars

\* The read times out: poll, tell the peer what changed, or close.
ReadTimeout(c) ==
    /\ Idle(c)
    /\ IF conn[c].session = NoHandle
       THEN conn' = [conn EXCEPT ![c] = Closed(@)] /\ UNCHANGED vars
       ELSE /\ PollUploadSession(conn[c].session, TRUE)
            /\ LET status == StatusOf(queue', conn[c].session)
               IN  conn' = [conn EXCEPT ![c] = IF status.status = "Stale" THEN Closed(@)
                                               ELSE send_status(@, status)]

\* End of stream, OP_CANCELTRANSFER, OP_END_OF_DOWNLOAD of the requested file,
\* an unsupported opcode, or the end of a claimed callback download: the loop
\* breaks and the session is released.
Disconnect(c) ==
    /\ Idle(c)
    /\ conn' = [conn EXCEPT ![c] = Closed(@)]
    /\ IF conn[c].session = NoHandle THEN UNCHANGED vars
       ELSE ReleaseUploadSession(conn[c].session)

\* A read, a decode or a write fails: the error leaves handle_connection
\* through `?`, past the release at its end.
Fail(c) ==
    /\ conn[c].status = "open"
    /\ conn[c].step \in {"idle", "note", "serving"}
    /\ conn' = [conn EXCEPT ![c] = Closed(@)]
    /\ UNCHANGED vars

LTick == Tick /\ UNCHANGED conn

LNext ==
    \/ \E c \in Conns :
          \/ Accept(c)
          \/ \E p \in Peers : Hello(c, p)
          \/ StartUploadAgain(c)
          \/ \E f \in Files, step \in {"begin_start", "begin_parts"} : CallBegin(c, f, step)
          \/ FinishStartUpload(c)
          \/ FinishEnsureSession(c)
          \/ RequestParts(c)
          \/ NoteRequestParts(c)
          \/ FinishServing(c)
          \/ ReadTimeout(c)
          \/ Disconnect(c)
          \/ Fail(c)
    \/ LTick

\* The queue lock is granted eventually, a write of payload ends or fails, and
\* a connection whose peer stays silent reaches its read timeout.  Nothing makes
\* an idle connection fail.
Fairness ==
    \A c \in Conns :
        /\ WF_lvars(FinishStartUpload(c))
        /\ WF_lvars(FinishEnsureSession(c))
        /\ WF_lvars(NoteRequestParts(c))
        /\ WF_lvars(conn[c].step = "serving" /\ (FinishServing(c) \/ Fail(c)))
        /\ WF_lvars(ReadTimeout(c))

LSpec == LInit /\ [][LNext]_lvars /\ Fairness

-----------------------------------------------------------------------------
(* Properties. *)

Held(h) == \E c \in Conns : conn[c].session = h

\* What a connection was last told agrees with the queue: while it owns a
\* waiting session it has been told a rank and not that it may upload, and an
\* accept it was sent is still good.  The flags live in the listener, the
\* phase in the queue, and promotion, rekeying and reaping happen in between.
AnswerMatchesQueue ==
    \A c \in Conns :
        Idle(c) /\ conn[c].session # NoHandle /\ Owns(queue, conn[c].session) =>
            IF queue.sessions[conn[c].session.key].phase = "Waiting"
            THEN ~ conn[c].granted_sent /\ conn[c].last_rank > 0
            ELSE conn[c].granted_sent \/ conn[c].last_rank > 0

\* A session no connection holds any more (its connection failed, or changed
\* identity and began another one) is never refreshed: its idle clock restarts
\* at most once, when promotion grants it a slot.  So every leaked slot is
\* reaped after waiting_timeout plus granted_timeout, or upload_timeout.
OrphansAgeOut ==
    [][\A k \in DOMAIN queue.sessions :
          LET before == queue.sessions[k]
              after == queue'.sessions[k]
          IN  /\ ~ Held([key |-> k, connection_id |-> before.connection_id])
              /\ k \in DOMAIN queue'.sessions
              /\ after.waiting_sequence = before.waiting_sequence
              /\ after.connection_id = before.connection_id
              => \/ after.last_activity = before.last_activity
                 \/ before.phase = "Waiting" /\ after.phase = "Granted"]_lvars

\* A connection whose session was promoted tells its peer: it sends the accept,
\* or the connection ends, or the session passes to another connection.
GrantEventuallyAnnounced ==
    \A c \in Conns :
        (Idle(c) /\ conn[c].session # NoHandle /\ ~ conn[c].granted_sent
            /\ conn[c].session.key \in Active(queue) /\ Owns(queue, conn[c].session))
        ~> (\/ conn[c].granted_sent
            \/ conn[c].session = NoHandle
            \/ ~ Owns(queue, conn[c].session))

\* A connection whose session was taken over by a newer connection of its peer,
\* evicted or reaped does not linger: it closes or begins another session.
StaleEventuallyClosed ==
    \A c \in Conns : \A h \in [key : Key, connection_id : 1..MaxConnections] :
        (Idle(c) /\ conn[c].session = h /\ ~ Owns(queue, h)) ~> (conn[c].session # h)

\* A connection learns what became of its session, whoever changed it: a grant
\* is announced, a session it lost is given up.
ConnectionsCatchUp == GrantEventuallyAnnounced /\ StaleEventuallyClosed
=============================================================================
