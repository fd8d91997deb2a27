--------------------------- MODULE PeerDialogue ---------------------------
(***************************************************************************)
(* One download connection from the hello to the first part, with both of  *)
(* its ends: the downloader is drive_download_session with                 *)
(* advance_download_startup (ed2k_tcp/download/), the uploader the packet  *)
(* loop of handle_connection (ed2k_tcp/listener/).  Packets travel in      *)
(* order both ways.  Either end may give up when nothing arrives in time.  *)
(*                                                                         *)
(* The connection is dialled by the downloader, or by a LowID uploader     *)
(* that was asked to call back; the downloader's listener then starts the  *)
(* session with a hello it takes as complete.  The uploader announces the  *)
(* abilities of some client and asks for identification the way that       *)
(* client does; everything else it does is what this program's listener    *)
(* does.  Several packets only ask for a note or a fixed reply: they are   *)
(* the two kinds of aside.  How parts are asked for and served, and how    *)
(* the queue grants slots, is in DownloadSession and UploadListener.       *)
(***************************************************************************)
EXTENDS Naturals, Sequences

CONSTANTS
    PdCalls,  \* how the connection was made: a subset of {"dialled", "callback"}
    PdCaps,   \* sets of abilities an uploader's hello announces
    PdInfos,  \* sets of abilities its OP_EMULEINFO announces
    PdAsks    \* state of its OP_SECIDENTSTATE; below 2 it has our key already

ASSUME PdAssumption ==
    /\ PdCalls \subseteq {"dialled", "callback"}
    /\ PdCaps \subseteq SUBSET {"sec", "ids", "multi", "aich", "sx"}
    /\ PdInfos \subseteq SUBSET {"sec", "sx"}
    /\ PdAsks \subseteq 0..2

VARIABLES
    pdPeer,  \* the uploader as a client: call, caps, info, ask
    pdFile,  \* what the ends hold of the file
    pdD,     \* the downloader: DownloadSessionState and its manifest
    pdU,     \* the uploader: the locals of handle_connection
    pdToU,   \* packets on their way to the uploader
    pdToD    \* packets on their way to the downloader

pdVars == <<pdPeer, pdFile, pdD, pdU, pdToU, pdToD>>

\* A packet: its opcode, and where it matters a number (the state of an
\* OP_SECIDENTSTATE, or 1 when a request or an answer carries its optional part).
Pkt(op) == [op |-> op, n |-> 0]
PktN(op, n) == [op |-> op, n |-> n]
Maybe(b, p) == IF b THEN <<p>> ELSE <<>>

\* Ed2kPeerSecureIdentState::default
NoIdent == [peer_key |-> FALSE, challenge_from |-> FALSE, challenge_for |-> FALSE,
            pending |-> FALSE, signed |-> FALSE, requested |-> FALSE]

Identifies(peer) == "sec" \in peer.caps \cup peer.info
-----------------------------------------------------------------------------
\* DownloadSessionState::new, and the fields of the manifest that startup reads.
\* A session started by the listener for a callback takes the hello, every
\* ability but file identifiers, and the start of secure identification as given.
SessionStart(callback, file, sx) ==
    [hello |-> callback, started |-> callback,
     caps |-> IF callback THEN {"sec", "multi", "aich", "sx"} ELSE {},
     id |-> NoIdent, sx_allowed |-> sx, files_sent |-> FALSE, response |-> FALSE,
     sources_sent |-> FALSE, aich_sent |-> FALSE, hashset_sent |-> FALSE, stalled |-> FALSE,
     upload_sent |-> FALSE, accepted |-> FALSE, parts_sent |-> FALSE, got |-> FALSE,
     size |-> IF file.known THEN file.size ELSE "none", md4 |-> FALSE, open |-> TRUE]

\* download_file_from_peer sends the hello and drives the session.  For a
\* callback the listener has already answered the caller's hello, with an
\* OP_SECIDENTSTATE of its own when that hello announces secure identification.
PdInit ==
    /\ pdPeer \in [call : PdCalls, caps : PdCaps, info : PdInfos, ask : PdAsks]
    /\ pdFile \in [shared : BOOLEAN, size : {"small", "large"}, known : BOOLEAN,
                   hashset : BOOLEAN, sources : BOOLEAN]
    /\ pdFile.size = "small" => pdFile.hashset
    /\ \E sx \in BOOLEAN :
          /\ pdPeer.call = "callback" => sx
          /\ pdD = SessionStart(pdPeer.call = "callback", pdFile, sx)
    /\ pdU = [id |-> [NoIdent EXCEPT !.peer_key = pdPeer.ask < 2], slot |-> "none",
              asides |-> 0, informed |-> FALSE, open |-> TRUE]
    /\ pdToD = <<>>
    /\ pdToU = IF pdPeer.call = "dialled" THEN <<Pkt("HELLO")>>
               ELSE <<Pkt("HELLOANSWER")>>
                    \o Maybe("sec" \in pdPeer.caps, PktN("SECIDENTSTATE", 2))
-----------------------------------------------------------------------------
\* The four steps of secure identification, the same at both ends.
\* begin_secure_ident_probe
Probed(id) == [id EXCEPT !.challenge_for = TRUE, !.requested = TRUE]

\* try_send_secure_ident_signature
CanSign(id) == id.peer_key /\ id.challenge_from /\ id.pending

SignIfAble(id) ==
    [id |-> [id EXCEPT !.pending = @ /\ ~CanSign(id)],
     out |-> Maybe(CanSign(id), Pkt("SIGNATURE"))]

\* OP_SECIDENTSTATE: send our key when it is asked for, sign if the peer's key
\* is here; a peer that wants only a signature is asked for its key.
SecIdentState(id, state) ==
    LET asked    == [id EXCEPT !.challenge_from = TRUE, !.pending = @ \/ state # 0]
        done     == SignIfAble(asked)
        fallback == ~CanSign(asked) /\ state = 1 /\ ~asked.requested
    IN  [id |-> IF fallback THEN Probed(asked) ELSE done.id,
         out |-> Maybe(state = 2, Pkt("PUBLICKEY")) \o done.out
                 \o Maybe(fallback, PktN("SECIDENTSTATE", 2)),
         fallback |-> fallback]

\* Mutant of PublicKey: the key is stored and the signature is not tried again.
PublicKeyOnly(id) == [id |-> [id EXCEPT !.peer_key = TRUE], out |-> <<>>]

\* OP_PUBLICKEY
PublicKey(id) == SignIfAble([id EXCEPT !.peer_key = TRUE])

\* waiting_for_peer_secure_ident
WaitingIdent(d) ==
    /\ d.started
    /\ \/ ~d.id.challenge_from
       \/ d.id.pending
       \/ d.id.requested /\ ~d.id.peer_key
       \/ d.id.challenge_for /\ ~d.id.signed
-----------------------------------------------------------------------------
\* advance_download_startup and the gate of pump_download_request_window: what
\* one pass of the session loop sends before it reads.  A stage takes and
\* returns the session with what it has sent so far.
Sending(w, d, packets) == [d |-> d, out |-> w.out \o packets]

AskIdent(w) ==
    IF w.d.hello /\ ~w.d.started /\ "sec" \in w.d.caps
    THEN Sending(w, [w.d EXCEPT !.id = Probed(@), !.started = TRUE],
                 <<PktN("SECIDENTSTATE", 2)>>)
    ELSE w

\* One packet with everything, a legacy multipacket, or the single requests.
AskFile(w) ==
    LET d  == w.d
        sx == d.sx_allowed /\ "sx" \in d.caps
        n  == IF sx THEN 1 ELSE 0
    IN  IF d.files_sent THEN w
        ELSE IF "ids" \in d.caps
        THEN Sending(w, [d EXCEPT !.files_sent = TRUE, !.sources_sent = sx, !.aich_sent = TRUE],
                     <<PktN("MULTIPACKET_EXT2", n)>>)
        ELSE IF "multi" \in d.caps
        THEN Sending(w, [d EXCEPT !.files_sent = TRUE, !.sources_sent = sx,
                                  !.aich_sent = "aich" \in d.caps],
                     <<PktN("MULTIPACKET", n)>>)
        ELSE Sending(w, [d EXCEPT !.files_sent = TRUE],
                     <<Pkt("REQUESTFILENAME")>>
                     \o Maybe(d.size = "large", Pkt("SETREQFILEID")))

AskSources(w) ==
    IF ~w.d.sources_sent /\ "ids" \notin w.d.caps /\ w.d.sx_allowed /\ "sx" \in w.d.caps
    THEN Sending(w, [w.d EXCEPT !.sources_sent = TRUE], <<Pkt("REQUESTSOURCES")>>)
    ELSE w

AskAich(w) ==
    IF ~w.d.aich_sent /\ "ids" \notin w.d.caps /\ "aich" \in w.d.caps
    THEN Sending(w, [w.d EXCEPT !.aich_sent = TRUE], <<Pkt("AICHFILEHASHREQ")>>)
    ELSE w

\* A file of one part has the empty hashset, which is stored without asking.
AskHashset(w) ==
    IF w.d.size = "none" \/ w.d.md4 \/ w.d.hashset_sent \/ ~w.d.response THEN w
    ELSE IF w.d.size = "small" THEN Sending(w, [w.d EXCEPT !.md4 = TRUE], <<>>)
    ELSE Sending(w, [w.d EXCEPT !.hashset_sent = TRUE],
                 <<Pkt(IF "ids" \in w.d.caps THEN "HASHSETREQUEST2" ELSE "HASHSETREQUEST")>>)

AskUpload(w) ==
    IF w.d.size # "none" /\ (w.d.md4 \/ w.d.stalled) /\ ~w.d.upload_sent /\ w.d.response
    THEN Sending(w, [w.d EXCEPT !.upload_sent = TRUE], <<Pkt("STARTUPLOADREQ")>>)
    ELSE w

AskParts(w) ==
    IF w.d.md4 /\ w.d.accepted /\ ~w.d.parts_sent
    THEN Sending(w, [w.d EXCEPT !.parts_sent = TRUE], <<Pkt("REQUESTPARTS")>>)
    ELSE w

\* The gate is read once, before the probe is sent.
Advance(d, out) ==
    LET w == AskIdent([d |-> d, out |-> out])
    IN  AskParts(IF d.hello /\ ~WaitingIdent(d)
                 THEN AskUpload(AskHashset(AskAich(AskSources(AskFile(w)))))
                 ELSE w)
-----------------------------------------------------------------------------
\* The downloader's packet handlers: the session after the packet, and replies.
\* OP_HELLOANSWER: what the hello announces replaces what was known.
HelloAnswer(d) ==
    LET probes == "sec" \in pdPeer.caps /\ ~d.id.requested
        known  == [d EXCEPT !.hello = TRUE, !.caps = pdPeer.caps]
    IN  [d |-> IF probes THEN [known EXCEPT !.id = Probed(@), !.started = TRUE] ELSE known,
         out |-> Maybe(probes, PktN("SECIDENTSTATE", 2))]

\* OP_EMULEINFO, apply_emule_info_profile
EmuleInfo(d) ==
    [d |-> [d EXCEPT !.caps = (@ \ {"sec", "sx"}) \cup pdPeer.info],
     out |-> <<Pkt("EMULEINFOANSWER")>>]

\* OP_SECIDENTSTATE, OP_PUBLICKEY and OP_SIGNATURE
Identification(d, p) ==
    LET state == SecIdentState(d.id, p.n)
        key   == PublicKey(d.id)
    IN  CASE p.op = "SECIDENTSTATE" ->
                [d |-> [d EXCEPT !.id = state.id, !.started = @ \/ state.fallback],
                 out |-> state.out]
          [] p.op = "PUBLICKEY" -> [d |-> [d EXCEPT !.id = key.id], out |-> key.out]
          [] p.op = "SIGNATURE" -> [d |-> [d EXCEPT !.id.signed = TRUE], out |-> <<>>]

\* The answers to the file requests.  OP_MULTIPACKETANSWER_EXT2 and
\* OP_HASHSETANSWER2 carry the file identifier, and with it the size.
FileAnswer(d, p) ==
    CASE p.op \in {"REQFILENAMEANSWER", "FILESTATUS", "MULTIPACKETANSWER"} ->
            [d EXCEPT !.response = TRUE]
      [] p.op = "MULTIPACKETANSWER_EXT2" ->
            [d EXCEPT !.response = TRUE, !.size = pdFile.size]
      [] p.op = "HASHSETANSWER" -> [d EXCEPT !.md4 = TRUE]
      [] p.op = "HASHSETANSWER2" -> [d EXCEPT !.size = pdFile.size, !.md4 = @ \/ p.n = 1]
      [] p.op \in {"ANSWERSOURCES", "AICHFILEHASHANS"} -> d

\* Packets the downloader only notes, or answers with a fixed reply: chat,
\* browsing, previews, AICH recovery, the public address and the port test.
Aside(p) == Maybe(p.op = "ASK", Pkt("REPLY"))

\* OP_ACCEPTUPLOADREQ, OP_QUEUERANKING, the parts and OP_FILEREQANSNOFIL
Uploading(d, p) ==
    CASE p.op = "ACCEPTUPLOADREQ" -> [d EXCEPT !.accepted = TRUE]
      [] p.op = "QUEUERANKING" -> d
      [] p.op = "SENDINGPART" -> [d EXCEPT !.got = TRUE]
      [] p.op = "FILEREQANSNOFIL" -> [d EXCEPT !.open = FALSE]

\* The match of drive_download_session on the opcode.
Received(d, p) ==
    CASE p.op = "HELLOANSWER" -> HelloAnswer(d)
      [] p.op = "EMULEINFO" -> EmuleInfo(d)
      [] p.op \in {"SECIDENTSTATE", "PUBLICKEY", "SIGNATURE"} -> Identification(d, p)
      [] p.op \in {"ASK", "NOTICE"} -> [d |-> d, out |-> Aside(p)]
      [] p.op \in {"ACCEPTUPLOADREQ", "QUEUERANKING", "SENDINGPART", "FILEREQANSNOFIL"} ->
            [d |-> Uploading(d, p), out |-> <<>>]
      [] OTHER -> [d |-> FileAnswer(d, p), out |-> <<>>]

\* One pass of drive_download_session: read a packet, handle it, and go on with
\* the startup unless it ended the session.
PdRead ==
    /\ pdD.open /\ pdToD # <<>>
    /\ LET h == Received(pdD, Head(pdToD))
           w == IF h.d.open THEN Advance(h.d, h.out) ELSE h
       IN  pdD' = w.d /\ pdToU' = IF pdU.open THEN pdToU \o w.out ELSE pdToU
    /\ pdToD' = IF pdD'.open THEN Tail(pdToD) ELSE <<>>
    /\ UNCHANGED <<pdPeer, pdFile, pdU>>

\* fallback_poll_delay: the session polls for a hashset that is overdue.
Polling(d) ==
    d.hello /\ d.hashset_sent /\ ~d.md4 /\ ~d.upload_sent /\ ~WaitingIdent(d)

\* HASHSET_STALL_UPLOAD_FALLBACK has passed since the hashset was asked for.
PdStall ==
    /\ pdD.open /\ Polling(pdD)
    /\ LET w == Advance([pdD EXCEPT !.stalled = TRUE], <<>>)
       IN  pdD' = w.d /\ pdToU' = IF pdU.open THEN pdToU \o w.out ELSE pdToU
    /\ UNCHANGED <<pdPeer, pdFile, pdU, pdToD>>

\* The read times out, or the uploader has closed and everything is read.
PdLeave ==
    /\ pdD.open
    /\ ~Polling(pdD) \/ (~pdU.open /\ pdToD = <<>>)
    /\ pdD' = [pdD EXCEPT !.open = FALSE]
    /\ pdToD' = <<>>
    /\ UNCHANGED <<pdPeer, pdFile, pdU, pdToU>>
-----------------------------------------------------------------------------
\* The uploader's packet handlers.
\* A probe of the uploader; a client that holds our key asks for less.
PeerProbe(id) ==
    [id |-> Probed(id), out |-> <<PktN("SECIDENTSTATE", pdPeer.ask)>>]

\* OP_HELLO: answer, then probe unless that was done.
Greeted(id) ==
    IF Identifies(pdPeer) /\ ~id.requested
    THEN [PeerProbe(id) EXCEPT !.out = <<Pkt("HELLOANSWER")>> \o @]
    ELSE [id |-> id, out |-> <<Pkt("HELLOANSWER")>>]

\* The caller of a callback has its hello answered and goes on as a listener.
CallAnswered(id) ==
    IF Identifies(pdPeer) /\ ~id.requested THEN PeerProbe(id) ELSE [id |-> id, out |-> <<>>]

Answer(shared, answer) == <<IF shared THEN answer ELSE Pkt("FILEREQANSNOFIL")>>

\* handle_multipacket_ext2_request and handle_multipacket_request: the sources
\* first, when they are asked for and there are any, then the answer.
Multipacket(p, answer) ==
    Maybe(pdFile.shared /\ p.n = 1 /\ pdFile.sources, Pkt("ANSWERSOURCES"))
    \o Answer(pdFile.shared, Pkt(answer))

\* handle_request_filename, handle_set_req_file_id
SingleRequest(p) ==
    Answer(pdFile.shared,
           Pkt(IF p.op = "SETREQFILEID" THEN "FILESTATUS" ELSE "REQFILENAMEANSWER"))

\* handle_hashset_request, handle_hashset_request2
HashsetRequest(p) ==
    IF p.op = "HASHSETREQUEST"
    THEN Answer(pdFile.shared /\ pdFile.hashset, Pkt("HASHSETANSWER"))
    ELSE Answer(pdFile.shared, PktN("HASHSETANSWER2", IF pdFile.hashset THEN 1 ELSE 0))

\* handle_source_request: silence when there is nothing to tell.
SourceRequest == Maybe(pdFile.shared /\ pdFile.sources, Pkt("ANSWERSOURCES"))

\* handle_aich_file_hash_request: the shared entry may have no root.
AichRequest(root) == Maybe(pdFile.shared /\ root, Pkt("AICHFILEHASHANS"))

\* Packets the uploader only notes.
NotedByUploader == {"EMULEINFOANSWER", "REPLY", "SIGNATURE"}

\* What is sent back, and the slot held afterwards; "yes" says whether the queue
\* has a slot, or the shared entry an AICH root.
Served(p, yes) ==
    CASE p.op = "MULTIPACKET_EXT2" ->
            [out |-> Multipacket(p, "MULTIPACKETANSWER_EXT2"), slot |-> pdU.slot]
      [] p.op = "MULTIPACKET" ->
            [out |-> Multipacket(p, "MULTIPACKETANSWER"), slot |-> pdU.slot]
      [] p.op \in {"REQUESTFILENAME", "SETREQFILEID"} ->
            [out |-> SingleRequest(p), slot |-> pdU.slot]
      [] p.op \in {"HASHSETREQUEST", "HASHSETREQUEST2"} ->
            [out |-> HashsetRequest(p), slot |-> pdU.slot]
      [] p.op = "REQUESTSOURCES" -> [out |-> SourceRequest, slot |-> pdU.slot]
      [] p.op = "AICHFILEHASHREQ" -> [out |-> AichRequest(yes), slot |-> pdU.slot]
      [] p.op = "STARTUPLOADREQ" ->
            [out |-> Answer(pdFile.shared,
                            Pkt(IF yes THEN "ACCEPTUPLOADREQ" ELSE "QUEUERANKING")),
             slot |-> IF ~pdFile.shared THEN pdU.slot ELSE IF yes THEN "granted" ELSE "waiting"]
      [] p.op = "REQUESTPARTS" -> [out |-> <<Pkt("SENDINGPART")>>, slot |-> pdU.slot]
      [] p.op \in NotedByUploader -> [out |-> <<>>, slot |-> pdU.slot]

\* One turn of handle_connection's loop.  A client without secure
\* identification takes no notice of it.
PdServe ==
    /\ pdU.open /\ pdToU # <<>>
    /\ pdToU' = Tail(pdToU)
    /\ \E yes \in BOOLEAN :
          LET p  == Head(pdToU)
              id == CASE p.op = "HELLO" -> Greeted(pdU.id)
                      [] p.op = "HELLOANSWER" -> CallAnswered(pdU.id)
                      [] p.op = "SECIDENTSTATE" /\ Identifies(pdPeer) ->
                            SecIdentState(pdU.id, p.n)
                      [] p.op = "PUBLICKEY" -> PublicKey(pdU.id)
                      [] OTHER -> [id |-> pdU.id, out |-> <<>>]
              s  == IF p.op \in {"HELLO", "HELLOANSWER", "SECIDENTSTATE", "PUBLICKEY"}
                    THEN [out |-> id.out, slot |-> pdU.slot]
                    ELSE Served(p, yes)
          IN  /\ yes \/ p.op \in {"STARTUPLOADREQ", "AICHFILEHASHREQ"}
              /\ pdU' = [pdU EXCEPT !.id = id.id, !.slot = s.slot]
              /\ pdToD' = IF pdD.open THEN pdToD \o s.out ELSE pdToD
    /\ UNCHANGED <<pdPeer, pdFile, pdD>>

\* poll_on_timeout finds the waiting session granted.
PdGrant ==
    /\ pdU.open /\ pdU.slot = "waiting"
    /\ pdU' = [pdU EXCEPT !.slot = "granted"]
    /\ pdToD' = IF pdD.open THEN Append(pdToD, Pkt("ACCEPTUPLOADREQ")) ELSE pdToD
    /\ UNCHANGED <<pdPeer, pdFile, pdD, pdToU>>

\* The uploader closes: the downloader is gone, nothing came for
\* ED2K_CONNECTION_IDLE_TIMEOUT, or its queue session went stale.
PdClose ==
    /\ pdU.open
    /\ pdU' = [pdU EXCEPT !.open = FALSE, !.slot = "none"]
    /\ pdToU' = <<>>
    /\ UNCHANGED <<pdPeer, pdFile, pdD, pdToD>>

\* What other clients send of their own accord: an OP_EMULEINFO, an aside.
PdVolunteer ==
    /\ pdU.open /\ pdD.open
    /\ \/ /\ ~pdU.informed
          /\ pdU' = [pdU EXCEPT !.informed = TRUE]
          /\ pdToD' = Append(pdToD, Pkt("EMULEINFO"))
       \/ \E op \in {"ASK", "NOTICE"} :
             /\ pdU.asides = 0
             /\ pdU' = [pdU EXCEPT !.asides = 1]
             /\ pdToD' = Append(pdToD, Pkt(op))
    /\ UNCHANGED <<pdPeer, pdFile, pdD, pdToU>>

PdNext == PdRead \/ PdStall \/ PdLeave \/ PdServe \/ PdGrant \/ PdClose \/ PdVolunteer

PdSpec == PdInit /\ [][PdNext]_pdVars
-----------------------------------------------------------------------------
\* Both ends are there and neither has anything to read or to wait out.
Quiet ==
    /\ pdD.open /\ pdU.open /\ pdToU = <<>> /\ pdToD = <<>>
    /\ ~Polling(pdD) /\ pdU.slot # "waiting"

\* The cases in which the code itself leaves the session to its timeout: a
\* callback of a client whose hello does not announce secure identification (the
\* session waits for it all the same), a file whose size neither end tells, and a large file of which the uploader has no hashset.
CanFinish ==
    /\ pdPeer.call = "callback" => "sec" \in pdPeer.caps
    /\ pdFile.known \/ (pdPeer.call = "dialled" /\ "ids" \in pdPeer.caps)
    /\ pdFile.hashset

\* Neither end ever waits for the other while the other waits for it: when both
\* are open and every packet is read, the downloader has its first part.  The
\* exchange of keys, challenges and signatures, started from both ends at once,
\* and the chain of requests gated by it never stop half-way.
NobodyWaits == Quiet /\ CanFinish => pdD.got

\* Nothing is asked about the file while an identification exchange that the
\* session has started is unfinished: secure identification gates the startup.
IdentGatesRequests ==
    ~pdD.files_sent /\ pdD'.files_sent => ~WaitingIdent(pdD')

\* Identification gates the startup and yet never leaves both ends waiting, after
\* any step (in the initial states packets are still to be read).
GatedWithoutStall == [][NobodyWaits' /\ IdentGatesRequests]_pdVars
=============================================================================
