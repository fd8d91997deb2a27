-------------------------- MODULE DownloadSession --------------------------
(***************************************************************************)
(* The sessions that download one file over the resume store: the request  *)
(* window of drive_download_session (ed2k_tcp/download/), one instance per *)
(* peer, and the task that runs them (agent/ed2k_download.rs).             *)
(*                                                                         *)
(* Direct sessions are dialled by the task, several at a time.  Callback   *)
(* sessions are run by the listener when a LowID peer connects back; they  *)
(* are not joined by the task and may outlive it.  All of them share the   *)
(* manifest: a session claims a missing piece, asks the peer for blocks of *)
(* it, appends what arrives, and gives the piece back when it ends.        *)
(*                                                                         *)
(* Every store operation is one action of TransferStore under the          *)
(* manifest_io lock; between two of them the other sessions may run.       *)
(***************************************************************************)
EXTENDS TransferStore

CONSTANTS
    Direct, Callback,  \* session slots of the two kinds
    Honest,            \* the slots whose peer sends the file's own data and
                       \* answers every request
    BlockUnits,        \* ED2K_EMBLOCK_SIZE, in units
    Windows,           \* (max, min) pending blocks select_download_window_limits returns
    MaxStarts,         \* bound: sessions of a slot that is not honest
    NoPiece

Sessions == Direct \cup Callback

ASSUME SessionAssumption ==
    /\ Honest \subseteq Sessions
    /\ BlockUnits \in Nat \ {0}
    /\ MaxStarts \in Nat
    /\ \A w \in Windows : w[1] >= w[2] /\ w[2] >= 1

VARIABLES
    task,    \* the download task: idle, ensured, running or aborting
    dial,    \* pending_sources: direct peers the task has still to dial
    sess,    \* the sessions
    starts   \* sessions run so far by each slot that is not honest

store == <<cache, disk, persisted, payload, inflight, catalog>>
dvars == <<cache, disk, persisted, payload, inflight, catalog, task, dial, sess, starts>>

\* DownloadSessionState and the locals of drive_download_session: the piece the
\* session believes it holds and the next offset to ask for, the pending block
\* requests in order, whether queued_until lies ahead, and the completed flag
\* of its manifest snapshot.
Off == [status |-> "off", active |-> NoPiece, next_offset |-> 0, pending |-> <<>>,
        queued |-> FALSE, completed |-> FALSE]

Status == {"off", "startup", "loop", "waiting", "flushing", "ending_incomplete",
           "ending", "ending_failed", "ending_completed"}

\* PendingPartRequest
NewRequest(start, end) == [start |-> start, end |-> end, queued |-> FALSE, bytes |-> <<>>]
received_end(r) == r.start + Len(r.bytes)
is_ready(r) == received_end(r) = r.end

FirstReady(r) == r.pending # <<>> /\ Head(r.pending).queued /\ is_ready(Head(r.pending))
FirstBuffered(r) ==
    r.pending # <<>> /\ Head(r.pending).queued /\ Head(r.pending).bytes # <<>>

Live(s) == sess[s].status # "off"
Becomes(s, record) == sess' = [sess EXCEPT ![s] = record]

DInit ==
    /\ Init
    /\ task = "idle"
    /\ dial = {}
    /\ sess = [s \in Sessions |-> Off]
    /\ starts = [s \in Sessions |-> 0]
-----------------------------------------------------------------------------
\* spawn_native_ed2k_download and start_native_ed2k_download: ensure_job, then
\* reclaim_stale_piece_requests, then the direct sessions.
TaskEnsure ==
    /\ task = "idle"
    /\ cache # Absent => ~cache.completed
    /\ EnsureJob(TRUE, "stored") \/ (cache # Absent /\ UNCHANGED store)
    /\ task' = "ensured"
    /\ UNCHANGED <<dial, sess, starts>>

TaskReclaim ==
    /\ task = "ensured"
    /\ \/ ReclaimStalePieceRequests("stored")
       \/ (\A p \in DOMAIN cache.state : cache.state[p] # "Requested") /\ UNCHANGED store
    /\ task' = "running"
    /\ dial' = Direct
    /\ UNCHANGED <<sess, starts>>

\* run_native_ed2k_direct_downloads returns when its JoinSet is empty.
TaskEnd ==
    /\ task = "aborting" \/ (task = "running" /\ dial = {})
    /\ \A s \in Direct : ~Live(s)
    /\ task' = "idle"
    /\ dial' = {}
    /\ UNCHANGED <<store, sess, starts>>

\* A dropped session: abort_all once one direct session reported completion.
AbortDirect(s) ==
    /\ task = "aborting"
    /\ Live(s)
    /\ Becomes(s, Off)
    /\ UNCHANGED <<store, task, dial, starts>>

\* drive_download_session begins with a snapshot of the manifest.
Start(s) ==
    /\ ~Live(s)
    /\ cache # Absent
    /\ s \notin Honest => starts[s] < MaxStarts
    /\ starts' = IF s \in Honest THEN starts ELSE [starts EXCEPT ![s] = @ + 1]
    /\ Becomes(s, [Off EXCEPT !.status = "startup", !.completed = cache.completed])
    /\ UNCHANGED store

\* spawn_pending_direct_downloads
StartDirect(s) ==
    /\ task = "running"
    /\ s \in dial
    /\ Start(s)
    /\ dial' = dial \ {s}
    /\ UNCHANGED task

\* A direct session failed: its source, if it was obfuscated and does not require
\* it, is dialled again in plaintext.  Honest peers are plaintext sources.
MayRedial(s) ==
    \/ UNCHANGED dial
    \/ /\ task = "running"
       /\ s \in Direct \ Honest
       /\ dial' = dial \cup {s}

\* The peer cannot be reached, and no plaintext dial is left to try.
DialFails(s) ==
    /\ task = "running"
    /\ s \in dial \ Honest
    /\ dial' = dial \ {s}
    /\ UNCHANGED <<store, task, sess, starts>>

\* The listener claims a callback intent and runs the download on the inbound
\* connection, whatever the task is doing meanwhile.
StartCallback(s) == Start(s) /\ UNCHANGED <<task, dial>>

\* The handshake up to OP_ACCEPTUPLOADREQ and the hashset.  A peer slow to send
\* the hashset is asked for the upload before it arrives, but no part is
\* requested until it has.  OP_ACCEPTUPLOADREQ ends the wait in the peer's queue.
Startup(s) ==
    /\ sess[s].status = "startup"
    /\ ~sess[s].completed
    /\ \/ ~cache.md4_hashset_acquired /\ StoreMd4Hashset("stored")
       \/ cache.md4_hashset_acquired /\ UNCHANGED store
    /\ Becomes(s, [sess[s] EXCEPT !.status = "loop", !.queued = FALSE,
                                 !.completed = cache.completed])
    /\ UNCHANGED <<task, dial, starts>>

\* The loop returns Completed when its snapshot says so.
Finish(s) ==
    /\ sess[s].status \in {"startup", "loop"}
    /\ sess[s].completed
    /\ Becomes(s, [sess[s] EXCEPT !.status = "ending_completed"])
    /\ UNCHANGED <<store, task, dial, starts>>
-----------------------------------------------------------------------------
\* The block ranges the window adds: from the next offset of the active piece,
\* at most n of them, none past the piece's end.
Blocks(next, end, n) ==
    LET whole == (end - next + BlockUnits - 1) \div BlockUnits
    IN  [k \in 1 .. IF n < whole THEN n ELSE whole |->
            LET from == next + (k - 1) * BlockUnits
            IN  NewRequest(from, IF from + BlockUnits < end THEN from + BlockUnits ELSE end)]

\* pump_download_request_window from a session that has piece p active with the
\* given next offset; n is the room in the window.  Up to three requests that
\* were not sent yet go out in one packet.
Pumped(r, p, next, n) ==
    LET added   == Blocks(next, PieceLen[p], n)
        all     == r.pending \o added
        unsent  == {i \in DOMAIN all : ~all[i].queued}
        first3  == {i \in unsent : Cardinality({j \in unsent : j < i}) < 3}
        end     == IF added = <<>> THEN next ELSE added[Len(added)].end
    IN  [r EXCEPT !.status = "waiting", !.active = p, !.next_offset = end,
                  !.pending = [i \in DOMAIN all |->
                                 [all[i] EXCEPT !.queued = all[i].queued \/ i \in first3]]]

Pump(s, w) ==
    LET r    == sess[s]
        room == IF Len(r.pending) < w[2] THEN w[1] - Len(r.pending) ELSE 0
    IN  /\ r.status = "loop"
        /\ ~r.completed
        /\ IF room > 0 /\ r.active = NoPiece
             THEN \/ LET p == NextMissing(cache)
                     IN  /\ ClaimNextMissingPart("stored")
                         /\ Becomes(s, Pumped(r, p, cache.written[p], room))
                  \/ /\ MissingPieces(cache) = {}
                     /\ Becomes(s, [r EXCEPT !.status = "waiting"])
                     /\ UNCHANGED store
             ELSE /\ Becomes(s, IF r.active = NoPiece THEN [r EXCEPT !.status = "waiting"]
                                ELSE Pumped(r, r.active, r.next_offset, room))
                  /\ UNCHANGED store
        /\ UNCHANGED <<task, dial, starts>>

\* handle_download_part_packet: a fragment for the request it continues.
Receive(s, i, c) ==
    /\ sess[s].status = "waiting"
    /\ i \in DOMAIN sess[s].pending
    /\ LET q == sess[s].pending[i]
       IN  /\ q.queued /\ ~is_ready(q)
           /\ Becomes(s, [sess[s] EXCEPT !.status = "flushing",
                            !.pending[i] = [q EXCEPT !.bytes = Append(@, c)]])
    /\ s \in Honest => c = "good"
    /\ UNCHANGED <<store, task, dial, starts>>

\* flush_ready_download_blocks, one block: the request leaves the list before the
\* append, whose refusal is an error of the session.  A piece that was completed
\* is no longer active; one that failed verification still is.
FlushReady(s) ==
    LET r == sess[s]
        q == Head(r.pending)
        rest == [r EXCEPT !.pending = Tail(@)]
    IN  /\ r.status = "flushing"
        /\ FirstReady(r)
        /\ \/ /\ AppendPieceBlock(r.active, q.start, q.bytes, FALSE, "stored")
              /\ Becomes(s, [rest EXCEPT
                    !.completed = cache'.completed,
                    !.active = IF cache'.state[r.active] = "Verified" THEN NoPiece ELSE @])
           \/ /\ ~Accepts(cache, r.active, q.start, q.bytes)
              /\ Becomes(s, [rest EXCEPT !.status = "ending_failed"])
              /\ UNCHANGED store
        /\ UNCHANGED <<task, dial, starts>>

FlushedAll(s) ==
    /\ sess[s].status = "flushing"
    /\ ~FirstReady(sess[s])
    /\ Becomes(s, [sess[s] EXCEPT !.status = "loop"])
    /\ UNCHANGED <<store, task, dial, starts>>

\* The session reads the next packet.
Reading(s) == sess[s].status \in {"startup", "waiting"}

\* Any packet that is not part data: the loop goes round, the window is pumped
\* again and the wait starts anew.  A queue rank renews queued_until; a hashset or
\* name sent again is stored again, and the snapshot is refreshed from the stored
\* manifest.
OtherPacket(s) ==
    LET round == IF sess[s].status = "startup" THEN "startup" ELSE "loop"
    IN  /\ Reading(s)
        /\ s \notin Honest
        /\ \/ /\ \E ranked \in {sess[s].queued, TRUE} :
                    Becomes(s, [sess[s] EXCEPT !.status = round, !.queued = ranked])
              /\ UNCHANGED store
           \/ /\ StoreMd4Hashset("stored")
              /\ Becomes(s, [sess[s] EXCEPT !.status = round, !.completed = cache.completed])
        /\ UNCHANGED <<task, dial, starts>>

\* QUEUE_RANK_GRACE has passed since the last queue rank.
RankLapses(s) ==
    /\ Reading(s)
    /\ sess[s].queued
    /\ Becomes(s, [sess[s] EXCEPT !.queued = FALSE])
    /\ UNCHANGED <<store, task, dial, starts>>

\* The session ends as AcceptedButIncomplete.  An honest peer accepts the upload,
\* and is only left when nothing is asked of it any more.
EndsIncomplete(s) ==
    /\ Reading(s)
    /\ s \in Honest => /\ sess[s].status = "waiting"
                       /\ \A i \in DOMAIN sess[s].pending : ~sess[s].pending[i].queued
    /\ Becomes(s, [sess[s] EXCEPT !.status = "ending_incomplete"])
    /\ UNCHANGED <<store, task, dial, starts>>

\* Nothing arrived in time; a queue rank that has not lapsed keeps the session.
TimesOut(s) == ~sess[s].queued /\ EndsIncomplete(s)

\* A close, OP_OUTOFPARTREQS, OP_END_OF_DOWNLOAD or an unexpected range.
PeerEnds(s) == EndsIncomplete(s)

\* Any other error of the session, in the handshake or later; a timeout before
\* the hello is one.
PeerErrors(s) ==
    /\ Reading(s)
    /\ s \notin Honest
    /\ Becomes(s, [sess[s] EXCEPT !.status = "ending_failed"])
    /\ UNCHANGED <<store, task, dial, starts>>

\* flush_buffered_download_prefixes: what was buffered for the first request is
\* appended; when that completes the request the next one is looked at.  A
\* refused append returns at once and leaves the piece claimed.
FlushPrefix(s) ==
    LET r == sess[s]
        q == Head(r.pending)
        left == IF is_ready(q) THEN Tail(r.pending)
                ELSE <<[q EXCEPT !.start = received_end(q), !.bytes = <<>>]>> \o Tail(r.pending)
    IN  /\ r.status = "ending_incomplete"
        /\ FirstBuffered(r)
        /\ \/ /\ AppendPieceBlock(r.active, q.start, q.bytes, FALSE, "stored")
              /\ Becomes(s, [r EXCEPT
                    !.pending = left,
                    !.status = IF is_ready(q) THEN @ ELSE "ending",
                    !.active = IF cache'.state[r.active] = "Verified" THEN NoPiece ELSE @])
              /\ UNCHANGED dial
           \/ /\ ~Accepts(cache, r.active, q.start, q.bytes)
              /\ Becomes(s, Off)
              /\ MayRedial(s)
              /\ UNCHANGED store
        /\ UNCHANGED <<task, starts>>

NoPrefix(s) ==
    /\ sess[s].status = "ending_incomplete"
    /\ ~FirstBuffered(sess[s])
    /\ Becomes(s, [sess[s] EXCEPT !.status = "ending"])
    /\ UNCHANGED <<store, task, dial, starts>>

\* Mutant: any direct session that ends makes the task abort the others.
ReleaseAborts(s) ==
    LET r == sess[s]
    IN  /\ r.status \in {"ending", "ending_failed", "ending_completed"}
        /\ \/ /\ r.active # NoPiece
              /\ ReleasePieceRequest(r.active, "stored")
           \/ /\ r.active # NoPiece => cache.state[r.active] # "Requested"
              /\ UNCHANGED store
        /\ Becomes(s, Off)
        /\ task' = IF s \in Direct THEN "aborting" ELSE task
        /\ UNCHANGED <<dial, starts>>

\* The end of drive_download_session: the active piece is given back, and a
\* direct session that reported completion makes the task abort the others.
Release(s) ==
    LET r == sess[s]
    IN  /\ r.status \in {"ending", "ending_failed", "ending_completed"}
        /\ \/ /\ r.active # NoPiece
              /\ ReleasePieceRequest(r.active, "stored")
           \/ /\ r.active # NoPiece => cache.state[r.active] # "Requested"
              /\ UNCHANGED store
        /\ Becomes(s, Off)
        /\ task' = IF s \in Direct /\ r.status = "ending_completed" /\ cache.completed
                     THEN "aborting" ELSE task
        /\ IF r.status = "ending_failed" THEN MayRedial(s) ELSE UNCHANGED dial
        /\ UNCHANGED starts

\* What a session does without waiting for its peer.
SessionStep(s) ==
    \/ Finish(s)
    \/ \E w \in Windows : Pump(s, w)
    \/ FlushReady(s) \/ FlushedAll(s) \/ FlushPrefix(s) \/ NoPrefix(s) \/ Release(s)

DNext ==
    \/ TaskEnsure \/ TaskReclaim \/ TaskEnd
    \/ \E s \in Direct : StartDirect(s) \/ DialFails(s) \/ AbortDirect(s)
    \/ \E s \in Callback : StartCallback(s)
    \/ \E s \in Sessions :
          \/ Startup(s) \/ Finish(s)
          \/ \E w \in Windows : Pump(s, w)
          \/ \E i \in DOMAIN sess[s].pending, c \in Content : Receive(s, i, c)
          \/ FlushReady(s) \/ FlushedAll(s)
          \/ OtherPacket(s) \/ RankLapses(s)
          \/ TimesOut(s) \/ PeerEnds(s) \/ PeerErrors(s)
          \/ FlushPrefix(s) \/ NoPrefix(s) \/ Release(s)

DSpec == DInit /\ [][DNext]_dvars

\* The runtime schedules every task and every session; an honest peer is dialled
\* and answers; the download is requested again as long as it is incomplete.  Of
\* any other peer nothing is assumed: its session is ended by a timeout only when
\* it falls silent, for every packet starts the wait anew.
Fairness ==
    /\ WF_dvars(TaskEnsure) /\ WF_dvars(TaskReclaim) /\ WF_dvars(TaskEnd)
    /\ \A s \in Direct : /\ WF_dvars(StartDirect(s) \/ DialFails(s))
                         /\ WF_dvars(AbortDirect(s))
    /\ \A s \in Sessions : WF_dvars(SessionStep(s)) /\ WF_dvars(RankLapses(s) \/ TimesOut(s))
    /\ \A s \in Honest :
          /\ WF_dvars(Startup(s))
          /\ WF_dvars(\E i \in DOMAIN sess[s].pending : Receive(s, i, "good"))

DLiveSpec == DSpec /\ Fairness
-----------------------------------------------------------------------------
\* The pending requests of a session are the tail of what it asked of its piece:
\* they follow one another without gap or overlap up to next_offset, whatever
\* order the peer answers them in and wherever flushing was interrupted.
RequestsContiguous ==
    \A s \in Sessions :
        LET q == sess[s].pending
        IN  /\ q # <<>> => sess[s].active # NoPiece
            /\ \A i \in DOMAIN q :
                  /\ q[i].start < q[i].end
                  /\ received_end(q[i]) <= q[i].end
                  /\ q[i].end = IF i = Len(q) THEN sess[s].next_offset ELSE q[i + 1].start

\* A session reports completion, and the task stops the other sessions on the
\* strength of it, only when the payload file is the file: the snapshots the
\* sessions carry never run ahead of what was verified.
CompletionTruthful ==
    (task = "aborting" \/ \E s \in Sessions : sess[s].completed) =>
        \A p \in Pieces : \A i \in Units(p) : payload[p][i] = "good"

\* claim_next_missing_part claims a part "atomically for one peer session": no
\* two sessions work on the same piece.
ClaimExclusive ==
    \A s, t \in Sessions :
        (s # t /\ sess[s].active # NoPiece /\ sess[t].active # NoPiece) =>
            sess[s].active # sess[t].active

\* While one honest peer keeps being dialled the file is completed, however the
\* other sessions claim pieces, send wrong data, wait in a queue, and end.  A peer
\* that sends packets other than data for ever is excluded: queue ranks renew
\* queued_until, and its session keeps its claim (drive_download_session).
DownloadCompletes ==
    <>[][\A s \in Sessions : ~OtherPacket(s)]_dvars =>
        <>(cache # Absent /\ cache.completed)

\* A session neither asks for a byte twice nor claims a file it has not.
SessionsSound == RequestsContiguous /\ CompletionTruthful
=============================================================================
