----------------------------- MODULE SourceHunt -----------------------------
(***************************************************************************)
(* A native ED2K download from its request to its outcome                  *)
(* (agent/ed2k_download.rs, ed2k_download/*.rs, ed2k_runtime.rs): one task *)
(* per file hash behind a semaphore, which gathers sources from servers    *)
(* and Kad, asks servers for callbacks of low-ID peers, dials the others a *)
(* few at a time, asks for sources again, and waits for late callbacks.    *)
(* Peers that call back write to the same file from the upload listener.   *)
(***************************************************************************)
EXTENDS Integers, Sequences, FiniteSets

CONSTANTS
    ShHashes,     \* files that may be requested
    ShSources,    \* sources anyone may report: [ep, low, opt], opt: none, may or must obfuscate
    ShLoopback,   \* endpoints on the loopback interface
    ShPermits,    \* permits of ed2k_download_gate
    ShParallel,   \* max_parallel_download_peers
    ShRounds,     \* ED2K_DOWNLOAD_SOURCE_REQUERY_ROUNDS
    ShKadBelow,   \* Kad supplements at most this many sources
    ShMaxRetries, \* bound: loopback retries that fit the deadline
    ShMaxSpawns,  \* bound: requests for one file
    NoHash        \* None

VARIABLES
    shTask,     \* of each file: idle, spawned, queued or hunting
    shQueue,    \* tasks waiting for a permit, in order
    shActive,   \* active_ed2k_downloads
    shFile,     \* its manifest: new, some (bytes or hashset) or done
    shIntents,  \* files with a registered callback intent
    shHunt,     \* locals of start_native_ed2k_download
    shDegraded, \* the degraded activity: the file it names, or NoHash
    shOut,      \* last outcome of the file: none, ok or err
    shSpawns    \* requests made

shVars == <<shTask, shQueue, shActive, shFile, shIntents, shHunt, shDegraded, shOut, shSpawns>>

Endpoints == {s.ep : s \in ShSources}
Sources == [ep : Endpoints, low : BOOLEAN, opt : {"none", "may", "must"}]

ASSUME ShAssumption ==
    IsFiniteSet(ShSources) /\ ShSources \subseteq Sources /\ ShParallel \in Nat

NewHunt(given, sized) ==
    [at |-> "acquire", given |-> given, sized |-> sized, src |-> {}, attempted |-> {},
     asked |-> {}, had |-> FALSE, round |-> 0, pend |-> <<>>, act |-> {}, run |-> {},
     accepted |-> 0, refused |-> FALSE, retry |-> 0, dials |-> [e \in Endpoints |-> 0]]

NoHunt == NewHunt({}, FALSE)

ShInit ==
    /\ shTask = [h \in ShHashes |-> "idle"] /\ shQueue = <<>> /\ shActive = {}
    /\ shFile = [h \in ShHashes |-> "new"] /\ shIntents = {}
    /\ shHunt = [h \in ShHashes |-> NoHunt]
    /\ shDegraded = NoHash
    /\ shOut = [h \in ShHashes |-> "none"] /\ shSpawns = [h \in ShHashes |-> 0]

AutoSourced(u) == u.given = {}
Progressed(h) == shFile[h] # "new"

\* spawn_native_ed2k_download: refused while the hash is active.
ShSpawn(h, given, sized) ==
    /\ h \notin shActive /\ shSpawns[h] < ShMaxSpawns
    /\ shActive' = shActive \cup {h}
    /\ shTask' = [shTask EXCEPT ![h] = "spawned"]
    /\ shHunt' = [shHunt EXCEPT ![h] = NewHunt(given, sized)]
    /\ shOut' = [shOut EXCEPT ![h] = "none"]
    /\ shSpawns' = [shSpawns EXCEPT ![h] = @ + 1]
    /\ UNCHANGED <<shQueue, shFile, shIntents, shDegraded>>

Hunting == {h \in ShHashes : shTask[h] = "hunting"}

\* Mutant: an error keeps the permit.
EndKeepingPermit(h, out, file) ==
    /\ shOut' = [shOut EXCEPT ![h] = out]
    /\ shDegraded' = IF out = "ok" THEN NoHash ELSE h
    /\ shActive' = shActive \ {h}
    /\ shHunt' = [shHunt EXCEPT ![h] = NoHunt]
    /\ shFile' = file
    /\ IF shQueue = <<>> \/ out = "err"
       THEN shTask' = [shTask EXCEPT ![h] = "idle"] /\ UNCHANGED shQueue
       ELSE /\ shTask' = [shTask EXCEPT ![h] = "idle", ![Head(shQueue)] = "hunting"]
            /\ shQueue' = Tail(shQueue)

\* The end of the task: the outcome is recorded, the hash leaves the active
\* set and the permit goes to the next waiter.
End(h, out, file) ==
    /\ shOut' = [shOut EXCEPT ![h] = out]
    /\ shDegraded' = IF out = "ok" THEN NoHash ELSE h
    /\ shActive' = shActive \ {h}
    /\ shHunt' = [shHunt EXCEPT ![h] = NoHunt]
    /\ shFile' = file
    /\ IF shQueue = <<>>
       THEN shTask' = [shTask EXCEPT ![h] = "idle"] /\ UNCHANGED shQueue
       ELSE /\ shTask' = [shTask EXCEPT ![h] = "idle", ![Head(shQueue)] = "hunting"]
            /\ shQueue' = Tail(shQueue)

\* try_acquire_owned, else a place in the semaphore's queue.
ShGate(h) ==
    /\ shTask[h] = "spawned"
    /\ IF Cardinality(Hunting) < ShPermits
       THEN shTask' = [shTask EXCEPT ![h] = "hunting"] /\ UNCHANGED shQueue
       ELSE shTask' = [shTask EXCEPT ![h] = "queued"] /\ shQueue' = Append(shQueue, h)
    /\ UNCHANGED <<shActive, shFile, shIntents, shHunt, shDegraded, shOut, shSpawns>>

Goes(h, u) ==
    /\ shHunt' = [shHunt EXCEPT ![h] = u]
    /\ UNCHANGED <<shTask, shQueue, shActive, shFile, shDegraded, shOut>>

\* The background session, then servers of its own, and UDP only when both
\* gave nothing.  Their errors are only logged.
ServerSources(bg, tcp, udp) == IF bg \cup tcp = {} THEN udp ELSE bg \cup tcp

\* collect_kad_source_supplement: for a known size and few sources.
Supplemented(sized, sources, kad) ==
    IF sized /\ (sources = {} \/ Cardinality(sources) <= ShKadBelow)
    THEN sources \cup kad ELSE sources

\* native_ed2k_download_sources
Sourced(sized, bg, tcp, udp, kad) == Supplemented(sized, ServerSources(bg, tcp, udp), kad)

\* With the permit the task looks at the manifest once, if it can be read: a
\* finished file ends it.  What the file becomes after that look is not seen
\* before the sources are there.
ShCheck(h, readable) ==
    LET u == shHunt[h] IN
    /\ shTask[h] = "hunting" /\ u.at = "acquire"
    /\ IF readable /\ shFile[h] = "done" THEN End(h, "ok", shFile)
       ELSE Goes(h, [u EXCEPT !.at = "sources"])
    /\ UNCHANGED <<shIntents, shSpawns>>

\* The first steps of start_native_ed2k_download, up to the first list of
\* sources.  A missing runtime, a failing store or metadata search, or no
\* source at all, fails the task.
ShAcquire(h, found, failed) ==
    LET u == shHunt[h]
        src == IF AutoSourced(u) THEN found ELSE u.given
    IN /\ shTask[h] = "hunting" /\ u.at = "sources"
       /\ failed \/ ~AutoSourced(u) => found = {}
       /\ IF failed \/ src = {} THEN End(h, "err", shFile)
          ELSE Goes(h, [u EXCEPT !.at = "round", !.src = src])
       /\ UNCHANGED <<shIntents, shSpawns>>

\* sort_native_ed2k_download_sources, on what tells sources apart here.
Preferred(s, t) == s.opt # "none" /\ t.opt = "none"

Listed(sources) ==
    CHOOSE q \in [1..Cardinality(sources) -> sources] :
        \A i, j \in 1..Cardinality(sources) : q[i] = q[j] => i = j

InOrder(sources) ==
    Listed({s \in sources : s.opt # "none"}) \o Listed({s \in sources : s.opt = "none"})

Dialable(sources, attempted) ==
    {s \in sources :
        /\ ~s.low /\ s.ep \notin attempted
        /\ \A t \in sources : ~t.low /\ t.ep = s.ep => ~Preferred(t, s)}

\* direct_download_candidate_sources: one source for each endpoint not yet dialled.
Candidate(sources, attempted) ==
    LET direct == Dialable(sources, attempted)
    IN {CHOOSE s \in direct : s.ep = e : e \in {s.ep : s \in direct}}

Dialled(dials, sources) ==
    [e \in DOMAIN dials |-> dials[e] + Cardinality({s \in sources : s.ep = e})]

\* spawn_pending_direct_downloads
Fill(u) ==
    LET room == ShParallel - Cardinality(u.act)
        n == IF room < Len(u.pend) THEN room ELSE Len(u.pend)
        started == {u.pend[i] : i \in 1..n}
    IN [u EXCEPT !.pend = SubSeq(@, n + 1, Len(@)), !.act = @ \cup started,
                 !.dials = Dialled(@, started)]

Run(u, sources) ==
    Fill([u EXCEPT !.at = "direct", !.pend = InOrder(sources), !.act = {},
                   !.run = sources, !.accepted = 0, !.refused = FALSE])

\* One turn of the loop: a callback is requested for each low-ID source not
\* asked before, and every endpoint not dialled before is dialled.  A failed
\* callback request is only logged; the intent stays.
ShRound(h) ==
    LET u == shHunt[h]
        low == {s \in u.src : s.low}
        direct == Candidate(u.src, u.attempted)
        v == [u EXCEPT !.asked = @ \cup low, !.had = @ \/ direct # {},
                       !.attempted = @ \cup {s.ep : s \in direct}]
    IN /\ shTask[h] = "hunting" /\ u.at = "round"
       /\ shIntents' = IF low = {} THEN shIntents ELSE shIntents \cup {h}
       /\ Goes(h, IF direct = {} THEN [v EXCEPT !.at = "requery"]
                  ELSE Run([v EXCEPT !.retry = 0], direct))
       /\ UNCHANGED shSpawns

\* plaintext_fallback_for_obfuscated_source
Fallback(s) == IF s.opt = "may" THEN <<[s EXCEPT !.opt = "none"]>> ELSE <<>>

\* No session is left: the caller gets the outcome, or loopback peers that
\* refused the connection are tried again before the deadline.
Settle(u) ==
    IF \/ u.accepted # 0 \/ ~u.refused
       \/ ~({s.ep : s \in u.run} \subseteq ShLoopback) \/ u.retry = ShMaxRetries
    THEN [u EXCEPT !.at = "requery", !.run = {}]
    ELSE Run([u EXCEPT !.retry = @ + 1], u.run)

\* A peer session ends (join_next): it completed the file, ended short of it
\* after writing some of it or nothing, was refused, or failed.
ShJoin(h, s, res, wrote) ==
    LET u == shHunt[h]
        file == IF res = "completed" THEN [shFile EXCEPT ![h] = "done"]
                ELSE IF wrote /\ shFile[h] = "new" THEN [shFile EXCEPT ![h] = "some"]
                ELSE shFile
        left == [u EXCEPT !.act = @ \ {s}, !.accepted = IF res = "accepted" THEN 1 ELSE @,
                          !.refused = @ \/ res = "refused",
                          !.pend = (IF res \in {"refused", "failed"} THEN Fallback(s) ELSE <<>>)
                                   \o @]
        v == Fill(left)
    IN /\ shTask[h] = "hunting" /\ u.at = "direct" /\ s \in u.act
       /\ res \in {"refused", "completed"} => ~wrote
       /\ IF res = "completed" \/ (v.act = {} /\ file[h] = "done")
          THEN End(h, "ok", file)
          ELSE /\ shFile' = file
               /\ shHunt' = [shHunt EXCEPT ![h] = IF v.act = {} THEN Settle(v) ELSE v]
               /\ UNCHANGED <<shTask, shQueue, shActive, shDegraded, shOut>>
       /\ UNCHANGED <<shIntents, shSpawns>>

\* should_skip_no_progress_source_requery
SkipRequery(h, u) ==
    u.had /\ ~Progressed(h) /\ Candidate(u.src, u.attempted) = {} /\ u.round # 0

ShRequery(h) ==
    LET u == shHunt[h] IN
    /\ shTask[h] = "hunting" /\ u.at = "requery"
    /\ Goes(h, IF AutoSourced(u) /\ u.sized /\ u.round < ShRounds /\ ~SkipRequery(h, u)
               THEN [u EXCEPT !.at = "refresh", !.round = @ + 1]
               ELSE [u EXCEPT !.at = "grace"])
    /\ UNCHANGED <<shIntents, shSpawns>>

\* The refreshed sources are merged; the loop turns for a file in progress, for
\* a new endpoint, or while nothing was dialled or the refresh failed and a
\* round is left.
ShRefresh(h, found, failed) ==
    LET u == shHunt[h]
        src == IF failed THEN u.src ELSE u.src \cup found
        again == IF failed THEN u.round < ShRounds
                 ELSE \/ Progressed(h)
                      \/ Candidate(src, u.attempted) # {}
                      \/ (~u.had /\ u.round < ShRounds)
    IN /\ shTask[h] = "hunting" /\ u.at = "refresh"
       /\ failed => found = {}
       /\ Goes(h, [u EXCEPT !.src = src, !.at = IF again THEN "round" ELSE "grace"])
       /\ UNCHANGED <<shIntents, shSpawns>>

\* Mutant: only the grace window looks at the manifest again.
ShLastUnread(h) ==
    LET u == shHunt[h] IN
    /\ shTask[h] = "hunting" /\ u.at = "grace"
    /\ IF u.asked # {} /\ Progressed(h) THEN End(h, "ok", shFile) ELSE End(h, "err", shFile)
    /\ UNCHANGED <<shIntents, shSpawns>>

\* The grace window for callbacks (await_callback_transfer_completion), which
\* takes any progress for a transfer in flight, and the last look at the manifest.
ShLast(h) ==
    LET u == shHunt[h] IN
    /\ shTask[h] = "hunting" /\ u.at = "grace"
    /\ IF (u.asked # {} /\ Progressed(h)) \/ shFile[h] = "done"
       THEN End(h, "ok", shFile) ELSE End(h, "err", shFile)
    /\ UNCHANGED <<shIntents, shSpawns>>

\* External: a peer that was asked to call back connects and sends file data.
ShCalledBack(h, file) ==
    /\ h \in shIntents /\ shFile[h] # "done" /\ file \in {"some", "done"}
    /\ shFile[h] = "some" => file = "done"
    /\ shFile' = [shFile EXCEPT ![h] = file]
    /\ UNCHANGED <<shTask, shQueue, shActive, shIntents, shHunt, shDegraded, shOut, shSpawns>>

ShResults == {"completed", "accepted", "refused", "failed"}

\* Bound: each of the four searches of an acquisition reports at most one source.
AtMostOne == {{}} \cup {{s} : s \in ShSources}

Reports ==
    [sized \in BOOLEAN |->
        {Sourced(sized, q[1], q[2], q[3], q[4]) :
            q \in AtMostOne \X AtMostOne \X AtMostOne \X AtMostOne}]

ShWork(h) ==
    \/ ShGate(h) \/ ShRound(h) \/ ShRequery(h) \/ ShLast(h)
    \/ \E readable \in BOOLEAN : ShCheck(h, readable)
    \/ \E found \in Reports[shHunt[h].sized], failed \in BOOLEAN :
          ShAcquire(h, found, failed) \/ ShRefresh(h, found, failed)
    \/ \E s \in shHunt[h].act, res \in ShResults, wrote \in BOOLEAN : ShJoin(h, s, res, wrote)

ShNext ==
    \E h \in ShHashes :
        \/ ShWork(h)
        \/ \E given \in AtMostOne, sized \in BOOLEAN : ShSpawn(h, given, sized)
        \/ \E file \in {"some", "done"} : ShCalledBack(h, file)

ShSpec == ShInit /\ [][ShNext]_shVars

\* The runtime runs every task, requests to the coordinator and dials time out,
\* and every peer session ends: no peer holds one open for ever with packets
\* other than data (see DownloadCompletes in DownloadSession).
ShFairness == \A h \in ShHashes : WF_shVars(ShWork(h))

----------------------------------------------------------------------------
\* A peer is dialled at most twice in one download, however many rounds it
\* takes and however many reports name it: once as reported, once in plaintext
\* (attempted_direct_endpoints, plaintext_fallback_for_obfuscated_source).
\* Loopback peers that refuse are the exception the retry deadline makes.
DialsBounded ==
    \A h \in ShHashes : \A e \in Endpoints \ ShLoopback : shHunt[h].dials[e] <= 2

\* A download that had sources never reports failure for a file that is
\* complete, whoever completed it: a dialled peer or one that called back.  (A
\* file completed after the first look at its manifest still fails the task
\* when no source is found: start_native_ed2k_download bails there.)
CompletedNeverFails ==
    [][\A h \in ShHashes :
          shOut'[h] = "err" /\ shOut[h] # "err" /\ shHunt[h].src # {} => shFile[h] # "done"]_shVars

\* Every accepted request comes to an outcome: the rounds run out even while
\* the file keeps making progress, and a permit always reaches the next waiter.
HuntEnds ==
    \A h \in ShHashes : shTask[h] # "idle" ~> shTask[h] = "idle"

\* A download neither dials without end nor waits without end.
HuntBounded == []DialsBounded /\ HuntEnds
=============================================================================
