---------------------------- MODULE ActiveSearch ----------------------------
(***************************************************************************)
(* The one-shot searches a job runs on sessions of its own, next to the    *)
(* background session: keyword and source searches over TCP, source        *)
(* searches over UDP and a targeted callback request (active_keyword.rs,   *)
(* active_source.rs, active_callback.rs).  A job orders the configured     *)
(* servers, tries some of them one after the other and keeps what they     *)
(* report.  The token of the owning job is looked at before a server and   *)
(* before a read, never during one.                                        *)
(***************************************************************************)
EXTENDS Integers, Sequences, FiniteSets, SequencesExt, FiniteSetsExt

CONSTANTS
    AcServers,  \* the configured servers, in the order of the configuration
    AcMax,      \* bound: max_attempts
    AcMaxPages, \* bound: pages of one keyword session
    NoServer    \* None

ASSUME AcAssumption == AcMax \in Nat /\ AcMaxPages \in Nat /\ Len(AcServers) > 0

VARIABLES
    acJob,    \* the options: [kind, pref, excl, max, input]
    acAt,     \* idle, next (top of the server loop), open, login, asked or done
    acLeft,   \* servers still to try
    acPages,  \* results of the session so far: the servers that reported them
    acPaged,  \* pages read in the session
    acFound,  \* aggregated_results
    acErr,    \* last_error is set
    acCancel, \* the job's token is cancelled
    acOut,    \* none, ok or err
    acTried,  \* history: the servers tried, in order
    acGave,   \* history: servers whose session ended with results
    acFatal   \* history: an answer made the whole search fail

acConf == <<acJob, acCancel>>
acVars == <<acJob, acAt, acLeft, acPages, acPaged, acFound, acErr, acCancel, acOut, acTried,
            acGave, acFatal>>

AcKinds == {"keyword", "source", "udp", "callback"}

\* What the configured servers and the query come to: servers and a request, a
\* query without a term, or one of them that does not parse (or no server).
AcInputs == {"sound", "blank", "broken"}
NoJob == [kind |-> "keyword", pref |-> NoServer, excl |-> NoServer, max |-> 0, input |-> "sound"]

AcInit ==
    /\ acJob = NoJob /\ acAt = "idle" /\ acLeft = <<>>
    /\ acPages = {} /\ acPaged = 0 /\ acFound = {}
    /\ acErr = FALSE /\ acCancel = FALSE /\ acOut = "none"
    /\ acTried = <<>> /\ acGave = {} /\ acFatal = FALSE

Capped(servers, max) == SubSeq(servers, 1, Min({Max({max, 1}), Len(servers)}))

Unexcluded(servers, excl) == SelectSeq(servers, LAMBDA s : s # excl)

PreferredFirst(pref) ==
    IF pref \in ToSet(AcServers) THEN <<pref>> \o Unexcluded(AcServers, pref) ELSE AcServers

\* The servers a job will try.  A keyword search excludes none, a callback
\* request goes to the one server that reported the source.
Candidates(job) ==
    IF job.kind = "callback" THEN <<job.pref>>
    ELSE Capped(Unexcluded(PreferredFirst(job.pref),
                           IF job.kind = "keyword" THEN NoServer ELSE job.excl),
                job.max)

\* CancellationToken::cancel by the owner of the job.
AcCancelJob ==
    /\ acAt \notin {"idle", "done"} /\ ~acCancel
    /\ acCancel' = TRUE
    /\ UNCHANGED <<acJob, acAt, acLeft, acPages, acPaged, acFound, acErr, acOut, acTried,
                   acGave, acFatal>>

Finish(out, found) ==
    /\ acAt' = "done" /\ acOut' = out /\ acFound' = found

\* What comes before the server loop: configured_server_entries, then the request,
\* which for a keyword may be empty.
AcStart(job) ==
    /\ acAt = "idle"
    /\ job.kind = "callback" => job.pref # NoServer /\ job.input = "sound"
    /\ job.input = "blank" => job.kind = "keyword"
    /\ acJob' = job
    /\ acLeft' = Candidates(job)
    /\ \/ job.input = "sound" /\ acAt' = "next" /\ UNCHANGED <<acFound, acOut>>
       \/ job.input = "blank" /\ Finish("ok", {})
       \/ job.input = "broken" /\ Finish("err", {})
    /\ UNCHANGED <<acPages, acPaged, acErr, acCancel, acTried, acGave, acFatal>>

\* Mutant: an error of any server fails the search.
EndedErrorFirst ==
    IF acErr THEN Finish("err", {})
    ELSE IF acFound # {} THEN Finish("ok", acFound) ELSE Finish("ok", {})

\* What the search returns once no server is left.
Ended ==
    IF acFound # {} THEN Finish("ok", acFound)
    ELSE IF acErr THEN Finish("err", {}) ELSE Finish("ok", {})

\* The top of the server loop: a server that is left, the token, then
\* resolve_server_entry, which may fail; `resolved' is its outcome.
AcNext(resolved) ==
    /\ acAt = "next"
    /\ IF acLeft = <<>> THEN Ended /\ UNCHANGED <<acLeft, acErr, acTried>>
       ELSE IF acCancel /\ acJob.kind # "callback"
       THEN Finish("ok", {}) /\ UNCHANGED <<acLeft, acErr, acTried>>
       ELSE /\ acLeft' = Tail(acLeft) /\ acTried' = Append(acTried, Head(acLeft))
            /\ acAt' = IF resolved THEN "open" ELSE "next"
            /\ acErr' = (acErr \/ ~resolved)
            /\ UNCHANGED <<acFound, acOut>>
    /\ acPages' = {} /\ acPaged' = 0
    /\ UNCHANGED <<acConf, acGave, acFatal>>

Server == IF acTried = <<>> THEN NoServer ELSE Last(acTried)

\* One server is done with: the arms of the match on its session's result.
SessionOk(results) ==
    /\ acGave' = IF results = {} THEN acGave ELSE acGave \cup {Server}
    /\ acErr' = acErr
    /\ IF \/ acJob.kind = "callback"
          \/ (acJob.kind \in {"keyword", "udp"} /\ results # {})
       THEN Finish("ok", acFound \cup results)
       ELSE acAt' = "next" /\ acFound' = acFound \cup results /\ UNCHANGED acOut

SessionErr == acErr' = TRUE /\ acAt' = "next" /\ UNCHANGED <<acFound, acOut, acGave>>

\* A session that finds the token cancelled returns nothing; the UDP search
\* has no session of its own, so there it is the search that returns.
SessionCancelled ==
    IF acJob.kind = "udp" THEN Finish("ok", {}) /\ UNCHANGED <<acErr, acGave>> ELSE SessionOk({})

\* ServerSession::connect, the obfuscation handshake and the login request, or
\* send_udp_source_search.  The read loop begins with a look at the token.
AcOpen(ok) ==
    /\ acAt = "open"
    /\ IF ~ok THEN SessionErr
       ELSE IF acCancel THEN SessionCancelled
       ELSE /\ acAt' = IF acJob.kind = "udp" THEN "asked" ELSE "login"
            /\ UNCHANGED <<acFound, acErr, acOut, acGave>>
    /\ UNCHANGED <<acConf, acLeft, acPages, acPaged, acTried, acFatal>>

\* OP_IDCHANGE: a zero id fails the session; otherwise the startup packets and
\* the request are sent.  A callback request no longer looks for it once sent.
AcIdChange(zero, sent) ==
    /\ acAt \in {"login", "asked"} /\ acJob.kind # "udp"
    /\ acJob.kind = "callback" => acAt = "login"
    /\ IF zero \/ ~sent THEN SessionErr
       ELSE IF acCancel THEN SessionCancelled
       ELSE acAt' = "asked" /\ UNCHANGED <<acFound, acErr, acOut, acGave>>
    /\ UNCHANGED <<acConf, acLeft, acPages, acPaged, acTried, acFatal>>

\* OP_SEARCHRESULT: a page, empty or not, with or without the promise of more,
\* taken whether or not the request was sent.
AcPage(results, more) ==
    /\ acAt \in {"login", "asked"} /\ acJob.kind = "keyword" /\ acPaged < AcMaxPages
    /\ acPaged' = acPaged + 1
    /\ acPages' = acPages \cup results
    /\ IF ~more THEN SessionOk(acPages')
       ELSE IF acCancel THEN SessionCancelled
       ELSE UNCHANGED <<acAt, acFound, acErr, acOut, acGave>>
    /\ UNCHANGED <<acConf, acLeft, acTried, acFatal>>

\* OP_FOUNDSOURCES over TCP: an entry of another file fails the session.
AcSources(results, valid) ==
    /\ acAt \in {"login", "asked"} /\ acJob.kind = "source"
    /\ IF valid THEN SessionOk(results) ELSE SessionErr
    /\ UNCHANGED <<acConf, acLeft, acPages, acPaged, acTried, acFatal>>

\* OP_GLOBFOUNDSOURCES: the decoder and validate_found_sources fail the whole
\* search with `?', whatever other sets of the datagram held.
AcDatagram(results, valid) ==
    /\ acAt = "asked" /\ acJob.kind = "udp"
    /\ IF valid THEN SessionOk(results) /\ UNCHANGED acFatal
       ELSE Finish("err", {}) /\ acFatal' = TRUE /\ UNCHANGED <<acErr, acGave>>
    /\ UNCHANGED <<acConf, acLeft, acPages, acPaged, acTried>>

\* The server closes the connection.  A keyword session keeps its pages.
AcEof ==
    /\ acAt \in {"login", "asked"} /\ acJob.kind # "udp"
    /\ IF acJob.kind = "callback" THEN SessionErr
       ELSE SessionOk(IF acJob.kind = "keyword" THEN acPages ELSE {})
    /\ UNCHANGED <<acConf, acLeft, acPages, acPaged, acTried, acFatal>>

\* OP_REJECT, OP_CALLBACK_FAIL, a broken packet or the end of the idle timeout;
\* a UDP wait that runs out is no error.
AcFails(timeout) ==
    /\ acAt \in {"login", "asked"}
    /\ IF acJob.kind = "udp" /\ timeout THEN SessionOk({}) ELSE SessionErr
    /\ UNCHANGED <<acConf, acLeft, acPages, acPaged, acTried, acFatal>>

\* A packet of no interest: the loop turns and looks at the token.  After a
\* callback request it also looks at the deadline, whose passing is success.
AcOther(expired) ==
    /\ acAt \in {"login", "asked"}
    /\ \/ acCancel /\ SessionCancelled
       \/ expired /\ acAt = "asked" /\ acJob.kind = "callback" /\ SessionOk({})
    /\ UNCHANGED <<acConf, acLeft, acPages, acPaged, acTried, acFatal>>

AcStep ==
    \/ \E k \in AcKinds, p, e \in ToSet(AcServers) \cup {NoServer}, m \in 0..AcMax, i \in AcInputs :
          AcStart([kind |-> k, pref |-> p, excl |-> e, max |-> m, input |-> i])
    \/ AcCancelJob
    \/ \E ok \in BOOLEAN : AcNext(ok) \/ AcOpen(ok) \/ AcFails(ok) \/ AcOther(ok)
    \/ \E zero, sent \in BOOLEAN : AcIdChange(zero, sent)
    \/ \E results \in {{}, {Server}}, b \in BOOLEAN :
          AcPage(results, b) \/ AcSources(results, b) \/ AcDatagram(results, b)
    \/ AcEof

AcSpec == AcInit /\ [][AcStep]_acVars

----------------------------------------------------------------------------
\* A TCP search fails only when no server's session ended with results: the
\* errors of the other servers never hide what one of them reported
\* (search_source_servers, search_keyword_servers).
ErrOnlyEmptyHanded ==
    acOut = "err" /\ acJob.kind \in {"source", "keyword"} => acGave = {}

\* A search that comes back empty has spent its attempts: it tried as many
\* servers as max_attempts (at least one) and the configuration allow, none of
\* them excluded, the preferred one first.  Only a query without a term and a
\* configuration or query that does not parse spend none.
AttemptsSpent ==
    LET eligible == ToSet(AcServers) \ {IF acJob.kind = "keyword" THEN NoServer ELSE acJob.excl}
    IN acAt = "done" /\ acJob.kind # "callback" /\ acFound = {} /\ ~acCancel /\ ~acFatal =>
          IF acJob.input # "sound" THEN acTried = <<>> /\ (acOut = "ok" <=> acJob.input = "blank")
          ELSE /\ Len(acTried) = Min({Max({1, acJob.max}), Cardinality(eligible)})
               /\ ToSet(acTried) \subseteq eligible
               /\ acJob.pref \in eligible => acTried[1] = acJob.pref

\* The outcome of a search is earned: an error only for want of results, an
\* empty result only after every attempt.
OutcomeEarned == ErrOnlyEmptyHanded /\ AttemptsSpent
=============================================================================
