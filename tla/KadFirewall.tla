---------------------------- MODULE KadFirewall ----------------------------
(***************************************************************************)
(* What the node finds out about its own reachability                      *)
(* (kad_firewall.rs, agent/kad_firewall_runtime.rs,                        *)
(* agent/background_firewall.rs, ed2k_tcp/firewall_helper.rs):             *)
(*   - the periodic UDP check: find the external port (from the NAT        *)
(*     mapping, or from PONGs), ask helpers over TCP, wait for their       *)
(*     datagrams, give a verdict;                                          *)
(*   - the TCP recheck: one detached task per HELLO exchange asks the peer *)
(*     for our address while the server calls us firewalled.               *)
(* One mutex guards the state; every await is between two lock sections.   *)
(***************************************************************************)
EXTENDS Integers, FiniteSets, Sequences

CONSTANTS
    KfContacts,   \* routing contacts that can be pinged or asked
    KfIp(_),      \* the address of a contact; several may share one
    KfPorts,      \* UDP ports that can be reported, 0 excluded
    KfInternal,   \* the bound UDP port
    KfAttempts,   \* KAD_EXTERNAL_PORT_DISCOVERY_MAX_ATTEMPTS
    KfReporters,  \* EXTERNAL_PORT_DISCOVERY_REPORTERS
    KfCount,      \* helper candidates of a round
    KfLimit,      \* TCP_FIREWALL_RECHECK_LIMIT
    KfProbes,     \* recheck tasks
    KfMaxRounds,  \* bound: UDP rounds begun
    KfNone

KfIps == {KfIp(c) : c \in KfContacts}

KfKnownPorts == {0, KfInternal} \cup KfPorts

KfOutcomes == {"pending", "failed", "wrong", "succeeded"}   \* HelperOutcome

\* UdpFirewallCheckRound: the ports it expects, the outcome of each helper.
UdpRounds == [ports : SUBSET KfKnownPorts, out : UNION {[H -> KfOutcomes] : H \in SUBSET KfIps}]

TcpRounds == [active : SUBSET KfIps, done : Nat]   \* TcpFirewallCheckRound

ASSUME KfAssumption == KfLimit \in Nat /\ KfNone \notin TcpRounds /\ KfNone \notin UdpRounds

VARIABLES
    kfNat,       \* external port of the NAT mapping, 0 for none
    kfAt,        \* where the UDP task is
    kfPinged,    \* contacts tried by this discovery
    kfPing,      \* the contact a PONG is awaited from
    kfDisc,      \* active_external_port_discovery
    kfFound,     \* discovered_external_udp_port, 0 for None
    kfExternal,  \* external port the UDP task works with
    kfRound,     \* active_round: [ports, out], out: helper address to outcome
    kfAsk,       \* the request task of each helper address
    kfOpen, kfVerified,
    kfRounds,    \* rounds begun
    kfReports,   \* history: <<address, port>> the PONGs of this discovery reported
    kfHelpers,   \* history: the helpers of the last round begun,
    kfServed,    \* those of them whose request ended well,
    kfHeard,     \* those a datagram came from while the task was at the round,
    kfProof,     \* those that confirmed a port the round expects by then,
    kfGave,      \* and whether the round gave a verdict
    kfServer,    \* the server's verdict: TCP firewalled
    kfTcp,       \* active_tcp_round: [active, done]
    kfActive,    \* tcp_recheck_active
    kfProbe      \* recheck tasks: [at, ip, fw]

kfDiscVars == <<kfPinged, kfPing, kfDisc, kfFound, kfReports>>
kfLog == <<kfHelpers, kfServed, kfHeard, kfProof, kfGave>>
kfUdpVars == <<kfRound, kfAsk, kfOpen, kfVerified, kfRounds, kfLog>>
kfTcpVars == <<kfServer, kfTcp, kfActive, kfProbe>>
kfVars == <<kfNat, kfAt, kfDiscVars, kfExternal, kfUdpVars, kfTcpVars>>

KfInit ==
    /\ kfNat = 0 /\ kfAt = "idle" /\ kfExternal = 0
    /\ kfPinged = {} /\ kfPing = KfNone /\ kfDisc = KfNone /\ kfFound = 0 /\ kfReports = {}
    /\ kfRound = KfNone /\ kfAsk = [h \in KfIps |-> "no"]
    /\ kfOpen = FALSE /\ kfVerified = FALSE /\ kfRounds = 0
    /\ kfHelpers = {} /\ kfServed = {} /\ kfHeard = {} /\ kfProof = {} /\ kfGave = FALSE
    /\ kfServer = FALSE /\ kfTcp = KfNone /\ kfActive = FALSE
    /\ kfProbe = [t \in KfProbes |-> [at |-> "new", ip |-> KfNone, fw |-> FALSE]]

----------------------------------------------------------------------------
\* External port: active_udp_firewall_ports, discover_external_kad_udp_port

\* The NAT mapping's port settles the question; otherwise a discovery begins.
KfStart ==
    /\ kfAt = "idle" /\ kfRounds < KfMaxRounds
    /\ IF kfNat # 0
       THEN /\ kfExternal' = kfNat /\ kfAt' = "ready"
            /\ UNCHANGED kfDiscVars
       ELSE /\ kfAt' = "discover"
            /\ kfDisc' = [reporters |-> {}, ports |-> {}]
            /\ kfFound' = 0 /\ kfPinged' = {} /\ kfReports' = {}
            /\ UNCHANGED <<kfPing, kfExternal>>
    /\ UNCHANGED <<kfNat, kfUdpVars, kfTcpVars>>

Searching == kfDisc # KfNone /\ Cardinality(kfPinged) < KfAttempts /\ kfPinged # KfContacts

KfPingSend(c) ==
    /\ kfAt = "discover" /\ kfPing = KfNone /\ Searching /\ c \notin kfPinged
    /\ kfPing' = c /\ kfPinged' = kfPinged \cup {c}
    /\ UNCHANGED <<kfNat, kfAt, kfDisc, kfFound, kfReports, kfExternal, kfUdpVars, kfTcpVars>>

\* reporter_ips.insert finds the address there already.
Repeats(ip) == ip \in kfDisc.reporters

\* record_external_port_candidate: two reporters that agree settle the port,
\* three that do not leave it unknown.
Candidate(ip, port) ==
    IF port = 0 \/ kfDisc = KfNone THEN [disc |-> kfDisc, found |-> kfFound]
    ELSE IF Repeats(ip) THEN [disc |-> kfDisc, found |-> kfFound]
    ELSE LET reporters == kfDisc.reporters \cup {ip}
         IN  IF port \in kfDisc.ports THEN [disc |-> KfNone, found |-> port]
             ELSE IF Cardinality(reporters) >= KfReporters THEN [disc |-> KfNone, found |-> 0]
             ELSE [disc |-> [reporters |-> reporters, ports |-> kfDisc.ports \cup {port}],
                   found |-> kfFound]

KfPong(port) ==
    /\ kfPing # KfNone
    /\ LET c == Candidate(KfIp(kfPing), port)
       IN  kfDisc' = c.disc /\ kfFound' = c.found
    /\ kfReports' = kfReports \cup {<<KfIp(kfPing), port>>}
    /\ kfPing' = KfNone
    /\ UNCHANGED <<kfNat, kfAt, kfPinged, kfExternal, kfUdpVars, kfTcpVars>>

\* Timeout, send error or a packet of another kind.
KfPingFails ==
    /\ kfPing # KfNone /\ kfPing' = KfNone
    /\ UNCHANGED <<kfNat, kfAt, kfPinged, kfDisc, kfFound, kfReports, kfExternal, kfUdpVars,
                   kfTcpVars>>

\* finish_external_port_discovery, external_udp_port_for_request.
KfDiscovered ==
    /\ kfAt = "discover" /\ kfPing = KfNone /\ ~Searching
    /\ kfDisc' = KfNone
    /\ kfExternal' = kfFound
    /\ kfAt' = "ready"
    /\ UNCHANGED <<kfNat, kfPinged, kfPing, kfFound, kfReports, kfUdpVars, kfTcpVars>>

----------------------------------------------------------------------------
\* The UDP round: spawn_udp_firewall_check_task

\* select_udp_firewall_helpers: distinct addresses, best scores first, at most
\* KfCount of them; which contacts exist and how they score is left open.
\* Without any the task starts over before it looks at the ports.
Helpers == {H \in SUBSET KfIps : Cardinality(H) \in 1..KfCount}

ExpectedPorts == {KfInternal} \cup (IF kfExternal = 0 THEN {} ELSE {kfExternal})

\* begin_udp_check replaces the round, whatever is left of an earlier one.
KfBegin(H) ==
    /\ kfAt = "ready"
    /\ kfAt' = "ask" /\ kfRounds' = kfRounds + 1
    /\ kfRound' = [ports |-> ExpectedPorts, out |-> [h \in H |-> "pending"]]
    /\ kfAsk' = [h \in KfIps |-> IF h \in H THEN "hello" ELSE "no"]
    /\ kfHelpers' = H /\ kfServed' = {} /\ kfHeard' = {} /\ kfProof' = {} /\ kfGave' = FALSE
    /\ UNCHANGED <<kfNat, kfDiscVars, kfExternal, kfOpen, kfVerified, kfTcpVars>>

\* request_udp_firewall_check: the helper answers our HELLO in time, and only
\* then OP_FWCHECKUDPREQ is sent; otherwise the request fails unsent.
KfRequest(h, answers) ==
    /\ kfAsk[h] = "hello"
    /\ kfAsk' = [kfAsk EXCEPT ![h] = IF answers THEN "sent" ELSE "failed"]
    /\ UNCHANGED <<kfNat, kfAt, kfDiscVars, kfExternal, kfRound, kfOpen, kfVerified, kfRounds,
                   kfLog, kfTcpVars>>

\* The session is kept for a while; a packet it cannot answer fails the
\* request although it was sent.
KfRequestEnds(h, ok) ==
    /\ kfAsk[h] = "sent"
    /\ kfAsk' = [kfAsk EXCEPT ![h] = IF ok THEN "ok" ELSE "failed"]
    /\ kfServed' = IF ok THEN kfServed \cup {h} ELSE kfServed
    /\ UNCHANGED <<kfNat, kfAt, kfDiscVars, kfExternal, kfRound, kfOpen, kfVerified, kfRounds,
                   kfHelpers, kfHeard, kfProof, kfGave, kfTcpVars>>

\* The task joins the request tasks; record_helper_request_failed overwrites
\* whatever the helper's datagram left there.
KfJoin(h) ==
    /\ kfAt = "ask" /\ kfAsk[h] \in {"ok", "failed"}
    /\ kfRound' = IF kfAsk[h] = "failed" /\ kfRound # KfNone
                  THEN [ports |-> kfRound.ports, out |-> [kfRound.out EXCEPT ![h] = "failed"]]
                  ELSE kfRound
    /\ kfAsk' = [kfAsk EXCEPT ![h] = "no"]
    /\ UNCHANGED <<kfNat, kfAt, kfDiscVars, kfExternal, kfOpen, kfVerified, kfRounds, kfLog, kfTcpVars>>

\* finalize_round.
Verdict(open) ==
    /\ kfRound' = KfNone /\ kfOpen' = open /\ kfVerified' = TRUE /\ kfGave' = TRUE

NoVerdict == UNCHANGED <<kfOpen, kfVerified, kfGave>>

Confirms(positive, port) == positive /\ port \in kfRound.ports

\* record_firewall_udp_packet, for an address of the round.
Answered(h, positive, port) ==
    IF Confirms(positive, port)
    THEN Verdict(TRUE)
    ELSE /\ kfRound' = [ports |-> kfRound.ports, out |-> [kfRound.out EXCEPT ![h] = "wrong"]]
         /\ NoVerdict

\* A FIREWALLUDP datagram. It is matched with the round by its source address
\* alone: late, repeated and unasked ones count as well, and so do those of a
\* helper whose request is still on its way or has failed.
KfDatagram(h, positive, port) ==
    /\ IF kfRound # KfNone /\ h \in DOMAIN kfRound.out
       THEN Answered(h, positive, port)
       ELSE UNCHANGED kfRound /\ NoVerdict
    /\ LET helps == kfAt = "ask" /\ h \in kfHelpers
       IN  /\ kfHeard' = IF helps THEN kfHeard \cup {h} ELSE kfHeard
           /\ kfProof' = IF helps /\ positive /\ port \in ExpectedPorts
                         THEN kfProof \cup {h} ELSE kfProof
    /\ UNCHANGED <<kfNat, kfAt, kfDiscVars, kfExternal, kfAsk, kfRounds, kfHelpers, kfServed, kfTcpVars>>

Outcomes == {kfRound.out[h] : h \in DOMAIN kfRound.out}

\* Mutant: a round nobody could be asked in counts as firewalled.
FinishedAnyhow == Verdict(FALSE)

\* finish_udp_check, for an active round.
Finished ==
    IF Outcomes = {"succeeded"} THEN UNCHANGED kfRound /\ NoVerdict
    ELSE IF "succeeded" \in Outcomes THEN Verdict(TRUE)
    ELSE IF Outcomes = {"failed"} THEN kfRound' = KfNone /\ NoVerdict
    ELSE Verdict(FALSE)

KfFinish ==
    /\ kfAt = "ask" /\ \A h \in KfIps : kfAsk[h] = "no"
    /\ kfAt' = "idle" /\ kfExternal' = 0
    /\ IF kfRound = KfNone THEN UNCHANGED kfRound /\ NoVerdict ELSE Finished
    /\ UNCHANGED <<kfNat, kfDiscVars, kfAsk, kfRounds, kfHelpers, kfServed, kfHeard, kfProof,
                   kfTcpVars>>

\* External: the NAT manager finds or loses its mapping.
KfNatMoves ==
    /\ kfNat' \in ({0} \cup KfPorts) \ {kfNat}
    /\ UNCHANGED <<kfAt, kfDiscVars, kfExternal, kfUdpVars, kfTcpVars>>

----------------------------------------------------------------------------
\* The TCP recheck: spawn_kad_firewalled_check

\* A HELLO exchange with ip; the server's verdict is read before the lock.
KfHello(t, ip) ==
    /\ kfProbe[t].at = "new"
    /\ kfProbe' = [kfProbe EXCEPT ![t] = [at |-> "read", ip |-> ip, fw |-> kfServer]]
    /\ UNCHANGED <<kfNat, kfAt, kfDiscVars, kfExternal, kfUdpVars, kfServer, kfTcp, kfActive>>

\* refresh_tcp_recheck(true) starts a round where there is none.
Refreshed == IF kfTcp = KfNone THEN [active |-> {}, done |-> 0] ELSE kfTcp

Begins(ip) == Cardinality(Refreshed.active) < KfLimit /\ Refreshed.done < KfLimit
              /\ ip \notin Refreshed.active

ProbeEnds(t) == kfProbe' = [kfProbe EXCEPT ![t].at = "done"]

\* refresh_tcp_recheck, try_begin_tcp_firewall_probe.
KfReserve(t) ==
    /\ kfProbe[t].at = "read"
    /\ LET p == kfProbe[t]
       IN  \/ /\ ~p.fw /\ kfTcp' = KfNone /\ kfActive' = FALSE /\ ProbeEnds(t)
           \/ /\ p.fw /\ ~Begins(p.ip)
              /\ kfTcp' = Refreshed /\ kfActive' = TRUE /\ ProbeEnds(t)
           \/ /\ p.fw /\ Begins(p.ip)
              /\ kfTcp' = [Refreshed EXCEPT !.active = @ \cup {p.ip}] /\ kfActive' = TRUE
              /\ kfProbe' = [kfProbe EXCEPT ![t].at = "sent"]
    /\ UNCHANGED <<kfNat, kfAt, kfDiscVars, kfExternal, kfUdpVars, kfServer>>

\* record_firewalled_response.
KfAnswer(t) ==
    /\ kfProbe[t].at = "sent"
    /\ ProbeEnds(t)
    /\ LET ip == kfProbe[t].ip
       IN  IF kfTcp # KfNone /\ ip \in kfTcp.active
           THEN LET done == kfTcp.done + 1
                IN  /\ kfActive' = (done < KfLimit)
                    /\ kfTcp' = IF done >= KfLimit THEN KfNone
                                ELSE [active |-> kfTcp.active \ {ip}, done |-> done]
           ELSE UNCHANGED <<kfTcp, kfActive>>
    /\ UNCHANGED <<kfNat, kfAt, kfDiscVars, kfExternal, kfUdpVars, kfServer>>

\* record_tcp_firewall_probe_failed gives the slot back.
Released(ip) ==
    IF kfTcp = KfNone THEN KfNone ELSE [active |-> kfTcp.active \ {ip}, done |-> kfTcp.done]

\* Timeout, send error, or an answer of another kind.
KfProbeFails(t) ==
    /\ kfProbe[t].at = "sent"
    /\ ProbeEnds(t)
    /\ kfTcp' = Released(kfProbe[t].ip)
    /\ UNCHANGED <<kfNat, kfAt, kfDiscVars, kfExternal, kfUdpVars, kfServer, kfActive>>

\* External: the eD2k server gives or changes its verdict.
KfServerSays ==
    /\ kfServer' = ~kfServer
    /\ UNCHANGED <<kfNat, kfAt, kfDiscVars, kfExternal, kfUdpVars, kfTcp, kfActive, kfProbe>>

KfUdp ==
    \/ KfStart \/ KfPingFails \/ KfDiscovered \/ KfFinish \/ KfNatMoves
    \/ \E c \in KfContacts : KfPingSend(c)
    \/ \E port \in {0} \cup KfPorts : KfPong(port)
    \/ \E H \in Helpers : KfBegin(H)
    \/ \E h \in KfIps :
          \/ \E b \in BOOLEAN : KfRequest(h, b) \/ KfRequestEnds(h, b)
          \/ KfJoin(h)
          \/ \E b \in BOOLEAN, port \in KfPorts : KfDatagram(h, b, port)

KfRecheck ==
    \/ KfServerSays
    \/ \E t \in KfProbes :
          \/ \E ip \in KfIps : KfHello(t, ip)
          \/ KfReserve(t) \/ KfAnswer(t) \/ KfProbeFails(t)

KfNext == KfUdp \/ KfRecheck

KfSpec == KfInit /\ [][KfNext]_kfVars

----------------------------------------------------------------------------
\* The external port that is announced to helpers was reported by two
\* different addresses in this very discovery (record_external_port_candidate).
DiscoveryAgreed ==
    kfFound # 0 =>
        \E a, b \in KfIps : a # b /\ {<<a, kfFound>>, <<b, kfFound>>} \subseteq kfReports

\* Whichever way requests, failures, datagrams (late, repeated and unasked ones
\* too) and the timeout interleave, a round gives the verdict its own time
\* earned: open if and only if, while it lasted, one of its helpers' addresses
\* confirmed a port it expects; firewalled only if some helper could be asked or
\* was heard of; none only if no request ended well, and then nothing was
\* confirmed either (finish_udp_check, record_firewall_udp_packet,
\* record_helper_request_failed).
VerdictEarned ==
    /\ kfGave => (kfOpen <=> kfProof # {}) /\ (kfOpen \/ kfServed \cup kfHeard # {})
    /\ kfProof # {} => kfGave
    /\ kfAt # "ask" /\ ~kfGave => kfServed = {}

\* No round survives its task: whatever the helpers did, the next check does
\* not begin over a round that still collects answers (finish_udp_check returns
\* early, without closing the round, when every helper succeeded).
RoundsEnd == kfAt \in {"idle", "discover", "ready"} => kfRound = KfNone

\* The recheck that is reported as active is one: a reserved helper slot has a
\* task that will give it back, so a round cannot be stuck with slots nobody
\* holds, late answers and verdict changes included.
RecheckSlotsOwned ==
    /\ kfActive <=> kfTcp # KfNone
    /\ kfTcp # KfNone =>
          \A ip \in kfTcp.active : \E t \in KfProbes : kfProbe[t].at = "sent" /\ kfProbe[t].ip = ip

\* The reachability checks end with what they earned: a port two addresses
\* agree on, a verdict of this round's helpers, no round and no slot left behind.
ChecksSound == DiscoveryAgreed /\ VerdictEarned /\ RoundsEnd /\ RecheckSlotsOwned
============================================================================
