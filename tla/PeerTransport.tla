--------------------------- MODULE PeerTransport ---------------------------
(***************************************************************************)
(* The eD2k peer transport under every upload and download session         *)
(* (ed2k_tcp/transport.rs, ed2k_tcp/obfuscation.rs): one connection, the   *)
(* side that dialled it and the side that accepted it.  The dialler decides*)
(* whether to obfuscate, the acceptor finds out from the first byte.  A    *)
(* byte string is a sequence of units; an obfuscated unit carries the      *)
(* position of the key stream it was written at and reads as itself only   *)
(* at that position.  Sessions read packets under a timeout and go on      *)
(* reading after it (listener/session.rs, download/session.rs).            *)
(***************************************************************************)
EXTENDS Integers, Sequences

CONSTANTS
    PtMaxPad,     \* bound: padding units of a handshake
    PtMaxPackets, \* bound: packets written by each side
    PtMaxTimeouts \* bound: read timeouts of each side

ASSUME PtAssumption == PtMaxPad \in Nat /\ PtMaxPackets \in Nat /\ PtMaxTimeouts \in Nat

Sides == {"dial", "accept"}
Other(side) == IF side = "dial" THEN "accept" ELSE "dial"
PacketUnits == 3 \* the protocol marker, read alone, and the rest in two parts

VARIABLES
    ptAt,      \* of each side: new, hello (a handshake is under way), ready or failed
    ptMode,    \* plain or obfuscated
    ptWire,    \* units on their way to the side
    ptPre,     \* prefetched
    ptRx,      \* position of the receive cipher
    ptTx,      \* position of the send cipher
    ptBuf,     \* units taken by the read in progress
    ptSent,    \* packets written
    ptGot,     \* packets read: their numbers, 0 for one that was not written so
    ptTorn,    \* a timeout dropped units of a packet
    ptTimeouts

ptVars == <<ptAt, ptMode, ptWire, ptPre, ptRx, ptTx, ptBuf, ptSent, ptGot, ptTorn, ptTimeouts>>

PtInit ==
    /\ ptAt = [s \in Sides |-> "new"] /\ ptMode = [s \in Sides |-> "plain"]
    /\ ptWire = [s \in Sides |-> <<>>] /\ ptPre = [s \in Sides |-> <<>>]
    /\ ptRx = [s \in Sides |-> 0] /\ ptTx = [s \in Sides |-> 0]
    /\ ptBuf = [s \in Sides |-> <<>>]
    /\ ptSent = [s \in Sides |-> 0] /\ ptGot = [s \in Sides |-> <<>>]
    /\ ptTorn = [s \in Sides |-> FALSE] /\ ptTimeouts = [s \in Sides |-> 0]

Clear(what) == [what |-> what, key |-> 0]

\* Rc4KeyStream::apply on the way out: the units after position `from'.
Enciphered(whats, from) == [i \in 1..Len(whats) |-> [what |-> whats[i], key |-> from + i]]

Magic(pads) == <<<<"sync", pads>>>> \o [i \in 1..pads |-> <<"pad", i>>]

\* should_enable_outgoing_obfuscation: "error", "plain" or "obfuscated".
Choice(localSupports, localRequests, hash, peer) ==
    LET known == peer # {} IN
    IF known /\ "requires" \in peer /\ (~localSupports \/ "supports" \notin peer \/ ~hash)
    THEN "error"
    ELSE IF /\ known /\ localSupports /\ "supports" \in peer /\ hash
            /\ "requests" \in peer \/ localRequests
    THEN "obfuscated" ELSE "plain"

\* random_non_protocol_marker
Opening == {<<"random", 0>>}

\* connect_outgoing: the mode, and the request of the handshake.
PtConnect(local, requests, hash, peer, pads, opening) ==
    LET choice == Choice(local, requests, hash, peer) IN
    /\ ptAt["dial"] = "new"
    /\ IF choice = "obfuscated"
       THEN /\ ptAt' = [ptAt EXCEPT !["dial"] = "hello"]
            /\ ptMode' = [ptMode EXCEPT !["dial"] = choice]
            /\ ptWire' = [ptWire EXCEPT !["accept"] =
                             <<Clear(opening), Clear(<<"key", 0>>)>> \o Enciphered(Magic(pads), 0)]
            /\ ptTx' = [ptTx EXCEPT !["dial"] = 1 + pads]
       ELSE /\ ptAt' = [ptAt EXCEPT !["dial"] = IF choice = "error" THEN "failed" ELSE "ready"]
            /\ UNCHANGED <<ptMode, ptWire, ptTx>>
    /\ UNCHANGED <<ptPre, ptRx, ptBuf, ptSent, ptGot, ptTorn, ptTimeouts>>

\* Ed2kTransport::accept: a protocol marker is kept for the first packet, any
\* other byte opens a handshake.
PtAccept ==
    LET first == Head(ptWire["accept"]) IN
    /\ ptAt["accept"] = "new" /\ ptWire["accept"] # <<>>
    /\ ptWire' = [ptWire EXCEPT !["accept"] = Tail(@)]
    /\ IF first.key = 0 /\ first.what[1] = "marker"
       THEN /\ ptPre' = [ptPre EXCEPT !["accept"] = <<first>>]
            /\ ptAt' = [ptAt EXCEPT !["accept"] = "ready"]
            /\ UNCHANGED ptMode
       ELSE /\ ptAt' = [ptAt EXCEPT !["accept"] = "hello"]
            /\ ptMode' = [ptMode EXCEPT !["accept"] = "obfuscated"]
            /\ UNCHANGED ptPre
    /\ UNCHANGED <<ptRx, ptTx, ptBuf, ptSent, ptGot, ptTorn, ptTimeouts>>

\* Mutant: the padding is skipped but the key stream is not.
AfterMagicOnly(rx, pads) == rx + 1

\* The receive cipher after the handshake header and its padding.
AfterMagic(rx, pads) == rx + 1 + pads

\* The rest of the handshake: the acceptor reads key, header and padding and
\* answers with a header of its own; the dialler reads that answer.
PtHello(side, pads) ==
    LET wire == ptWire[side]
        skip == IF side = "accept" THEN 1 ELSE 0
        sync == wire[skip + 1].what
    IN /\ ptAt[side] = "hello" /\ Len(wire) > skip
       /\ Len(wire) >= skip + 1 + (IF sync[1] = "sync" THEN sync[2] ELSE 0)
       /\ IF sync[1] # "sync" \/ wire[skip + 1].key # ptRx[side] + 1
          THEN ptAt' = [ptAt EXCEPT ![side] = "failed"] /\ UNCHANGED <<ptWire, ptRx, ptTx>>
          ELSE LET rest == SubSeq(wire, skip + 2 + sync[2], Len(wire)) IN
               /\ ptAt' = [ptAt EXCEPT ![side] = "ready"]
               /\ ptRx' = [ptRx EXCEPT ![side] = AfterMagic(@, sync[2])]
               /\ IF side = "accept"
                  THEN /\ ptWire' = [ptWire EXCEPT !["accept"] = rest,
                                                   !["dial"] = Enciphered(Magic(pads), 0)]
                       /\ ptTx' = [ptTx EXCEPT !["accept"] = 1 + pads]
                  ELSE ptWire' = [ptWire EXCEPT !["dial"] = rest] /\ UNCHANGED ptTx
       /\ UNCHANGED <<ptMode, ptPre, ptBuf, ptSent, ptGot, ptTorn, ptTimeouts>>

\* The timeout around accept, or around the dialler's handshake.
PtGiveUp(side) ==
    /\ ptAt[side] = "hello" \/ (side = "accept" /\ ptAt[side] = "new")
    /\ ptAt' = [ptAt EXCEPT ![side] = "failed"]
    /\ UNCHANGED <<ptMode, ptWire, ptPre, ptRx, ptTx, ptBuf, ptSent, ptGot, ptTorn, ptTimeouts>>

Packet(n) == [i \in 1..PacketUnits |-> <<IF i = 1 THEN "marker" ELSE "rest", n, i>>]

\* write_all of one packet.
PtWrite(side) ==
    LET n == ptSent[side] + 1
        units == IF ptMode[side] = "plain"
                 THEN [i \in 1..PacketUnits |-> Clear(Packet(n)[i])]
                 ELSE Enciphered(Packet(n), ptTx[side])
    IN /\ ptAt[side] = "ready" /\ n <= PtMaxPackets
       /\ ptSent' = [ptSent EXCEPT ![side] = n]
       /\ ptWire' = [ptWire EXCEPT ![Other(side)] = @ \o units]
       /\ ptTx' = [ptTx EXCEPT ![side] = IF ptMode[side] = "plain" THEN @ ELSE @ + PacketUnits]
       /\ UNCHANGED <<ptAt, ptMode, ptPre, ptRx, ptBuf, ptGot, ptTorn, ptTimeouts>>

\* What the receiver makes of a unit when its cipher stands at position p.
Reads(side, unit, p) == IF unit.key = (IF ptMode[side] = "plain" THEN 0 ELSE p + 1)
                        THEN unit.what ELSE <<"junk", 0>>

\* The packet a complete buffer decodes to.  The marker is deciphered by
\* itself, the rest at once when it is all there.
Decoded(side, buf, p) ==
    LET whats == <<buf[1].what>> \o [i \in 1..PacketUnits - 1 |-> Reads(side, buf[i + 1], p + i - 1)]
        n == IF whats[1][1] = "marker" THEN whats[1][2] ELSE 0
    IN IF n # 0 /\ whats = Packet(n) THEN n ELSE 0

\* One more unit for the read in progress (read_u8, read_exact): the kept byte
\* first, then the stream.  A packet that decodes to nothing ends the session.
PtByte(side) ==
    LET kept == ptPre[side] # <<>>
        unit == IF kept THEN Head(ptPre[side]) ELSE Head(ptWire[side])
        ciphered == ptMode[side] = "obfuscated"
        buf == Append(ptBuf[side],
                      IF ptBuf[side] = <<>>
                      THEN [what |-> Reads(side, unit, ptRx[side]), key |-> 0] ELSE unit)
        n == Decoded(side, buf, ptRx[side])
    IN /\ ptAt[side] = "ready" /\ (kept \/ ptWire[side] # <<>>)
       /\ ptPre' = [ptPre EXCEPT ![side] = <<>>]
       /\ ptWire' = IF kept THEN ptWire ELSE [ptWire EXCEPT ![side] = Tail(@)]
       /\ ptRx' = [ptRx EXCEPT ![side] =
                      IF ~ciphered THEN @
                      ELSE IF Len(buf) = 1 THEN @ + 1
                      ELSE IF Len(buf) = PacketUnits THEN @ + PacketUnits - 1 ELSE @]
       /\ IF Len(buf) < PacketUnits
          THEN ptBuf' = [ptBuf EXCEPT ![side] = buf] /\ UNCHANGED <<ptAt, ptGot>>
          ELSE /\ ptBuf' = [ptBuf EXCEPT ![side] = <<>>]
               /\ ptGot' = [ptGot EXCEPT ![side] = Append(@, n)]
               /\ ptAt' = IF n = 0 THEN [ptAt EXCEPT ![side] = "failed"] ELSE ptAt
       /\ UNCHANGED <<ptMode, ptTx, ptSent, ptTorn, ptTimeouts>>

\* The session's timeout drops the read and what it had taken; the session
\* goes on to its next read.
PtTimeout(side) ==
    /\ ptAt[side] = "ready" /\ ptTimeouts[side] < PtMaxTimeouts
    /\ ptTimeouts' = [ptTimeouts EXCEPT ![side] = @ + 1]
    /\ ptTorn' = [ptTorn EXCEPT ![side] = @ \/ ptBuf[side] # <<>>]
    /\ ptBuf' = [ptBuf EXCEPT ![side] = <<>>]
    /\ UNCHANGED <<ptAt, ptMode, ptWire, ptPre, ptRx, ptTx, ptSent, ptGot>>

PtNext ==
    \/ \E local, requests, hash \in BOOLEAN, peer \in SUBSET {"supports", "requests", "requires"},
          pads \in 0..PtMaxPad, opening \in Opening :
          PtConnect(local, requests, hash, peer, pads, opening)
    \/ PtAccept
    \/ \E side \in Sides :
          \/ \E pads \in 0..PtMaxPad : PtHello(side, pads)
          \/ PtGiveUp(side) \/ PtWrite(side) \/ PtByte(side) \/ PtTimeout(side)

PtSpec == PtInit /\ [][PtNext]_ptVars

----------------------------------------------------------------------------
\* Unless a timeout fell inside a packet, a side reads exactly the packets the
\* other wrote, whole and in order: the byte kept by accept is read once, and
\* both ciphers stay in step through the padding of the handshake and the two
\* reads of a packet.
FramesWhole ==
    \A side \in Sides :
        ~ptTorn[side] => \A i \in 1..Len(ptGot[side]) : ptGot[side][i] = i

\* The acceptor, which only sees the first byte, ends up in the mode the
\* dialler chose from the peer's options (accept, connect_outgoing).
ModesAgree ==
    ptAt["accept"] = "ready" => ptMode["accept"] = ptMode["dial"]

\* Both ends speak the same mode and read the packets that were written.
StreamAgreed == FramesWhole /\ ModesAgree
=============================================================================
