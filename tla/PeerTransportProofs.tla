------------------------ MODULE PeerTransportProofs ------------------------
(***************************************************************************)
(* Proofs about the transport of a connection, for every amount of padding *)
(* and any number of packets and timeouts.                                 *)
(*                                                                         *)
(* StreamAgreed speaks of packets that were read.  It is kept because of   *)
(* what is still on the way: StreamInv says that the unread units of a     *)
(* wire are the rest of the packets written, each enciphered with the key  *)
(* the reader will use when it comes to that unit (InStep), and that       *)
(* during a handshake the wires hold the request or the answer and nothing *)
(* else.  A step of a reader moves one unit from the wire to its buffer, a *)
(* step of a writer adds three.                                            *)
(***************************************************************************)
EXTENDS PeerTransport, TLAPS

\* The units of a connection.
Whats ==
    ({"random", "key", "junk", "sync", "pad"} \X Nat) \cup ({"marker", "rest"} \X Nat \X Nat)
Units == [what : Whats, key : Nat]

\* The key a unit of packet n is written at, by a writer in that mode that has
\* written sent packets and whose cipher stands at tx.
KeyOf(n, j, sent, mode, tx) == IF mode = "plain" THEN 0 ELSE tx - 3 * sent + 3 * (n - 1) + j

PacketUnit(n, j, key) == [what |-> Packet(n)[j], key |-> key]

\* A wire holds, after skip units, all that was written of the packets but the
\* first taken units.
Holds(wire, skip, taken, sent, mode, tx) ==
    /\ Len(wire) = skip + 3 * sent - taken
    /\ \A n \in 1..sent, j \in 1..3 :
          3 * (n - 1) + j > taken =>
              wire[skip + 3 * (n - 1) + j - taken] =
                  PacketUnit(n, j, KeyOf(n, j, sent, mode, tx))

\* The units of packet n as a writer in that mode writes them.
Written(units, n, mode, tx) ==
    /\ Len(units) = 3
    /\ \A j \in 1..3 : units[j] = PacketUnit(n, j, IF mode = "plain" THEN 0 ELSE tx + j)

\* A reader that took whole packets and b units of the next one: what is in its
\* hands and on the wire continues the packets, and its cipher is in step.
InStep(buf, pre, wire, rx, g, mode, sent, tx) ==
    LET b == Len(buf)
        p == Len(pre)
    IN /\ b \in 0..2 /\ p \in 0..1 /\ 3 * g + b + p <= 3 * sent
       /\ Holds(wire, 0, 3 * g + b + p, sent, mode, tx)
       /\ b # 0 => buf[1] = PacketUnit(g + 1, 1, 0)
       /\ b = 2 => buf[2] = PacketUnit(g + 1, 2, KeyOf(g + 1, 2, sent, mode, tx))
       /\ p = 1 => g = 0 /\ b = 0 /\ mode = "plain" /\ pre[1] = PacketUnit(1, 1, 0)
       /\ mode = "obfuscated" => rx = tx - 3 * sent + 3 * g + (IF b = 0 THEN 0 ELSE 1)

Modes == {"plain", "obfuscated"}

\* The types, and that a cipher is past the packets written with it.
Typed ==
    /\ ptAt \in [Sides -> {"new", "hello", "ready", "failed"}] /\ ptMode \in [Sides -> Modes]
    /\ ptWire \in [Sides -> Seq(Units)] /\ ptPre \in [Sides -> Seq(Units)]
    /\ ptBuf \in [Sides -> Seq(Units)] /\ ptGot \in [Sides -> Seq(Nat)]
    /\ ptRx \in [Sides -> Nat] /\ ptTx \in [Sides -> Nat] /\ ptSent \in [Sides -> Nat]
    /\ ptTorn \in [Sides -> BOOLEAN] /\ ptTimeouts \in [Sides -> Nat]
    /\ \A s \in Sides : ptMode[s] = "obfuscated" => 3 * ptSent[s] <= ptTx[s]

\* A side that has read nothing.
Unread(s) == ptPre[s] = <<>> /\ ptBuf[s] = <<>> /\ ptGot[s] = <<>> /\ ptRx[s] = 0

\* The dialler's request, whole or without its first byte.
Request(opening) ==
    \E pads \in 0..PtMaxPad :
        /\ ptTx["dial"] = 1 + pads
        /\ ptWire["accept"] = opening \o Enciphered(Magic(pads), 0)

\* What holds while a side has not begun: before the dialler dials nothing is on
\* a wire; before the acceptor looks, its wire holds plain packets or the request.
NewDial ==
    /\ ptMode["dial"] = "plain" /\ ptMode["accept"] = "plain" /\ ptSent["dial"] = 0
    /\ ptSent["accept"] = 0 /\ ptWire["accept"] = <<>> /\ ptWire["dial"] = <<>>
    /\ ptAt["accept"] \in {"new", "failed"} /\ Unread("dial")

NewAccept ==
    /\ ptMode["accept"] = "plain" /\ ptSent["accept"] = 0 /\ ptWire["dial"] = <<>>
    /\ Unread("accept")
    /\ ptMode["dial"] = "plain" =>
          Holds(ptWire["accept"], 0, 0, ptSent["dial"], "plain", ptTx["dial"])
    /\ ptMode["dial"] = "obfuscated" =>
          /\ ptAt["dial"] \in {"hello", "failed"} /\ ptSent["dial"] = 0
          /\ Request(<<Clear(<<"random", 0>>), Clear(<<"key", 0>>)>>)

HelloAccept ==
    /\ ptMode["accept"] = "obfuscated" /\ ptMode["dial"] = "obfuscated"
    /\ ptAt["dial"] \in {"hello", "failed"} /\ ptSent["dial"] = 0 /\ ptSent["accept"] = 0
    /\ ptWire["dial"] = <<>> /\ Unread("accept") /\ Request(<<Clear(<<"key", 0>>)>>)

\* The answer of the acceptor, followed by its packets.
Answer ==
    /\ ptMode["accept"] = "obfuscated"
    /\ \E pads \in 0..PtMaxPad :
          /\ ptTx["accept"] - 3 * ptSent["accept"] = 1 + pads
          /\ Len(ptWire["dial"]) >= 1 + pads
          /\ ptWire["dial"][1] = [what |-> <<"sync", pads>>, key |-> 1]
          /\ Holds(ptWire["dial"], 1 + pads, 0, ptSent["accept"], "obfuscated", ptTx["accept"])

HelloDial ==
    /\ ptMode["dial"] = "obfuscated" /\ ptSent["dial"] = 0 /\ Unread("dial")
    /\ \/ ptWire["dial"] = <<>> /\ ptSent["accept"] = 0 /\ ptAt["accept"] # "ready"
       \/ Answer

Ready(s) ==
    /\ ptMode["accept"] = ptMode["dial"]
    /\ ~ptTorn[s] => InStep(ptBuf[s], ptPre[s], ptWire[s], ptRx[s], Len(ptGot[s]), ptMode[Other(s)],
                            ptSent[Other(s)], ptTx[Other(s)])

StreamInv ==
    /\ Typed
    /\ \A s \in Sides : ptAt[s] = "ready" => Ready(s)
    /\ ptAt["dial"] = "new" => NewDial
    /\ ptAt["accept"] = "new" => NewAccept
    /\ ptAt["accept"] = "hello" => HelloAccept
    /\ ptAt["dial"] = "hello" => HelloDial
    /\ FramesWhole

\* The three units of a packet.
LEMMA PacketIs ==
    ASSUME NEW n \in Nat
    PROVE  /\ Packet(n) = <<<<"marker", n, 1>>, <<"rest", n, 2>>, <<"rest", n, 3>>>>
           /\ \A j \in 1..3 : Packet(n)[j] \in Whats
           /\ Packet(n)[1] = <<"marker", n, 1>> /\ Packet(n)[2] = <<"rest", n, 2>>
           /\ Packet(n)[3] = <<"rest", n, 3>>
  <1>1. Packet(n) = [i \in 1..3 |-> <<IF i = 1 THEN "marker" ELSE "rest", n, i>>]
    BY Zenon DEF Packet, PacketUnits
  <1>2. \A j \in 1..3 : j = 1 \/ j = 2 \/ j = 3
    OBVIOUS
  <1>3. /\ Packet(n)[1] = <<"marker", n, 1>> /\ Packet(n)[2] = <<"rest", n, 2>>
        /\ Packet(n)[3] = <<"rest", n, 3>>
    BY <1>1
  <1>4. /\ <<"marker", n, 1>> \in Whats /\ <<"rest", n, 2>> \in Whats /\ <<"rest", n, 3>> \in Whats
    BY Zenon DEF Whats
  <1>5. Packet(n) = <<<<"marker", n, 1>>, <<"rest", n, 2>>, <<"rest", n, 3>>>>
    BY <1>1
  <1> QED
    BY <1>2, <1>3, <1>4, <1>5, Zenon

\* What the operators on sequences do, element by element.
LEMMA ConcatIs ==
    ASSUME NEW S, NEW s \in Seq(S), NEW t \in Seq(S)
    PROVE  /\ s \o t \in Seq(S) /\ Len(s \o t) = Len(s) + Len(t)
           /\ \A i \in 1..Len(s) : (s \o t)[i] = s[i]
           /\ \A i \in 1..Len(t) : (s \o t)[Len(s) + i] = t[i]
  OBVIOUS

\* Facts about sequences, stated in the form the steps below use.
LEMMA FunctionIsSeq ==
    ASSUME NEW S, NEW n \in Nat, NEW f \in [1..n -> S]
    PROVE  f \in Seq(S) /\ Len(f) = n
  OBVIOUS

\* What is left when the first element is taken.
LEMMA TailIs ==
    ASSUME NEW S, NEW s \in Seq(S), Len(s) > 0
    PROVE  /\ s # <<>> /\ Head(s) = s[1] /\ Head(s) \in S
           /\ Tail(s) \in Seq(S) /\ Len(Tail(s)) = Len(s) - 1
           /\ \A i \in 1..Len(s) - 1 : Tail(s)[i] = s[i + 1]
  OBVIOUS

\* What is left when the first skip elements are taken.
LEMMA SuffixIs ==
    ASSUME NEW S, NEW s \in Seq(S), NEW k \in Nat, k <= Len(s), NEW r, r = SubSeq(s, k + 1, Len(s))
    PROVE  /\ r \in Seq(S) /\ Len(r) = Len(s) - k
           /\ \A i \in 1..Len(s) - k : r[i] = s[k + i]
  OBVIOUS

\* Keys are numbers as long as the cipher is past what was written.
LEMMA KeyTyped ==
    ASSUME NEW n \in Nat \ {0}, NEW j \in 1..3, NEW sent \in Nat, NEW mode \in Modes, NEW tx \in Nat,
           mode = "obfuscated" => 3 * sent <= tx
    PROVE  KeyOf(n, j, sent, mode, tx) \in Nat
  BY DEF KeyOf, Modes

\* Writing a packet.
LEMMA HoldsWrite ==
    ASSUME NEW wire \in Seq(Units), NEW skip \in Nat, NEW taken \in Nat, NEW sent \in Nat,
           taken <= 3 * sent, NEW mode, NEW tx \in Nat,
           Holds(wire, skip, taken, sent, mode, tx),
           NEW units \in Seq(Units), Written(units, sent + 1, mode, tx),
           NEW tx1 \in Nat, mode # "plain" => tx1 = tx + 3
    PROVE  Holds(wire \o units, skip, taken, sent + 1, mode, tx1)
  <1>1. Len(wire) = skip + 3 * sent - taken
    BY Zenon DEF Holds
  <1>2. /\ Len(wire \o units) = skip + 3 * (sent + 1) - taken
        /\ \A i \in 1..Len(wire) : (wire \o units)[i] = wire[i]
        /\ \A i \in 1..3 : (wire \o units)[Len(wire) + i] = units[i]
    <2>1. /\ Len(wire \o units) = Len(wire) + Len(units)
          /\ \A i \in 1..Len(wire) : (wire \o units)[i] = wire[i]
          /\ \A i \in 1..Len(units) : (wire \o units)[Len(wire) + i] = units[i]
      BY ConcatIs
    <2>2. Len(units) = 3
      BY Zenon DEF Written
    <2> QED
      <3>1. Len(wire \o units) = Len(wire) + 3
        BY <2>1, <2>2, Zenon
      <3>2. \A i \in 1..3 : (wire \o units)[Len(wire) + i] = units[i]
        BY <2>1, <2>2, Zenon
      <3>3. Len(wire \o units) = skip + 3 * (sent + 1) - taken
        BY <1>1, <3>1
      <3> QED
        BY <2>1, <3>2, <3>3, Zenon
  <1>3. ASSUME NEW n \in 1..sent + 1, NEW j \in 1..3, 3 * (n - 1) + j > taken
        PROVE  (wire \o units)[skip + 3 * (n - 1) + j - taken] =
                  PacketUnit(n, j, KeyOf(n, j, sent + 1, mode, tx1))
    <2> DEFINE k == skip + 3 * (n - 1) + j - taken
    <2>1. CASE n \in 1..sent
      <3>1. KeyOf(n, j, sent + 1, mode, tx1) = KeyOf(n, j, sent, mode, tx)
        BY DEF KeyOf
      <3>2. k \in 1..Len(wire)
        BY <1>1, <1>3, <2>1
      <3>3. wire[k] = PacketUnit(n, j, KeyOf(n, j, sent, mode, tx))
        BY <1>3, <2>1, Zenon DEF Holds
      <3> QED
        BY <1>2, <3>1, <3>2, <3>3, Zenon
    <2>2. CASE n = sent + 1
      <3>1. k = Len(wire) + j
        BY <1>1, <2>2
      <3>2. KeyOf(n, j, sent + 1, mode, tx1) = IF mode = "plain" THEN 0 ELSE tx + j
        BY <2>2 DEF KeyOf
      <3>3. units[j] = PacketUnit(n, j, KeyOf(n, j, sent + 1, mode, tx1))
        BY <3>2, <2>2, SMTT(30) DEF Written
      <3>4. (wire \o units)[k] = units[j]
        BY <1>2, <3>1, Zenon
      <3> QED
        BY <3>3, <3>4, Zenon
    <2>3. n \in 1..sent \/ n = sent + 1
      OBVIOUS
    <2> QED
      BY <2>1, <2>2, <2>3, Zenon
  <1> QED
    BY <1>2, <1>3, Zenon DEF Holds

\* Packet g + 1 goes on, after b units, with the first unit of the wire.
Continues(wire, g, b, sent, mode, tx) == Holds(wire, 0, 3 * g + b, sent, mode, tx)
NextOf(unit, g, b, sent, mode, tx) ==
    unit = PacketUnit(g + 1, b + 1, KeyOf(g + 1, b + 1, sent, mode, tx))

\* Taking the next unit off the wire.
LEMMA HoldsTail ==
    ASSUME NEW wire \in Seq(Units), NEW sent \in Nat, NEW mode, NEW tx \in Nat,
           NEW g \in Nat, g + 1 \in 1..sent, NEW b \in 0..2,
           Continues(wire, g, b, sent, mode, tx)
    PROVE  /\ wire # <<>> /\ Tail(wire) \in Seq(Units)
           /\ Head(wire) = wire[1] /\ NextOf(wire[1], g, b, sent, mode, tx)
           /\ Holds(Tail(wire), 0, 3 * g + b + 1, sent, mode, tx)
  <1> DEFINE taken == 3 * g + b
             n == g + 1
             j == b + 1
  <1>a. /\ taken \in Nat /\ n \in 1..sent /\ j \in 1..3 /\ taken = 3 * (n - 1) + j - 1
        /\ Holds(wire, 0, taken, sent, mode, tx)
    BY DEF Continues
  <1> HIDE DEF taken, n, j
  <1>1. Len(wire) = 3 * sent - taken /\ Len(wire) > 0
    BY <1>a DEF Holds
  <1>2. /\ wire # <<>> /\ Tail(wire) \in Seq(Units) /\ Len(Tail(wire)) = Len(wire) - 1
        /\ Head(wire) = wire[1] /\ \A i \in 1..Len(wire) - 1 : Tail(wire)[i] = wire[i + 1]
    BY <1>1, TailIs, Zenon
  <1>3. wire[1] = PacketUnit(n, j, KeyOf(n, j, sent, mode, tx))
    <2>1. 3 * (n - 1) + j > taken /\ 0 + 3 * (n - 1) + j - taken = 1
      BY <1>a
    <2> QED
      BY <1>a, <2>1, SMTT(30) DEF Holds
  <1>4. ASSUME NEW m \in 1..sent, NEW i \in 1..3, 3 * (m - 1) + i > taken + 1
        PROVE  Tail(wire)[0 + 3 * (m - 1) + i - (taken + 1)] =
                  PacketUnit(m, i, KeyOf(m, i, sent, mode, tx))
    <2> DEFINE k == 3 * (m - 1) + i - taken
    <2>1. k - 1 \in 1..Len(wire) - 1 /\ 0 + 3 * (m - 1) + i - (taken + 1) = k - 1
          /\ 0 + 3 * (m - 1) + i - taken = k /\ (k - 1) + 1 = k
      BY <1>1, <1>4, <1>a
    <2>a. 3 * (m - 1) + i > taken
      BY <1>4, <1>a
    <2>2. wire[0 + 3 * (m - 1) + i - taken] = PacketUnit(m, i, KeyOf(m, i, sent, mode, tx))
      BY <1>a, <2>a, Zenon DEF Holds
    <2> QED
      BY <1>2, <2>1, <2>2, Zenon
  <1>5. Len(Tail(wire)) = 0 + 3 * sent - (taken + 1)
    BY <1>1, <1>2, <1>a
  <1>6. Holds(Tail(wire), 0, taken + 1, sent, mode, tx)
    BY <1>4, <1>5, Zenon DEF Holds
  <1> QED
    BY <1>2, <1>3, <1>6, Zenon DEF taken, n, j, NextOf

\* Dropping the units before the packets.
LEMMA HoldsSkip ==
    ASSUME NEW wire \in Seq(Units), NEW sent \in Nat, NEW mode, NEW tx \in Nat, NEW skip \in Nat,
           Holds(wire, skip, 0, sent, mode, tx), NEW rest, rest = SubSeq(wire, skip + 1, Len(wire))
    PROVE  rest \in Seq(Units) /\ Holds(rest, 0, 0, sent, mode, tx)
  <1>1. Len(wire) = skip + 3 * sent
    BY DEF Holds
  <1>2. /\ rest \in Seq(Units) /\ Len(rest) = 3 * sent
        /\ \A i \in 1..3 * sent : rest[i] = wire[skip + i]
    <2>1. /\ rest \in Seq(Units) /\ Len(rest) = Len(wire) - skip
          /\ \A i \in 1..Len(wire) - skip : rest[i] = wire[skip + i]
      BY <1>1, SuffixIs
    <2> QED
      BY <1>1, <2>1
  <1>3. ASSUME NEW m \in 1..sent, NEW i \in 1..3, 3 * (m - 1) + i > 0
        PROVE  rest[0 + 3 * (m - 1) + i - 0] =
                  PacketUnit(m, i, KeyOf(m, i, sent, mode, tx))
    <2>1. 3 * (m - 1) + i \in 1..3 * sent /\ skip + (3 * (m - 1) + i) = skip + 3 * (m - 1) + i - 0
          /\ 0 + 3 * (m - 1) + i - 0 = 3 * (m - 1) + i
      OBVIOUS
    <2>2. wire[skip + 3 * (m - 1) + i - 0] =
             PacketUnit(m, i, KeyOf(m, i, sent, mode, tx))
      BY <1>3, Zenon DEF Holds
    <2>3. rest[3 * (m - 1) + i] = wire[skip + (3 * (m - 1) + i)]
      BY <1>2, <2>1, Zenon
    <2> QED
      BY <2>1, <2>2, <2>3, Zenon
  <1>4. Len(rest) = 0 + 3 * sent - 0
    BY <1>2
  <1>5. Holds(rest, 0, 0, sent, mode, tx)
    BY <1>3, <1>4, Zenon DEF Holds
  <1> QED
    BY <1>2, <1>5, Zenon

\* The handshake header and its padding, enciphered from the start.
LEMMA MagicIs ==
    ASSUME NEW pads \in Nat
    PROVE  LET E == Enciphered(Magic(pads), 0)
           IN E \in Seq(Units) /\ Len(E) = 1 + pads /\ E[1] = [what |-> <<"sync", pads>>, key |-> 1]
  <1> DEFINE P == [i \in 1..pads |-> <<"pad", i>>]
             S == <<<<"sync", pads>>>>
             M == Magic(pads)
             E == Enciphered(M, 0)
  <1>1. \A i \in Nat : <<"pad", i>> \in Whats
    BY Zenon DEF Whats
  <1>2. <<"sync", pads>> \in Whats
    BY Zenon DEF Whats
  <1>3. P \in Seq(Whats) /\ Len(P) = pads
    BY <1>1
  <1>4. S \in Seq(Whats) /\ Len(S) = 1 /\ S[1] = <<"sync", pads>>
    BY <1>2
  <1>5. M = S \o P
    BY Zenon DEF Magic
  <1> HIDE DEF P, S
  <1>6. M \in Seq(Whats) /\ Len(M) = 1 + pads /\ M[1] = <<"sync", pads>>
    <2>1. /\ S \o P \in Seq(Whats) /\ Len(S \o P) = Len(S) + Len(P)
          /\ \A i \in 1..Len(S) : (S \o P)[i] = S[i]
      BY <1>3, <1>4, ConcatIs, ZenonT(40)
    <2> QED
      BY <2>1, <1>3, <1>4, <1>5
  <1> HIDE DEF M
  <1>7. E = [i \in 1..(1 + pads) |-> [what |-> M[i], key |-> 0 + i]]
    BY <1>6, Zenon DEF Enciphered
  <1>8. \A i \in 1..(1 + pads) : [what |-> M[i], key |-> 0 + i] \in Units
    BY <1>6 DEF Units
  <1> HIDE DEF E
  <1>9. E \in Seq(Units) /\ Len(E) = 1 + pads
    BY <1>7, <1>8
  <1>10. E[1] = [what |-> <<"sync", pads>>, key |-> 1]
    <2>1. 1 \in 1..(1 + pads) /\ 0 + 1 = 1
      OBVIOUS
    <2> QED
      BY <1>6, <1>7, <2>1, Zenon
  <1> QED
    BY <1>9, <1>10, Zenon DEF E, M

\* A unit in the clear.
LEMMA ClearTyped == \A x \in Whats : Clear(x) \in Units
  BY Zenon DEF Clear, Units

\* A unit of a packet.
LEMMA UnitTyped ==
    ASSUME NEW n \in Nat, NEW j \in 1..3, NEW key \in Nat
    PROVE  /\ PacketUnit(n, j, key) \in Units
           /\ PacketUnit(n, j, key).what = Packet(n)[j] /\ PacketUnit(n, j, key).key = key
  BY PacketIs, Zenon DEF PacketUnit, Units

\* What a writer puts on the wire.
LEMMA WriteIs ==
    ASSUME NEW n \in Nat, NEW mode \in Modes, NEW tx \in Nat, NEW units,
           units = IF mode = "plain" THEN [i \in 1..PacketUnits |-> Clear(Packet(n)[i])]
                   ELSE Enciphered(Packet(n), tx)
    PROVE  units \in Seq(Units) /\ Written(units, n, mode, tx)
  <1>1. Len(Packet(n)) = 3
    BY PacketIs
  <1> DEFINE k(i) == IF mode = "plain" THEN 0 ELSE tx + i
  <1>2. units = [i \in 1..3 |-> PacketUnit(n, i, k(i))]
    BY <1>1, Zenon DEF PacketUnits, Clear, Enciphered, PacketUnit
  <1>3. \A i \in 1..3 : k(i) \in Nat
    BY DEF Modes
  <1> HIDE DEF k
  <1>4. \A i \in 1..3 : PacketUnit(n, i, k(i)) \in Units
    BY <1>3, UnitTyped, Zenon
  <1>5. units \in Seq(Units) /\ Len(units) = 3 /\ \A i \in 1..3 : units[i] = PacketUnit(n, i, k(i))
    <2> DEFINE f == [i \in 1..3 |-> PacketUnit(n, i, k(i))]
    <2>1. f \in [1..3 -> Units] /\ \A i \in 1..3 : f[i] = PacketUnit(n, i, k(i))
      BY <1>4, Zenon
    <2>2. 3 \in Nat /\ units = f
      BY <1>2, Zenon
    <2> HIDE DEF f
    <2>3. f \in Seq(Units) /\ Len(f) = 3
      BY <2>1, <2>2, FunctionIsSeq, Zenon
    <2> QED
      BY <2>1, <2>2, <2>3, Zenon
  <1> QED
    BY <1>5, Zenon DEF Written, k

\* A reader stays in step while its peer writes.
LEMMA WriteInStep ==
    ASSUME NEW buf \in Seq(Units), NEW pre \in Seq(Units), NEW wire \in Seq(Units), NEW rx \in Nat,
           NEW g \in Nat, NEW mode \in Modes, NEW sent \in Nat, NEW tx \in Nat,
           InStep(buf, pre, wire, rx, g, mode, sent, tx),
           NEW units \in Seq(Units), Written(units, sent + 1, mode, tx),
           NEW tx1 \in Nat, mode # "plain" => tx1 = tx + 3
    PROVE  InStep(buf, pre, wire \o units, rx, g, mode, sent + 1, tx1)
  <1> DEFINE t == 3 * g + Len(buf) + Len(pre)
  <1>1. t \in Nat /\ t <= 3 * sent /\ t <= 3 * (sent + 1)
    BY DEF InStep
  <1>2. Holds(wire, 0, t, sent, mode, tx)
    BY Zenon DEF InStep
  <1>3. Holds(wire \o units, 0, t, sent + 1, mode, tx1)
    BY <1>1, <1>2, HoldsWrite, Zenon
  <1>4. KeyOf(g + 1, 2, sent + 1, mode, tx1) = KeyOf(g + 1, 2, sent, mode, tx)
    BY DEF KeyOf
  <1>5. mode = "obfuscated" => tx1 - 3 * (sent + 1) = tx - 3 * sent
    OBVIOUS
  <1> QED
    BY <1>1, <1>3, <1>4, <1>5, Zenon DEF InStep

\* A reader that has read nothing of the packets, with its cipher at their start.
LEMMA FreshInStep ==
    ASSUME NEW wire, NEW rx \in Nat, NEW mode \in Modes, NEW sent \in Nat, NEW tx \in Nat,
           Holds(wire, 0, 0, sent, mode, tx), mode = "obfuscated" => rx = tx - 3 * sent
    PROVE  InStep(<<>>, <<>>, wire, rx, 0, mode, sent, tx)
  <1>1. Len(<<>>) = 0 /\ 3 * 0 + 0 + 0 = 0
    OBVIOUS
  <1>2. Holds(wire, 0, 3 * 0 + Len(<<>>) + Len(<<>>), sent, mode, tx)
    BY <1>1, Zenon
  <1> QED
    BY <1>1, <1>2 DEF InStep

\* One more unit, which the reader takes from the byte kept by accept or from the
\* wire: it is the next one of the packet, and reads as it was written.
LEMMA NextUnit ==
    ASSUME NEW buf \in Seq(Units), NEW pre \in Seq(Units), NEW wire \in Seq(Units),
           NEW rx \in Nat, NEW g \in Nat, NEW mode \in Modes, NEW sent \in Nat, NEW tx \in Nat,
           mode = "obfuscated" => 3 * sent <= tx,
           InStep(buf, pre, wire, rx, g, mode, sent, tx), pre # <<>> \/ wire # <<>>
    PROVE  LET unit == IF pre # <<>> THEN Head(pre) ELSE Head(wire)
               rest == IF pre # <<>> THEN wire ELSE Tail(wire)
               b == Len(buf)
               key == KeyOf(g + 1, b + 1, sent, mode, tx)
           IN /\ g + 1 \in 1..sent /\ b \in 0..2 /\ key \in Nat
              /\ unit = PacketUnit(g + 1, b + 1, key)
              /\ rest \in Seq(Units) /\ Holds(rest, 0, 3 * g + b + 1, sent, mode, tx)
  <1> DEFINE b == Len(buf)
             key == KeyOf(g + 1, b + 1, sent, mode, tx)
  <1>1. b \in 0..2 /\ Len(pre) \in 0..1 /\ 3 * g + b + Len(pre) <= 3 * sent
    BY Zenon DEF InStep
  <1>2. Holds(wire, 0, 3 * g + b + Len(pre), sent, mode, tx)
    BY Zenon DEF InStep
  <1>3. Len(wire) = 3 * sent - (3 * g + b + Len(pre))
    BY <1>2 DEF Holds
  <1>4. CASE pre # <<>>
    <2>1. Len(pre) = 1 /\ Head(pre) = pre[1]
      BY <1>1, <1>4
    <2>2. g = 0 /\ b = 0 /\ mode = "plain" /\ pre[1] = PacketUnit(1, 1, 0)
      BY <2>1, Zenon DEF InStep
    <2>3. sent >= 1 /\ key = 0 /\ g + 1 = 1 /\ b + 1 = 1
      BY <1>1, <2>1, <2>2 DEF KeyOf
    <2>4. Holds(wire, 0, 3 * g + b + 1, sent, mode, tx)
      BY <1>2, <2>1, Zenon
    <2> QED
      BY <1>1, <1>4, <2>1, <2>2, <2>3, <2>4
  <1>5. CASE pre = <<>>
    <2>1. Len(pre) = 0 /\ wire # <<>> /\ Len(wire) > 0
      BY <1>5
    <2>2. g + 1 \in 1..sent /\ b + 1 \in 1..3
      <3>1. 3 * sent > 3 * g + b /\ b \in 0..2
        BY <1>1, <1>3, <2>1
      <3> HIDE DEF b
      <3>2. sent > g
        BY <3>1
      <3> QED
        BY <3>1, <3>2
    <2>3. 3 * g + b + Len(pre) = 3 * g + b
      BY <1>1, <2>1
    <2>4. Holds(wire, 0, 3 * g + b, sent, mode, tx)
      BY <1>2, <2>3, Zenon
    <2> HIDE DEF b
    <2>5. /\ Tail(wire) \in Seq(Units)
          /\ Head(wire) = PacketUnit(g + 1, b + 1, KeyOf(g + 1, b + 1, sent, mode, tx))
          /\ Holds(Tail(wire), 0, 3 * g + b + 1, sent, mode, tx)
      <3>1. b \in 0..2 /\ g + 1 \in 1..sent
        BY <1>1, <2>2, Zenon
      <3>2. Continues(wire, g, b, sent, mode, tx)
        BY <2>4, Zenon DEF Continues
      <3>3. /\ Tail(wire) \in Seq(Units) /\ NextOf(wire[1], g, b, sent, mode, tx)
            /\ Holds(Tail(wire), 0, 3 * g + b + 1, sent, mode, tx)
        BY <3>1, <3>2, HoldsTail, Zenon
      <3>4. Head(wire) = wire[1]
        BY <2>1
      <3> QED
        BY <3>3, <3>4, Zenon DEF NextOf
    <2>6. KeyOf(g + 1, b + 1, sent, mode, tx) \in Nat
      BY <1>1, <2>2 DEF KeyOf, Modes
    <2> QED
      BY <1>1, <1>5, <2>2, <2>5, <2>6, Zenon DEF b
  <1> QED
    BY <1>4, <1>5, Zenon

\* A unit in step with the receiver's cipher reads as itself.
LEMMA ReadsItself ==
    ASSUME NEW side, ptMode[side] \in Modes, NEW n \in Nat, NEW j \in 1..3, NEW key \in Nat,
           NEW p \in Nat, ptMode[side] = "plain" => key = 0,
           ptMode[side] = "obfuscated" => key = p + 1
    PROVE  Reads(side, PacketUnit(n, j, key), p) = Packet(n)[j]
  BY UnitTyped DEF Reads, Modes

\* The marker of a packet, deciphered by itself.
LEMMA FirstUnit ==
    ASSUME NEW side, ptMode[side] \in Modes, NEW buf \in Seq(Units), buf = <<>>, NEW rest, NEW rx \in Nat,
           NEW g \in Nat, NEW sent \in Nat, NEW tx \in Nat, NEW unit,
           ptMode[side] = "obfuscated" => 3 * sent <= tx /\ rx = tx - 3 * sent + 3 * g,
           g + 1 \in 1..sent, NextOf(unit, g, 0, sent, ptMode[side], tx),
           Holds(rest, 0, 3 * g + 1, sent, ptMode[side], tx),
           NEW rx1, rx1 = IF ptMode[side] = "obfuscated" THEN rx + 1 ELSE rx
    PROVE  InStep(Append(buf, [what |-> Reads(side, unit, rx), key |-> 0]), <<>>, rest, rx1, g,
                  ptMode[side], sent, tx)
  <1> DEFINE key == KeyOf(g + 1, 1, sent, ptMode[side], tx)
             nb == Append(buf, [what |-> Reads(side, unit, rx), key |-> 0])
  <1>1. unit = PacketUnit(g + 1, 1, key)
    BY DEF NextOf
  <1>2. key \in Nat /\ (ptMode[side] = "plain" => key = 0) /\ (ptMode[side] = "obfuscated" => key = rx + 1)
    BY DEF KeyOf, Modes
  <1>3. Reads(side, unit, rx) = Packet(g + 1)[1]
    BY <1>1, <1>2, ReadsItself, SMTT(30)
  <1>4. Len(nb) = 1 /\ nb[1] = PacketUnit(g + 1, 1, 0)
    BY <1>3 DEF PacketUnit
  <1> HIDE DEF nb, key
  <1>5. Len(<<>>) = 0 /\ 3 * g + 1 + 0 = 3 * g + 1 /\ 3 * g + 1 <= 3 * sent
    OBVIOUS
  <1>6. Holds(rest, 0, 3 * g + Len(nb) + Len(<<>>), sent, ptMode[side], tx)
    BY <1>4, <1>5, Zenon
  <1>7. ptMode[side] = "obfuscated" => rx1 = tx - 3 * sent + 3 * g + 1
    OBVIOUS
  <1>8. InStep(nb, <<>>, rest, rx1, g, ptMode[side], sent, tx)
    BY <1>4, <1>5, <1>6, <1>7 DEF InStep
  <1> QED
    BY <1>8, Zenon DEF nb

\* A sequence with one element more.
LEMMA AppendIs ==
    ASSUME NEW S, NEW s \in Seq(S), NEW x \in S
    PROVE  /\ Append(s, x) \in Seq(S) /\ Len(Append(s, x)) = Len(s) + 1
           /\ \A i \in 1..Len(s) : Append(s, x)[i] = s[i]
           /\ Append(s, x)[Len(s) + 1] = x
  OBVIOUS

\* The elements of a short buffer after one more was read.
LEMMA AppendTo ==
    ASSUME NEW S, NEW s \in Seq(S), NEW x \in S
    PROVE  /\ Len(s) = 1 => Len(Append(s, x)) = 2 /\ Append(s, x)[1] = s[1] /\ Append(s, x)[2] = x
           /\ Len(s) = 2 => /\ Len(Append(s, x)) = 3 /\ Append(s, x)[1] = s[1]
                            /\ Append(s, x)[2] = s[2] /\ Append(s, x)[3] = x
  <1>1. /\ Append(s, x) \in Seq(S) /\ Len(Append(s, x)) = Len(s) + 1
        /\ \A i \in 1..Len(s) : Append(s, x)[i] = s[i]
        /\ Append(s, x)[Len(s) + 1] = x
    BY AppendIs, Zenon
  <1> DEFINE t == Append(s, x)
             k == Len(s)
  <1>2. Len(t) = k + 1 /\ t[k + 1] = x /\ \A i \in 1..k : t[i] = s[i]
    BY <1>1, Zenon
  <1> HIDE DEF t, k
  <1>3. k = 1 => Len(t) = 2 /\ t[1] = s[1] /\ t[2] = x
    BY <1>2
  <1>4. k = 2 => Len(t) = 3 /\ t[1] = s[1] /\ t[2] = s[2] /\ t[3] = x
    BY <1>2
  <1> QED
    BY <1>3, <1>4, Zenon DEF t, k

\* Three elements, one and then two.
LEMMA ConcatThree ==
    ASSUME NEW S, NEW x \in S, NEW y \in S, NEW z \in S
    PROVE  <<x>> \o <<y, z>> = <<x, y, z>>
  <1> DEFINE s == <<x>> \o <<y, z>>
             t == <<x, y, z>>
  <1>1. /\ s \in Seq(S) /\ Len(s) = 3 /\ s[1] = x /\ s[2] = y /\ s[3] = z
    <2> DEFINE a == <<x>>
               b == <<y, z>>
    <2>0. a \in Seq(S) /\ b \in Seq(S)
      OBVIOUS
    <2>1. Len(a) = 1 /\ Len(b) = 2 /\ a[1] = x /\ b[1] = y /\ b[2] = z
      OBVIOUS
    <2> HIDE DEF a, b
    <2>2. /\ a \o b \in Seq(S) /\ Len(a \o b) = Len(a) + Len(b)
          /\ \A i \in 1..Len(a) : (a \o b)[i] = a[i]
          /\ \A i \in 1..Len(b) : (a \o b)[Len(a) + i] = b[i]
      BY <2>0
    <2>3. a \o b \in Seq(S) /\ Len(a \o b) = 3 /\ (a \o b)[1] = x /\ (a \o b)[2] = y /\ (a \o b)[3] = z
      BY <2>1, <2>2
    <2> QED
      BY <2>3, Zenon DEF a, b
  <1>2. /\ t \in Seq(S) /\ Len(t) = 3 /\ t[1] = x /\ t[2] = y /\ t[3] = z
    OBVIOUS
  <1> HIDE DEF s, t
  <1>3. s = t
    <2>1. \A i \in 1..3 : i = 1 \/ i = 2 \/ i = 3
      OBVIOUS
    <2>2. \A i \in 1..3 : s[i] = t[i]
      BY <1>1, <1>2, <2>1, Zenon
    <2> QED
      BY <1>1, <1>2, <2>2
  <1> QED
    BY <1>3, Zenon DEF s, t

\* The second unit of a packet continues the first.
LEMMA SecondUnit ==
    ASSUME NEW mode \in Modes, NEW buf \in Seq(Units), Len(buf) = 1, NEW rest, NEW rx \in Nat,
           NEW g \in Nat, NEW sent \in Nat, NEW tx \in Nat, NEW unit \in Units,
           mode = "obfuscated" => rx = tx - 3 * sent + 3 * g + 1,
           g + 1 \in 1..sent, buf[1] = PacketUnit(g + 1, 1, 0), NextOf(unit, g, 1, sent, mode, tx),
           Holds(rest, 0, 3 * g + 2, sent, mode, tx)
    PROVE  InStep(Append(buf, unit), <<>>, rest, rx, g, mode, sent, tx)
  <1> DEFINE nb == Append(buf, unit)
  <1>1. unit = PacketUnit(g + 1, 2, KeyOf(g + 1, 2, sent, mode, tx))
    <2>1. 1 + 1 = 2
      OBVIOUS
    <2> QED
      BY <2>1, Zenon DEF NextOf
  <1>2. Len(nb) = 2 /\ nb[1] = buf[1] /\ nb[2] = unit
    BY AppendTo
  <1> HIDE DEF nb
  <1>3. Len(<<>>) = 0 /\ 3 * g + 2 + 0 = 3 * g + 2 /\ 3 * g + 2 <= 3 * sent
    OBVIOUS
  <1>4. Holds(rest, 0, 3 * g + Len(nb) + Len(<<>>), sent, mode, tx)
    BY <1>2, <1>3, Zenon
  <1>5. nb[1] = PacketUnit(g + 1, 1, 0) /\ nb[2] = PacketUnit(g + 1, 2, KeyOf(g + 1, 2, sent, mode, tx))
    BY <1>1, <1>2, Zenon
  <1>6. InStep(nb, <<>>, rest, rx, g, mode, sent, tx)
    BY <1>2, <1>3, <1>4, <1>5 DEF InStep
  <1> QED
    BY <1>6, Zenon DEF nb

\* A complete packet decodes to its number.
Complete(buf, n, k2, k3) ==
    buf[1] = PacketUnit(n, 1, 0) /\ buf[2] = PacketUnit(n, 2, k2) /\ buf[3] = PacketUnit(n, 3, k3)
KeysInStep(mode, p, k2, k3) ==
    IF mode = "plain" THEN k2 = 0 /\ k3 = 0 ELSE k2 = p + 1 /\ k3 = p + 2

\* Three units that continue each other decode to their packet.
LEMMA DecodedIs ==
    ASSUME NEW side, ptMode[side] \in Modes, NEW n \in Nat \ {0}, NEW buf, NEW p \in Nat,
           NEW k2 \in Nat, NEW k3 \in Nat, Complete(buf, n, k2, k3),
           KeysInStep(ptMode[side], p, k2, k3)
    PROVE  Decoded(side, buf, p) = n
  <1> DEFINE a == <<buf[1].what>>
             r == [i \in 1..PacketUnits - 1 |-> Reads(side, buf[i + 1], p + i - 1)]
             whats == a \o r
  <1>0. /\ buf[1] = PacketUnit(n, 1, 0) /\ buf[2] = PacketUnit(n, 2, k2) /\ buf[3] = PacketUnit(n, 3, k3)
        /\ ptMode[side] = "plain" => k2 = 0 /\ k3 = 0
        /\ ptMode[side] = "obfuscated" => k2 = p + 1 /\ k3 = p + 2
    BY Zenon DEF Complete, KeysInStep
  <1>1. a[1] = Packet(n)[1] /\ a = <<Packet(n)[1]>>
    BY <1>0, UnitTyped
  <1>2. Reads(side, buf[2], p) = Packet(n)[2] /\ Reads(side, buf[3], p + 1) = Packet(n)[3]
    <2>1. Reads(side, PacketUnit(n, 2, k2), p) = Packet(n)[2]
      BY <1>0, ReadsItself
    <2>2. p + 1 \in Nat /\ (ptMode[side] = "obfuscated" => k3 = p + 1 + 1)
      BY <1>0
    <2>3. Reads(side, PacketUnit(n, 3, k3), p + 1) = Packet(n)[3]
      BY <1>0, <2>2, ReadsItself
    <2> QED
      BY <1>0, <2>1, <2>3, Zenon
  <1>3. r = <<Packet(n)[2], Packet(n)[3]>>
    <2>1. PacketUnits - 1 = 2 /\ p + 1 - 1 = p /\ p + 2 - 1 = p + 1
      BY DEF PacketUnits
    <2> QED
      BY <2>1, <1>2
  <1>4. whats = <<Packet(n)[1], Packet(n)[2], Packet(n)[3]>>
    <2> DEFINE x == Packet(n)[1]
               y == Packet(n)[2]
               z == Packet(n)[3]
    <2>1. whats = <<x>> \o <<y, z>>
      BY <1>1, <1>3, Zenon
    <2>0. x \in Whats /\ y \in Whats /\ z \in Whats
      BY PacketIs
    <2> HIDE DEF x, y, z
    <2>2. <<x>> \o <<y, z>> = <<x, y, z>>
      BY <2>0, ConcatThree
    <2> QED
      BY <2>1, <2>2, Zenon DEF x, y, z
  <1>5. whats = Packet(n) /\ whats[1] = <<"marker", n, 1>>
    BY <1>4, PacketIs, ZenonT(40)
  <1> HIDE DEF whats
  <1>6. Decoded(side, buf, p) = LET m == IF whats[1][1] = "marker" THEN whats[1][2] ELSE 0
                                IN IF m # 0 /\ whats = Packet(m) THEN m ELSE 0
    BY Zenon DEF Decoded, whats
  <1>7. whats[1][1] = "marker" /\ whats[1][2] = n
    BY <1>5
  <1> QED
    BY <1>5, <1>6, <1>7, Zenon

\* All but the last unit of packet g + 1 is read.
Almost(buf, g, sent, mode, tx) ==
    Len(buf) = 2 /\ buf[1] = PacketUnit(g + 1, 1, 0) /\ NextOf(buf[2], g, 1, sent, mode, tx)
CipherAt(mode, rx, g, sent, tx) ==
    mode = "obfuscated" => 3 * sent <= tx /\ rx = tx - 3 * sent + 3 * g + 1
CipherMoves(mode, rx, rx1) == mode = "obfuscated" => rx1 = rx + 2

\* The last unit completes the packet.
LEMMA ThirdUnit ==
    ASSUME NEW side, ptMode[side] \in Modes, NEW buf \in Seq(Units), NEW rest,
           NEW rx \in Nat, NEW g \in Nat, NEW sent \in Nat, NEW tx \in Nat, NEW unit \in Units,
           CipherAt(ptMode[side], rx, g, sent, tx), g + 1 \in 1..sent,
           Almost(buf, g, sent, ptMode[side], tx), NextOf(unit, g, 2, sent, ptMode[side], tx),
           Holds(rest, 0, 3 * g + 3, sent, ptMode[side], tx),
           NEW rx1, CipherMoves(ptMode[side], rx, rx1)
    PROVE  /\ Decoded(side, Append(buf, unit), rx) = g + 1
           /\ InStep(<<>>, <<>>, rest, rx1, g + 1, ptMode[side], sent, tx)
  <1> DEFINE nb == Append(buf, unit)
             n == g + 1
             k2 == KeyOf(n, 2, sent, ptMode[side], tx)
             k3 == KeyOf(n, 3, sent, ptMode[side], tx)
  <1>0. /\ ptMode[side] = "obfuscated" => 3 * sent <= tx /\ rx = tx - 3 * sent + 3 * g + 1
        /\ ptMode[side] = "obfuscated" => rx1 = rx + 2
        /\ Len(buf) = 2 /\ buf[1] = PacketUnit(g + 1, 1, 0)
        /\ NextOf(buf[2], g, 1, sent, ptMode[side], tx)
    BY Zenon DEF CipherAt, CipherMoves, Almost
  <1>1. buf[2] = PacketUnit(n, 2, k2) /\ unit = PacketUnit(n, 3, k3)
    <2>1. 1 + 1 = 2 /\ 2 + 1 = 3
      BY SMTT(30)
    <2> QED
      BY <1>0, <2>1, Zenon DEF NextOf
  <1>2. nb[1] = buf[1] /\ nb[2] = buf[2] /\ nb[3] = unit
    BY <1>0, AppendTo
  <1>3. /\ n \in Nat \ {0} /\ k2 \in Nat /\ k3 \in Nat
        /\ ptMode[side] = "plain" => k2 = 0 /\ k3 = 0
        /\ ptMode[side] = "obfuscated" => k2 = rx + 1 /\ k3 = rx + 2
    BY <1>0 DEF KeyOf, Modes
  <1>4. 3 * g + 3 = 3 * (g + 1) + Len(<<>>) + Len(<<>>) /\ 3 * (g + 1) <= 3 * sent /\ Len(<<>>) = 0
    OBVIOUS
  <1>5. ptMode[side] = "obfuscated" => rx1 = tx - 3 * sent + 3 * (g + 1) + 0
    BY <1>0
  <1>6. Holds(rest, 0, 3 * (g + 1) + Len(<<>>) + Len(<<>>), sent, ptMode[side], tx)
    BY <1>4, Zenon
  <1>7. InStep(<<>>, <<>>, rest, rx1, g + 1, ptMode[side], sent, tx)
    BY <1>4, <1>5, <1>6 DEF InStep
  <1> HIDE DEF nb, n, k2, k3
  <1>8. Complete(nb, n, k2, k3)
    BY <1>0, <1>1, <1>2, Zenon DEF n, Complete
  <1>a. KeysInStep(ptMode[side], rx, k2, k3)
    BY <1>3, Zenon DEF KeysInStep, Modes
  <1>9. Decoded(side, nb, rx) = n
    BY <1>3, <1>8, <1>a, DecodedIs, Zenon
  <1> QED
    BY <1>7, <1>9, Zenon DEF nb, n

\* Whatever a unit is, the read in progress stays one of units and what it
\* decodes to is a number.
LEMMA ByteTyped ==
    ASSUME NEW side, NEW buf \in Seq(Units), NEW unit \in Units, NEW rx \in Nat
    PROVE  LET nb == Append(buf, IF buf = <<>> THEN [what |-> Reads(side, unit, rx), key |-> 0] ELSE unit)
           IN nb \in Seq(Units) /\ Len(nb) = Len(buf) + 1 /\ Decoded(side, nb, rx) \in Nat
  <1> DEFINE x == IF buf = <<>> THEN [what |-> Reads(side, unit, rx), key |-> 0] ELSE unit
             nb == Append(buf, x)
  <1>1. Reads(side, unit, rx) \in Whats
    BY Zenon DEF Reads, Whats, Units
  <1>2. x \in Units
    BY <1>1, Zenon DEF Units
  <1> HIDE DEF x
  <1>3. nb \in Seq(Units) /\ Len(nb) = Len(buf) + 1
    BY <1>2, AppendIs, Zenon
  <1> HIDE DEF nb
  <1>4. nb[1] \in Units
    BY <1>3
  <1>5. nb[1].what \in Whats
    BY <1>4, Zenon DEF Units
  <1>6. \A w \in Whats : w[1] = "marker" => w[2] \in Nat
    BY Zenon DEF Whats
  <1> DEFINE r == [i \in 1..PacketUnits - 1 |-> Reads(side, nb[i + 1], rx + i - 1)]
             whats == <<nb[1].what>> \o r
  <1>7. whats[1] = nb[1].what
    <2> DEFINE W == {nb[1].what} \cup {r[i] : i \in 1..2}
    <2>1. 2 \in Nat /\ r \in [1..2 -> W] /\ <<nb[1].what>> \in Seq(W) /\ Len(<<nb[1].what>>) = 1
          /\ <<nb[1].what>>[1] = nb[1].what
      BY DEF PacketUnits
    <2> HIDE DEF W, r
    <2>2. r \in Seq(W)
      BY <2>1, FunctionIsSeq, Zenon
    <2> DEFINE a == <<nb[1].what>>
    <2>3. Len(a) = 1 /\ a[1] = nb[1].what
      BY <2>1, Zenon
    <2>a. a \in Seq(W)
      BY <2>1, Zenon
    <2> HIDE DEF a
    <2>4. \A i \in 1..Len(a) : (a \o r)[i] = a[i]
      BY <2>2, <2>a, ConcatIs, Zenon
    <2>5. 1 \in 1..Len(a)
      BY <2>3
    <2>6. (a \o r)[1] = a[1]
      BY <2>4, <2>5, Zenon
    <2> QED
      BY <2>3, <2>6, Zenon DEF a
  <1> HIDE DEF whats
  <1>8. Decoded(side, nb, rx) = LET m == IF whats[1][1] = "marker" THEN whats[1][2] ELSE 0
                                IN IF m # 0 /\ whats = Packet(m) THEN m ELSE 0
    BY Zenon DEF Decoded, whats
  <1>9. Decoded(side, nb, rx) \in Nat
    BY <1>5, <1>6, <1>7, <1>8
  <1> QED
    BY <1>3, <1>9, Zenon DEF nb, x

\* What a read takes, what it leaves on the wire, what it then holds, and where
\* its cipher then stands (PtByte).
UnitOf(pre, wire) == IF pre # <<>> THEN Head(pre) ELSE Head(wire)
RestOf(pre, wire) == IF pre # <<>> THEN wire ELSE Tail(wire)
Grown(side, buf, unit, rx) ==
    Append(buf, IF buf = <<>> THEN [what |-> Reads(side, unit, rx), key |-> 0] ELSE unit)
RxAfter(mode, rx, len) ==
    IF ~(mode = "obfuscated") THEN rx
    ELSE IF len = 1 THEN rx + 1 ELSE IF len = PacketUnits THEN rx + PacketUnits - 1 ELSE rx

\* A reader in step takes the next unit and stays in step; a packet it completes
\* is the next one.
LEMMA ByteInStep ==
    ASSUME NEW side, ptMode[side] \in Modes, NEW buf \in Seq(Units), NEW pre \in Seq(Units),
           NEW wire \in Seq(Units), NEW rx \in Nat, NEW g \in Nat, NEW sent \in Nat, NEW tx \in Nat,
           ptMode[side] = "obfuscated" => 3 * sent <= tx,
           InStep(buf, pre, wire, rx, g, ptMode[side], sent, tx), pre # <<>> \/ wire # <<>>
    PROVE  LET nb == Grown(side, buf, UnitOf(pre, wire), rx)
               rx1 == RxAfter(ptMode[side], rx, Len(buf) + 1)
               rest == RestOf(pre, wire)
           IN /\ Len(buf) \in 0..2
              /\ Len(buf) < 2 => InStep(nb, <<>>, rest, rx1, g, ptMode[side], sent, tx)
              /\ Len(buf) = 2 => /\ Decoded(side, nb, rx) = g + 1
                                 /\ InStep(<<>>, <<>>, rest, rx1, g + 1, ptMode[side], sent, tx)
  <1> DEFINE unit == UnitOf(pre, wire)
             rest == RestOf(pre, wire)
             nb == Grown(side, buf, unit, rx)
             rx1 == RxAfter(ptMode[side], rx, Len(buf) + 1)
             key == KeyOf(g + 1, Len(buf) + 1, sent, ptMode[side], tx)
  <1>1. /\ g + 1 \in 1..sent /\ Len(buf) \in 0..2 /\ key \in Nat
        /\ unit = PacketUnit(g + 1, Len(buf) + 1, key)
        /\ rest \in Seq(Units) /\ Holds(rest, 0, 3 * g + Len(buf) + 1, sent, ptMode[side], tx)
    BY NextUnit, ZenonT(40) DEF UnitOf, RestOf
  <1>2. NextOf(unit, g, Len(buf), sent, ptMode[side], tx)
    BY <1>1, Zenon DEF NextOf
  <1>3. /\ ptMode[side] = "obfuscated" => rx = tx - 3 * sent + 3 * g + (IF Len(buf) = 0 THEN 0 ELSE 1)
        /\ Len(buf) # 0 => buf[1] = PacketUnit(g + 1, 1, 0)
        /\ Len(buf) = 2 => buf[2] = PacketUnit(g + 1, 2, KeyOf(g + 1, 2, sent, ptMode[side], tx))
    BY Zenon DEF InStep
  <1>e. buf = <<>> <=> Len(buf) = 0
    OBVIOUS
  <1> HIDE DEF unit, rest, key
  <1>u. unit \in Units
    <2>1. \A j \in 0..2 : j + 1 \in 1..3
      OBVIOUS
    <2>2. Len(buf) + 1 \in 1..3 /\ key \in Nat
      BY <1>1, <2>1, Zenon
    <2>a. g + 1 \in Nat
      OBVIOUS
    <2>3. PacketUnit(g + 1, Len(buf) + 1, key) \in Units
      BY <2>a, <2>2, UnitTyped, ZenonT(40)
    <2> QED
      BY <1>1, <2>3, Zenon
  <1>4. CASE Len(buf) = 0
    <2>1. buf = <<>> /\ rx1 = (IF ptMode[side] = "obfuscated" THEN rx + 1 ELSE rx) /\ 0 + 1 = 1
      BY <1>4 DEF RxAfter
    <2>2. /\ nb = Append(buf, [what |-> Reads(side, unit, rx), key |-> 0])
          /\ NextOf(unit, g, 0, sent, ptMode[side], tx)
      BY <1>2, <1>4, <2>1, ZenonT(40) DEF Grown
    <2>3. Holds(rest, 0, 3 * g + 1, sent, ptMode[side], tx)
      <3>1. 3 * g + Len(buf) + 1 = 3 * g + 1
        BY <1>4, SMTT(30)
      <3> QED
        BY <1>1, <3>1, Zenon
    <2>4. ptMode[side] = "obfuscated" => 3 * sent <= tx /\ rx = tx - 3 * sent + 3 * g
      BY <1>3, <1>4
    <2> HIDE DEF nb, rx1
    <2>5. InStep(Append(buf, [what |-> Reads(side, unit, rx), key |-> 0]), <<>>, rest, rx1, g,
                 ptMode[side], sent, tx)
      BY <1>1, <2>1, <2>2, <2>3, <2>4, FirstUnit, ZenonT(40)
    <2>6. InStep(nb, <<>>, rest, rx1, g, ptMode[side], sent, tx)
      BY <2>2, <2>5, Zenon
    <2> QED
      BY <1>4, <2>6 DEF nb, rx1, unit, rest
  <1>5. CASE Len(buf) = 1
    <2>1. rx1 = rx /\ buf # <<>> /\ 1 + 1 = 2
      <3>1. Len(buf) + 1 # 1 /\ Len(buf) + 1 # PacketUnits /\ Len(buf) # 0 /\ 1 + 1 = 2
        BY <1>5 DEF PacketUnits
      <3> QED
        BY <1>e, <3>1, Zenon DEF RxAfter
    <2>2. nb = Append(buf, unit) /\ NextOf(unit, g, 1, sent, ptMode[side], tx)
      BY <1>2, <1>5, <2>1, Zenon DEF Grown
    <2>3. Holds(rest, 0, 3 * g + 2, sent, ptMode[side], tx)
      <3>1. 3 * g + Len(buf) + 1 = 3 * g + 2
        BY <1>5
      <3> QED
        BY <1>1, <3>1, Zenon
    <2>4. /\ ptMode[side] = "obfuscated" => rx = tx - 3 * sent + 3 * g + 1
          /\ buf[1] = PacketUnit(g + 1, 1, 0)
      BY <1>3, <1>5
    <2> HIDE DEF nb, rx1
    <2>5. InStep(Append(buf, unit), <<>>, rest, rx, g, ptMode[side], sent, tx)
      BY <1>1, <1>u, <1>5, <2>2, <2>3, <2>4, SecondUnit, SMTT(30)
    <2>6. InStep(nb, <<>>, rest, rx1, g, ptMode[side], sent, tx)
      BY <2>1, <2>2, <2>5, Zenon
    <2> QED
      BY <1>5, <2>6 DEF nb, rx1, unit, rest
  <1>6. CASE Len(buf) = 2
    <2>1. rx1 = (IF ptMode[side] = "obfuscated" THEN rx + 2 ELSE rx) /\ buf # <<>> /\ 1 + 1 = 2
      <3>1. /\ Len(buf) + 1 # 1 /\ Len(buf) + 1 = PacketUnits /\ Len(buf) # 0 /\ 1 + 1 = 2
            /\ rx + PacketUnits - 1 = rx + 2
        BY <1>6 DEF PacketUnits
      <3> QED
        BY <1>e, <3>1, Zenon DEF RxAfter
    <2>2. nb = Append(buf, unit) /\ NextOf(unit, g, 2, sent, ptMode[side], tx)
      BY <1>2, <1>6, <2>1, Zenon DEF Grown
    <2>3. Holds(rest, 0, 3 * g + 3, sent, ptMode[side], tx)
      <3>1. 3 * g + Len(buf) + 1 = 3 * g + 3
        BY <1>6
      <3> QED
        BY <1>1, <3>1, Zenon
    <2>4. /\ ptMode[side] = "obfuscated" => 3 * sent <= tx /\ rx = tx - 3 * sent + 3 * g + 1
          /\ buf[1] = PacketUnit(g + 1, 1, 0)
      BY <1>3, <1>6
    <2>5. NextOf(buf[2], g, 1, sent, ptMode[side], tx)
      BY <1>3, <1>6, <2>1, Zenon DEF NextOf
    <2>a. Almost(buf, g, sent, ptMode[side], tx)
      BY <1>6, <2>4, <2>5, Zenon DEF Almost
    <2>b. CipherAt(ptMode[side], rx, g, sent, tx) /\ CipherMoves(ptMode[side], rx, rx1)
      BY <2>1, <2>4, Zenon DEF CipherAt, CipherMoves
    <2>g. g + 1 \in 1..sent
      BY <1>1, Zenon
    <2>h. NextOf(unit, g, 2, sent, ptMode[side], tx)
      BY <2>2, Zenon
    <2> HIDE DEF nb, rx1
    <2>6. /\ Decoded(side, Append(buf, unit), rx) = g + 1
          /\ InStep(<<>>, <<>>, rest, rx1, g + 1, ptMode[side], sent, tx)
      BY <1>u, <2>g, <2>h, <2>3, <2>a, <2>b, ThirdUnit, Zenon
    <2>7. Decoded(side, nb, rx) = g + 1
      BY <2>2, <2>6, Zenon
    <2> QED
      BY <1>6, <2>6, <2>7 DEF nb, rx1, unit, rest
  <1> QED
    BY <1>1, <1>4, <1>5, <1>6

\* The two sides.
LEMMA TwoSides ==
    ASSUME NEW side \in Sides
    PROVE  /\ Other(side) \in Sides /\ Other(side) # side /\ Other(Other(side)) = side
           /\ \A s \in Sides : s = side \/ s = Other(side)
           /\ side = "dial" => Other(side) = "accept"
           /\ side = "accept" => Other(side) = "dial"
           /\ side = "dial" \/ side = "accept"
  BY SMTT(30) DEF Sides, Other

\* A read of one unit, in terms of what it takes, leaves, holds and decodes.
LEMMA ByteEffect ==
    ASSUME Typed, NEW side \in Sides, PtByte(side)
    PROVE  LET unit == UnitOf(ptPre[side], ptWire[side])
               rest == RestOf(ptPre[side], ptWire[side])
               nb == Grown(side, ptBuf[side], unit, ptRx[side])
               n == Decoded(side, nb, ptRx[side])
           IN /\ ptAt[side] = "ready" /\ (ptPre[side] # <<>> \/ ptWire[side] # <<>>)
              /\ ptPre' = [ptPre EXCEPT ![side] = <<>>] /\ ptWire' = [ptWire EXCEPT ![side] = rest]
              /\ unit \in Units /\ rest \in Seq(Units)
              /\ nb \in Seq(Units) /\ Len(nb) = Len(ptBuf[side]) + 1 /\ n \in Nat
              /\ ptRx' = [ptRx EXCEPT ![side] = RxAfter(ptMode[side], ptRx[side], Len(nb))]
              /\ Len(nb) < 3 => ptBuf' = [ptBuf EXCEPT ![side] = nb] /\ ptAt' = ptAt /\ ptGot' = ptGot
              /\ ~(Len(nb) < 3) =>
                    /\ ptBuf' = [ptBuf EXCEPT ![side] = <<>>]
                    /\ ptGot' = [ptGot EXCEPT ![side] = Append(@, n)]
                    /\ ptAt' = IF n = 0 THEN [ptAt EXCEPT ![side] = "failed"] ELSE ptAt
              /\ UNCHANGED <<ptMode, ptTx, ptSent, ptTorn, ptTimeouts>>
  <1> DEFINE unit == UnitOf(ptPre[side], ptWire[side])
             rest == RestOf(ptPre[side], ptWire[side])
             nb == Grown(side, ptBuf[side], unit, ptRx[side])
             n == Decoded(side, nb, ptRx[side])
  <1>1. ptAt[side] = "ready" /\ (ptPre[side] # <<>> \/ ptWire[side] # <<>>)
    BY Zenon DEF PtByte
  <1>2. /\ ptWire[side] \in Seq(Units) /\ ptPre[side] \in Seq(Units) /\ ptBuf[side] \in Seq(Units)
        /\ ptRx[side] \in Nat
    BY SMTT(30) DEF Typed
  <1>3. unit \in Units /\ rest \in Seq(Units)
    <2>1. \A s \in Seq(Units) : s # <<>> => Head(s) \in Units /\ Tail(s) \in Seq(Units)
      OBVIOUS
    <2> QED
      BY <1>1, <1>2, <2>1, Zenon DEF UnitOf, RestOf
  <1> HIDE DEF unit, rest
  <1>4. nb \in Seq(Units) /\ Len(nb) = Len(ptBuf[side]) + 1 /\ n \in Nat
    BY <1>2, <1>3, ByteTyped, Zenon DEF Grown
  <1>5. ptWire' = [ptWire EXCEPT ![side] = rest]
    <2>1. ptWire' = IF ptPre[side] # <<>> THEN ptWire ELSE [ptWire EXCEPT ![side] = Tail(@)]
      BY Zenon DEF PtByte
    <2>2. ptWire = [ptWire EXCEPT ![side] = ptWire[side]]
      BY Zenon DEF Typed
    <2> QED
      BY <2>1, <2>2, Zenon DEF rest, RestOf
  <1>6. nb = Append(ptBuf[side], IF ptBuf[side] = <<>>
                                THEN [what |-> Reads(side, unit, ptRx[side]), key |-> 0] ELSE unit)
    BY Zenon DEF Grown
  <1>7. unit = IF ptPre[side] # <<>> THEN Head(ptPre[side]) ELSE Head(ptWire[side])
    BY Zenon DEF unit, UnitOf
  <1> HIDE DEF nb, n
  <1>8. /\ ptPre' = [ptPre EXCEPT ![side] = <<>>]
        /\ ptRx' = [ptRx EXCEPT ![side] =
                      IF ~(ptMode[side] = "obfuscated") THEN @
                      ELSE IF Len(nb) = 1 THEN @ + 1
                      ELSE IF Len(nb) = PacketUnits THEN @ + PacketUnits - 1 ELSE @]
        /\ IF Len(nb) < PacketUnits
           THEN ptBuf' = [ptBuf EXCEPT ![side] = nb] /\ UNCHANGED <<ptAt, ptGot>>
           ELSE /\ ptBuf' = [ptBuf EXCEPT ![side] = <<>>]
                /\ ptGot' = [ptGot EXCEPT ![side] = Append(@, n)]
                /\ ptAt' = IF n = 0 THEN [ptAt EXCEPT ![side] = "failed"] ELSE ptAt
        /\ UNCHANGED <<ptMode, ptTx, ptSent, ptTorn, ptTimeouts>>
    BY <1>6, <1>7, Zenon DEF PtByte, n
  <1>9. ptRx' = [ptRx EXCEPT ![side] = RxAfter(ptMode[side], ptRx[side], Len(nb))]
    BY <1>8, Zenon DEF RxAfter
  <1> QED
    BY <1>1, <1>3, <1>4, <1>5, <1>8, <1>9, Zenon DEF PacketUnits, unit, rest, nb, n

\* What a function holds after one of its values is replaced.
LEMMA Replaced ==
    ASSUME NEW S, NEW T, NEW f \in [S -> T], NEW a \in S, NEW v, NEW g, g = [f EXCEPT ![a] = v]
    PROVE  g[a] = v /\ \A b \in S : b # a => g[b] = f[b]
  OBVIOUS

\* Packets that arrived in order stay in order when the next one arrives.
LEMMA GotNext ==
    ASSUME NEW got \in Seq(Nat), \A k \in 1..Len(got) : got[k] = k
    PROVE  \A k \in 1..Len(Append(got, Len(got) + 1)) : Append(got, Len(got) + 1)[k] = k
  OBVIOUS

\* Reading a byte, in the middle of a packet and at its end.
LEMMA ByteKeeps ==
    ASSUME StreamInv, NEW side \in Sides, PtByte(side)
    PROVE  StreamInv'
  <1> DEFINE o == Other(side)
             unit == UnitOf(ptPre[side], ptWire[side])
             rest == RestOf(ptPre[side], ptWire[side])
             nb == Grown(side, ptBuf[side], unit, ptRx[side])
             n == Decoded(side, nb, ptRx[side])
             rx1 == RxAfter(ptMode[side], ptRx[side], Len(nb))
  <1>t. Typed
    BY SMTT(30) DEF StreamInv
  <1>s. /\ o \in Sides /\ o # side /\ Other(o) = side /\ \A s \in Sides : s = side \/ s = o
        /\ (side = "dial" /\ o = "accept") \/ (side = "accept" /\ o = "dial")
    BY SMTT(30) DEF Sides, Other
  <1>1. /\ ptAt[side] = "ready" /\ (ptPre[side] # <<>> \/ ptWire[side] # <<>>)
        /\ ptPre' = [ptPre EXCEPT ![side] = <<>>] /\ ptWire' = [ptWire EXCEPT ![side] = rest]
        /\ unit \in Units /\ rest \in Seq(Units)
        /\ nb \in Seq(Units) /\ Len(nb) = Len(ptBuf[side]) + 1 /\ n \in Nat
        /\ ptRx' = [ptRx EXCEPT ![side] = rx1]
        /\ Len(nb) < 3 => ptBuf' = [ptBuf EXCEPT ![side] = nb] /\ ptAt' = ptAt /\ ptGot' = ptGot
        /\ ~(Len(nb) < 3) =>
              /\ ptBuf' = [ptBuf EXCEPT ![side] = <<>>]
              /\ ptGot' = [ptGot EXCEPT ![side] = Append(@, n)]
              /\ ptAt' = IF n = 0 THEN [ptAt EXCEPT ![side] = "failed"] ELSE ptAt
        /\ UNCHANGED <<ptMode, ptTx, ptSent, ptTorn, ptTimeouts>>
    BY <1>t, ByteEffect, ZenonT(40)
  <1>2. rx1 \in Nat
    <2>1. ptRx[side] \in Nat
      BY <1>t, Zenon DEF Typed
    <2> QED
      BY <2>1 DEF RxAfter, PacketUnits
  <1>3. Ready(side)
    BY <1>1, SMTT(30) DEF StreamInv
  <1>4. ~ptTorn[side] =>
           /\ Len(ptBuf[side]) \in 0..2
           /\ Len(ptBuf[side]) < 2 => InStep(nb, <<>>, rest, rx1, Len(ptGot[side]), ptMode[side],
                                             ptSent[o], ptTx[o])
           /\ Len(ptBuf[side]) = 2 =>
                 /\ n = Len(ptGot[side]) + 1
                 /\ InStep(<<>>, <<>>, rest, rx1, Len(ptGot[side]) + 1, ptMode[side], ptSent[o], ptTx[o])
    <2> SUFFICES ASSUME ~ptTorn[side]
                 PROVE  /\ Len(ptBuf[side]) \in 0..2
                        /\ Len(ptBuf[side]) < 2 => InStep(nb, <<>>, rest, rx1, Len(ptGot[side]),
                                                          ptMode[side], ptSent[o], ptTx[o])
                        /\ Len(ptBuf[side]) = 2 =>
                              /\ n = Len(ptGot[side]) + 1
                              /\ InStep(<<>>, <<>>, rest, rx1, Len(ptGot[side]) + 1, ptMode[side],
                                        ptSent[o], ptTx[o])
      BY ZenonT(40)
    <2>1. ptMode[o] = ptMode[side] /\ (ptMode[side] = "obfuscated" => 3 * ptSent[o] <= ptTx[o])
      <3>1. ptMode["accept"] = ptMode["dial"]
        BY <1>3, Zenon DEF Ready
      <3>2. ptMode[o] = ptMode[side]
        BY <1>s, <3>1, Zenon
      <3>3. ptMode[o] = "obfuscated" => 3 * ptSent[o] <= ptTx[o]
        BY <1>s, <1>t, Zenon DEF Typed
      <3> QED
        BY <3>2, <3>3, Zenon
    <2>2. InStep(ptBuf[side], ptPre[side], ptWire[side], ptRx[side], Len(ptGot[side]), ptMode[side],
                 ptSent[o], ptTx[o])
      BY <1>3, <2>1, Zenon DEF Ready
    <2>3. /\ ptMode[side] \in Modes /\ ptBuf[side] \in Seq(Units) /\ ptPre[side] \in Seq(Units)
          /\ ptWire[side] \in Seq(Units) /\ ptRx[side] \in Nat /\ Len(ptGot[side]) \in Nat
          /\ ptSent[o] \in Nat /\ ptTx[o] \in Nat
      BY <1>s, <1>t, SMTT(30) DEF Typed
    <2>4. rx1 = RxAfter(ptMode[side], ptRx[side], Len(ptBuf[side]) + 1)
      BY <1>1, SMTT(30)
    <2>5. ptPre[side] # <<>> \/ ptWire[side] # <<>>
      BY <1>1, SMTT(30)
    <2> DEFINE buf == ptBuf[side]
               pre == ptPre[side]
               wire == ptWire[side]
               rx == ptRx[side]
               g == Len(ptGot[side])
               sent == ptSent[o]
               tx == ptTx[o]
               nb1 == Grown(side, buf, UnitOf(pre, wire), rx)
    <2>6. /\ ptMode[side] \in Modes /\ buf \in Seq(Units) /\ pre \in Seq(Units) /\ wire \in Seq(Units)
          /\ rx \in Nat /\ g \in Nat /\ sent \in Nat /\ tx \in Nat
          /\ InStep(buf, pre, wire, rx, g, ptMode[side], sent, tx)
          /\ ptMode[side] = "obfuscated" => 3 * sent <= tx
          /\ pre # <<>> \/ wire # <<>>
      BY <2>1, <2>2, <2>3, <2>5, SMTT(30)
    <2> HIDE DEF buf, pre, wire, rx, g, sent, tx
    <2>7. /\ Len(buf) \in 0..2
          /\ Len(buf) < 2 => InStep(nb1, <<>>, RestOf(pre, wire), RxAfter(ptMode[side], rx, Len(buf) + 1),
                                    g, ptMode[side], sent, tx)
          /\ Len(buf) = 2 => /\ Decoded(side, nb1, rx) = g + 1
                             /\ InStep(<<>>, <<>>, RestOf(pre, wire),
                                       RxAfter(ptMode[side], rx, Len(buf) + 1), g + 1, ptMode[side],
                                       sent, tx)
      BY <2>6, ByteInStep, Zenon
    <2> QED
      BY <2>4, <2>7, ZenonT(40) DEF buf, pre, wire, rx, g, sent, tx
  <1> HIDE DEF o, unit, rest, nb, n, rx1
  <1>5. /\ ptAt'[o] = ptAt[o] /\ ptPre'[o] = ptPre[o] /\ ptWire'[o] = ptWire[o] /\ ptRx'[o] = ptRx[o]
        /\ ptBuf'[o] = ptBuf[o] /\ ptGot'[o] = ptGot[o]
        /\ ptPre'[side] = <<>> /\ ptWire'[side] = rest /\ ptRx'[side] = rx1
        /\ Len(nb) < 3 => ptBuf'[side] = nb /\ ptGot'[side] = ptGot[side]
        /\ ~(Len(nb) < 3) => ptBuf'[side] = <<>> /\ ptGot'[side] = Append(ptGot[side], n)
    <2>a. ptPre'[o] = ptPre[o] /\ ptPre'[side] = <<>>
      BY <1>1, <1>s, <1>t, Replaced, Zenon DEF Typed
    <2>b. ptWire'[o] = ptWire[o] /\ ptWire'[side] = rest
      BY <1>1, <1>s, <1>t, Replaced, Zenon DEF Typed
    <2>c. ptRx'[o] = ptRx[o] /\ ptRx'[side] = rx1
      BY <1>1, <1>s, <1>t, Replaced, Zenon DEF Typed
    <2>1. CASE Len(nb) < 3
      <3>1. ptAt' = ptAt /\ ptGot' = ptGot /\ ptBuf' = [ptBuf EXCEPT ![side] = nb]
        BY <1>1, <2>1, Zenon
      <3>2. ptBuf'[o] = ptBuf[o] /\ ptBuf'[side] = nb
        BY <3>1, <1>s, <1>t, Replaced, Zenon DEF Typed
      <3> QED
        BY <2>1, <2>a, <2>b, <2>c, <3>1, <3>2, Zenon
    <2>2. CASE ~(Len(nb) < 3)
      <3>1. /\ ptAt' = ptAt \/ ptAt' = [ptAt EXCEPT ![side] = "failed"]
            /\ ptBuf' = [ptBuf EXCEPT ![side] = <<>>]
            /\ ptGot' = [ptGot EXCEPT ![side] = Append(ptGot[side], n)]
        BY <1>1, <2>2, Zenon
      <3>2. ptBuf'[o] = ptBuf[o] /\ ptBuf'[side] = <<>>
        BY <3>1, <1>s, <1>t, Replaced, Zenon DEF Typed
      <3>3. ptGot'[o] = ptGot[o] /\ ptGot'[side] = Append(ptGot[side], n)
        BY <3>1, <1>s, <1>t, Replaced, Zenon DEF Typed
      <3>4. ptAt'[o] = ptAt[o]
        BY <3>1, <1>s, <1>t, Replaced, Zenon DEF Typed
      <3> QED
        BY <2>2, <2>a, <2>b, <2>c, <3>2, <3>3, <3>4, Zenon
    <2> QED
      BY <2>1, <2>2, Zenon
  <1>6. Typed'
    <2>1. /\ ptPre' \in [Sides -> Seq(Units)] /\ ptWire' \in [Sides -> Seq(Units)]
          /\ ptRx' \in [Sides -> Nat]
      BY <1>1, <1>2, <1>t, SMTT(30) DEF Typed
    <2>2. ptBuf' \in [Sides -> Seq(Units)]
      <3>1. \E x \in Seq(Units) : ptBuf' = [ptBuf EXCEPT ![side] = x]
        <4>1. <<>> \in Seq(Units)
          OBVIOUS
        <4> QED
          BY <1>1, <4>1, Zenon
      <3> QED
        BY <3>1, <1>t, Zenon DEF Typed
    <2>3. ptGot' \in [Sides -> Seq(Nat)]
      <3>1. Append(ptGot[side], n) \in Seq(Nat)
        BY <1>1, <1>t DEF Typed
      <3>2. ptGot' = ptGot \/ ptGot' = [ptGot EXCEPT ![side] = Append(ptGot[side], n)]
        BY <1>1, Zenon
      <3> QED
        BY <3>1, <3>2, <1>t, ZenonT(40) DEF Typed
    <2>4. ptAt' \in [Sides -> {"new", "hello", "ready", "failed"}]
      BY <1>1, <1>t, ZenonT(40) DEF Typed
    <2> QED
      BY <1>1, <1>t, <2>1, <2>2, <2>3, <2>4, Zenon DEF Typed
  <1>b. ~ptTorn[side] /\ ~(Len(nb) < 3) => Len(ptBuf[side]) = 2
    <2>1. \A k, m \in Int : k = m + 1 /\ m \in 0..2 /\ ~(k < 3) => m = 2
      BY SMTT(30)
    <2>2. Len(nb) = Len(ptBuf[side]) + 1 /\ (~ptTorn[side] => Len(ptBuf[side]) \in 0..2)
      BY <1>1, <1>4, Zenon
    <2>3. Len(nb) \in Int /\ Len(ptBuf[side]) \in Int
      BY <1>1, <1>t DEF Typed
    <2> QED
      BY <2>1, <2>2, <2>3, Zenon
  <1>7. ~ptTorn[side] /\ ptAt'[side] = "ready" =>
           InStep(ptBuf'[side], ptPre'[side], ptWire'[side], ptRx'[side], Len(ptGot'[side]),
                  ptMode[side], ptSent[o], ptTx[o])
    <2> SUFFICES ASSUME ~ptTorn[side]
                 PROVE  InStep(ptBuf'[side], ptPre'[side], ptWire'[side], ptRx'[side],
                               Len(ptGot'[side]), ptMode[side], ptSent[o], ptTx[o])
      OBVIOUS
    <2>1. ptGot[side] \in Seq(Nat) /\ Len(Append(ptGot[side], n)) = Len(ptGot[side]) + 1
      BY <1>t, <1>1 DEF Typed
    <2>2. CASE Len(nb) < 3
      <3>1. Len(ptBuf[side]) < 2
        BY <1>1, <1>4, <2>2
      <3> QED
        BY <1>4, <1>5, <2>2, <3>1, ZenonT(40)
    <2>3. CASE ~(Len(nb) < 3)
      <3>1. Len(ptBuf[side]) = 2
        BY <1>b, <2>3, Zenon
      <3>2. ptGot'[side] = Append(ptGot[side], n) /\ ptBuf'[side] = <<>>
        BY <1>5, <2>3, Zenon
      <3>3. Len(ptGot'[side]) = Len(ptGot[side]) + 1
        BY <2>1, <3>2, Zenon
      <3> QED
        BY <1>4, <1>5, <3>1, <3>2, <3>3, ZenonT(40)
    <2> QED
      BY <2>2, <2>3, SMTT(30)
  <1>a. ptAt'[side] \in {"ready", "failed"}
    BY <1>1, <1>t DEF Typed
  <1>8. ASSUME NEW s \in Sides, ptAt'[s] = "ready"
        PROVE  Ready(s)'
    <2>1. CASE s = side
      <3>1. ptMode["accept"] = ptMode["dial"] /\ ptMode[o] = ptMode[side]
        BY <1>3, <1>s, Zenon DEF Ready
      <3>2. Other(s) = o
        BY <2>1, SMTT(30) DEF o
      <3> QED
        BY <1>1, <1>7, <1>8, <2>1, <3>1, <3>2, Zenon DEF Ready
    <2>2. CASE s = o
      <3>1. Ready(o)
        BY <1>5, <1>8, <2>2, <1>s, Zenon DEF StreamInv
      <3>2. Other(o) = side
        BY <1>s, Zenon
      <3> QED
        BY <1>1, <1>5, <2>2, <3>1, <3>2, ZenonT(40) DEF Ready
    <2> QED
      BY <1>s, <2>1, <2>2, Zenon
  <1>9. ptAt'["dial"] = "new" => NewDial'
    <2>1. ptAt'["dial"] = "new" => ptAt["dial"] = "new" /\ side = "accept"
      BY <1>5, <1>a, <1>s, SMTT(30)
    <2> QED
      BY <1>1, <2>1, SMTT(30) DEF StreamInv, NewDial
  <1>10. ptAt'["accept"] = "new" => NewAccept'
    <2> SUFFICES ASSUME ptAt'["accept"] = "new" PROVE NewAccept'
      BY SMTT(30)
    <2>1. side = "dial" /\ o = "accept" /\ NewAccept
      <3>1. side = "dial" /\ o = "accept"
        BY <1>a, <1>s, Zenon
      <3>2. ptAt["accept"] = "new"
        BY <1>5, <3>1, Zenon
      <3> QED
        BY <3>1, <3>2, Zenon DEF StreamInv
    <2>2. ptWire'["dial"] = <<>>
      <3>1. ptWire["dial"] = <<>> /\ ptPre["dial"] # <<>> /\ ptWire'["dial"] = rest
        <4>1. ptWire["dial"] = <<>>
          BY <2>1, Zenon DEF NewAccept
        <4>2. ptPre["dial"] # <<>>
          BY <1>1, <2>1, <4>1, Zenon
        <4>3. ptWire'["dial"] = rest
          BY <1>5, <2>1, Zenon
        <4> QED
          BY <4>1, <4>2, <4>3, Zenon
      <3>2. rest = ptWire["dial"]
        BY <2>1, <3>1, ZenonT(40) DEF rest, RestOf
      <3> QED
        BY <3>1, <3>2, ZenonT(40)
    <2>3. Unread("accept")'
      BY <1>5, <2>1, ZenonT(40) DEF NewAccept, Unread
    <2>4. ptMode["dial"] = "plain" =>
             Holds(ptWire'["accept"], 0, 0, ptSent["dial"], "plain", ptTx["dial"])
      BY <1>5, <2>1 DEF NewAccept
    <2>5. ptMode["dial"] # "obfuscated"
      BY <1>1, <2>1, SMTT(30) DEF NewAccept
    <2> QED
      BY <1>1, <2>1, <2>2, <2>3, <2>4, <2>5, Zenon DEF NewAccept
  <1>11. ptAt'["accept"] = "hello" => HelloAccept'
    <2>1. ptAt'["accept"] = "hello" => ptAt["accept"] = "hello" /\ side = "dial"
      BY <1>5, <1>a, <1>s, Zenon
    <2> QED
      BY <1>1, <2>1, Zenon DEF StreamInv, HelloAccept
  <1>12. ptAt'["dial"] = "hello" => HelloDial'
    <2> SUFFICES ASSUME ptAt'["dial"] = "hello" PROVE HelloDial'
      BY SMTT(30)
    <2>1. side = "accept" /\ o = "dial" /\ HelloDial
      BY <1>5, <1>a, <1>s, Zenon DEF StreamInv
    <2>2. Answer
      BY <1>1, <2>1, Zenon DEF HelloDial
    <2>3. Answer'
      <3>1. ptWire'["dial"] = ptWire["dial"] /\ UNCHANGED <<ptMode, ptTx, ptSent>>
        BY <1>1, <1>5, <2>1, SMTT(30)
      <3> QED
        BY <2>2, <3>1, Zenon DEF Answer
    <2>4. Unread("dial")'
      BY <1>5, <2>1, SMTT(30) DEF HelloDial, Unread
    <2> QED
      BY <1>1, <2>1, <2>3, <2>4, Zenon DEF HelloDial
  <1>13. FramesWhole'
    <2> SUFFICES ASSUME NEW s \in Sides, ~ptTorn[s], NEW i \in 1..Len(ptGot'[s])
                 PROVE  ptGot'[s][i] = i
      BY <1>1, Zenon DEF FramesWhole
    <2>1. \A k \in 1..Len(ptGot[s]) : ptGot[s][k] = k
      BY Zenon DEF StreamInv, FramesWhole
    <2>2. CASE ptGot'[s] = ptGot[s]
      BY <2>1, <2>2, Zenon
    <2>3. CASE s = side /\ ~(Len(nb) < 3)
      <3>1. Len(ptBuf[side]) = 2
        BY <1>b, <2>3, SMTT(30)
      <3>2. ptGot'[s] = Append(ptGot[s], Len(ptGot[s]) + 1)
        BY <1>4, <1>5, <2>3, <3>1, Zenon
      <3>3. ptGot[s] \in Seq(Nat)
        BY <1>t, SMTT(30) DEF Typed
      <3> QED
        BY <2>1, <3>2, <3>3, GotNext, Zenon
    <2> QED
      BY <1>5, <1>s, <2>2, <2>3, Zenon
  <1> QED
    BY <1>6, <1>8, <1>9, <1>10, <1>11, <1>12, <1>13, Zenon DEF StreamInv

\* A timeout between packets changes nothing; one inside a packet tears.
LEMMA TimeoutKeeps ==
    ASSUME StreamInv, NEW side \in Sides, PtTimeout(side)
    PROVE  StreamInv'
  <1> DEFINE o == Other(side)
  <1>t. Typed
    BY Zenon DEF StreamInv
  <1>s. /\ o \in Sides /\ o # side /\ \A s \in Sides : s = side \/ s = o
        /\ (side = "dial" /\ o = "accept") \/ (side = "accept" /\ o = "dial")
    BY Zenon DEF Sides, Other
  <1> HIDE DEF o
  <1>1. /\ ptAt[side] = "ready" /\ ptBuf' = [ptBuf EXCEPT ![side] = <<>>]
        /\ ptTorn' = [ptTorn EXCEPT ![side] = @ \/ ptBuf[side] # <<>>]
        /\ ptTimeouts' = [ptTimeouts EXCEPT ![side] = @ + 1]
        /\ UNCHANGED <<ptAt, ptMode, ptWire, ptPre, ptRx, ptTx, ptSent, ptGot>>
    BY SMTT(30) DEF PtTimeout
  <1>2. ptBuf'[o] = ptBuf[o] /\ ptTorn'[o] = ptTorn[o] /\ ptBuf'[side] = <<>>
        /\ ptTorn'[side] = (ptTorn[side] \/ ptBuf[side] # <<>>)
    BY <1>1, <1>s, <1>t, Zenon DEF Typed
  <1>3. Typed'
    <2>1. ptBuf' \in [Sides -> Seq(Units)]
      <3>1. <<>> \in Seq(Units)
        OBVIOUS
      <3> QED
        BY <1>1, <1>t, <3>1, Zenon DEF Typed
    <2>2. ptTorn' \in [Sides -> BOOLEAN] /\ ptTimeouts' \in [Sides -> Nat]
      BY <1>1, <1>t, SMTT(30) DEF Typed
    <2> QED
      BY <1>1, <1>t, <2>1, <2>2, Zenon DEF Typed
  <1>4. \A s \in Sides : ~ptTorn'[s] => ~ptTorn[s] /\ ptBuf'[s] = ptBuf[s]
    BY <1>2, <1>s, Zenon
  <1>5. ASSUME NEW s \in Sides, ptAt'[s] = "ready"
        PROVE  Ready(s)'
    <2>1. Ready(s)
      BY <1>1, <1>5, SMTT(30) DEF StreamInv
    <2> QED
      BY <1>1, <1>4, <2>1, Zenon DEF Ready
  <1>6. ptAt'["dial"] = "new" => NewDial'
    BY <1>1, <1>s, SMTT(30) DEF StreamInv, NewDial
  <1>7. ptAt'["accept"] = "new" => NewAccept'
    <2> SUFFICES ASSUME ptAt'["accept"] = "new" PROVE NewAccept'
      OBVIOUS
    <2>1. o = "accept" /\ NewAccept
      BY <1>1, <1>s, SMTT(30) DEF StreamInv
    <2>2. Unread("accept")'
      BY <1>1, <1>2, <2>1, Zenon DEF NewAccept, Unread
    <2> QED
      BY <1>1, <2>1, <2>2, ZenonT(40) DEF NewAccept, Request
  <1>8. ptAt'["accept"] = "hello" => HelloAccept'
    BY <1>1, <1>s, SMTT(30) DEF StreamInv, HelloAccept
  <1>9. ptAt'["dial"] = "hello" => HelloDial'
    <2> SUFFICES ASSUME ptAt'["dial"] = "hello" PROVE HelloDial'
      OBVIOUS
    <2>1. o = "dial" /\ HelloDial
      BY <1>1, <1>s, Zenon DEF StreamInv
    <2>2. Unread("dial")'
      BY <1>1, <1>2, <2>1, Zenon DEF HelloDial, Unread
    <2> QED
      BY <1>1, <2>1, <2>2, Zenon DEF HelloDial, Answer
  <1>10. FramesWhole'
    BY <1>1, <1>4, Zenon DEF StreamInv, FramesWhole
  <1> QED
    BY <1>3, <1>5, <1>6, <1>7, <1>8, <1>9, <1>10, Zenon DEF StreamInv

\* A side that gives up leaves the wires as they are.
LEMMA GiveUpKeeps ==
    ASSUME StreamInv, NEW side \in Sides, PtGiveUp(side)
    PROVE  StreamInv'
  <1> DEFINE o == Other(side)
  <1>t. Typed
    BY Zenon DEF StreamInv
  <1>s. /\ o \in Sides /\ o # side /\ \A s \in Sides : s = side \/ s = o
        /\ (side = "dial" /\ o = "accept") \/ (side = "accept" /\ o = "dial")
    BY Zenon DEF Sides, Other
  <1> HIDE DEF o
  <1>1. /\ ptAt[side] = "hello" \/ (side = "accept" /\ ptAt[side] = "new")
        /\ ptAt' = [ptAt EXCEPT ![side] = "failed"]
        /\ UNCHANGED <<ptMode, ptWire, ptPre, ptRx, ptTx, ptBuf, ptSent, ptGot, ptTorn, ptTimeouts>>
    BY Zenon DEF PtGiveUp
  <1>2. ptAt'[side] = "failed" /\ ptAt'[o] = ptAt[o]
    BY <1>1, <1>s, <1>t, Zenon DEF Typed
  <1>3. Typed'
    BY <1>1, <1>t, Zenon DEF Typed
  <1>4. ASSUME NEW s \in Sides, ptAt'[s] = "ready"
        PROVE  Ready(s)'
    <2>1. Ready(s)
      BY <1>2, <1>4, <1>s, Zenon DEF StreamInv
    <2> QED
      BY <1>1, <2>1, Zenon DEF Ready
  <1>5. ptAt'["dial"] = "new" => NewDial'
    <2>1. ptAt'["dial"] = "new" => NewDial /\ ptAt'["accept"] = "failed"
      BY <1>2, <1>s, SMTT(30) DEF StreamInv
    <2> QED
      BY <1>1, <2>1, Zenon DEF NewDial, Unread
  <1>6. ptAt'["accept"] = "new" => NewAccept'
    <2>1. ptAt'["accept"] = "new" => NewAccept /\ ptAt'["dial"] = "failed"
      BY <1>2, <1>s, Zenon DEF StreamInv
    <2> QED
      <3>1. \A opening : Request(opening) => Request(opening)'
        BY <1>1, Zenon DEF Request
      <3>2. Unread("accept") => Unread("accept")'
        BY <1>1, Zenon DEF Unread
      <3> QED
        BY <1>1, <2>1, <3>1, <3>2, Zenon DEF NewAccept
  <1>7. ptAt'["accept"] = "hello" => HelloAccept'
    <2>1. ptAt'["accept"] = "hello" => HelloAccept /\ ptAt'["dial"] = "failed"
      BY <1>2, <1>s, SMTT(30) DEF StreamInv
    <2> QED
      BY <1>1, <2>1, Zenon DEF HelloAccept, Unread, Request
  <1>8. ptAt'["dial"] = "hello" => HelloDial'
    <2>1. ptAt'["dial"] = "hello" => HelloDial /\ ptAt'["accept"] = "failed"
      BY <1>2, <1>s, Zenon DEF StreamInv
    <2> QED
      BY <1>1, <2>1, SMTT(30), Zenon DEF HelloDial, Unread, Answer
  <1>9. FramesWhole'
    BY <1>1, Zenon DEF StreamInv, FramesWhole
  <1> QED
    BY <1>3, <1>4, <1>5, <1>6, <1>7, <1>8, <1>9, Zenon DEF StreamInv

\* The empty wire of a writer that has written nothing.
LEMMA EmptyHolds ==
    ASSUME NEW mode, NEW tx
    PROVE  Holds(<<>>, 0, 0, 0, mode, tx)
  BY DEF Holds

\* The dialler's request is a sequence of units.
LEMMA RequestTyped ==
    ASSUME NEW pads \in Nat
    PROVE  <<Clear(<<"random", 0>>), Clear(<<"key", 0>>)>> \o Enciphered(Magic(pads), 0) \in Seq(Units)
  <1> DEFINE a == <<Clear(<<"random", 0>>), Clear(<<"key", 0>>)>>
             e == Enciphered(Magic(pads), 0)
  <1>1. Clear(<<"random", 0>>) \in Units /\ Clear(<<"key", 0>>) \in Units
    BY ClearTyped, Zenon DEF Whats
  <1>2. a \in Seq(Units)
    BY <1>1
  <1>3. e \in Seq(Units)
    BY MagicIs, Zenon
  <1> HIDE DEF a, e
  <1>4. a \o e \in Seq(Units)
    BY <1>2, <1>3, ConcatIs, Zenon
  <1> QED
    BY <1>4, Zenon DEF a, e

\* The dialler writes its request, or speaks plainly at once.
LEMMA ConnectKeeps ==
    ASSUME StreamInv, NEW local, NEW requests, NEW hash, NEW peer, NEW pads \in 0..PtMaxPad,
           NEW opening \in Opening, PtConnect(local, requests, hash, peer, pads, opening)
    PROVE  StreamInv'
  <1> DEFINE choice == Choice(local, requests, hash, peer)
             asked == <<Clear(<<"random", 0>>), Clear(<<"key", 0>>)>> \o Enciphered(Magic(pads), 0)
  <1>t. Typed
    BY Zenon DEF StreamInv
  <1>n. /\ ptAt["dial"] = "new" /\ NewDial
        /\ UNCHANGED <<ptPre, ptRx, ptBuf, ptSent, ptGot, ptTorn, ptTimeouts>>
    BY Zenon DEF PtConnect, StreamInv
  <1>p. pads \in Nat /\ opening = <<"random", 0>>
    BY PtAssumption DEF Opening
  <1>f. FramesWhole'
    BY <1>n, Zenon DEF StreamInv, FramesWhole
  <1>1. CASE choice = "obfuscated"
    <2>1. /\ ptAt' = [ptAt EXCEPT !["dial"] = "hello"]
          /\ ptMode' = [ptMode EXCEPT !["dial"] = "obfuscated"]
          /\ ptWire' = [ptWire EXCEPT !["accept"] = asked]
          /\ ptTx' = [ptTx EXCEPT !["dial"] = 1 + pads]
      BY <1>1, <1>p, Zenon DEF PtConnect
    <2>2. asked \in Seq(Units)
      BY <1>p, RequestTyped, Zenon
    <2> HIDE DEF asked
    <2>3. /\ ptAt'["dial"] = "hello" /\ ptAt'["accept"] = ptAt["accept"]
          /\ ptMode'["dial"] = "obfuscated" /\ ptMode'["accept"] = ptMode["accept"]
          /\ ptWire'["accept"] = asked /\ ptWire'["dial"] = ptWire["dial"]
          /\ ptTx'["dial"] = 1 + pads /\ ptTx'["accept"] = ptTx["accept"]
      BY <2>1, <1>t, SMTT(30) DEF Typed, Sides
    <2>4. Typed'
      <3>1. /\ ptAt' \in [Sides -> {"new", "hello", "ready", "failed"}]
            /\ ptMode' \in [Sides -> Modes] /\ ptWire' \in [Sides -> Seq(Units)]
            /\ ptTx' \in [Sides -> Nat]
        <4>1. 1 + pads \in Nat /\ "obfuscated" \in Modes
          BY <1>p DEF Modes
        <4>2. \A f \in [Sides -> Modes] : [f EXCEPT !["dial"] = "obfuscated"] \in [Sides -> Modes]
          BY <4>1, Zenon
        <4> QED
          BY <2>1, <2>2, <4>1, <4>2, <1>t, Zenon DEF Typed
      <3>2. \A s \in Sides : ptMode'[s] = "obfuscated" => 3 * ptSent[s] <= ptTx'[s]
        <4>1. ptSent["dial"] = 0 /\ 3 * ptSent["dial"] <= 1 + pads
          BY <1>n, <1>p DEF NewDial
        <4>2. ptMode["accept"] = "obfuscated" => 3 * ptSent["accept"] <= ptTx["accept"]
          BY <1>t, Zenon DEF Typed, Sides
        <4>3. ptMode'["dial"] = "obfuscated" => 3 * ptSent["dial"] <= ptTx'["dial"]
          BY <2>3, <4>1, Zenon
        <4>4. ptMode'["accept"] = "obfuscated" => 3 * ptSent["accept"] <= ptTx'["accept"]
          BY <2>3, <4>2, Zenon
        <4> QED
          BY <4>3, <4>4, Zenon DEF Sides
      <3> QED
        BY <1>n, <1>t, <3>1, <3>2, Zenon DEF Typed
    <2>5. /\ \A s \in Sides : ptAt'[s] # "ready"
          /\ ptAt'["accept"] # "hello" /\ ptAt'["dial"] # "new"
      BY <2>3, <1>n, SMTT(30) DEF NewDial, Sides
    <2>6. ptAt'["accept"] = "new" => NewAccept'
      <3> SUFFICES ASSUME ptAt'["accept"] = "new" PROVE NewAccept'
        OBVIOUS
      <3>1. NewAccept
        BY <2>3, SMTT(30) DEF StreamInv
      <3>2. Unread("accept")'
        BY <3>1, <1>n, ZenonT(40) DEF NewAccept, Unread
      <3>3. Request(<<Clear(<<"random", 0>>), Clear(<<"key", 0>>)>>)'
        BY <2>3, SMTT(30) DEF Request, asked
      <3> QED
        BY <2>3, <3>1, <3>2, <3>3, <1>n, Zenon DEF NewAccept, NewDial
    <2>7. HelloDial'
      <3>1. Unread("dial")'
        BY <1>n, SMTT(30) DEF NewDial, Unread
      <3> QED
        BY <2>3, <3>1, <1>n, Zenon DEF NewDial, HelloDial
    <2> QED
      BY <1>f, <2>4, <2>5, <2>6, <2>7, Zenon DEF StreamInv
  <1>2. CASE choice # "obfuscated"
    <2>1. /\ \/ ptAt' = [ptAt EXCEPT !["dial"] = "failed"]
             \/ ptAt' = [ptAt EXCEPT !["dial"] = "ready"]
          /\ UNCHANGED <<ptMode, ptWire, ptTx>>
      <3>1. /\ ptAt' = [ptAt EXCEPT !["dial"] = IF choice = "error" THEN "failed" ELSE "ready"]
            /\ UNCHANGED <<ptMode, ptWire, ptTx>>
        BY <1>2, Zenon DEF PtConnect
      <3> HIDE DEF choice
      <3>2. CASE choice = "error"
        BY <3>1, <3>2, Zenon
      <3>3. CASE choice # "error"
        BY <3>1, <3>3, Zenon
      <3> QED
        BY <3>2, <3>3, Zenon
    <2>2. ptAt'["dial"] \in {"failed", "ready"} /\ ptAt'["accept"] = ptAt["accept"]
      <3>1. "dial" \in Sides /\ "accept" \in Sides /\ "accept" # "dial"
        BY DEF Sides
      <3>2. ptAt'["dial"] \in {"failed", "ready"}
        <4>1. ptAt'["dial"] = "failed" \/ ptAt'["dial"] = "ready"
          BY <2>1, <3>1, <1>t, Replaced, Zenon DEF Typed
        <4> QED
          BY <4>1
      <3>3. ptAt'["accept"] = ptAt["accept"]
        <4>1. ptAt \in [Sides -> {"new", "hello", "ready", "failed"}]
          BY <1>t, Zenon DEF Typed
        <4>2. CASE ptAt' = [ptAt EXCEPT !["dial"] = "failed"]
          BY <3>1, <4>1, <4>2
        <4>3. CASE ptAt' = [ptAt EXCEPT !["dial"] = "ready"]
          BY <3>1, <4>1, <4>3
        <4> QED
          BY <2>1, <4>2, <4>3, Zenon
      <3> QED
        BY <3>2, <3>3
    <2>3. Typed'
      BY <2>1, <1>n, <1>t, Zenon DEF Typed
    <2>4. Ready("dial")'
      <3>1. /\ ptBuf["dial"] = <<>> /\ ptPre["dial"] = <<>> /\ ptWire["dial"] = <<>> /\ ptRx["dial"] = 0
            /\ Len(ptGot["dial"]) = 0 /\ ptMode["accept"] = "plain" /\ ptSent["accept"] = 0
            /\ ptMode["dial"] = "plain"
        BY <1>n, Zenon DEF NewDial, Unread
      <3>2. InStep(<<>>, <<>>, <<>>, 0, 0, "plain", 0, ptTx["accept"])
        BY <1>t, EmptyHolds, FreshInStep, ZenonT(40) DEF Typed, Modes, Sides
      <3> QED
        BY <1>n, <2>1, <3>1, <3>2, Zenon DEF Ready, Other
    <2>5. \A s \in Sides : ptAt'[s] = "ready" => s = "dial"
      BY <2>2, <1>n, SMTT(30) DEF NewDial, Sides
    <2>6. ptAt'["accept"] = "new" => NewAccept'
      <3> SUFFICES ASSUME ptAt'["accept"] = "new" PROVE NewAccept'
        OBVIOUS
      <3>1. NewAccept
        BY <2>2, Zenon DEF StreamInv
      <3>2. Unread("accept")'
        BY <3>1, <1>n, Zenon DEF NewAccept, Unread
      <3> QED
        BY <2>1, <3>1, <3>2, <1>n DEF NewAccept, NewDial
    <2>7. ptAt'["accept"] # "hello" /\ ptAt'["dial"] # "new" /\ ptAt'["dial"] # "hello"
      BY <2>2, <1>n, Zenon DEF NewDial
    <2> QED
      BY <1>f, <2>3, <2>4, <2>5, <2>6, <2>7, Zenon DEF StreamInv
  <1> QED
    BY <1>1, <1>2, Zenon

\* Writing a packet extends the wire of the other side by the units it will
\* read, with the keys it will use.
LEMMA WriteKeeps ==
    ASSUME StreamInv, NEW side \in Sides, PtWrite(side)
    PROVE  StreamInv'
  <1> DEFINE o == Other(side)
             n == ptSent[side] + 1
             units == IF ptMode[side] = "plain" THEN [i \in 1..PacketUnits |-> Clear(Packet(n)[i])]
                      ELSE Enciphered(Packet(n), ptTx[side])
             tx1 == IF ptMode[side] = "plain" THEN ptTx[side] ELSE ptTx[side] + 3
  <1>t. Typed
    BY Zenon DEF StreamInv
  <1>s. /\ o \in Sides /\ o # side /\ \A s \in Sides : s = side \/ s = o
        /\ (side = "dial" /\ o = "accept") \/ (side = "accept" /\ o = "dial")
        /\ Other(o) = side
    BY SMTT(30) DEF Sides, Other
  <1>1. /\ ptAt[side] = "ready"
        /\ ptSent' = [ptSent EXCEPT ![side] = n]
        /\ ptWire' = [ptWire EXCEPT ![o] = ptWire[o] \o units]
        /\ ptTx' = [ptTx EXCEPT ![side] = tx1]
        /\ UNCHANGED <<ptAt, ptMode, ptPre, ptRx, ptBuf, ptGot, ptTorn, ptTimeouts>>
    BY Zenon DEF PtWrite, PacketUnits
  <1>2. /\ n \in Nat /\ ptTx[side] \in Nat /\ ptMode[side] \in Modes /\ tx1 \in Nat
        /\ ptSent[side] \in Nat /\ ptSent[o] \in Nat /\ ptTx[o] \in Nat /\ ptWire[o] \in Seq(Units)
        /\ ptMode[side] # "plain" => tx1 = ptTx[side] + 3
        /\ ptMode[side] = "obfuscated" => 3 * ptSent[side] <= ptTx[side]
    <2>1. /\ ptTx[side] \in Nat /\ ptMode[side] \in Modes /\ ptSent[side] \in Nat
          /\ ptSent[o] \in Nat /\ ptTx[o] \in Nat /\ ptWire[o] \in Seq(Units)
          /\ ptMode[side] = "obfuscated" => 3 * ptSent[side] <= ptTx[side]
      BY <1>t, <1>s, SMTT(30) DEF Typed
    <2> QED
      BY <2>1, SMTT(30)
  <1>3. units \in Seq(Units) /\ Written(units, n, ptMode[side], ptTx[side])
    BY <1>2, WriteIs, Zenon
  <1> HIDE DEF o, units, tx1
  <1>4. ptWire[o] \o units \in Seq(Units)
    BY <1>2, <1>3, ConcatIs, Zenon
  <1>5. /\ ptSent'[side] = n /\ ptSent'[o] = ptSent[o] /\ ptTx'[side] = tx1 /\ ptTx'[o] = ptTx[o]
        /\ ptWire'[o] = ptWire[o] \o units /\ ptWire'[side] = ptWire[side]
    BY <1>1, <1>s, <1>t, Zenon DEF Typed
  <1>6. Typed'
    <2>1. /\ ptSent' \in [Sides -> Nat] /\ ptTx' \in [Sides -> Nat]
      BY <1>1, <1>2, <1>t, Zenon DEF Typed
    <2>2. ptWire' \in [Sides -> Seq(Units)]
      BY <1>1, <1>4, <1>t, ZenonT(40) DEF Typed
    <2>3. \A s \in Sides : ptMode[s] = "obfuscated" => 3 * ptSent'[s] <= ptTx'[s]
      <3>1. ptMode[side] = "obfuscated" => 3 * n <= tx1
        BY <1>2
      <3>2. ptMode[o] = "obfuscated" => 3 * ptSent[o] <= ptTx[o]
        BY <1>s, <1>t, Zenon DEF Typed
      <3> QED
        BY <1>s, <1>5, <3>1, <3>2, Zenon
    <2> QED
      BY <1>1, <1>t, <2>1, <2>2, <2>3, Zenon DEF Typed
  <1>7. ASSUME NEW skip \in Nat, NEW taken \in Nat, taken <= 3 * ptSent[side],
               Holds(ptWire[o], skip, taken, ptSent[side], ptMode[side], ptTx[side])
        PROVE  Holds(ptWire'[o], skip, taken, n, ptMode[side], tx1)
    <2> DEFINE w == ptWire[o]
               sent == ptSent[side]
               tx == ptTx[side]
               mode == ptMode[side]
    <2>1. /\ w \in Seq(Units) /\ sent \in Nat /\ tx \in Nat /\ taken <= 3 * sent
          /\ Holds(w, skip, taken, sent, mode, tx) /\ Written(units, sent + 1, mode, tx)
          /\ mode # "plain" => tx1 = tx + 3
      BY <1>2, <1>3, <1>7, ZenonT(40)
    <2> HIDE DEF w, sent, tx, mode
    <2>2. Holds(w \o units, skip, taken, sent + 1, mode, tx1)
      BY <1>2, <1>3, <2>1, HoldsWrite, Zenon
    <2> QED
      BY <1>5, <2>2, Zenon DEF w, sent, mode
  <1>8. ASSUME NEW s \in Sides, ptAt'[s] = "ready"
        PROVE  Ready(s)'
    <2>1. Ready(s)
      BY <1>1, <1>8, SMTT(30) DEF StreamInv
    <2>2. CASE s = side
      <3>1. Other(s) = o
        BY <2>2, Zenon DEF o
      <3> QED
        BY <1>1, <1>5, <2>1, <2>2, <3>1, SMTT(30) DEF Ready
    <2>3. CASE s = o
      <3>1. Other(s) = side
        BY <1>s, <2>3, SMTT(30)
      <3>2. ASSUME ~ptTorn[o]
            PROVE  InStep(ptBuf[o], ptPre[o], ptWire'[o], ptRx[o], Len(ptGot[o]), ptMode[side],
                          n, tx1)
        <4>1. InStep(ptBuf[o], ptPre[o], ptWire[o], ptRx[o], Len(ptGot[o]), ptMode[side],
                     ptSent[side], ptTx[side])
          BY <2>1, <2>3, <3>1, <3>2, Zenon DEF Ready
        <4>2. ptBuf[o] \in Seq(Units) /\ ptPre[o] \in Seq(Units) /\ ptRx[o] \in Nat /\ Len(ptGot[o]) \in Nat
          BY <1>s, <1>t, SMTT(30) DEF Typed
        <4>3. InStep(ptBuf[o], ptPre[o], ptWire[o] \o units, ptRx[o], Len(ptGot[o]), ptMode[side],
                     n, tx1)
          BY <1>2, <1>3, <4>1, <4>2, WriteInStep, ZenonT(40)
        <4> QED
          BY <1>5, <4>3, ZenonT(40)
      <3> QED
        BY <1>1, <1>5, <2>1, <2>3, <3>1, <3>2, SMTT(30) DEF Ready
    <2> QED
      BY <1>s, <2>2, <2>3, Zenon
  <1>9. ptAt'["dial"] = "new" => NewDial'
    BY <1>1, <1>s, SMTT(30) DEF StreamInv, NewDial
  <1>10. ptAt'["accept"] = "new" => NewAccept'
    <2> SUFFICES ASSUME ptAt'["accept"] = "new" PROVE NewAccept'
      OBVIOUS
    <2>1. o = "accept" /\ side = "dial" /\ NewAccept
      BY <1>1, <1>s, SMTT(30) DEF StreamInv
    <2>2. Unread("accept")'
      BY <1>1, <2>1, SMTT(30) DEF NewAccept, Unread
    <2>3. ptMode["dial"] = "plain"
      BY <1>1, <1>2, <2>1, ZenonT(40) DEF NewAccept, Modes
    <2>4. Holds(ptWire'["accept"], 0, 0, n, "plain", tx1)
      <3>1. Holds(ptWire["accept"], 0, 0, ptSent["dial"], "plain", ptTx["dial"])
        BY <2>1, <2>3, Zenon DEF NewAccept
      <3>2. 0 \in Nat /\ 0 <= 3 * ptSent[side]
        BY <1>2, SMTT(30)
      <3> QED
        BY <1>7, <2>1, <2>3, <3>1, <3>2, SMTT(30)
    <2> QED
      BY <1>1, <1>5, <2>1, <2>2, <2>3, <2>4, SMTT(30) DEF NewAccept
  <1>11. ptAt'["accept"] = "hello" => HelloAccept'
    BY <1>1, <1>s, Zenon DEF StreamInv, HelloAccept
  <1>12. ptAt'["dial"] = "hello" => HelloDial'
    <2> SUFFICES ASSUME ptAt'["dial"] = "hello" PROVE HelloDial'
      OBVIOUS
    <2>1. o = "dial" /\ side = "accept" /\ HelloDial
      BY <1>1, <1>s, Zenon DEF StreamInv
    <2>2. Unread("dial")'
      BY <1>1, <2>1, SMTT(30) DEF HelloDial, Unread
    <2>3. Answer
      BY <1>1, <2>1, SMTT(30) DEF HelloDial
    <2>4. PICK pads \in 0..PtMaxPad :
              /\ ptTx["accept"] - 3 * ptSent["accept"] = 1 + pads
              /\ Len(ptWire["dial"]) >= 1 + pads
              /\ ptWire["dial"][1] = [what |-> <<"sync", pads>>, key |-> 1]
              /\ Holds(ptWire["dial"], 1 + pads, 0, ptSent["accept"], "obfuscated", ptTx["accept"])
      BY <2>3, SMTT(30) DEF Answer
    <2>5. ptMode["accept"] = "obfuscated" /\ 1 + pads \in Nat
      BY <2>3, PtAssumption, SMTT(30) DEF Answer
    <2>6. tx1 - 3 * n = 1 + pads
      <3>1. tx1 = ptTx[side] + 3 /\ ptTx[side] - 3 * ptSent[side] = 1 + pads
        BY <1>2, <2>1, <2>4, <2>5, SMTT(30)
      <3> DEFINE t == ptTx[side]
                 u == ptSent[side]
                 y == 1 + pads
      <3>2. t \in Nat /\ u \in Nat /\ y \in Nat /\ tx1 = t + 3 /\ t - 3 * u = y
        BY <1>2, <2>5, <3>1, Zenon
      <3> HIDE DEF t, u, y
      <3>3. tx1 - 3 * (u + 1) = y
        BY <3>2, SMTT(30)
      <3> QED
        BY <3>3, Zenon DEF u, y
    <2>7. Len(ptWire'["dial"]) >= 1 + pads /\ ptWire'["dial"][1] = ptWire["dial"][1]
      <3> DEFINE w == ptWire["dial"]
      <3>1. w \in Seq(Units) /\ Len(w) >= 1 + pads
        BY <1>2, <2>1, <2>4, Zenon
      <3> HIDE DEF w
      <3>2. Len(w \o units) = Len(w) + Len(units) /\ \A i \in 1..Len(w) : (w \o units)[i] = w[i]
        BY <1>3, <3>1, ConcatIs, SMTT(30)
      <3>3. 1 \in 1..Len(w) /\ Len(units) \in Nat
        BY <1>3, <2>5, <3>1, PtAssumption
      <3>4. Len(w \o units) >= 1 + pads /\ (w \o units)[1] = w[1]
        BY <3>1, <3>2, <3>3, <2>5, SMTT(30)
      <3> QED
        BY <1>5, <2>1, <3>4, SMTT(30) DEF w
    <2>8. Holds(ptWire'["dial"], 1 + pads, 0, n, "obfuscated", tx1)
      <3>1. 0 \in Nat /\ 0 <= 3 * ptSent[side]
        BY <1>2, SMTT(30)
      <3> QED
        BY <1>7, <2>1, <2>4, <2>5, <3>1, SMTT(30)
    <2>9. Answer'
      <3>1. ptMode'["accept"] = "obfuscated"
        BY <1>1, <2>5, SMTT(30)
      <3>2. /\ ptTx'["accept"] - 3 * ptSent'["accept"] = 1 + pads
            /\ Len(ptWire'["dial"]) >= 1 + pads
            /\ ptWire'["dial"][1] = [what |-> <<"sync", pads>>, key |-> 1]
            /\ Holds(ptWire'["dial"], 1 + pads, 0, ptSent'["accept"], "obfuscated", ptTx'["accept"])
        <4>1. ptTx'["accept"] - 3 * ptSent'["accept"] = 1 + pads
          BY <1>5, <2>1, <2>6, Zenon
        <4>2. Len(ptWire'["dial"]) >= 1 + pads
          BY <2>7, Zenon
        <4>3. ptWire'["dial"][1] = [what |-> <<"sync", pads>>, key |-> 1]
          BY <2>4, <2>7, Zenon
        <4>4. Holds(ptWire'["dial"], 1 + pads, 0, ptSent'["accept"], "obfuscated", ptTx'["accept"])
          BY <1>5, <2>1, <2>8, Zenon
        <4> QED
          BY <4>1, <4>2, <4>3, <4>4, Zenon
      <3> QED
        BY <3>1, <3>2, ZenonT(40) DEF Answer
    <2> QED
      BY <1>1, <1>5, <2>1, <2>2, <2>9, SMTT(30) DEF HelloDial
  <1>13. FramesWhole'
    BY <1>1, Zenon DEF StreamInv, FramesWhole
  <1> QED
    BY <1>6, <1>8, <1>9, <1>10, <1>11, <1>12, <1>13, Zenon DEF StreamInv

\* Sequences with the same elements are equal.
LEMMA SameSeq ==
    ASSUME NEW S, NEW s \in Seq(S), NEW t \in Seq(S), NEW n \in Nat, Len(s) = n, Len(t) = n,
           \A i \in 1..n : s[i] = t[i]
    PROVE  s = t
  OBVIOUS

\* The request without its first byte.
LEMMA RequestTail ==
    ASSUME NEW pads \in Nat
    PROVE  LET r == Clear(<<"random", 0>>)
               k == Clear(<<"key", 0>>)
               e == Enciphered(Magic(pads), 0)
           IN Head(<<r, k>> \o e) = r /\ Tail(<<r, k>> \o e) = <<k>> \o e
  <1> DEFINE r == Clear(<<"random", 0>>)
             k == Clear(<<"key", 0>>)
             e == Enciphered(Magic(pads), 0)
  <1>1. r \in Units /\ k \in Units
    BY ClearTyped, Zenon DEF Whats
  <1>2. e \in Seq(Units)
    BY MagicIs, Zenon
  <1> HIDE DEF r, k, e
  <1> DEFINE w == <<r, k>> \o e
             a == <<r, k>>
             b == <<k>>
  <1>3. a \in Seq(Units) /\ Len(a) = 2 /\ a[1] = r /\ a[2] = k
        /\ b \in Seq(Units) /\ Len(b) = 1 /\ b[1] = k
    BY <1>1
  <1>w. w = a \o e
    OBVIOUS
  <1> HIDE DEF a, b, w
  <1>4. /\ a \o e \in Seq(Units) /\ Len(a \o e) = Len(a) + Len(e)
        /\ \A i \in 1..Len(a) : (a \o e)[i] = a[i]
        /\ \A i \in 1..Len(e) : (a \o e)[Len(a) + i] = e[i]
    <2>1. a \in Seq(Units)
      BY <1>3, Zenon
    <2> QED
      BY <1>2, <2>1, ConcatIs, SMTT(30)
  <1>5. /\ b \o e \in Seq(Units) /\ Len(b \o e) = Len(b) + Len(e)
        /\ \A i \in 1..Len(b) : (b \o e)[i] = b[i]
        /\ \A i \in 1..Len(e) : (b \o e)[Len(b) + i] = e[i]
    <2>1. b \in Seq(Units)
      BY <1>3, Zenon
    <2> QED
      BY <1>2, <2>1, ConcatIs
  <1> DEFINE m == Len(e)
             v == b \o e
  <1>m. m \in Nat
    BY <1>2, SMTT(30)
  <1>6. /\ w \in Seq(Units) /\ Len(w) = 2 + m /\ w[1] = r /\ w[2] = k
        /\ \A i \in 1..m : w[2 + i] = e[i]
    BY <1>3, <1>4, <1>w, <1>m, SMTT(30)
  <1>7. /\ v \in Seq(Units) /\ Len(v) = 1 + m /\ v[1] = k
        /\ \A i \in 1..m : v[1 + i] = e[i]
    BY <1>3, <1>5, <1>m
  <1> HIDE DEF m, v
  <1>8. /\ Head(w) = w[1] /\ Tail(w) \in Seq(Units) /\ Len(Tail(w)) = 1 + m
        /\ \A i \in 1..1 + m : Tail(w)[i] = w[i + 1]
    <2>1. /\ Head(w) = w[1] /\ Tail(w) \in Seq(Units) /\ Len(Tail(w)) = Len(w) - 1
          /\ \A i \in 1..Len(w) - 1 : Tail(w)[i] = w[i + 1]
      <3>1. w \in Seq(Units) /\ Len(w) > 0
        BY <1>6, <1>m
      <3> QED
        BY <3>1, TailIs, Zenon
    <2> QED
      BY <1>6, <1>m, <2>1
  <1> DEFINE t == Tail(w)
  <1>9. t \in Seq(Units) /\ Len(t) = 1 + m /\ \A i \in 1..1 + m : t[i] = w[i + 1]
    BY <1>8, Zenon
  <1> HIDE DEF t
  <1>10. \A i \in 1..1 + m : t[i] = v[i]
    <2> SUFFICES ASSUME NEW i \in 1..1 + m PROVE t[i] = v[i]
      OBVIOUS
    <2>1. CASE i = 1
      BY <1>6, <1>7, <1>9, <1>m, <2>1
    <2>2. CASE i # 1
      <3>1. i - 1 \in 1..m /\ 2 + (i - 1) = i + 1 /\ 1 + (i - 1) = i
        BY <1>m, <2>2, SMTT(30)
      <3>2. w[i + 1] = e[i - 1] /\ v[i] = e[i - 1]
        BY <1>6, <1>7, <3>1, Zenon
      <3> QED
        BY <1>9, <3>2, Zenon
    <2> QED
      BY <2>1, <2>2, Zenon
  <1>11. t = v
    BY <1>7, <1>9, <1>10, SameSeq
  <1> QED
    BY <1>6, <1>8, <1>11, Zenon DEF t, v, w, r, k, e, b

\* The acceptor keeps the marker of a plain dialler's first packet, and opens a
\* handshake on the random byte of an obfuscating one.
LEMMA AcceptKeeps ==
    ASSUME StreamInv, PtAccept
    PROVE  StreamInv'
  <1> DEFINE first == Head(ptWire["accept"])
             wire == ptWire["accept"]
             sent == ptSent["dial"]
             tx == ptTx["dial"]
  <1>t. Typed
    BY SMTT(30) DEF StreamInv
  <1>n. /\ ptAt["accept"] = "new" /\ NewAccept /\ wire # <<>>
        /\ ptWire' = [ptWire EXCEPT !["accept"] = Tail(wire)]
        /\ UNCHANGED <<ptRx, ptTx, ptBuf, ptSent, ptGot, ptTorn, ptTimeouts>>
    BY Zenon DEF PtAccept, StreamInv
  <1>f. FramesWhole'
    BY <1>n, Zenon DEF StreamInv, FramesWhole
  <1>y. /\ wire \in Seq(Units) /\ sent \in Nat /\ tx \in Nat /\ Tail(wire) \in Seq(Units)
        /\ first \in Units /\ ptMode["dial"] \in Modes
    <2>1. wire \in Seq(Units) /\ sent \in Nat /\ tx \in Nat /\ ptMode["dial"] \in Modes
      BY <1>t, Zenon DEF Typed, Sides
    <2>2. \A s \in Seq(Units) : s # <<>> => Head(s) \in Units /\ Tail(s) \in Seq(Units)
      OBVIOUS
    <2> QED
      BY <1>n, <2>1, <2>2, Zenon
  <1>w. ptWire'["accept"] = Tail(wire) /\ ptWire'["dial"] = ptWire["dial"]
    BY <1>n, <1>t, Zenon DEF Typed, Sides
  <1>d. ptAt["dial"] # "new"
    BY <1>n, Zenon DEF StreamInv, NewDial
  <1>v. ptWire' \in [Sides -> Seq(Units)]
    BY <1>n, <1>y, <1>t, Zenon DEF Typed
  <1>1. CASE ptMode["dial"] = "plain"
    <2>1. Holds(wire, 0, 0, sent, "plain", tx)
      BY <1>n, <1>1, Zenon DEF NewAccept
    <2>2. sent >= 1
      <3>1. Len(wire) = 0 + 3 * sent - 0
        BY <2>1, Zenon DEF Holds
      <3>2. Len(wire) > 0
        BY <1>n, <1>y, SMTT(30)
      <3> QED
        BY <1>y, <3>1, <3>2
    <2>3. /\ first = PacketUnit(1, 1, 0) /\ Holds(Tail(wire), 0, 1, sent, "plain", tx)
      <3>1. 0 + 1 \in 1..sent /\ 0 \in Nat /\ 0 \in 0..2 /\ 3 * 0 + 0 = 0 /\ 3 * 0 + 0 + 1 = 1 /\ 0 + 1 = 1
        BY <1>y, <2>2
      <3>2. Continues(wire, 0, 0, sent, "plain", tx)
        BY <2>1, <3>1, Zenon DEF Continues
      <3> HIDE DEF wire, sent, tx
      <3>3. /\ Head(wire) = wire[1] /\ NextOf(wire[1], 0, 0, sent, "plain", tx)
            /\ Holds(Tail(wire), 0, 3 * 0 + 0 + 1, sent, "plain", tx)
        BY <1>y, <3>1, <3>2, HoldsTail, Zenon
      <3>4. KeyOf(1, 1, sent, "plain", tx) = 0
        BY Zenon DEF KeyOf
      <3>5. wire[1] = PacketUnit(1, 1, 0)
        BY <3>1, <3>3, <3>4, SMTT(30) DEF NextOf
      <3> QED
        BY <3>1, <3>3, <3>5, Zenon DEF wire
    <2>4. first.key = 0 /\ first.what[1] = "marker"
      <3>1. /\ PacketUnit(1, 1, 0).what = Packet(1)[1] /\ PacketUnit(1, 1, 0).key = 0
            /\ Packet(1)[1] = <<"marker", 1, 1>>
        BY UnitTyped, PacketIs, SMTT(30)
      <3> QED
        BY <2>3, <3>1
    <2>5. /\ ptPre' = [ptPre EXCEPT !["accept"] = <<first>>]
          /\ ptAt' = [ptAt EXCEPT !["accept"] = "ready"] /\ ptMode' = ptMode
      BY <2>4, Zenon DEF PtAccept
    <2> HIDE DEF first, wire, sent, tx
    <2>6. /\ ptPre'["accept"] = <<first>> /\ ptPre'["dial"] = ptPre["dial"]
          /\ ptAt'["accept"] = "ready" /\ ptAt'["dial"] = ptAt["dial"]
      BY <2>5, <1>t, SMTT(30) DEF Typed, Sides
    <2>7. Typed'
      <3>1. <<first>> \in Seq(Units)
        BY <1>y
      <3>2. ptPre' \in [Sides -> Seq(Units)]
        BY <2>5, <3>1, <1>t, ZenonT(40) DEF Typed
      <3>3. ptAt' \in [Sides -> {"new", "hello", "ready", "failed"}]
        BY <2>5, <1>t, Zenon DEF Typed
      <3> QED
        BY <2>5, <3>2, <3>3, <1>v, <1>n, <1>t, ZenonT(40) DEF Typed
    <2>8. Ready("accept")'
      <3>1. ptMode["accept"] = "plain" /\ ptBuf["accept"] = <<>> /\ ptGot["accept"] = <<>>
        BY <1>n, Zenon DEF NewAccept, Unread
      <3>2. InStep(<<>>, <<first>>, Tail(wire), ptRx["accept"], 0, "plain", sent, tx)
        <4>1. Len(<<>>) = 0 /\ Len(<<first>>) = 1 /\ <<first>>[1] = first /\ 3 * 0 + 0 + 1 = 1
          OBVIOUS
        <4>2. Holds(Tail(wire), 0, 3 * 0 + Len(<<>>) + Len(<<first>>), sent, "plain", tx)
          BY <2>3, <4>1, Zenon
        <4>3. 3 * 0 + Len(<<>>) + Len(<<first>>) <= 3 * sent
          BY <1>y, <2>2, <4>1
        <4> QED
          BY <2>3, <4>1, <4>2, <4>3 DEF InStep
      <3>3. Len(<<>>) = 0
        BY SMTT(30)
      <3> QED
        BY <1>n, <1>w, <1>1, <2>5, <2>6, <3>1, <3>2, <3>3, Zenon DEF Ready, Other, sent, tx
    <2>9. ptAt["dial"] = "ready" => Ready("dial")'
      <3>1. ptAt["dial"] = "ready" => Ready("dial")
        BY Zenon DEF StreamInv, Sides
      <3> QED
        BY <1>n, <1>w, <2>5, <2>6, <3>1, Zenon DEF Ready, Other
    <2>10. ptAt["dial"] # "hello"
      BY <1>1, Zenon DEF StreamInv, HelloDial
    <2> QED
      BY <1>d, <1>f, <2>6, <2>7, <2>8, <2>9, <2>10, Zenon DEF StreamInv, Sides
  <1>2. CASE ptMode["dial"] = "obfuscated"
    <2> DEFINE r == Clear(<<"random", 0>>)
               k == Clear(<<"key", 0>>)
    <2>1. ptAt["dial"] \in {"hello", "failed"} /\ ptSent["dial"] = 0 /\ Request(<<r, k>>)
      BY <1>n, <1>2, Zenon DEF NewAccept
    <2>2. PICK pads \in 0..PtMaxPad :
             ptTx["dial"] = 1 + pads /\ ptWire["accept"] = <<r, k>> \o Enciphered(Magic(pads), 0)
      BY <2>1, Zenon DEF Request
    <2>3. first = r /\ Tail(wire) = <<k>> \o Enciphered(Magic(pads), 0)
      <3>1. pads \in Nat
        BY PtAssumption
      <3> QED
        BY <2>2, <3>1, RequestTail, ZenonT(40)
    <2>4. ~(first.key = 0 /\ first.what[1] = "marker")
      BY <2>3 DEF Clear
    <2>5. /\ ptAt' = [ptAt EXCEPT !["accept"] = "hello"]
          /\ ptMode' = [ptMode EXCEPT !["accept"] = "obfuscated"] /\ ptPre' = ptPre
      BY <2>4, Zenon DEF PtAccept
    <2> HIDE DEF first, wire, sent, tx, r, k
    <2>6. /\ ptAt'["accept"] = "hello" /\ ptAt'["dial"] = ptAt["dial"]
          /\ ptMode'["accept"] = "obfuscated" /\ ptMode'["dial"] = "obfuscated"
      BY <2>5, <1>2, <1>t, Zenon DEF Typed, Sides
    <2>7. Typed'
      <3>1. "obfuscated" \in Modes
        BY Zenon DEF Modes
      <3>2. ptMode' \in [Sides -> Modes]
        BY <2>5, <3>1, <1>t, Zenon DEF Typed
      <3>3. ptAt' \in [Sides -> {"new", "hello", "ready", "failed"}]
        BY <2>5, <1>t, ZenonT(40) DEF Typed
      <3>4. \A s \in Sides : 3 * ptSent[s] <= ptTx[s]
        <4>1. ptSent["accept"] = 0 /\ ptTx["accept"] \in Nat
          BY <1>n, <1>t, Zenon DEF NewAccept, Typed, Sides
        <4>2. ptMode["dial"] = "obfuscated" => 3 * ptSent["dial"] <= ptTx["dial"]
          BY <1>t, Zenon DEF Typed, Sides
        <4> QED
          BY <1>2, <4>1, <4>2 DEF Sides
      <3> QED
        BY <2>5, <3>2, <3>3, <3>4, <1>v, <1>n, <1>t, Zenon DEF Typed
    <2>8. HelloAccept'
      <3>1. Unread("accept")'
        BY <1>n, <2>5, SMTT(30) DEF NewAccept, Unread
      <3>2. Request(<<k>>)'
        BY <1>n, <1>w, <2>2, <2>3, Zenon DEF Request
      <3> QED
        BY <1>n, <1>w, <2>1, <2>6, <3>1, <3>2, SMTT(30) DEF HelloAccept, NewAccept, k
    <2>9. ptAt["dial"] = "hello" => HelloDial'
      <3> SUFFICES ASSUME ptAt["dial"] = "hello" PROVE HelloDial'
        OBVIOUS
      <3>1. HelloDial
        BY Zenon DEF StreamInv
      <3>2. Unread("dial")'
        BY <1>n, <2>5, <3>1, Zenon DEF HelloDial, Unread
      <3> QED
        BY <1>n, <1>w, <2>1, <2>6, <3>2, Zenon DEF HelloDial, NewAccept
    <2> QED
      BY <1>f, <2>1, <2>6, <2>7, <2>8, <2>9, SMTT(30) DEF StreamInv, Sides
  <1> QED
    BY <1>y, <1>1, <1>2, Zenon DEF Modes

\* The header that follows the key in the request.
LEMMA RequestHeader ==
    ASSUME NEW p \in Nat, NEW wire, wire = <<Clear(<<"key", 0>>)>> \o Enciphered(Magic(p), 0)
    PROVE  /\ wire[1 + 1] = [what |-> <<"sync", p>>, key |-> 1]
           /\ SubSeq(wire, 1 + 2 + p, Len(wire)) = <<>>
  <1> DEFINE a == <<Clear(<<"key", 0>>)>>
             e == Enciphered(Magic(p), 0)
  <1>1. a \in Seq(Units) /\ Len(a) = 1
    BY ClearTyped DEF Whats
  <1>2. e \in Seq(Units) /\ Len(e) = 1 + p /\ e[1] = [what |-> <<"sync", p>>, key |-> 1]
    BY MagicIs, Zenon
  <1>w. wire = a \o e
    OBVIOUS
  <1> HIDE DEF a, e
  <1>3. a \o e \in Seq(Units) /\ Len(a \o e) = Len(a) + Len(e) /\ \A i \in 1..Len(e) : (a \o e)[Len(a) + i] = e[i]
    <2>1. a \in Seq(Units) /\ e \in Seq(Units)
      BY <1>1, <1>2, SMTT(30)
    <2> QED
      BY <2>1, ConcatIs
  <1> DEFINE w == a \o e
  <1>4. w \in Seq(Units) /\ Len(w) = 2 + p /\ w[1 + 1] = e[1]
    <2>1. 1 \in 1..Len(e)
      BY <1>2
    <2>2. (a \o e)[Len(a) + 1] = e[1]
      BY <1>3, <2>1, Zenon
    <2> QED
      BY <1>1, <1>2, <1>3, <2>2
  <1> HIDE DEF w
  <1>5. SubSeq(w, 1 + 2 + p, Len(w)) = <<>>
    BY <1>4, SMTT(30)
  <1> QED
    BY <1>2, <1>4, <1>5, <1>w, Zenon DEF w

\* The acceptor reads the request and answers: its cipher stands where the
\* dialler's does, and the answer is what the dialler waits for.
LEMMA AnswerKeeps ==
    ASSUME StreamInv, NEW pads \in 0..PtMaxPad, PtHello("accept", pads)
    PROVE  StreamInv'
  <1> DEFINE wire == ptWire["accept"]
             e == Enciphered(Magic(pads), 0)
  <1>t. Typed
    BY SMTT(30) DEF StreamInv
  <1>n. ptAt["accept"] = "hello" /\ HelloAccept
    BY Zenon DEF PtHello, StreamInv
  <1>1. PICK p \in 0..PtMaxPad :
            ptTx["dial"] = 1 + p /\ wire = <<Clear(<<"key", 0>>)>> \o Enciphered(Magic(p), 0)
    BY <1>n, Zenon DEF HelloAccept, Request
  <1>p. p \in Nat /\ pads \in Nat /\ 1 + pads \in Nat /\ 1 + p \in Nat
    BY PtAssumption, SMTT(30)
  <1>2. wire[1 + 1] = [what |-> <<"sync", p>>, key |-> 1] /\ SubSeq(wire, 1 + 2 + p, Len(wire)) = <<>>
    BY <1>1, <1>p, RequestHeader, ZenonT(40)
  <1>3. ptRx["accept"] = 0
    BY <1>n, Zenon DEF HelloAccept, Unread
  <1> DEFINE sync == wire[1 + 1].what
  <1>4. sync = <<"sync", p>> /\ sync[1] = "sync" /\ sync[2] = p /\ wire[1 + 1].key = 0 + 1
    BY <1>2
  <1> HIDE DEF wire, e, sync
  <1>5. /\ ptAt' = [ptAt EXCEPT !["accept"] = "ready"]
        /\ ptRx' = [ptRx EXCEPT !["accept"] = AfterMagic(@, sync[2])]
        /\ ptWire' = [ptWire EXCEPT !["accept"] = SubSeq(wire, 1 + 2 + sync[2], Len(wire)), !["dial"] = e]
        /\ ptTx' = [ptTx EXCEPT !["accept"] = 1 + pads]
        /\ UNCHANGED <<ptMode, ptPre, ptBuf, ptSent, ptGot, ptTorn, ptTimeouts>>
    BY <1>3, <1>4, ZenonT(40) DEF PtHello, wire, e, sync
  <1>6. e \in Seq(Units) /\ Len(e) = 1 + pads /\ e[1] = [what |-> <<"sync", pads>>, key |-> 1]
    BY <1>p, MagicIs, Zenon DEF e
  <1>7. ptWire' = [ptWire EXCEPT !["accept"] = <<>>, !["dial"] = e]
    BY <1>2, <1>4, <1>5, ZenonT(40)
  <1>8. ptRx' = [ptRx EXCEPT !["accept"] = 1 + p]
    BY <1>3, <1>4, <1>5, <1>p, SMTT(30) DEF AfterMagic
  <1>9. /\ ptAt'["accept"] = "ready" /\ ptAt'["dial"] = ptAt["dial"] /\ ptRx'["accept"] = 1 + p
        /\ ptRx'["dial"] = ptRx["dial"] /\ ptWire'["accept"] = <<>> /\ ptWire'["dial"] = e
        /\ ptTx'["accept"] = 1 + pads /\ ptTx'["dial"] = 1 + p
    BY <1>1, <1>5, <1>7, <1>8, <1>t, Zenon DEF Typed, Sides
  <1>10. Typed'
    <2>1. /\ ptAt' \in [Sides -> {"new", "hello", "ready", "failed"}]
          /\ ptRx' \in [Sides -> Nat] /\ ptTx' \in [Sides -> Nat]
      BY <1>5, <1>8, <1>p, <1>t, ZenonT(40) DEF Typed
    <2>2. ptWire' \in [Sides -> Seq(Units)]
      <3>1. <<>> \in Seq(Units)
        OBVIOUS
      <3> QED
        BY <1>6, <1>7, <3>1, <1>t, Zenon DEF Typed
    <2>3. \A s \in Sides : ptMode[s] = "obfuscated" => 3 * ptSent[s] <= ptTx'[s]
      BY <1>9, <1>n, <1>p DEF HelloAccept, Sides
    <2> QED
      BY <1>5, <1>t, <2>1, <2>2, <2>3, Zenon DEF Typed
  <1>11. Ready("accept")'
    <2>1. /\ ptMode["accept"] = "obfuscated" /\ ptMode["dial"] = "obfuscated" /\ ptSent["dial"] = 0
          /\ ptBuf["accept"] = <<>> /\ ptPre["accept"] = <<>> /\ Len(ptGot["accept"]) = 0
      BY <1>n, Zenon DEF HelloAccept, Unread
    <2>2. InStep(<<>>, <<>>, <<>>, 1 + p, 0, "obfuscated", 0, 1 + p)
      <3> DEFINE x == 1 + p
      <3>1. x \in Nat /\ x = x - 3 * 0 /\ "obfuscated" \in Modes /\ 0 \in Nat
        BY <1>p DEF Modes
      <3> HIDE DEF x
      <3>2. Holds(<<>>, 0, 0, 0, "obfuscated", x)
        BY EmptyHolds, Zenon
      <3>3. InStep(<<>>, <<>>, <<>>, x, 0, "obfuscated", 0, x)
        BY <3>1, <3>2, FreshInStep, ZenonT(40)
      <3> QED
        BY <3>3, Zenon DEF x
    <2> QED
      BY <1>5, <1>9, <2>1, <2>2, Zenon DEF Ready, Other
  <1>12. ptAt["dial"] = "hello" => HelloDial'
    <2> SUFFICES ASSUME ptAt["dial"] = "hello" PROVE HelloDial'
      BY SMTT(30)
    <2>1. Unread("dial")'
      <3>1. HelloDial
        BY SMTT(30) DEF StreamInv
      <3> QED
        BY <1>5, <1>9, <3>1, SMTT(30) DEF HelloDial, Unread
    <2>2. Answer'
      <3>1. ptSent'["accept"] = 0 /\ ptMode'["accept"] = "obfuscated"
        BY <1>5, <1>n, SMTT(30) DEF HelloAccept
      <3>2. Holds(e, 1 + pads, 0, 0, "obfuscated", 1 + pads)
        BY <1>6, <1>p, SMTT(30) DEF Holds
      <3>3. 1 + pads - 3 * 0 = 1 + pads /\ Len(e) >= 1 + pads
        BY <1>6, <1>p, SMTT(30)
      <3>4. /\ ptTx'["accept"] - 3 * ptSent'["accept"] = 1 + pads
            /\ Len(ptWire'["dial"]) >= 1 + pads
            /\ ptWire'["dial"][1] = [what |-> <<"sync", pads>>, key |-> 1]
            /\ Holds(ptWire'["dial"], 1 + pads, 0, ptSent'["accept"], "obfuscated", ptTx'["accept"])
        <4>1. ptTx'["accept"] - 3 * ptSent'["accept"] = 1 + pads
          BY <1>9, <3>1, <1>p
        <4>2. Len(ptWire'["dial"]) >= 1 + pads
          BY <1>9, <3>3, Zenon
        <4>3. ptWire'["dial"][1] = [what |-> <<"sync", pads>>, key |-> 1]
          BY <1>6, <1>9, Zenon
        <4>4. Holds(ptWire'["dial"], 1 + pads, 0, ptSent'["accept"], "obfuscated", ptTx'["accept"])
          BY <1>9, <3>1, <3>2, Zenon
        <4> QED
          BY <4>1, <4>2, <4>3, <4>4, Zenon
      <3> QED
        BY <3>1, <3>4, SMTT(30) DEF Answer
    <2> QED
      BY <1>5, <1>n, <2>1, <2>2, SMTT(30) DEF HelloDial, HelloAccept
  <1>13. ptAt["dial"] \in {"hello", "failed"}
    BY <1>n, SMTT(30) DEF HelloAccept
  <1>14. FramesWhole'
    BY <1>5, ZenonT(40) DEF StreamInv, FramesWhole
  <1> QED
    BY <1>9, <1>10, <1>11, <1>12, <1>13, <1>14, Zenon DEF StreamInv, Sides

\* The dialler reads the answer: now both ends are in step.
LEMMA ReplyKeeps ==
    ASSUME StreamInv, NEW pads \in 0..PtMaxPad, PtHello("dial", pads)
    PROVE  StreamInv'
  <1> DEFINE wire == ptWire["dial"]
             sync == wire[0 + 1].what
             sent == ptSent["accept"]
             tx == ptTx["accept"]
  <1>t. Typed
    BY SMTT(30) DEF StreamInv
  <1>n. ptAt["dial"] = "hello" /\ HelloDial /\ Len(wire) > 0
    BY Zenon DEF PtHello, StreamInv
  <1>y. wire \in Seq(Units) /\ sent \in Nat /\ tx \in Nat
    BY <1>t, Zenon DEF Typed, Sides
  <1>a. Answer
    BY <1>n, SMTT(30) DEF HelloDial
  <1>1. PICK p \in 0..PtMaxPad :
            /\ tx - 3 * sent = 1 + p
            /\ wire[1] = [what |-> <<"sync", p>>, key |-> 1]
            /\ Holds(wire, 1 + p, 0, sent, "obfuscated", tx)
    BY <1>a, Zenon DEF Answer
  <1>p. p \in Nat /\ 1 + p \in Nat /\ 0 + 1 = 1
    BY PtAssumption, SMTT(30)
  <1>2. ptRx["dial"] = 0 /\ ptBuf["dial"] = <<>> /\ ptPre["dial"] = <<>> /\ ptGot["dial"] = <<>>
    BY <1>n, SMTT(30) DEF HelloDial, Unread
  <1>3. sync = <<"sync", p>> /\ sync[1] = "sync" /\ sync[2] = p /\ wire[0 + 1].key = 0 + 1
    BY <1>1, <1>p
  <1> HIDE DEF wire, sync, sent, tx
  <1>4. /\ ptAt' = [ptAt EXCEPT !["dial"] = "ready"]
        /\ ptRx' = [ptRx EXCEPT !["dial"] = AfterMagic(@, sync[2])]
        /\ ptWire' = [ptWire EXCEPT !["dial"] = SubSeq(wire, 0 + 2 + sync[2], Len(wire))]
        /\ UNCHANGED <<ptTx, ptMode, ptPre, ptBuf, ptSent, ptGot, ptTorn, ptTimeouts>>
    <2>1. "dial" # "accept"
      OBVIOUS
    <2> QED
      BY <1>2, <1>3, <2>1, Zenon DEF PtHello, wire, sync
  <1> DEFINE rest == SubSeq(wire, (1 + p) + 1, Len(wire))
  <1>5. ptWire' = [ptWire EXCEPT !["dial"] = rest]
    <2>1. 0 + 2 + sync[2] = (1 + p) + 1
      BY <1>3, <1>p
    <2> QED
      BY <1>4, <2>1, ZenonT(40)
  <1>6. rest \in Seq(Units) /\ Holds(rest, 0, 0, sent, "obfuscated", tx)
    <2> DEFINE skip == 1 + p
    <2>1. skip \in Nat /\ Holds(wire, skip, 0, sent, "obfuscated", tx) /\ rest = SubSeq(wire, skip + 1, Len(wire))
      BY <1>1, <1>p, Zenon
    <2> HIDE DEF skip, rest
    <2> QED
      BY <1>y, <2>1, HoldsSkip, ZenonT(40)
  <1> HIDE DEF rest
  <1>7. ptRx' = [ptRx EXCEPT !["dial"] = 1 + p]
    BY <1>2, <1>3, <1>4, <1>p, SMTT(30) DEF AfterMagic
  <1>8. /\ ptAt'["dial"] = "ready" /\ ptAt'["accept"] = ptAt["accept"] /\ ptRx'["dial"] = 1 + p
        /\ ptRx'["accept"] = ptRx["accept"] /\ ptWire'["dial"] = rest /\ ptWire'["accept"] = ptWire["accept"]
    BY <1>4, <1>5, <1>7, <1>t, Zenon DEF Typed, Sides
  <1>9. Typed'
    <2>1. ptWire' \in [Sides -> Seq(Units)]
      BY <1>5, <1>6, <1>t, ZenonT(40) DEF Typed
    <2>2. ptRx' \in [Sides -> Nat] /\ ptAt' \in [Sides -> {"new", "hello", "ready", "failed"}]
      BY <1>4, <1>7, <1>p, <1>t, ZenonT(40) DEF Typed
    <2> QED
      BY <1>4, <1>t, <2>1, <2>2, Zenon DEF Typed
  <1>10. Ready("dial")'
    <2>1. ptMode["accept"] = "obfuscated" /\ ptMode["dial"] = "obfuscated" /\ "obfuscated" \in Modes
      BY <1>a, <1>n, Zenon DEF Answer, HelloDial, Modes
    <2> DEFINE x == 1 + p
    <2>2. x \in Nat /\ x = tx - 3 * sent
      BY <1>1, <1>p, Zenon
    <2> HIDE DEF x
    <2>3. InStep(<<>>, <<>>, rest, x, 0, "obfuscated", sent, tx)
      BY <1>y, <1>6, <2>1, <2>2, FreshInStep, Zenon
    <2>4. Len(<<>>) = 0
      BY SMTT(30)
    <2> QED
      BY <1>2, <1>4, <1>8, <2>1, <2>3, <2>4, ZenonT(40) DEF Ready, Other, x, sent, tx
  <1>11. ptAt["accept"] = "ready" => Ready("accept")'
    <2>1. ptAt["accept"] = "ready" => Ready("accept")
      BY SMTT(30) DEF StreamInv, Sides
    <2> QED
      BY <1>4, <1>8, <2>1, Zenon DEF Ready, Other
  <1>12. ptAt["accept"] # "new" /\ ptAt["accept"] # "hello"
    <2>1. ptAt["accept"] # "new"
      BY <1>a, ZenonT(40) DEF StreamInv, NewAccept, Answer
    <2>2. ptAt["accept"] # "hello"
      <3>1. wire # <<>>
        BY <1>n, SMTT(30)
      <3> QED
        BY <3>1, SMTT(30) DEF StreamInv, HelloAccept, wire
    <2> QED
      BY <2>1, <2>2, SMTT(30)
  <1>13. FramesWhole'
    BY <1>4, ZenonT(40) DEF StreamInv, FramesWhole
  <1> QED
    BY <1>8, <1>9, <1>10, <1>11, <1>12, <1>13, SMTT(30) DEF StreamInv, Sides

\* The invariant holds before anyone dials.
LEMMA StreamStart == PtInit => StreamInv
  <1> SUFFICES ASSUME PtInit PROVE StreamInv
    OBVIOUS
  <1>1. \A s \in Sides : /\ ptAt[s] = "new" /\ ptMode[s] = "plain" /\ ptWire[s] = <<>> /\ ptPre[s] = <<>>
                         /\ ptRx[s] = 0 /\ ptTx[s] = 0 /\ ptBuf[s] = <<>> /\ ptSent[s] = 0
                         /\ ptGot[s] = <<>>
    BY SMTT(30) DEF PtInit
  <1>2. "dial" \in Sides /\ "accept" \in Sides
    BY Zenon DEF Sides
  <1>3. Typed
    <2>1. <<>> \in Seq(Units) /\ <<>> \in Seq(Nat) /\ "plain" \in Modes
      BY SMTT(30) DEF Modes
    <2> QED
      BY <2>1, SMTT(30) DEF PtInit, Typed
  <1>4. Unread("dial") /\ Unread("accept")
    BY <1>1, <1>2, ZenonT(40) DEF Unread
  <1>5. NewDial
    BY <1>1, <1>2, <1>4, Zenon DEF NewDial
  <1>6. NewAccept
    <2>1. Holds(<<>>, 0, 0, 0, "plain", 0)
      BY EmptyHolds, Zenon
    <2> QED
      BY <1>1, <1>2, <1>4, <2>1, Zenon DEF NewAccept
  <1>7. FramesWhole
    <2>0. Len(<<>>) = 0
      OBVIOUS
    <2>1. \A s \in Sides : Len(ptGot[s]) = 0
      BY <1>1, <2>0, Zenon
    <2>2. 1..0 = {}
      OBVIOUS
    <2> QED
      BY <2>1, <2>2, Zenon DEF FramesWhole
  <1> QED
    BY <1>1, <1>2, <1>3, <1>5, <1>6, <1>7, ZenonT(40) DEF StreamInv

\* Every step keeps the invariant.
LEMMA StreamStep == StreamInv /\ [PtNext]_ptVars => StreamInv'
  <1> SUFFICES ASSUME StreamInv, [PtNext]_ptVars PROVE StreamInv'
    OBVIOUS
  <1>1. ASSUME NEW local \in BOOLEAN, NEW requests \in BOOLEAN, NEW hash \in BOOLEAN,
               NEW peer \in SUBSET {"supports", "requests", "requires"}, NEW pads \in 0..PtMaxPad,
               NEW opening \in Opening, PtConnect(local, requests, hash, peer, pads, opening)
        PROVE  StreamInv'
    BY <1>1, ConnectKeeps, Zenon
  <1>2. CASE PtAccept
    BY <1>2, AcceptKeeps, Zenon
  <1>3. ASSUME NEW side \in Sides, NEW pads \in 0..PtMaxPad, PtHello(side, pads)
        PROVE  StreamInv'
    <2>1. CASE side = "accept"
      BY <1>3, <2>1, AnswerKeeps, Zenon
    <2>2. CASE side = "dial"
      BY <1>3, <2>2, ReplyKeeps, Zenon
    <2> QED
      BY <2>1, <2>2, Zenon DEF Sides
  <1>4. ASSUME NEW side \in Sides, PtGiveUp(side) \/ PtWrite(side) \/ PtByte(side) \/ PtTimeout(side)
        PROVE  StreamInv'
    BY <1>4, GiveUpKeeps, WriteKeeps, ByteKeeps, TimeoutKeeps, SMTT(30)
  <1>5. CASE UNCHANGED ptVars
    BY <1>5, ZenonT(40) DEF ptVars, StreamInv, Typed, Ready, NewDial, NewAccept, HelloAccept, HelloDial, Answer,
                Unread, Request, FramesWhole
  <1> QED
    BY <1>1, <1>2, <1>3, <1>4, <1>5, Zenon DEF PtNext

\* Both ends of a connection speak the mode the dialler chose, and unless a
\* timeout fell inside a packet each side reads exactly the packets the other
\* wrote, whole and in order, for every amount of padding and any number of
\* packets (connect_outgoing, accept, read_packet, write_packet).
THEOREM StreamsAlwaysAgree == PtSpec => []StreamAgreed
  <1>1. StreamInv => StreamAgreed
    BY Zenon DEF StreamInv, StreamAgreed, ModesAgree, Ready, Sides
  <1> QED
    BY <1>1, StreamStart, StreamStep, PTL DEF PtSpec
=============================================================================
