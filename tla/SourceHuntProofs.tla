-------------------------- MODULE SourceHuntProofs --------------------------
(***************************************************************************)
(* Proofs about the download task that hunts for sources, for any          *)
(* downloads, peers, endpoints, permits and rounds, and any order of       *)
(* dials, callbacks and completions.                                       *)
(*                                                                         *)
(* An endpoint is dialled twice at most because it waits at most once, is  *)
(* dialled at most once at a time, and a second dial is left open only by  *)
(* a source that may be obfuscated (DialledSoundly).  A download with      *)
(* sources fails only in the step that has just looked at the manifest; a  *)
(* hunt has no sources until its first list of them (HuntInv).             *)
(***************************************************************************)
EXTENDS SourceHunt, FiniteSetTheorems, TLAPS

\* What keeps an endpoint to two dials: it waits at most once, as reported or in
\* plaintext, is dialled at most once at a time, and only a source that may be
\* obfuscated leaves a second dial open.
DialledSoundly(pend, act, n, attempted, e) ==
    /\ \A i, j \in DOMAIN pend : pend[i].ep = e /\ pend[j].ep = e => i = j
    /\ \A s, t \in act : s.ep = e /\ t.ep = e => s = t
    /\ \A i \in DOMAIN pend, s \in act : pend[i].ep = e => s.ep # e
    /\ \A i \in DOMAIN pend : pend[i].ep = e => n <= 1 /\ (pend[i].opt = "may" => n = 0)
    /\ \A s \in act : s.ep = e /\ s.opt = "may" => n <= 1
    /\ n <= 2
    /\ e \notin attempted =>
          n = 0 /\ (\A i \in DOMAIN pend : pend[i].ep # e) /\ (\A s \in act : s.ep # e)

\* A finite set is listed without repetition.
LEMMA ListedOnce ==
    ASSUME NEW S, IsFiniteSet(S)
    PROVE  /\ Cardinality(S) \in Nat /\ Listed(S) \in [1..Cardinality(S) -> S]
           /\ \A i, j \in 1..Cardinality(S) : Listed(S)[i] = Listed(S)[j] => i = j
  <1>1. Cardinality(S) \in Nat
    BY FS_CardinalityType, Zenon
  <1>2. PICK n \in Nat : ExistsBijection(1..n, S)
    BY FS_NatBijection, Zenon
  <1>3. Cardinality(S) = n
    BY <1>2, FS_CountingElements, Zenon
  <1>4. PICK q : q \in Bijection(1..n, S)
    BY <1>2, Zenon DEF ExistsBijection
  <1>5. q \in [1..n -> S] /\ \A i, j \in 1..n : q[i] = q[j] => i = j
    BY <1>4, Zenon DEF Bijection, Injection, IsInjective
  <1> QED
    BY <1>1, <1>3, <1>5, Zenon DEF Listed

\* The same, as a sequence.
LEMMA ListedSeq ==
    ASSUME NEW S, IsFiniteSet(S)
    PROVE  /\ Listed(S) \in Seq(S) /\ DOMAIN Listed(S) = 1..Len(Listed(S))
           /\ \A i, j \in DOMAIN Listed(S) : Listed(S)[i] = Listed(S)[j] => i = j
  BY ListedOnce

\* The sources in the order they are dialled: each once.
LEMMA InOrderOnce ==
    ASSUME NEW S, IsFiniteSet(S)
    PROVE  /\ InOrder(S) \in Seq(S)
           /\ \A i, j \in DOMAIN InOrder(S) : InOrder(S)[i] = InOrder(S)[j] => i = j
  <1> DEFINE A == {s \in S : s.opt # "none"}
             B == {s \in S : s.opt = "none"}
             a == Listed(A)
             b == Listed(B)
  <1>1. IsFiniteSet(A) /\ IsFiniteSet(B)
    BY FS_Subset, Zenon
  <1>2. /\ a \in Seq(A) /\ \A i, j \in DOMAIN a : a[i] = a[j] => i = j
        /\ b \in Seq(B) /\ \A i, j \in DOMAIN b : b[i] = b[j] => i = j
    BY <1>1, ListedSeq
  <1>3. InOrder(S) = a \o b
    BY Zenon DEF InOrder
  <1>4. A \subseteq S /\ B \subseteq S /\ \A s \in A, t \in B : s # t
    OBVIOUS
  <1> HIDE DEF a, b, A, B
  <1>5. a \in Seq(S) /\ b \in Seq(S)
    BY <1>2, <1>4
  <1>6. a \o b \in Seq(S) /\ Len(a \o b) = Len(a) + Len(b)
    BY <1>5
  <1>7. \A i \in 1..Len(a \o b) : (a \o b)[i] = IF i <= Len(a) THEN a[i] ELSE b[i - Len(a)]
    BY <1>5
  <1>8. ASSUME NEW i \in 1..Len(a \o b), NEW j \in 1..Len(a \o b), (a \o b)[i] = (a \o b)[j]
        PROVE  i = j
    <2>1. /\ i <= Len(a) => (a \o b)[i] = a[i] /\ a[i] \in A /\ i \in DOMAIN a
          /\ i > Len(a) => /\ (a \o b)[i] = b[i - Len(a)] /\ b[i - Len(a)] \in B
                           /\ i - Len(a) \in DOMAIN b
      BY <1>2, <1>6, <1>7
    <2>2. /\ j <= Len(a) => (a \o b)[j] = a[j] /\ a[j] \in A /\ j \in DOMAIN a
          /\ j > Len(a) => /\ (a \o b)[j] = b[j - Len(a)] /\ b[j - Len(a)] \in B
                           /\ j - Len(a) \in DOMAIN b
      BY <1>2, <1>6, <1>7
    <2>3. CASE i <= Len(a) /\ j <= Len(a)
      BY <2>1, <2>2, <2>3, <1>2, <1>8, Zenon
    <2>4. CASE i > Len(a) /\ j > Len(a)
      <3>1. b[i - Len(a)] = b[j - Len(a)]
        BY <2>1, <2>2, <2>4, <1>8, Zenon
      <3>2. i - Len(a) = j - Len(a)
        BY <3>1, <2>1, <2>2, <2>4, <1>2, Zenon
      <3> QED
        BY <3>2, <1>5
    <2>5. i <= Len(a) <=> j <= Len(a)
      BY <2>1, <2>2, <1>4, <1>8, <1>5
    <2> QED
      BY <2>3, <2>4, <2>5, <1>5
  <1>9. DOMAIN (a \o b) = 1..Len(a \o b)
    BY <1>6
  <1> QED
    BY <1>3, <1>6, <1>8, <1>9, Zenon

\* The first elements of a sequence are that many at most.
LEMMA PrefixSet ==
    ASSUME NEW S, NEW q \in Seq(S), NEW n \in Nat, n <= Len(q),
           NEW T, \A x \in T : \E i \in 1..n : x = q[i], \A i \in 1..n : q[i] \in T
    PROVE  IsFiniteSet(T) /\ Cardinality(T) <= n /\ T \subseteq S
  <1> DEFINE f == [i \in 1..n |-> q[i]]
  <1>1. IsFiniteSet(1..n) /\ Cardinality(1..n) = n
    BY FS_Interval
  <1>2. f \in Surjection(1..n, T)
    BY Zenon DEF Surjection
  <1>3. T \subseteq S
    OBVIOUS
  <1> HIDE DEF f
  <1>4. IsFiniteSet(T) /\ Cardinality(T) <= Cardinality(1..n)
    BY <1>1, <1>2, FS_Surjection, Zenon
  <1> QED
    BY <1>1, <1>3, <1>4, Zenon

\* What is left of a sequence after its first elements.
LEMMA SuffixSeq ==
    ASSUME NEW S, NEW q \in Seq(S), NEW n \in Nat, n <= Len(q),
           NEW r, r = SubSeq(q, n + 1, Len(q))
    PROVE  /\ r \in Seq(S) /\ Len(r) = Len(q) - n
           /\ \A i \in 1..Len(r) : r[i] = q[n + i]
  OBVIOUS

\* Starting a set of dials adds, for each endpoint, those of the set.
LEMMA DialsCounted ==
    ASSUME NEW dials \in [Endpoints -> Nat], NEW T, IsFiniteSet(T)
    PROVE  /\ Dialled(dials, T) \in [Endpoints -> Nat]
           /\ \A e \in Endpoints :
                 Dialled(dials, T)[e] = dials[e] + Cardinality({s \in T : s.ep = e})
  <1> DEFINE c(e) == Cardinality({s \in T : s.ep = e})
  <1>1. \A e : c(e) \in Nat
    BY FS_Subset, FS_CardinalityType, Zenon
  <1>2. Dialled(dials, T) = [e \in DOMAIN dials |-> dials[e] + c(e)]
    BY Zenon DEF Dialled
  <1> HIDE DEF c
  <1>3. /\ Dialled(dials, T) \in [Endpoints -> Nat]
        /\ \A e \in Endpoints : Dialled(dials, T)[e] = dials[e] + c(e)
    BY <1>1, <1>2
  <1> QED
    BY <1>3, Zenon DEF c

\* An endpoint whose source is among the n that are dialled now.
LEMMA DialledNow ==
    ASSUME NEW pend \in Seq(Sources), NEW act, NEW m \in Nat, NEW attempted, NEW e,
           DialledSoundly(pend, act, m, attempted, e),
           NEW n \in Nat, n <= Len(pend), NEW i \in 1..n, pend[i].ep = e,
           NEW rest \in Seq(Sources), Len(rest) = Len(pend) - n,
           \A j \in 1..Len(rest) : rest[j] = pend[n + j],
           NEW started, \A s \in started : \E j \in 1..n : s = pend[j]
    PROVE  DialledSoundly(rest, act \cup started, m + 1, attempted, e)
  <1>1. DOMAIN pend = 1..Len(pend) /\ DOMAIN rest = 1..Len(rest) /\ i \in DOMAIN pend
    OBVIOUS
  <1>2. \A j \in DOMAIN pend : pend[j].ep = e => j = i
    BY <1>1, Zenon DEF DialledSoundly
  <1>3. \A j \in DOMAIN rest : rest[j].ep # e
    <2> SUFFICES ASSUME NEW j \in DOMAIN rest, rest[j].ep = e PROVE FALSE
      OBVIOUS
    <2>1. n + j \in DOMAIN pend /\ rest[j] = pend[n + j] /\ n + j # i
      BY <1>1
    <2> QED
      BY <2>1, <1>2, Zenon
  <1>4. \A s \in act : s.ep # e
    BY <1>1, Zenon DEF DialledSoundly
  <1>5. ASSUME NEW s \in started, s.ep = e PROVE s = pend[i]
    <2>1. PICK j \in 1..n : s = pend[j]
      OBVIOUS
    <2>2. j \in DOMAIN pend
      BY <1>1
    <2> QED
      BY <2>1, <2>2, <1>2, <1>5, Zenon
  <1>6. m <= 1 /\ (pend[i].opt = "may" => m = 0) /\ e \in attempted
    BY <1>1 DEF DialledSoundly
  <1> QED
    BY <1>3, <1>4, <1>5, <1>6 DEF DialledSoundly

\* An endpoint whose source, if any, goes on waiting.
LEMMA DialledLater ==
    ASSUME NEW pend \in Seq(Sources), NEW act, NEW m \in Nat, NEW attempted, NEW e,
           DialledSoundly(pend, act, m, attempted, e),
           NEW n \in Nat, n <= Len(pend), \A i \in 1..n : pend[i].ep # e,
           NEW rest \in Seq(Sources), Len(rest) = Len(pend) - n,
           \A j \in 1..Len(rest) : rest[j] = pend[n + j],
           NEW started, \A s \in started : \E j \in 1..n : s = pend[j]
    PROVE  DialledSoundly(rest, act \cup started, m, attempted, e)
  <1>1. \A s \in started : s.ep # e
    OBVIOUS
  <1>2. \A j \in DOMAIN rest : n + j \in DOMAIN pend /\ rest[j] = pend[n + j]
    OBVIOUS
  <1>3. \A i, j \in DOMAIN rest : rest[i].ep = e /\ rest[j].ep = e => i = j
    <2> SUFFICES ASSUME NEW i \in DOMAIN rest, NEW j \in DOMAIN rest,
                        rest[i].ep = e, rest[j].ep = e
                 PROVE  i = j
      OBVIOUS
    <2>1. n + i = n + j
      BY <1>2 DEF DialledSoundly
    <2> QED
      BY <2>1
  <1>4. \A s \in act \cup started : s.ep = e => s \in act
    BY <1>1, Zenon
  <1> QED
    BY <1>2, <1>3, <1>4 DEF DialledSoundly

\* What filling the free places does to the waiting sources, to the dialled ones
\* and to the counts.
LEMMA Filled ==
    ASSUME NEW pend \in Seq(Sources), NEW act \in SUBSET Sources, IsFiniteSet(act),
           Cardinality(act) <= ShParallel, NEW dials \in [Endpoints -> Nat],
           NEW n \in Nat, n <= Len(pend), n <= ShParallel - Cardinality(act)
    PROVE  LET started == {pend[i] : i \in 1..n}
               rest == SubSeq(pend, n + 1, Len(pend))
           IN /\ rest \in Seq(Sources) /\ act \cup started \in SUBSET Sources
              /\ IsFiniteSet(act \cup started) /\ Cardinality(act \cup started) <= ShParallel
              /\ Dialled(dials, started) \in [Endpoints -> Nat]
              /\ \A attempted : \A e \in Endpoints :
                    DialledSoundly(pend, act, dials[e], attempted, e) =>
                        DialledSoundly(rest, act \cup started, Dialled(dials, started)[e],
                                       attempted, e)
  <1> DEFINE started == {pend[i] : i \in 1..n}
             rest == SubSeq(pend, n + 1, Len(pend))
  <1>1. Cardinality(act) \in Nat
    BY FS_CardinalityType, Zenon
  <1>2. n \in Nat /\ n <= Len(pend) /\ n <= ShParallel - Cardinality(act)
    OBVIOUS
  <1>5. /\ \A s \in started : \E j \in 1..n : s = pend[j]
        /\ \A j \in 1..n : pend[j] \in started
    OBVIOUS
  <1>a. rest = SubSeq(pend, n + 1, Len(pend))
    OBVIOUS
  <1> HIDE DEF started, rest
  <1>3. /\ rest \in Seq(Sources) /\ Len(rest) = Len(pend) - n
        /\ \A i \in 1..Len(rest) : rest[i] = pend[n + i]
    BY <1>2, <1>a, SuffixSeq
  <1>4. IsFiniteSet(started) /\ Cardinality(started) <= n /\ started \subseteq Sources
    BY <1>2, <1>5, PrefixSet, Zenon
  <1>6. /\ IsFiniteSet(act \cup started)
        /\ Cardinality(act \cup started) <= ShParallel
    <2>1. /\ IsFiniteSet(act \cup started) /\ IsFiniteSet(act \cap started)
          /\ Cardinality(act \cup started)
               = Cardinality(act) + Cardinality(started) - Cardinality(act \cap started)
      BY <1>4, FS_Union, FS_Intersection
    <2>2. Cardinality(act \cap started) \in Nat /\ Cardinality(started) \in Nat
      BY <2>1, <1>4, FS_CardinalityType, Zenon
    <2> QED
      BY <2>1, <2>2, <1>1, <1>2, <1>4, ShAssumption
  <1>8. /\ Dialled(dials, started) \in [Endpoints -> Nat]
        /\ \A e \in Endpoints :
              Dialled(dials, started)[e] = dials[e] + Cardinality({s \in started : s.ep = e})
    BY <1>4, DialsCounted
  <1>9. ASSUME NEW attempted, NEW e \in Endpoints,
               DialledSoundly(pend, act, dials[e], attempted, e)
        PROVE  DialledSoundly(rest, act \cup started, Dialled(dials, started)[e], attempted, e)
    <2>0. dials[e] \in Nat
      OBVIOUS
    <2>1. ASSUME NEW i \in 1..n, pend[i].ep = e
          PROVE  DialledSoundly(rest, act \cup started, Dialled(dials, started)[e], attempted, e)
      <3>1. \A j \in 1..n : pend[j].ep = e => j = i
        BY <1>2, <1>9, <2>1 DEF DialledSoundly
      <3>2. {s \in started : s.ep = e} = {pend[i]}
        BY <1>5, <2>1, <3>1, Zenon
      <3>3. Dialled(dials, started)[e] = dials[e] + 1
        BY <3>2, <1>8, FS_Singleton
      <3>4. DialledSoundly(rest, act \cup started, dials[e] + 1, attempted, e)
        BY <2>0, <2>1, <1>2, <1>3, <1>5, <1>9, DialledNow, Zenon
      <3> QED
        BY <3>3, <3>4, Zenon
    <2>2. CASE \A i \in 1..n : pend[i].ep # e
      <3>1. {s \in started : s.ep = e} = {}
        BY <1>5, <2>2, Zenon
      <3>2. Dialled(dials, started)[e] = dials[e]
        BY <3>1, <1>8, <2>0, FS_EmptySet
      <3> QED
        BY <3>2, <2>0, <2>2, <1>2, <1>3, <1>5, <1>9, DialledLater, Zenon
    <2> QED
      BY <2>1, <2>2
  <1>10. act \cup started \in SUBSET Sources
    BY <1>4, Zenon
  <1> QED
    BY <1>3, <1>6, <1>8, <1>9, <1>10 DEF started, rest

HuntFields == DOMAIN NoHunt
Unsourced == {"acquire", "sources"}

\* The locals of a hunt: it is without sources until the first list of them is
\* there, has its places, and every endpoint but a loopback one is dialled soundly.
Wellmade(u) ==
    /\ DOMAIN u = HuntFields
    /\ u.given \subseteq ShSources /\ u.src \subseteq ShSources /\ u.sized \in BOOLEAN
    /\ u.at \in Unsourced => u.src = {}
    /\ u.pend \in Seq(Sources) /\ u.act \in SUBSET Sources
    /\ IsFiniteSet(u.act) /\ Cardinality(u.act) <= ShParallel
    /\ u.run \in SUBSET Sources /\ IsFiniteSet(u.run)
    /\ u.dials \in [Endpoints -> Nat]
    /\ \A e \in Endpoints \ ShLoopback :
          DialledSoundly(u.pend, u.act, u.dials[e], u.attempted, e)

HuntInv ==
    /\ DOMAIN shHunt = ShHashes /\ DOMAIN shOut = ShHashes
    /\ \A h \in ShHashes : Wellmade(shHunt[h])

\* The fields of a hunt.
LEMMA Fields ==
    HuntFields = {"at", "given", "sized", "src", "attempted", "asked", "had", "round", "pend",
                  "act", "run", "accepted", "refused", "retry", "dials"}
  BY Zenon DEF HuntFields, NoHunt, NewHunt

\* A hunt that just began.
LEMMA NewWellmade ==
    ASSUME NEW given \in SUBSET ShSources, NEW sized \in BOOLEAN
    PROVE  Wellmade(NewHunt(given, sized))
  <1> DEFINE u == NewHunt(given, sized)
  <1>1. /\ DOMAIN u = HuntFields /\ u.given = given /\ u.src = {} /\ u.sized = sized
        /\ u.pend = <<>> /\ u.act = {} /\ u.run = {}
        /\ u.dials = [e \in Endpoints |-> 0]
    BY Zenon DEF NewHunt, HuntFields, NoHunt
  <1>2. IsFiniteSet({}) /\ Cardinality({}) = 0
    BY FS_EmptySet, Zenon
  <1>3. \A e \in Endpoints : DialledSoundly(<<>>, {}, 0, u.attempted, e)
    BY DEF DialledSoundly
  <1> HIDE DEF u
  <1>4. u.dials \in [Endpoints -> Nat] /\ \A e \in Endpoints : u.dials[e] = 0
    BY <1>1
  <1> QED
    BY <1>1, <1>2, <1>3, <1>4, ShAssumption DEF Wellmade, u

\* A hunt that goes on elsewhere, perhaps with more sources.
LEMMA Moved ==
    ASSUME NEW u, Wellmade(u), NEW v, DOMAIN v = HuntFields,
           v.given = u.given, v.sized = u.sized, v.pend = u.pend, v.act = u.act, v.run = u.run,
           v.dials = u.dials, v.attempted = u.attempted, v.src \subseteq ShSources,
           v.at \in Unsourced => v.src = {}
    PROVE  Wellmade(v)
  BY Zenon DEF Wellmade

\* Free slots are filled from the front of the pending sources.
LEMMA FillKeeps ==
    ASSUME NEW u, Wellmade(u), u.at \notin Unsourced
    PROVE  Wellmade(Fill(u)) /\ Fill(u).at = u.at
  <1> DEFINE room == ShParallel - Cardinality(u.act)
             n == IF room < Len(u.pend) THEN room ELSE Len(u.pend)
             started == {u.pend[i] : i \in 1..n}
             rest == SubSeq(u.pend, n + 1, Len(u.pend))
             v == [u EXCEPT !.pend = SubSeq(@, n + 1, Len(@)), !.act = @ \cup started,
                            !.dials = Dialled(@, started)]
  <1>1. Fill(u) = v
    BY Zenon DEF Fill
  <1>2. Cardinality(u.act) \in Nat /\ Cardinality(u.act) <= ShParallel
    BY FS_CardinalityType, Zenon DEF Wellmade
  <1>3. n \in Nat /\ n <= Len(u.pend) /\ n <= ShParallel - Cardinality(u.act)
    BY <1>2, ShAssumption DEF Wellmade
  <1>4. /\ DOMAIN v = HuntFields /\ v.pend = rest /\ v.act = u.act \cup started
        /\ v.dials = Dialled(u.dials, started) /\ v.at = u.at /\ v.given = u.given
        /\ v.src = u.src /\ v.sized = u.sized /\ v.run = u.run /\ v.attempted = u.attempted
    BY Fields DEF Wellmade
  <1> HIDE DEF v, n
  <1>5. /\ rest \in Seq(Sources) /\ u.act \cup started \in SUBSET Sources
        /\ IsFiniteSet(u.act \cup started) /\ Cardinality(u.act \cup started) <= ShParallel
        /\ Dialled(u.dials, started) \in [Endpoints -> Nat]
        /\ \A attempted : \A e \in Endpoints :
              DialledSoundly(u.pend, u.act, u.dials[e], attempted, e) =>
                  DialledSoundly(rest, u.act \cup started, Dialled(u.dials, started)[e],
                                 attempted, e)
    BY <1>3, Filled DEF Wellmade
  <1> HIDE DEF started, rest
  <1> QED
    BY <1>1, <1>4, <1>5 DEF Wellmade

\* A run over sources of which at most one is at an endpoint, and none at an
\* endpoint dialled before.
LEMMA RunWellmade ==
    ASSUME NEW u, Wellmade(u), NEW sources \in SUBSET Sources, IsFiniteSet(sources),
           \A e \in Endpoints \ ShLoopback : \A s, t \in sources :
               s.ep = e /\ t.ep = e => s = t /\ u.dials[e] = 0 /\ e \in u.attempted
    PROVE  Wellmade(Run(u, sources))
  <1> DEFINE pend == InOrder(sources)
             v == [u EXCEPT !.at = "direct", !.pend = pend, !.act = {},
                            !.run = sources, !.accepted = 0, !.refused = FALSE]
  <1>1. Run(u, sources) = Fill(v)
    BY Zenon DEF Run
  <1>2. /\ DOMAIN v = HuntFields /\ v.pend = pend /\ v.act = {} /\ v.run = sources
        /\ v.dials = u.dials /\ v.at = "direct" /\ v.given = u.given
        /\ v.src = u.src /\ v.sized = u.sized /\ v.attempted = u.attempted
    BY Fields, Zenon DEF Wellmade
  <1>3. /\ pend \in Seq(sources)
        /\ \A i, j \in DOMAIN pend : pend[i] = pend[j] => i = j
    BY InOrderOnce, Zenon
  <1> HIDE DEF pend, v
  <1>4. pend \in Seq(Sources) /\ \A i \in DOMAIN pend : pend[i] \in sources
    BY <1>3
  <1>5. IsFiniteSet({}) /\ Cardinality({}) = 0
    BY FS_EmptySet, Zenon
  <1>6. ASSUME NEW e \in Endpoints \ ShLoopback
        PROVE  DialledSoundly(pend, {}, u.dials[e], u.attempted, e)
    <2>1. /\ u.dials[e] \in Nat /\ u.dials[e] <= 2
          /\ e \notin u.attempted => u.dials[e] = 0
      BY Zenon DEF Wellmade, DialledSoundly
    <2>2. \A i \in DOMAIN pend : pend[i].ep = e => u.dials[e] = 0 /\ e \in u.attempted
      BY <1>4, Zenon
    <2>3. \A i, j \in DOMAIN pend : pend[i].ep = e /\ pend[j].ep = e => i = j
      BY <1>3, <1>4
    <2> QED
      BY <2>1, <2>2, <2>3 DEF DialledSoundly
  <1>7. Wellmade(v)
    BY <1>2, <1>4, <1>5, <1>6, ShAssumption DEF Wellmade, Unsourced
  <1> QED
    BY <1>1, <1>2, <1>7, FillKeeps, Zenon DEF Unsourced

\* What follows when nothing is left to dial or to wait for.
LEMMA SettleWellmade ==
    ASSUME NEW u, Wellmade(u)
    PROVE  Wellmade(Settle(u))
  <1> DEFINE v == [u EXCEPT !.at = "requery", !.run = {}]
             w == [u EXCEPT !.retry = @ + 1]
  <1>1. /\ DOMAIN v = HuntFields /\ v.pend = u.pend /\ v.act = u.act /\ v.run = {}
        /\ v.dials = u.dials /\ v.at = "requery" /\ v.given = u.given
        /\ v.src = u.src /\ v.sized = u.sized /\ v.attempted = u.attempted
    BY Fields, Zenon DEF Wellmade
  <1>2. /\ DOMAIN w = HuntFields /\ w.pend = u.pend /\ w.act = u.act /\ w.run = u.run
        /\ w.dials = u.dials /\ w.at = u.at /\ w.given = u.given
        /\ w.src = u.src /\ w.sized = u.sized /\ w.attempted = u.attempted
    BY Fields, Zenon DEF Wellmade
  <1>3. \/ Settle(u) = v
        \/ {s.ep : s \in u.run} \subseteq ShLoopback /\ Settle(u) = Run(w, u.run)
    BY Zenon DEF Settle
  <1> HIDE DEF v, w
  <1>4. IsFiniteSet({})
    BY FS_EmptySet, Zenon
  <1>5. Wellmade(v)
    BY <1>1, <1>4, Zenon DEF Wellmade, Unsourced
  <1>6. Wellmade(w)
    BY <1>2, Zenon DEF Wellmade
  <1>7. {s.ep : s \in u.run} \subseteq ShLoopback => Wellmade(Run(w, u.run))
    <2> SUFFICES ASSUME {s.ep : s \in u.run} \subseteq ShLoopback PROVE Wellmade(Run(w, u.run))
      OBVIOUS
    <2>1. \A e \in Endpoints \ ShLoopback : \A s \in u.run : s.ep # e
      OBVIOUS
    <2>2. u.run \in SUBSET Sources /\ IsFiniteSet(u.run)
      BY Zenon DEF Wellmade
    <2> QED
      BY <1>6, <2>1, <2>2, RunWellmade, Zenon
  <1> QED
    BY <1>3, <1>5, <1>7, Zenon

\* direct_download_candidate_sources: one source for each endpoint not dialled yet.
LEMMA CandidatesOnce ==
    ASSUME NEW src \in SUBSET ShSources, NEW attempted
    PROVE  /\ Candidate(src, attempted) \in SUBSET Sources
           /\ IsFiniteSet(Candidate(src, attempted))
           /\ \A s \in Candidate(src, attempted) : s.ep \notin attempted
           /\ \A s, t \in Candidate(src, attempted) : s.ep = t.ep => s = t
  <1> DEFINE D == Dialable(src, attempted)
             pick(e) == CHOOSE s \in D : s.ep = e
             C == {pick(e) : e \in {s.ep : s \in D}}
  <1>1. Candidate(src, attempted) = C
    BY Zenon DEF Candidate
  <1>2. D \subseteq src /\ \A s \in D : s.ep \notin attempted
    BY Zenon DEF Dialable
  <1> HIDE DEF D
  <1>3. \A e \in {s.ep : s \in D} : pick(e) \in D /\ pick(e).ep = e
    OBVIOUS
  <1> HIDE DEF pick
  <1>4. C \subseteq D /\ \A s, t \in C : s.ep = t.ep => s = t
    BY <1>3, Zenon
  <1> HIDE DEF C
  <1>5. C \subseteq ShSources
    BY <1>2, <1>4, Zenon
  <1>6. IsFiniteSet(C)
    BY <1>5, ShAssumption, FS_Subset, Zenon
  <1> QED
    BY <1>1, <1>2, <1>4, <1>5, <1>6, ShAssumption, Zenon

\* What the searches report are sources anyone may report.
LEMMA ReportsKnown ==
    ASSUME NEW sized \in BOOLEAN, NEW found \in Reports[sized]
    PROVE  found \in SUBSET ShSources
  <1>1. \A x \in AtMostOne : x \subseteq ShSources
    BY Zenon DEF AtMostOne
  <1>2. PICK q \in AtMostOne \X AtMostOne \X AtMostOne \X AtMostOne :
           found = Sourced(sized, q[1], q[2], q[3], q[4])
    BY Zenon DEF Reports
  <1>3. q[1] \subseteq ShSources /\ q[2] \subseteq ShSources /\ q[3] \subseteq ShSources /\ q[4] \subseteq ShSources
    BY <1>1, Zenon
  <1> QED
    BY <1>2, <1>3, Zenon DEF Sourced, Supplemented, ServerSources

\* A session that ends frees its place and may leave its source to be dialled
\* once more, in plaintext.
LEMMA FellBack ==
    ASSUME NEW pend \in Seq(Sources), NEW act \in SUBSET Sources, NEW s \in act, NEW q,
           q = pend \/ q = Fallback(s) \o pend
    PROVE  /\ q \in Seq(Sources)
           /\ \A n, attempted, e :
                 DialledSoundly(pend, act, n, attempted, e) =>
                     DialledSoundly(q, act \ {s}, n, attempted, e)
  <1> DEFINE t == [s EXCEPT !.opt = "none"]
  <1>1. s \in Sources /\ t \in Sources /\ t.ep = s.ep /\ t.opt = "none"
    BY Zenon DEF Sources
  <1> HIDE DEF t
  <1>2. CASE q = pend
    BY <1>2 DEF DialledSoundly
  <1>3. CASE s.opt = "may" /\ q = <<t>> \o pend
    <2>1. /\ q \in Seq(Sources) /\ Len(q) = Len(pend) + 1 /\ DOMAIN q = 1..Len(q) /\ q[1] = t
          /\ \A i \in 2..Len(q) : q[i] = pend[i - 1] /\ i - 1 \in DOMAIN pend
      BY <1>1, <1>3
    <2>2. ASSUME NEW n, NEW attempted, NEW e, DialledSoundly(pend, act, n, attempted, e)
          PROVE  DialledSoundly(q, act \ {s}, n, attempted, e)
      <3>1. CASE s.ep = e
        <4>1. \A i \in DOMAIN pend : pend[i].ep # e
          BY <2>2, <3>1, Zenon DEF DialledSoundly
        <4>2. \A x \in act \ {s} : x.ep # e
          BY <2>2, <3>1, Zenon DEF DialledSoundly
        <4>3. \A i \in DOMAIN q : q[i].ep = e => i = 1
          <5>1. \A i \in DOMAIN q : i = 1 \/ i \in 2..Len(q)
            BY <2>1
          <5> QED
            BY <5>1, <2>1, <4>1, Zenon
        <4>4. n <= 1 /\ n <= 2 /\ e \in attempted
          BY <2>2, <3>1, <1>3, Zenon DEF DialledSoundly
        <4> QED
          BY <4>2, <4>3, <4>4, <2>1, <1>1, Zenon DEF DialledSoundly
      <3>2. CASE s.ep # e
        <4>1. \A i \in DOMAIN q : q[i].ep = e => i \in 2..Len(q)
          BY <2>1, <1>1, <3>2
        <4>2. \A i, j \in DOMAIN q : q[i].ep = e /\ q[j].ep = e => i = j
          <5> SUFFICES ASSUME NEW i \in 2..Len(q), NEW j \in 2..Len(q), q[i].ep = e, q[j].ep = e
                       PROVE  i = j
            BY <4>1, Zenon
          <5>1. \A k, l \in DOMAIN pend : pend[k].ep = e /\ pend[l].ep = e => k = l
            BY <2>2, Zenon DEF DialledSoundly
          <5>2. /\ i - 1 \in DOMAIN pend /\ pend[i - 1].ep = e
                /\ j - 1 \in DOMAIN pend /\ pend[j - 1].ep = e
            BY <2>1, Zenon
          <5>3. i - 1 = j - 1
            BY <5>1, <5>2, Zenon
          <5> QED
            BY <5>3
        <4>3. \A i \in DOMAIN q : q[i].ep = e => \E j \in DOMAIN pend : q[i] = pend[j]
          BY <4>1, <2>1, Zenon
        <4> QED
          BY <4>2, <4>3, <2>2, Zenon DEF DialledSoundly
      <3> QED
        BY <3>1, <3>2, Zenon
    <2> QED
      BY <2>1, <2>2
  <1>4. CASE q = <<>> \o pend
    <2>1. q = pend
      BY <1>4
    <2> QED
      BY <2>1, <1>2
  <1> QED
    BY <1>2, <1>3, <1>4 DEF Fallback, t

\* Replacing the locals of one hunt.
LEMMA HuntReplaced ==
    ASSUME HuntInv, NEW h \in ShHashes, NEW u, Wellmade(u), shHunt' = [shHunt EXCEPT ![h] = u],
           DOMAIN shOut' = ShHashes
    PROVE  HuntInv'
  BY Zenon DEF HuntInv

\* No outcome of this step fails a complete file that had sources.
SoundStep == \A h \in ShHashes :
    shOut'[h] = "err" /\ shOut[h] # "err" /\ shHunt[h].src # {} => shFile[h] # "done"

\* A hunt ends.
LEMMA EndKeeps ==
    ASSUME HuntInv, NEW h \in ShHashes, NEW out, NEW file, End(h, out, file),
           out = "err" => shHunt[h].src = {} \/ shFile[h] # "done"
    PROVE  HuntInv' /\ SoundStep
  <1>1. Wellmade(NoHunt)
    BY NewWellmade DEF NoHunt
  <1>2. DOMAIN shOut' = ShHashes /\ shHunt' = [shHunt EXCEPT ![h] = NoHunt]
    BY Zenon DEF End, HuntInv
  <1>3. HuntInv'
    BY <1>1, <1>2, HuntReplaced
  <1>4. SoundStep
    BY Zenon DEF SoundStep, End, HuntInv
  <1> QED
    BY <1>3, <1>4, Zenon

\* One hunt moves, the others stay.
LEMMA GoesKeeps ==
    ASSUME HuntInv, NEW h \in ShHashes, NEW u, Wellmade(u), Goes(h, u)
    PROVE  HuntInv' /\ SoundStep
  <1>1. HuntInv'
    BY HuntReplaced, Zenon DEF Goes, HuntInv
  <1> QED
    BY <1>1, Zenon DEF SoundStep, Goes

\* A round of sources is joined to the pending ones, each endpoint once.
LEMMA RoundKeeps ==
    ASSUME HuntInv, NEW h \in ShHashes, ShRound(h)
    PROVE  HuntInv' /\ SoundStep
  <1> DEFINE u == shHunt[h]
             low == {s \in u.src : s.low}
             direct == Candidate(u.src, u.attempted)
             v == [u EXCEPT !.asked = @ \cup low, !.had = @ \/ direct # {},
                            !.attempted = @ \cup {s.ep : s \in direct}]
             x == [v EXCEPT !.at = "requery"]
             y == [v EXCEPT !.retry = 0]
  <1>1. Goes(h, IF direct = {} THEN x ELSE Run(y, direct)) /\ u.at = "round"
    BY Zenon DEF ShRound
  <1>2. Wellmade(u)
    BY Zenon DEF HuntInv
  <1>3. /\ direct \in SUBSET Sources /\ IsFiniteSet(direct)
        /\ \A s \in direct : s.ep \notin u.attempted
        /\ \A s, t \in direct : s.ep = t.ep => s = t
    BY <1>2, CandidatesOnce DEF Wellmade
  <1> HIDE DEF u, low, direct
  <1>4. /\ DOMAIN v = HuntFields /\ v.pend = u.pend /\ v.act = u.act /\ v.run = u.run
        /\ v.dials = u.dials /\ v.at = u.at /\ v.given = u.given
        /\ v.src = u.src /\ v.sized = u.sized
        /\ v.attempted = u.attempted \cup {s.ep : s \in direct}
    BY <1>2, Fields, Zenon DEF Wellmade
  <1> HIDE DEF v
  <1>5. /\ DOMAIN x = HuntFields /\ x.pend = u.pend /\ x.act = u.act /\ x.run = u.run
        /\ x.dials = u.dials /\ x.at = "requery" /\ x.given = u.given
        /\ x.src = u.src /\ x.sized = u.sized /\ x.attempted = v.attempted
    BY <1>4, Fields, Zenon
  <1>6. /\ DOMAIN y = HuntFields /\ y.pend = u.pend /\ y.act = u.act /\ y.run = u.run
        /\ y.dials = u.dials /\ y.at = "round" /\ y.given = u.given
        /\ y.src = u.src /\ y.sized = u.sized /\ y.attempted = v.attempted
    BY <1>1, <1>4, Fields, Zenon
  <1> HIDE DEF x, y
  <1>7. \A e \in Endpoints \ ShLoopback :
           DialledSoundly(u.pend, u.act, u.dials[e], v.attempted, e)
    BY <1>2, <1>4, Zenon DEF Wellmade, DialledSoundly
  <1>8. Wellmade(x)
    BY <1>2, <1>5, <1>7, Zenon DEF Wellmade, Unsourced
  <1>9. Wellmade(y)
    BY <1>2, <1>6, <1>7, Zenon DEF Wellmade, Unsourced
  <1>10. \A e \in Endpoints \ ShLoopback : \A s, t \in direct :
            s.ep = e /\ t.ep = e => s = t /\ y.dials[e] = 0 /\ e \in y.attempted
    BY <1>2, <1>3, <1>4, <1>6 DEF Wellmade, DialledSoundly
  <1>11. Wellmade(Run(y, direct))
    BY <1>3, <1>9, <1>10, RunWellmade, Zenon
  <1> QED
    BY <1>1, <1>8, <1>11, GoesKeeps, Zenon

\* A dial ended: the file may be complete, or the source is queued again in
\* plaintext.
LEMMA JoinKeeps ==
    ASSUME HuntInv, NEW h \in ShHashes, NEW s, NEW res, NEW wrote, ShJoin(h, s, res, wrote)
    PROVE  HuntInv' /\ SoundStep
  <1> DEFINE u == shHunt[h]
             file == IF res = "completed" THEN [shFile EXCEPT ![h] = "done"]
                     ELSE IF wrote /\ shFile[h] = "new" THEN [shFile EXCEPT ![h] = "some"]
                     ELSE shFile
             q == (IF res \in {"refused", "failed"} THEN Fallback(s) ELSE <<>>) \o u.pend
             left == [u EXCEPT !.act = @ \ {s}, !.accepted = IF res = "accepted" THEN 1 ELSE @,
                               !.refused = @ \/ res = "refused",
                               !.pend = (IF res \in {"refused", "failed"} THEN Fallback(s)
                                         ELSE <<>>) \o @]
             v == Fill(left)
             w == IF v.act = {} THEN Settle(v) ELSE v
  <1>1. \/ End(h, "ok", file)
        \/ shHunt' = [shHunt EXCEPT ![h] = w] /\ UNCHANGED shOut
    BY Zenon DEF ShJoin
  <1>2. Wellmade(u) /\ u.at = "direct" /\ s \in u.act
    BY Zenon DEF HuntInv, ShJoin
  <1> HIDE DEF u, file
  <1>3. /\ DOMAIN left = HuntFields /\ left.pend = q /\ left.act = u.act \ {s} /\ left.run = u.run
        /\ left.dials = u.dials /\ left.at = "direct" /\ left.given = u.given
        /\ left.src = u.src /\ left.sized = u.sized /\ left.attempted = u.attempted
    BY <1>2, Fields, Zenon DEF Wellmade
  <1>4. q = u.pend \/ q = Fallback(s) \o u.pend
    <2>1. q = Fallback(s) \o u.pend \/ q = <<>> \o u.pend
      OBVIOUS
    <2>2. u.pend \in Seq(Sources)
      BY <1>2, Zenon DEF Wellmade
    <2>3. <<>> \o u.pend = u.pend
      BY <2>2
    <2> QED
      BY <2>1, <2>3
  <1> HIDE DEF left, q
  <1>5. /\ q \in Seq(Sources)
        /\ \A n, attempted, e :
              DialledSoundly(u.pend, u.act, n, attempted, e) =>
                  DialledSoundly(q, u.act \ {s}, n, attempted, e)
    BY <1>2, <1>4, FellBack DEF Wellmade
  <1>6. IsFiniteSet(u.act \ {s}) /\ Cardinality(u.act \ {s}) <= ShParallel
    <2>1. /\ IsFiniteSet(u.act \ {s})
          /\ Cardinality(u.act \ {s}) <= Cardinality(u.act)
      BY <1>2, FS_Subset, Zenon DEF Wellmade
    <2>2. Cardinality(u.act) \in Nat /\ Cardinality(u.act \ {s}) \in Nat
      BY <1>2, <2>1, FS_CardinalityType, Zenon DEF Wellmade
    <2> QED
      BY <1>2, <2>1, <2>2, ShAssumption DEF Wellmade
  <1>a. \A e \in Endpoints \ ShLoopback :
           DialledSoundly(q, u.act \ {s}, u.dials[e], u.attempted, e)
    BY <1>2, <1>5 DEF Wellmade
  <1>7. Wellmade(left)
    BY <1>2, <1>3, <1>5, <1>6, <1>a DEF Wellmade, Unsourced
  <1>8. Wellmade(v)
    BY <1>3, <1>7, FillKeeps, Zenon DEF Unsourced
  <1> HIDE DEF v
  <1>9. Wellmade(w)
    BY <1>8, SettleWellmade, Zenon
  <1> HIDE DEF w
  <1>10. CASE End(h, "ok", file)
    BY <1>10, EndKeeps, Zenon
  <1>11. CASE shHunt' = [shHunt EXCEPT ![h] = w] /\ UNCHANGED shOut
    <2>1. HuntInv'
      BY <1>9, <1>11, HuntReplaced, Zenon DEF HuntInv
    <2> QED
      BY <2>1, <1>11, Zenon DEF SoundStep
  <1> QED
    BY <1>1, <1>10, <1>11, Zenon

\* The steps of the task itself.
LEMMA WorkKeeps ==
    ASSUME HuntInv, NEW h \in ShHashes, ShWork(h)
    PROVE  HuntInv' /\ SoundStep
  <1> DEFINE u == shHunt[h]
  <1>0. Wellmade(u) /\ DOMAIN u = HuntFields
    BY Zenon DEF HuntInv, Wellmade
  <1>1. CASE ShGate(h)
    BY <1>1, Zenon DEF ShGate, HuntInv, SoundStep
  <1>2. CASE ShRound(h)
    BY <1>2, RoundKeeps, Zenon
  <1>3. CASE ShRequery(h)
    <2>1. PICK w : /\ Goes(h, w)
                   /\ \/ w = [u EXCEPT !.at = "refresh", !.round = @ + 1]
                      \/ w = [u EXCEPT !.at = "grace"]
      BY <1>3, Zenon DEF ShRequery
    <2> HIDE DEF u
    <2>2. /\ DOMAIN w = HuntFields /\ w.pend = u.pend /\ w.act = u.act /\ w.run = u.run
          /\ w.dials = u.dials /\ w.at \notin Unsourced /\ w.given = u.given
          /\ w.src = u.src /\ w.sized = u.sized /\ w.attempted = u.attempted
      BY <1>0, <2>1, Fields DEF Unsourced
    <2>3. Wellmade(w)
      BY <1>0, <2>2, Moved, Zenon DEF Wellmade
    <2> QED
      BY <2>1, <2>3, GoesKeeps, Zenon
  <1>4. CASE ShLast(h)
    <2>1. \/ End(h, "ok", shFile)
          \/ shFile[h] # "done" /\ End(h, "err", shFile)
      BY <1>4, Zenon DEF ShLast
    <2> QED
      BY <2>1, EndKeeps, Zenon
  <1>5. ASSUME NEW readable \in BOOLEAN, ShCheck(h, readable) PROVE HuntInv' /\ SoundStep
    <2> DEFINE w == [u EXCEPT !.at = "sources"]
    <2>1. End(h, "ok", shFile) \/ (Goes(h, w) /\ u.at = "acquire")
      BY <1>5, Zenon DEF ShCheck
    <2> HIDE DEF u
    <2>2. /\ DOMAIN w = HuntFields /\ w.pend = u.pend /\ w.act = u.act /\ w.run = u.run
          /\ w.dials = u.dials /\ w.given = u.given
          /\ w.src = u.src /\ w.sized = u.sized /\ w.attempted = u.attempted
      BY <1>0, Fields, Zenon
    <2> HIDE DEF w
    <2>3. u.at = "acquire" => Wellmade(w)
      BY <1>0, <2>2, Moved, Zenon DEF Wellmade, Unsourced
    <2> QED
      BY <2>1, <2>3, EndKeeps, GoesKeeps, Zenon
  <1>6. ASSUME NEW found \in Reports[u.sized], NEW failed, ShAcquire(h, found, failed)
        PROVE  HuntInv' /\ SoundStep
    <2> DEFINE src == IF AutoSourced(u) THEN found ELSE u.given
               w == [u EXCEPT !.at = "round", !.src = src]
    <2>1. (End(h, "err", shFile) \/ Goes(h, w)) /\ u.at = "sources"
      BY <1>6, Zenon DEF ShAcquire
    <2>2. src \subseteq ShSources
      BY <1>0, ReportsKnown, Zenon DEF Wellmade
    <2>3. u.src = {}
      BY <1>0, <2>1, Zenon DEF Wellmade, Unsourced
    <2>4. CASE End(h, "err", shFile)
      BY <2>3, <2>4, EndKeeps, Zenon
    <2> HIDE DEF u, src
    <2>5. /\ DOMAIN w = HuntFields /\ w.pend = u.pend /\ w.act = u.act /\ w.run = u.run
          /\ w.dials = u.dials /\ w.at \notin Unsourced /\ w.given = u.given
          /\ w.src = src /\ w.sized = u.sized /\ w.attempted = u.attempted
      BY <1>0, Fields, Zenon DEF Unsourced
    <2> HIDE DEF w
    <2>6. Wellmade(w)
      BY <1>0, <2>2, <2>5, Moved, Zenon
    <2> QED
      BY <2>1, <2>4, <2>6, GoesKeeps, Zenon
  <1>7. ASSUME NEW found \in Reports[u.sized], NEW failed, ShRefresh(h, found, failed)
        PROVE  HuntInv' /\ SoundStep
    <2> DEFINE src == IF failed THEN u.src ELSE u.src \cup found
               again == IF failed THEN u.round < ShRounds
                        ELSE \/ Progressed(h)
                             \/ Candidate(src, u.attempted) # {}
                             \/ (~u.had /\ u.round < ShRounds)
               at == IF again THEN "round" ELSE "grace"
               w == [u EXCEPT !.src = src, !.at = at]
    <2>a. Goes(h, w)
      BY <1>7, Zenon DEF ShRefresh
    <2>1. at \notin Unsourced
      BY Zenon DEF Unsourced
    <2>2. src \subseteq ShSources
      BY <1>0, ReportsKnown, Zenon DEF Wellmade
    <2> HIDE DEF again, at, src
    <2> HIDE DEF u
    <2>5. /\ DOMAIN w = HuntFields /\ w.pend = u.pend /\ w.act = u.act /\ w.run = u.run
          /\ w.dials = u.dials /\ w.at \notin Unsourced /\ w.given = u.given
          /\ w.src = src /\ w.sized = u.sized /\ w.attempted = u.attempted
      BY <1>0, <2>1, Fields, Zenon
    <2> HIDE DEF w
    <2>6. Wellmade(w)
      BY <1>0, <2>2, <2>5, Moved, Zenon
    <2> QED
      BY <2>a, <2>6, GoesKeeps, Zenon
  <1> QED
    BY <1>1, <1>2, <1>3, <1>4, <1>5, <1>6, <1>7, JoinKeeps, Zenon DEF ShWork

\* Every step keeps the invariant and fails no complete download.
LEMMA HuntStep == HuntInv /\ [ShNext]_shVars => HuntInv' /\ [SoundStep]_shVars
  <1> SUFFICES ASSUME HuntInv, [ShNext]_shVars PROVE HuntInv' /\ [SoundStep]_shVars
    OBVIOUS
  <1>1. CASE UNCHANGED shVars
    BY <1>1, Zenon DEF HuntInv, shVars
  <1>2. ASSUME NEW h \in ShHashes, ShWork(h) PROVE HuntInv' /\ SoundStep
    BY <1>2, WorkKeeps, Zenon
  <1>3. ASSUME NEW h \in ShHashes, NEW given \in AtMostOne, NEW sized \in BOOLEAN,
               ShSpawn(h, given, sized)
        PROVE  HuntInv' /\ SoundStep
    <2>1. DOMAIN shOut' = ShHashes /\ shHunt' = [shHunt EXCEPT ![h] = NewHunt(given, sized)]
      BY <1>3, Zenon DEF ShSpawn, HuntInv
    <2>2. given \in SUBSET ShSources
      BY Zenon DEF AtMostOne
    <2>3. HuntInv'
      BY <2>1, <2>2, NewWellmade, HuntReplaced, Zenon
    <2> QED
      BY <2>3, <1>3, Zenon DEF ShSpawn, SoundStep, HuntInv
  <1>4. ASSUME NEW h \in ShHashes, NEW file, ShCalledBack(h, file) PROVE HuntInv' /\ SoundStep
    BY <1>4, Zenon DEF ShCalledBack, HuntInv, SoundStep
  <1> QED
    BY <1>1, <1>2, <1>3, <1>4, Zenon DEF ShNext

\* The invariant holds before any request.
LEMMA HuntInitially == ShInit => HuntInv
  <1>1. Wellmade(NoHunt)
    BY NewWellmade DEF NoHunt
  <1> QED
    BY <1>1, Zenon DEF ShInit, HuntInv

\* However many rounds a download takes and however often its peers are
\* reported, an endpoint that is not on the loopback interface is dialled twice
\* at most (attempted_direct_endpoints, plaintext_fallback_for_obfuscated_source).
THEOREM DialsAlwaysBounded == ShSpec => []DialsBounded
  <1>1. HuntInv /\ [ShNext]_shVars => HuntInv'
    BY HuntStep, Zenon
  <1>2. HuntInv => DialsBounded
    BY Zenon DEF HuntInv, Wellmade, DialledSoundly, DialsBounded
  <1> QED
    BY <1>1, <1>2, HuntInitially, PTL DEF ShSpec

\* A download that had sources never reports failure for a complete file.
THEOREM FinishedNeverFails == ShSpec => CompletedNeverFails
  <1>1. HuntInv /\ [ShNext]_shVars => HuntInv'
    BY HuntStep, Zenon
  <1>2. HuntInv /\ [ShNext]_shVars =>
          [\A h \in ShHashes :
             shOut'[h] = "err" /\ shOut[h] # "err" /\ shHunt[h].src # {} => shFile[h] # "done"]_shVars
    BY HuntStep, Zenon DEF SoundStep
  <1> QED
    BY <1>1, <1>2, HuntInitially, PTL DEF ShSpec, CompletedNeverFails
=============================================================================
