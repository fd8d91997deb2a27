------------------------ MODULE TransferStoreProofs ------------------------
(***************************************************************************)
(* Proofs about the resume store for every layout of the file, every       *)
(* checkpoint size and every mix of failed, torn and interrupted writes.   *)
(*                                                                         *)
(* Most operations replace the manifest by one with the same byte counts   *)
(* and the same verified pieces (Quiet below); the blocks of a piece, the  *)
(* ingested copies, the late writes and the crashes are the others.        *)
(***************************************************************************)
EXTENDS TransferStore, WellFoundedInduction, TLAPS

\* A manifest whose flags agree with its pieces.
Sound(m) ==
    /\ IsManifest(m)
    /\ m.verified_ranges = VerifiedPieces(m)
    /\ m.completed <=> (DOMAIN m.state # {} /\ VerifiedPieces(m) = Pieces)
    /\ \A p \in VerifiedPieces(m) : m.written[p] = PieceLen[p]

\* n is a sound manifest that counts and verifies what m does.
Quiet(m, n) ==
    /\ Sound(n)
    /\ VerifiedPieces(n) = VerifiedPieces(m)
    /\ \/ n.written = m.written
       \/ DOMAIN m.written = {} /\ \A p \in DOMAIN n.written : n.written[p] = 0

\* The two copies of the manifest; one in memory implies a file on disk.
CopiesInv ==
    /\ cache = Absent \/ Sound(cache)
    /\ disk \in {Absent, Corrupt} \/ Sound(disk)
    /\ disk = Absent => cache = Absent

-----------------------------------------------------------------------------
(* What the operators on manifests return. *)

\* The fields of a sound manifest.
LEMMA SoundFields ==
    ASSUME NEW m, Sound(m)
    PROVE  /\ m \notin {Absent, Corrupt}
           /\ DOMAIN m.state \in {{}, Pieces} /\ DOMAIN m.written = DOMAIN m.state
           /\ m.state \in [DOMAIN m.state -> State] /\ m.written \in [DOMAIN m.state -> Nat]
           /\ m.md4_hashset_acquired \in BOOLEAN /\ m.aich_root \in BOOLEAN /\ m.completed \in BOOLEAN
           /\ m.verified_ranges \subseteq DOMAIN m.state
           /\ VerifiedPieces(m) \subseteq DOMAIN m.state /\ DOMAIN m.state \subseteq Pieces
           /\ \A p \in DOMAIN m.state : m.written[p] \in Nat /\ m.written[p] <= PieceLen[p] /\ m.state[p] \in State
           /\ m = Manifest(m.state, m.written, m.md4_hashset_acquired, m.aich_root, m.verified_ranges, m.completed)
  <1>1. m \in ManifestShape
    BY Zenon DEF Sound, IsManifest
  <1>2. m \notin {Absent, Corrupt}
    BY <1>1, AbsenceAssumption, Zenon
  <1>3. /\ m.state \in [{} -> State] \cup [Pieces -> State]
        /\ m.written \in [{} -> Nat] \cup [Pieces -> Nat]
        /\ m.md4_hashset_acquired \in BOOLEAN /\ m.aich_root \in BOOLEAN /\ m.completed \in BOOLEAN
        /\ m = Manifest(m.state, m.written, m.md4_hashset_acquired, m.aich_root, m.verified_ranges, m.completed)
    BY <1>1, Zenon DEF ManifestShape, Manifest
  <1>4. DOMAIN m.state \in {{}, Pieces} /\ m.state \in [DOMAIN m.state -> State]
    BY <1>3, Zenon
  <1>5. DOMAIN m.written = DOMAIN m.state
    BY Zenon DEF Sound, IsManifest
  <1>6. m.written \in [DOMAIN m.state -> Nat]
    BY <1>3, <1>5, Zenon
  <1>7. VerifiedPieces(m) \subseteq DOMAIN m.state
    BY Zenon DEF VerifiedPieces
  <1> QED  BY <1>2, <1>3, <1>4, <1>5, <1>6, <1>7, Zenon DEF Sound, IsManifest

\* What makes a manifest sound, from its fields.
LEMMA SoundFrom ==
    ASSUME NEW m,
           m = Manifest(m.state, m.written, m.md4_hashset_acquired, m.aich_root, m.verified_ranges, m.completed),
           DOMAIN m.state \in {{}, Pieces},
           m.state \in [DOMAIN m.state -> State], m.written \in [DOMAIN m.state -> Nat],
           m.md4_hashset_acquired \in BOOLEAN, m.aich_root \in BOOLEAN, m.completed \in BOOLEAN,
           \A p \in DOMAIN m.state : m.written[p] <= PieceLen[p],
           m.verified_ranges = {p \in DOMAIN m.state : m.state[p] = "Verified"},
           m.completed <=> (DOMAIN m.state # {} /\ m.verified_ranges = Pieces),
           \A p \in m.verified_ranges : m.written[p] = PieceLen[p]
    PROVE  Sound(m) /\ VerifiedPieces(m) = m.verified_ranges
  <1>1. m.state \in [{} -> State] \cup [Pieces -> State] /\ m.written \in [{} -> Nat] \cup [Pieces -> Nat]
    OBVIOUS
  <1>2. m.verified_ranges \in SUBSET Pieces /\ m.verified_ranges \subseteq DOMAIN m.state
    OBVIOUS
  <1>3. m \in ManifestShape
    BY <1>1, <1>2, Zenon DEF Manifest, ManifestShape
  <1>4. VerifiedPieces(m) = m.verified_ranges
    BY Zenon DEF VerifiedPieces
  <1> QED  BY <1>2, <1>3, <1>4, Zenon DEF Sound, IsManifest

\* Ed2kResumeManifest::new claims nothing.
LEMMA NewSound ==
    ASSUME NEW b \in BOOLEAN
    PROVE  LET m == NewManifest(b)
           IN  /\ Sound(m) /\ VerifiedPieces(m) = {} /\ m.verified_ranges = {}
               /\ \A p \in DOMAIN m.written : m.written[p] = 0
  <1> DEFINE D == IF b THEN Pieces ELSE {}
             s == [p \in D |-> "Missing"]
             w == [p \in D |-> 0]
             m == Manifest(s, w, FALSE, FALSE, {}, FALSE)
  <1>1. /\ D \in {{}, Pieces} /\ s \in [D -> State] /\ w \in [D -> Nat]
        /\ \A p \in D : w[p] <= PieceLen[p]
    BY LayoutAssumption DEF State
  <1>2. {p \in D : s[p] = "Verified"} = {} /\ DOMAIN s = D /\ DOMAIN w = D /\ \A p \in D : w[p] = 0
    OBVIOUS
  <1>3. NewManifest(b) = m
    BY Zenon DEF NewManifest
  <1> HIDE DEF D, s, w
  <1>4. /\ m.state = s /\ m.written = w /\ m.verified_ranges = {} /\ m.completed = FALSE
        /\ m.md4_hashset_acquired = FALSE /\ m.aich_root = FALSE
    BY Zenon DEF Manifest
  <1>6. m = Manifest(m.state, m.written, m.md4_hashset_acquired, m.aich_root, m.verified_ranges, m.completed)
    BY <1>4, Zenon
  <1> HIDE DEF m
  <1>5. Sound(m) /\ VerifiedPieces(m) = {}
    BY <1>1, <1>2, <1>4, <1>6, SoundFrom, Zenon
  <1> QED  BY <1>2, <1>3, <1>4, <1>5, Zenon

\* One piece that is not verified, before and after, gets a new count.
LEMMA PieceSound ==
    ASSUME NEW m, Sound(m), NEW p \in DOMAIN m.state, m.state[p] # "Verified",
           NEW s \in {"Missing", "Requested"}, NEW n \in Nat, n <= PieceLen[p]
    PROVE  /\ Sound(WithPiece(m, p, s, n))
           /\ VerifiedPieces(WithPiece(m, p, s, n)) = VerifiedPieces(m)
           /\ DOMAIN WithPiece(m, p, s, n).state = DOMAIN m.state
           /\ \A q \in DOMAIN m.state :
                 /\ WithPiece(m, p, s, n).written[q] = IF q = p THEN n ELSE m.written[q]
                 /\ WithPiece(m, p, s, n).state[q] = IF q = p THEN s ELSE m.state[q]
  <1> DEFINE D == DOMAIN m.state
             st == [m.state EXCEPT ![p] = s]
             w == [m.written EXCEPT ![p] = n]
             r == Manifest(st, w, m.md4_hashset_acquired, m.aich_root, m.verified_ranges, m.completed)
  <1>0. /\ D \in {{}, Pieces} /\ m.state \in [D -> State] /\ m.written \in [D -> Nat]
        /\ m.verified_ranges \in SUBSET D /\ m.md4_hashset_acquired \in BOOLEAN
        /\ m.aich_root \in BOOLEAN /\ m.completed \in BOOLEAN
        /\ \A q \in D : m.written[q] <= PieceLen[q]
    BY SoundFields, Zenon
  <1>1. st \in [D -> State] /\ w \in [D -> Nat] /\ \A q \in D : w[q] <= PieceLen[q]
    BY <1>0, Zenon DEF State
  <1>2. {q \in D : st[q] = "Verified"} = VerifiedPieces(m) /\ DOMAIN st = D
    BY <1>0, Zenon DEF VerifiedPieces
  <1>3. WithPiece(m, p, s, n) = r
    BY Zenon DEF WithPiece
  <1>4. p \notin VerifiedPieces(m)
    BY Zenon DEF VerifiedPieces
  <1>5. \A q \in VerifiedPieces(m) : w[q] = m.written[q]
    BY <1>0, <1>4, Zenon DEF VerifiedPieces
  <1>6. D = DOMAIN m.state
    OBVIOUS
  <1>7. \A q \in D : (w[q] = IF q = p THEN n ELSE m.written[q]) /\ (st[q] = IF q = p THEN s ELSE m.state[q])
    BY <1>0, Zenon
  <1> HIDE DEF D, st, w
  <1>8. /\ r.state = st /\ r.written = w /\ r.verified_ranges = m.verified_ranges /\ r.completed = m.completed
        /\ r.md4_hashset_acquired = m.md4_hashset_acquired /\ r.aich_root = m.aich_root
    BY Zenon DEF Manifest
  <1>10. r = Manifest(r.state, r.written, r.md4_hashset_acquired, r.aich_root, r.verified_ranges, r.completed)
    BY <1>8, Zenon
  <1>11. /\ m.verified_ranges = VerifiedPieces(m)
         /\ m.completed <=> (D # {} /\ VerifiedPieces(m) = Pieces)
         /\ \A q \in VerifiedPieces(m) : m.written[q] = PieceLen[q]
    BY <1>6, Zenon DEF Sound
  <1> HIDE DEF r
  <1>9. Sound(r) /\ VerifiedPieces(r) = VerifiedPieces(m)
    BY <1>0, <1>1, <1>2, <1>5, <1>8, <1>10, <1>11, SoundFrom
  <1> QED  BY <1>2, <1>3, <1>6, <1>7, <1>8, <1>9, Zenon

\* Learning a hashset or a root changes nothing else.
LEMMA FlagSound ==
    ASSUME NEW m, Sound(m)
    PROVE  Quiet(m, [m EXCEPT !.aich_root = TRUE]) /\ Quiet(m, [m EXCEPT !.md4_hashset_acquired = TRUE])
  <1> DEFINE a == [m EXCEPT !.aich_root = TRUE]
             h == [m EXCEPT !.md4_hashset_acquired = TRUE]
  <1>1. m = Manifest(m.state, m.written, m.md4_hashset_acquired, m.aich_root, m.verified_ranges, m.completed)
    BY SoundFields, Zenon
  <1>2. /\ a = Manifest(m.state, m.written, m.md4_hashset_acquired, TRUE, m.verified_ranges, m.completed)
        /\ h = Manifest(m.state, m.written, TRUE, m.aich_root, m.verified_ranges, m.completed)
    <2> DEFINE s == m.state
               w == m.written
               g == m.md4_hashset_acquired
               x == m.aich_root
               v == m.verified_ranges
               c == m.completed
    <2>1. m = Manifest(s, w, g, x, v, c)
      BY <1>1, Zenon
    <2>4. \A t : /\ [Manifest(s, w, g, x, v, c) EXCEPT !.aich_root = t] = Manifest(s, w, g, t, v, c)
                /\ [Manifest(s, w, g, x, v, c) EXCEPT !.md4_hashset_acquired = t] = Manifest(s, w, t, x, v, c)
      <3> HIDE DEF s, w, g, x, v, c
      <3> QED  BY DEF Manifest
    <2> HIDE DEF s, w, g, x, v, c
    <2>2. /\ [Manifest(s, w, g, x, v, c) EXCEPT !.aich_root = TRUE] = Manifest(s, w, g, TRUE, v, c)
          /\ [Manifest(s, w, g, x, v, c) EXCEPT !.md4_hashset_acquired = TRUE] = Manifest(s, w, TRUE, x, v, c)
      BY <2>4, Zenon
    <2>3. a = Manifest(s, w, g, TRUE, v, c) /\ h = Manifest(s, w, TRUE, x, v, c)
      BY <2>1, <2>2, Zenon
    <2> QED  BY <2>3, Zenon DEF s, w, g, x, v, c
  <1> HIDE DEF a, h
  <1>3. /\ a.state = m.state /\ a.written = m.written /\ a.md4_hashset_acquired = m.md4_hashset_acquired
        /\ a.aich_root = TRUE /\ a.verified_ranges = m.verified_ranges /\ a.completed = m.completed
    BY <1>2, Zenon DEF Manifest
  <1>4. /\ h.state = m.state /\ h.written = m.written /\ h.md4_hashset_acquired = TRUE
        /\ h.aich_root = m.aich_root /\ h.verified_ranges = m.verified_ranges /\ h.completed = m.completed
    BY <1>2, Zenon DEF Manifest
  <1>5. /\ DOMAIN m.state \in {{}, Pieces} /\ m.state \in [DOMAIN m.state -> State]
        /\ m.written \in [DOMAIN m.state -> Nat]
        /\ m.md4_hashset_acquired \in BOOLEAN /\ m.aich_root \in BOOLEAN /\ m.completed \in BOOLEAN
        /\ \A p \in DOMAIN m.state : m.written[p] <= PieceLen[p]
    BY SoundFields, Zenon
  <1>6. /\ m.verified_ranges = {p \in DOMAIN m.state : m.state[p] = "Verified"}
        /\ m.completed <=> (DOMAIN m.state # {} /\ m.verified_ranges = Pieces)
        /\ \A p \in m.verified_ranges : m.written[p] = PieceLen[p]
        /\ VerifiedPieces(m) = m.verified_ranges
    BY Zenon DEF Sound, VerifiedPieces
  <1>7. a = Manifest(a.state, a.written, a.md4_hashset_acquired, a.aich_root, a.verified_ranges, a.completed)
    BY <1>2, <1>3, Zenon
  <1>8. h = Manifest(h.state, h.written, h.md4_hashset_acquired, h.aich_root, h.verified_ranges, h.completed)
    BY <1>2, <1>4, Zenon
  <1>11. a.aich_root \in BOOLEAN /\ h.md4_hashset_acquired \in BOOLEAN
    BY <1>3, <1>4, Zenon
  <1>12. /\ a.verified_ranges = {p \in DOMAIN a.state : a.state[p] = "Verified"}
         /\ h.verified_ranges = {p \in DOMAIN h.state : h.state[p] = "Verified"}
    BY <1>3, <1>4, <1>6, ZenonT(40)
  <1>9. Sound(a) /\ VerifiedPieces(a) = a.verified_ranges
    <2>1. /\ DOMAIN a.state \in {{}, Pieces} /\ a.state \in [DOMAIN a.state -> State]
          /\ a.written \in [DOMAIN a.state -> Nat]
          /\ a.md4_hashset_acquired \in BOOLEAN /\ a.aich_root \in BOOLEAN /\ a.completed \in BOOLEAN
          /\ \A p \in DOMAIN a.state : a.written[p] <= PieceLen[p]
      BY <1>11, <1>12, <1>3, <1>5, <1>6, <1>7, Zenon
    <2>2. /\ a.completed <=> (DOMAIN a.state # {} /\ a.verified_ranges = Pieces)
          /\ \A p \in a.verified_ranges : a.written[p] = PieceLen[p]
      BY <1>11, <1>12, <1>3, <1>5, <1>6, <1>7, Zenon
    <2> QED  BY <2>1, <2>2, <1>11, <1>12, <1>3, <1>5, <1>6, <1>7, SoundFrom, Zenon
  <1>10. Sound(h) /\ VerifiedPieces(h) = h.verified_ranges
    <2>1. /\ DOMAIN h.state \in {{}, Pieces} /\ h.state \in [DOMAIN h.state -> State]
          /\ h.written \in [DOMAIN h.state -> Nat]
          /\ h.md4_hashset_acquired \in BOOLEAN /\ h.aich_root \in BOOLEAN /\ h.completed \in BOOLEAN
          /\ \A p \in DOMAIN h.state : h.written[p] <= PieceLen[p]
      BY <1>11, <1>12, <1>4, <1>5, <1>6, <1>8, Zenon
    <2>2. /\ h.completed <=> (DOMAIN h.state # {} /\ h.verified_ranges = Pieces)
          /\ \A p \in h.verified_ranges : h.written[p] = PieceLen[p]
      BY <1>11, <1>12, <1>4, <1>5, <1>6, <1>8
    <2> QED  BY <2>1, <2>2, <1>11, <1>12, <1>4, <1>5, <1>6, <1>8, SoundFrom, Zenon
  <1> QED  BY <1>3, <1>4, <1>6, <1>9, <1>10, Zenon DEF Quiet, a, h

\* Reclaiming requests changes no count.
LEMMA ReclaimedSound ==
    ASSUME NEW m, Sound(m)
    PROVE  Quiet(m, Reclaimed(m))
  <1> DEFINE s == [p \in DOMAIN m.state |-> IF m.state[p] = "Requested" THEN "Missing" ELSE m.state[p]]
             r == [m EXCEPT !.state = s]
  <1>1. m = Manifest(m.state, m.written, m.md4_hashset_acquired, m.aich_root, m.verified_ranges, m.completed)
    BY SoundFields, Zenon
  <1>5. /\ DOMAIN m.state \in {{}, Pieces} /\ m.state \in [DOMAIN m.state -> State]
        /\ m.written \in [DOMAIN m.state -> Nat]
        /\ m.md4_hashset_acquired \in BOOLEAN /\ m.aich_root \in BOOLEAN /\ m.completed \in BOOLEAN
        /\ \A p \in DOMAIN m.state : m.written[p] <= PieceLen[p]
    BY SoundFields, Zenon
  <1>6. /\ m.verified_ranges = {p \in DOMAIN m.state : m.state[p] = "Verified"}
        /\ m.completed <=> (DOMAIN m.state # {} /\ m.verified_ranges = Pieces)
        /\ \A p \in m.verified_ranges : m.written[p] = PieceLen[p]
        /\ VerifiedPieces(m) = m.verified_ranges
    BY Zenon DEF Sound, VerifiedPieces
  <1>7. /\ DOMAIN s = DOMAIN m.state /\ s \in [DOMAIN m.state -> State]
        /\ {p \in DOMAIN m.state : s[p] = "Verified"} = {p \in DOMAIN m.state : m.state[p] = "Verified"}
    BY <1>5, Zenon DEF State
  <1>8. Reclaimed(m) = r
    BY Zenon DEF Reclaimed
  <1> HIDE DEF s
  <1>2. r = Manifest(s, m.written, m.md4_hashset_acquired, m.aich_root, m.verified_ranges, m.completed)
    <2> DEFINE z == m.state
               w == m.written
               g == m.md4_hashset_acquired
               x == m.aich_root
               v == m.verified_ranges
               c == m.completed
    <2>1. m = Manifest(z, w, g, x, v, c)
      BY <1>1, Zenon
    <2> HIDE DEF z, w, g, x, v, c
    <2>2. [Manifest(z, w, g, x, v, c) EXCEPT !.state = s] = Manifest(s, w, g, x, v, c)
      BY DEF Manifest
    <2>3. r = Manifest(s, w, g, x, v, c)
      BY <2>1, <2>2, Zenon
    <2> QED  BY <2>3, Zenon DEF w, g, x, v, c
  <1> HIDE DEF r
  <1>3. /\ r.state = s /\ r.written = m.written /\ r.md4_hashset_acquired = m.md4_hashset_acquired
        /\ r.aich_root = m.aich_root /\ r.verified_ranges = m.verified_ranges /\ r.completed = m.completed
    BY <1>2, Zenon DEF Manifest
  <1>4. r = Manifest(r.state, r.written, r.md4_hashset_acquired, r.aich_root, r.verified_ranges, r.completed)
    BY <1>2, <1>3, Zenon
  <1>10. r.verified_ranges = {p \in DOMAIN r.state : r.state[p] = "Verified"}
    <2>1. r.verified_ranges = {p \in DOMAIN m.state : s[p] = "Verified"}
      BY <1>3, <1>6, <1>7, Zenon
    <2> QED  BY <1>3, <1>7, <2>1, Zenon
  <1>9. Sound(r) /\ VerifiedPieces(r) = r.verified_ranges
    <2>1. /\ DOMAIN r.state \in {{}, Pieces} /\ r.state \in [DOMAIN r.state -> State]
          /\ r.written \in [DOMAIN r.state -> Nat]
          /\ r.md4_hashset_acquired \in BOOLEAN /\ r.aich_root \in BOOLEAN /\ r.completed \in BOOLEAN
          /\ \A p \in DOMAIN r.state : r.written[p] <= PieceLen[p]
      BY <1>10, <1>3, <1>4, <1>5, <1>6, <1>7, Zenon
    <2>2. /\ r.completed <=> (DOMAIN r.state # {} /\ r.verified_ranges = Pieces)
          /\ \A p \in r.verified_ranges : r.written[p] = PieceLen[p]
      BY <1>10, <1>3, <1>4, <1>5, <1>6, <1>7, Zenon
    <2> QED  BY <2>1, <2>2, <1>10, <1>3, <1>4, <1>5, <1>6, <1>7, SoundFrom, Zenon
  <1> QED  BY <1>3, <1>6, <1>8, <1>9, Zenon DEF Quiet

\* Rebuilding the ranges of a manifest with pieces makes it sound.
LEMMA RebuiltSound ==
    ASSUME NEW n, Pieces # {}, n.state \in [Pieces -> State], n.written \in [Pieces -> Nat],
           n.md4_hashset_acquired \in BOOLEAN, n.aich_root \in BOOLEAN,
           \A q \in Pieces : n.written[q] <= PieceLen[q],
           \A q \in Pieces : n.state[q] = "Verified" => n.written[q] = PieceLen[q]
    PROVE  LET r == Rebuilt(n)
           IN  Sound(r) /\ r.state = n.state /\ r.written = n.written /\ VerifiedPieces(r) = VerifiedPieces(n)
  <1> DEFINE V == VerifiedPieces(n)
             c == V = Pieces
             a == n.aich_root \/ c
             r == Manifest(n.state, n.written, n.md4_hashset_acquired, a, V, c)
  <1>1. DOMAIN n.state = Pieces /\ DOMAIN n.written = Pieces
    OBVIOUS
  <1>2. Rebuilt(n) = r
    BY <1>1, Zenon DEF Rebuilt
  <1>3. c \in BOOLEAN /\ a \in BOOLEAN /\ (c <=> V = Pieces)
    OBVIOUS
  <1>4. V = {p \in Pieces : n.state[p] = "Verified"}
    BY <1>1, Zenon DEF VerifiedPieces
  <1>5. V = VerifiedPieces(n)
    OBVIOUS
  <1> HIDE DEF V, c, a
  <1>6. /\ r.state = n.state /\ r.written = n.written /\ r.md4_hashset_acquired = n.md4_hashset_acquired
        /\ r.aich_root = a /\ r.verified_ranges = V /\ r.completed = c
    BY Zenon DEF Manifest
  <1>7. r = Manifest(r.state, r.written, r.md4_hashset_acquired, r.aich_root, r.verified_ranges, r.completed)
    BY <1>6, Zenon
  <1> HIDE DEF r
  <1>8. Sound(r) /\ VerifiedPieces(r) = r.verified_ranges
    <2>1. /\ DOMAIN r.state \in {{}, Pieces} /\ r.state \in [DOMAIN r.state -> State]
          /\ r.written \in [DOMAIN r.state -> Nat]
          /\ r.md4_hashset_acquired \in BOOLEAN /\ r.aich_root \in BOOLEAN /\ r.completed \in BOOLEAN
          /\ \A p \in DOMAIN r.state : r.written[p] <= PieceLen[p]
      BY <1>1, <1>3, <1>6, Zenon
    <2>2. /\ r.completed <=> (DOMAIN r.state # {} /\ r.verified_ranges = Pieces)
          /\ \A p \in r.verified_ranges : r.written[p] = PieceLen[p]
      BY <1>1, <1>3, <1>4, <1>6, Zenon
    <2>3. r.verified_ranges = {p \in DOMAIN r.state : r.state[p] = "Verified"}
      BY <1>1, <1>4, <1>6, Zenon
    <2> QED  BY <1>7, <2>1, <2>2, <2>3, SoundFrom, Zenon
  <1> QED  BY <1>2, <1>5, <1>6, <1>8, Zenon

\* What checking the full piece p of m makes of it: r is sound, differs from m in
\* piece p only, and has it verified or started again.
CheckedFrom(m, p, bytes, r) ==
    /\ Sound(r)
    /\ DOMAIN r.state = DOMAIN m.state
    /\ \A q \in DOMAIN m.state \ {p} : r.written[q] = m.written[q]
    /\ verify_piece(m, bytes) => /\ VerifiedPieces(r) = VerifiedPieces(m) \cup {p}
                                 /\ r.written[p] = PieceLen[p]
                                 /\ r.state[p] = "Verified"
    /\ ~verify_piece(m, bytes) => /\ VerifiedPieces(r) = VerifiedPieces(m)
                                  /\ r.written[p] = 0
                                  /\ r.state[p] = "Missing"

\* Checking a piece that was not verified yet verifies it or starts it again.
LEMMA CheckedSound ==
    ASSUME NEW m, Sound(m), NEW p \in DOMAIN m.state, m.state[p] # "Verified", NEW bytes
    PROVE  CheckedFrom(m, p, bytes, Checked(m, p, bytes))
  <1>0. /\ DOMAIN m.state = Pieces /\ Pieces # {} /\ p \in Pieces
        /\ m.state \in [Pieces -> State] /\ m.written \in [Pieces -> Nat]
        /\ m.md4_hashset_acquired \in BOOLEAN /\ m.aich_root \in BOOLEAN
        /\ \A q \in Pieces : m.written[q] <= PieceLen[q]
        /\ \A q \in VerifiedPieces(m) : m.written[q] = PieceLen[q]
    BY SoundFields, Zenon DEF Sound
  <1>1. PieceLen[p] \in Nat /\ 0 <= PieceLen[p]
    BY <1>0, LayoutAssumption
  <1>2. ASSUME NEW s \in {"Verified", "Missing"}, NEW k \in Nat, k <= PieceLen[p],
               s = "Verified" => k = PieceLen[p]
        PROVE  LET r == Rebuilt(WithPiece(m, p, s, k))
               IN  /\ Sound(r) /\ DOMAIN r.state = DOMAIN m.state /\ r.state[p] = s
                   /\ \A q \in DOMAIN m.state : r.written[q] = IF q = p THEN k ELSE m.written[q]
                   /\ VerifiedPieces(r) = IF s = "Verified" THEN VerifiedPieces(m) \cup {p} ELSE VerifiedPieces(m)
    <2> DEFINE st == [m.state EXCEPT ![p] = s]
               w == [m.written EXCEPT ![p] = k]
               n == Manifest(st, w, m.md4_hashset_acquired, m.aich_root, m.verified_ranges, m.completed)
    <2>1. /\ st \in [Pieces -> State] /\ w \in [Pieces -> Nat] /\ \A q \in Pieces : w[q] <= PieceLen[q]
          /\ st[p] = s
      BY <1>0, <1>2, Zenon DEF State
    <2>2. \A q \in Pieces : st[q] = "Verified" => w[q] = PieceLen[q]
      BY <1>0, <1>2, Zenon DEF VerifiedPieces
    <2>3. {q \in Pieces : st[q] = "Verified"} = IF s = "Verified" THEN VerifiedPieces(m) \cup {p} ELSE VerifiedPieces(m)
      BY <1>0, <1>2, Zenon DEF VerifiedPieces
    <2>4. WithPiece(m, p, s, k) = n
      BY Zenon DEF WithPiece
    <2>5. DOMAIN st = DOMAIN m.state /\ \A q \in DOMAIN m.state : w[q] = IF q = p THEN k ELSE m.written[q]
      BY <1>0, Zenon
    <2> HIDE DEF st, w
    <2>6. /\ n.state = st /\ n.written = w /\ n.md4_hashset_acquired = m.md4_hashset_acquired
          /\ n.aich_root = m.aich_root
      BY Zenon DEF Manifest
    <2> HIDE DEF n
    <2>7. VerifiedPieces(n) = {q \in Pieces : st[q] = "Verified"}
      BY <2>1, <2>6, Zenon DEF VerifiedPieces
    <2>8. Sound(Rebuilt(n)) /\ Rebuilt(n).state = st /\ Rebuilt(n).written = w /\ VerifiedPieces(Rebuilt(n)) = VerifiedPieces(n)
      BY <1>0, <2>1, <2>2, <2>6, RebuiltSound, Zenon
    <2> QED  BY <2>1, <2>3, <2>4, <2>5, <2>7, <2>8, Zenon
  <1>3. CASE verify_piece(m, bytes)
    <2>1. Checked(m, p, bytes) = Rebuilt(WithPiece(m, p, "Verified", PieceLen[p]))
      BY <1>3, Zenon DEF Checked
    <2> QED  BY <1>1, <1>2, <1>3, <2>1 DEF CheckedFrom
  <1>4. CASE ~verify_piece(m, bytes)
    <2>1. Checked(m, p, bytes) = Rebuilt(WithPiece(m, p, "Missing", 0))
      BY <1>4, Zenon DEF Checked
    <2> QED  BY <1>1, <1>2, <1>4, <2>1 DEF CheckedFrom
  <1> QED  BY <1>3, <1>4, Zenon

\* The manifest of an ingested file is whole.
LEMMA IngestedSound ==
    ASSUME Pieces # {}
    PROVE  /\ Sound(IngestedManifest) /\ VerifiedPieces(IngestedManifest) = Pieces
           /\ IngestedManifest.written = PieceLen /\ IngestedManifest.state = [p \in Pieces |-> "Verified"]
  <1> DEFINE s == [p \in Pieces |-> "Verified"]
             r == Manifest(s, PieceLen, TRUE, TRUE, Pieces, TRUE)
  <1>1. IngestedManifest = r
    BY Zenon DEF IngestedManifest
  <1>2. s \in [Pieces -> State] /\ Pieces = {p \in Pieces : s[p] = "Verified"} /\ DOMAIN s = Pieces
    BY Zenon DEF State
  <1>3. PieceLen \in [Pieces -> Nat] /\ \A p \in Pieces : PieceLen[p] <= PieceLen[p]
    BY LayoutAssumption
  <1> HIDE DEF s
  <1>4. /\ r.state = s /\ r.written = PieceLen /\ r.md4_hashset_acquired = TRUE
        /\ r.aich_root = TRUE /\ r.verified_ranges = Pieces /\ r.completed = TRUE
    BY Zenon DEF Manifest
  <1>5. r = Manifest(r.state, r.written, r.md4_hashset_acquired, r.aich_root, r.verified_ranges, r.completed)
    BY <1>4, Zenon
  <1> HIDE DEF r
  <1>6. Sound(r) /\ VerifiedPieces(r) = r.verified_ranges
    <2>1. /\ DOMAIN r.state \in {{}, Pieces} /\ r.state \in [DOMAIN r.state -> State]
          /\ r.written \in [DOMAIN r.state -> Nat]
          /\ r.md4_hashset_acquired \in BOOLEAN /\ r.aich_root \in BOOLEAN /\ r.completed \in BOOLEAN
          /\ \A p \in DOMAIN r.state : r.written[p] <= PieceLen[p]
      BY <1>2, <1>3, <1>4, Zenon
    <2>2. /\ r.completed <=> (DOMAIN r.state # {} /\ r.verified_ranges = Pieces)
          /\ \A p \in r.verified_ranges : r.written[p] = PieceLen[p]
      BY <1>2, <1>4, Zenon
    <2>3. r.verified_ranges = {p \in DOMAIN r.state : r.state[p] = "Verified"}
      BY <1>2, <1>4, Zenon
    <2> QED  BY <1>5, <2>1, <2>2, <2>3, SoundFrom, Zenon
  <1> QED  BY <1>1, <1>4, <1>6, Zenon DEF s

-----------------------------------------------------------------------------
(* The operations. *)

\* The operations that leave counts, verified pieces and bytes alone: they
\* store, or fail to store, a manifest that is as good as the cached one.
QuietStore(m, o) ==
    /\ cache # Absent /\ o \in Outcomes
    /\ Quiet(cache, m)
    /\ store_manifest(m, o)
    /\ catalog' = catalog \/ (o = "stored" /\ catalog' = m.verified_ranges)
    /\ UNCHANGED <<payload, inflight>>

QuietStep ==
    \E o \in Outcomes :
        \/ AdoptFileSize(o) \/ AdoptName(o) \/ LearnAichRoot(o) \/ RememberSource(o) \/ StoreMd4Hashset(o)
        \/ ClaimNextMissingPart(o) \/ ReclaimStalePieceRequests(o)
        \/ \E p \in Pieces : ReleasePieceRequest(p, o)

\* A piece that is not verified changes between missing and requested.
LEMMA RequestQuiet ==
    ASSUME NEW m, Sound(m), NEW p \in DOMAIN m.state, m.state[p] # "Verified",
           NEW s \in {"Missing", "Requested"}
    PROVE  Quiet(m, WithPiece(m, p, s, m.written[p]))
  <1>1. m.written[p] \in Nat /\ m.written[p] <= PieceLen[p] /\ m.written \in [DOMAIN m.state -> Nat]
    BY SoundFields, Zenon
  <1> DEFINE n == m.written[p]
             r == WithPiece(m, p, s, n)
  <1> HIDE DEF n
  <1>3. Sound(r) /\ VerifiedPieces(r) = VerifiedPieces(m) /\ DOMAIN r.state = DOMAIN m.state
        /\ \A q \in DOMAIN m.state : r.written[q] = IF q = p THEN n ELSE m.written[q]
    <2>1. n \in Nat /\ n <= PieceLen[p]
      BY <1>1, Zenon DEF n
    <2> QED  BY <2>1, PieceSound
  <1> HIDE DEF r
  <1>4. r.written = m.written
    <2>1. \A q \in DOMAIN m.state : r.written[q] = m.written[q]
      BY <1>3, Zenon DEF n
    <2>2. r.written \in [DOMAIN m.state -> Nat]
      BY <1>3, SoundFields, Zenon
    <2> QED  BY <1>1, <2>1, <2>2
  <1>5. Quiet(m, r)
    BY <1>3, <1>4, Zenon DEF Quiet
  <1> QED  BY <1>5, Zenon DEF n, r

\* A set of naturals that is not empty has a least element.
LEMMA LeastOf ==
    ASSUME NEW S \in SUBSET Nat, S # {}
    PROVE  \E p \in S : \A q \in S : p <= q
  <1>1. PICK x \in S : \A y \in S : ~ (<<y, x>> \in OpToRel(<, Nat))
    BY NatLessThanWellFounded, WFMin, Zenon
  <1>2. \A y \in S : ~ (y < x)
    BY <1>1, Zenon DEF OpToRel
  <1>3. \A y \in S : x <= y
    BY <1>2
  <1> QED  BY <1>3, Zenon

\* The first missing piece is missing.
LEMMA NextMissingIs ==
    ASSUME NEW m, Sound(m), MissingPieces(m) # {}
    PROVE  NextMissing(m) \in DOMAIN m.state /\ m.state[NextMissing(m)] = "Missing"
  <1>1. MissingPieces(m) \subseteq Nat
    BY SoundFields, LayoutAssumption, Zenon DEF MissingPieces
  <1>2. \E p \in MissingPieces(m) : \A q \in MissingPieces(m) : p <= q
    BY <1>1, LeastOf, Zenon
  <1>3. NextMissing(m) \in MissingPieces(m)
    BY <1>2, Zenon DEF NextMissing
  <1> QED  BY <1>3, Zenon DEF MissingPieces

LEMMA QuietStepStores ==
    ASSUME CopiesInv, QuietStep
    PROVE  \E m : \E o \in Outcomes : QuietStore(m, o)
  <1>0. PICK o \in Outcomes :
            \/ AdoptFileSize(o) \/ AdoptName(o) \/ LearnAichRoot(o) \/ RememberSource(o) \/ StoreMd4Hashset(o)
            \/ ClaimNextMissingPart(o) \/ ReclaimStalePieceRequests(o)
            \/ \E p \in Pieces : ReleasePieceRequest(p, o)
    BY Zenon DEF QuietStep
  <1>1. cache # Absent /\ Sound(cache)
    BY <1>0, Zenon DEF CopiesInv, AdoptFileSize, AdoptName, LearnAichRoot, RememberSource, StoreMd4Hashset,
                ClaimNextMissingPart, ReclaimStalePieceRequests, ReleasePieceRequest
  <1>2. Quiet(cache, cache)
    BY <1>1, Zenon DEF Quiet
  <1>3. CASE AdoptFileSize(o)
    <2>1. DOMAIN cache.written = {} /\ VerifiedPieces(cache) = {}
      BY <1>1, <1>3, SoundFields, Zenon DEF AdoptFileSize
    <2>2. Quiet(cache, NewManifest(TRUE))
      BY <2>1, NewSound, Zenon DEF Quiet
    <2>3. QuietStore(NewManifest(TRUE), o)
      BY <1>1, <1>3, <2>2, Zenon DEF QuietStore, AdoptFileSize, StoreAndPublish, upsert_catalog
    <2> QED  BY <2>3, Zenon
  <1>4. CASE AdoptName(o)
    <2>1. QuietStore(cache, o)
      BY <1>1, <1>2, <1>4, Zenon DEF QuietStore, AdoptName, StoreAndPublish, upsert_catalog
    <2> QED  BY <2>1, Zenon
  <1>5. CASE LearnAichRoot(o)
    <2>1. QuietStore([cache EXCEPT !.aich_root = TRUE], o)
      BY <1>1, <1>5, FlagSound, Zenon DEF QuietStore, LearnAichRoot, StoreAndPublish, upsert_catalog
    <2> QED  BY <2>1, Zenon
  <1>6. CASE RememberSource(o)
    <2>1. QuietStore(cache, o)
      BY <1>1, <1>2, <1>6, Zenon DEF QuietStore, RememberSource
    <2> QED  BY <2>1, Zenon
  <1>7. CASE StoreMd4Hashset(o)
    <2>1. QuietStore([cache EXCEPT !.md4_hashset_acquired = TRUE], o)
      BY <1>1, <1>7, FlagSound, Zenon DEF QuietStore, StoreMd4Hashset
    <2> QED  BY <2>1, Zenon
  <1>8. CASE ClaimNextMissingPart(o)
    <2> DEFINE p == NextMissing(cache)
    <2>1. p \in DOMAIN cache.state /\ cache.state[p] # "Verified"
      BY <1>1, <1>8, NextMissingIs, Zenon DEF ClaimNextMissingPart
    <2>2. Quiet(cache, WithPiece(cache, p, "Requested", cache.written[p]))
      BY <1>1, <2>1, RequestQuiet, Zenon
    <2>3. QuietStore(WithPiece(cache, p, "Requested", cache.written[p]), o)
      BY <1>1, <1>8, <2>2, Zenon DEF QuietStore, ClaimNextMissingPart
    <2> QED  BY <2>3, Zenon
  <1>9. CASE ReclaimStalePieceRequests(o)
    <2>1. QuietStore(Reclaimed(cache), o)
      BY <1>1, <1>9, ReclaimedSound, Zenon DEF QuietStore, ReclaimStalePieceRequests
    <2> QED  BY <2>1, Zenon
  <1>10. ASSUME NEW p \in Pieces, ReleasePieceRequest(p, o) PROVE \E m : QuietStore(m, o)
    <2>1. p \in DOMAIN cache.state /\ cache.state[p] # "Verified"
      BY <1>10, Zenon DEF ReleasePieceRequest
    <2>2. Quiet(cache, WithPiece(cache, p, "Missing", cache.written[p]))
      BY <1>1, <2>1, RequestQuiet, Zenon
    <2>3. QuietStore(WithPiece(cache, p, "Missing", cache.written[p]), o)
      BY <1>1, <1>10, <2>2, Zenon DEF QuietStore, ReleasePieceRequest
    <2> QED  BY <2>3, Zenon
  <1> QED  BY <1>0, <1>3, <1>4, <1>5, <1>6, <1>7, <1>8, <1>9, <1>10, Zenon

\* A block carries at least one unit.
LEMMA DataFields ==
    ASSUME NEW data \in Data
    PROVE  /\ Len(data) \in Nat /\ Len(data) > 0 /\ DOMAIN data = 1 .. Len(data)
           /\ \A i \in DOMAIN data : data[i] \in Content
  <1>3. PICK n \in 1 .. MaxAppend : data \in [1 .. n -> Content]
    BY Zenon DEF Data
  <1>4. n \in Nat /\ n > 0 /\ DOMAIN data = 1 .. n
    BY <1>3, StoreAssumption
  <1>5. Len(data) = n
    <2>1. data \in Seq(Content)
      BY <1>3, <1>4
    <2> QED  BY <1>4, <2>1
  <1> QED  BY <1>3, <1>4, <1>5, Zenon

\* A block is accepted only by a piece that is not verified.
LEMMA AcceptsOpen ==
    ASSUME NEW m, Sound(m), NEW p, NEW start, NEW data \in Data, Accepts(m, p, start, data)
    PROVE  /\ p \in DOMAIN m.state /\ p \in Pieces /\ m.state[p] # "Verified"
           /\ start \in Nat /\ Len(data) \in Nat /\ Len(data) > 0 /\ DOMAIN data = 1 .. Len(data)
           /\ \A i \in DOMAIN data : data[i] \in Content
           /\ start = m.written[p] /\ start + Len(data) <= PieceLen[p] /\ PieceLen[p] \in Nat
  <1>1. p \in DOMAIN m.state /\ start = m.written[p] /\ start + Len(data) <= PieceLen[p]
    BY Zenon DEF Accepts
  <1>2. p \in Pieces /\ start \in Nat /\ PieceLen[p] \in Nat
    BY <1>1, SoundFields, LayoutAssumption, Zenon
  <1>3. /\ Len(data) \in Nat /\ Len(data) > 0 /\ DOMAIN data = 1 .. Len(data)
        /\ \A i \in DOMAIN data : data[i] \in Content
    BY DataFields, Zenon
  <1>6. m.state[p] = "Verified" => m.written[p] = PieceLen[p]
    BY <1>1, Zenon DEF Sound, VerifiedPieces
  <1> QED  BY <1>1, <1>2, <1>3, <1>6

\* The payload file, and the writes on their way to it, are of the file's layout.
BytesInv ==
    /\ payload = [q \in Pieces |-> payload[q]]
    /\ \A q \in Pieces : payload[q] \in [Units(q) -> Content \cup {"none"}]
    /\ \A w \in inflight : /\ w.piece \in Pieces /\ w.start \in Nat /\ w.data \in Data
                          /\ w.start + Len(w.data) <= PieceLen[w.piece]

StoreInv == CopiesInv /\ BytesInv

\* A write changes the units it covers, to what the peer sent.
LEMMA WrittenUnits ==
    ASSUME NEW p \in Pieces, NEW bytes \in [Units(p) -> Content \cup {"none"}],
           NEW start \in Nat, NEW data \in Data
    PROVE  /\ Written(bytes, start, data) \in [Units(p) -> Content \cup {"none"}]
           /\ \A i \in Units(p) :
                 /\ i \in start .. start + Len(data) - 1 => Written(bytes, start, data)[i] # "none"
                 /\ i \notin start .. start + Len(data) - 1 => Written(bytes, start, data)[i] = bytes[i]
  <1>1. Units(p) \subseteq Int
    BY DEF Units
  <1>2. /\ Len(data) \in Nat /\ DOMAIN data = 1 .. Len(data)
        /\ \A i \in DOMAIN data : data[i] \in Content
    BY DataFields, Zenon
  <1>3. \A i \in Units(p) : i \in start .. start + Len(data) - 1 => data[i - start + 1] \in Content
    BY <1>1, <1>2
  <1> QED  BY <1>3, Zenon DEF Written, Content

\* The file changes in one piece.
LEMMA PayloadWritten ==
    ASSUME BytesInv, NEW p \in Pieces, NEW start \in Nat, NEW data \in Data,
           payload' = [payload EXCEPT ![p] = Written(@, start, data)]
    PROVE  /\ payload' = [q \in Pieces |-> payload'[q]]
           /\ \A q \in Pieces : payload'[q] \in [Units(q) -> Content \cup {"none"}]
           /\ payload'[p] = Written(payload[p], start, data)
           /\ \A q \in Pieces \ {p} : payload'[q] = payload[q]
  <1>1. Written(payload[p], start, data) \in [Units(p) -> Content \cup {"none"}]
    BY WrittenUnits, Zenon DEF BytesInv
  <1> QED  BY <1>1, Zenon DEF BytesInv

\* What becomes of the copies when a sound manifest is stored or fails to be.
LEMMA StoreKeeps ==
    ASSUME CopiesInv, NEW m, Sound(m), NEW o \in Outcomes, store_manifest(m, o)
    PROVE  /\ CopiesInv'
           /\ o = "stored" => cache' = m /\ disk' = m
           /\ o # "stored" => cache' = cache /\ disk' \in {disk, Corrupt}
  <1>1. o \in {"stored", "torn", "failed"}
    BY StoreAssumption, Zenon DEF Outcomes
  <1>2. CASE o = "stored"
    <2>1. disk' = m /\ cache' = m
      BY <1>2, Zenon DEF store_manifest
    <2> QED  BY <1>2, <2>1, SoundFields, Zenon DEF CopiesInv
  <1>3. CASE o = "torn"
    <2>1. disk' = Corrupt /\ cache' = cache
      BY <1>3, Zenon DEF store_manifest
    <2> QED  BY <1>3, <2>1, AbsenceAssumption, Zenon DEF CopiesInv
  <1>4. CASE o = "failed"
    <2>1. disk' = disk /\ cache' = cache
      BY <1>4, Zenon DEF store_manifest
    <2> QED  BY <1>4, <2>1, Zenon DEF CopiesInv
  <1> QED  BY <1>1, <1>2, <1>3, <1>4, Zenon

\* A block that is not the last of its piece.
LEMMA ExtendedSound ==
    ASSUME NEW m, Sound(m), NEW p, NEW start, NEW data \in Data, Accepts(m, p, start, data)
    PROVE  LET r == Extended(m, p, Len(data))
           IN  /\ Sound(r) /\ VerifiedPieces(r) = VerifiedPieces(m) /\ DOMAIN r.state = DOMAIN m.state
               /\ \A q \in DOMAIN m.state : r.written[q] = IF q = p THEN start + Len(data) ELSE m.written[q]
               /\ p \in DOMAIN m.state /\ p \notin VerifiedPieces(m)
  <1> DEFINE n == m.written[p] + Len(data)
             r == WithPiece(m, p, "Requested", n)
  <1>1. /\ p \in DOMAIN m.state /\ m.state[p] # "Verified" /\ n = start + Len(data)
        /\ n \in Nat /\ n <= PieceLen[p]
    BY AcceptsOpen
  <1>2. Extended(m, p, Len(data)) = r
    BY Zenon DEF Extended
  <1> HIDE DEF n
  <1>3. /\ Sound(r) /\ VerifiedPieces(r) = VerifiedPieces(m) /\ DOMAIN r.state = DOMAIN m.state
        /\ \A q \in DOMAIN m.state : r.written[q] = IF q = p THEN n ELSE m.written[q]
    BY <1>1, PieceSound
  <1> HIDE DEF r
  <1> QED  BY <1>1, <1>2, <1>3, Zenon DEF VerifiedPieces

\* The manifests keep agreeing with themselves, the bytes keep their layout.
LEMMA StoreStep ==
    ASSUME StoreInv, [Next]_vars
    PROVE  StoreInv'
  <1>0. CopiesInv /\ BytesInv
    BY Zenon DEF StoreInv
  <1>1. CASE QuietStep
    <2>1. PICK m : \E o \in Outcomes : QuietStore(m, o)
      BY <1>0, <1>1, QuietStepStores, Zenon
    <2>2. PICK o \in Outcomes : QuietStore(m, o)
      BY <2>1, Zenon
    <2>3. Sound(m) /\ store_manifest(m, o) /\ payload' = payload /\ inflight' = inflight
      BY <2>2, Zenon DEF QuietStore, Quiet
    <2>4. CopiesInv'
      BY <1>0, <2>3, StoreKeeps, Zenon
    <2>5. BytesInv'
      BY <1>0, <2>3, Zenon DEF BytesInv
    <2> QED  BY <2>4, <2>5, Zenon DEF StoreInv
  <1>2. CASE LoadManifest
    <2>1. CopiesInv'
      BY <1>0, <1>2, Zenon DEF LoadManifest, CopiesInv
    <2>2. BytesInv'
      BY <1>0, <1>2, Zenon DEF LoadManifest, BytesInv
    <2> QED  BY <2>1, <2>2, Zenon DEF StoreInv
  <1>3. ASSUME NEW b \in BOOLEAN, NEW o \in Outcomes, EnsureJob(b, o) PROVE StoreInv'
    <2>1. o \in {"stored", "torn", "failed"} /\ cache = Absent
      BY <1>0, <1>3, StoreAssumption, Zenon DEF Outcomes, EnsureJob, CopiesInv
    <2>2. Sound(NewManifest(b))
      BY NewSound, Zenon
    <2>3. ASSUME o = "stored" PROVE CopiesInv'
      <3>1. cache' = NewManifest(b) /\ disk' = NewManifest(b)
        BY <1>3, <2>3, Zenon DEF EnsureJob
      <3> QED  BY <2>2, <3>1, SoundFields, Zenon DEF CopiesInv
    <2>4. ASSUME o # "stored" PROVE CopiesInv'
      <3>1. cache' = Absent /\ disk' \in {Absent, Corrupt}
        BY <1>3, <2>1, <2>4, Zenon DEF EnsureJob
      <3> QED  BY <3>1, Zenon DEF CopiesInv
    <2>5. BytesInv'
      BY <1>0, <1>3, Zenon DEF EnsureJob, BytesInv
    <2> QED  BY <2>3, <2>4, <2>5, Zenon DEF StoreInv
  <1>4. ASSUME NEW p \in Pieces, NEW data \in Data, NEW e \in BOOLEAN, NEW o \in Outcomes,
               NEW start \in Units(p), AppendPieceBlock(p, start, data, e, o)
        PROVE  StoreInv'
    <2>1. cache # Absent /\ Sound(cache) /\ Accepts(cache, p, start, data)
      BY <1>0, <1>4, Zenon DEF AppendPieceBlock, CopiesInv
    <2>2. p \in DOMAIN cache.state /\ cache.state[p] # "Verified" /\ start \in Nat /\ start + Len(data) <= PieceLen[p]
      BY <2>1, AcceptsOpen, Zenon
    <2>3. CASE AppendInner(p, start, data, e, o)
      <3> DEFINE m == Extended(cache, p, Len(data))
                 w == [piece |-> p, start |-> start, data |-> data]
      <3>1. Sound(m)
        BY <2>1, ExtendedSound, Zenon
      <3>2. CASE should_checkpoint(m, e)
        <4>1. /\ payload' = [payload EXCEPT ![p] = Written(@, start, data)]
              /\ store_manifest(m, o) /\ inflight' = inflight
          BY <2>3, <3>2, Zenon DEF AppendInner
        <4>2. CopiesInv'
          BY <1>0, <3>1, <4>1, StoreKeeps, SMTT(40)
        <4>3. BytesInv'
          BY <1>0, <2>2, <4>1, PayloadWritten, Zenon DEF BytesInv
        <4> QED  BY <4>2, <4>3, Zenon DEF StoreInv
      <3>3. CASE ~should_checkpoint(m, e)
        <4>1. inflight' = inflight \cup {w} /\ cache' = m /\ disk' = disk /\ payload' = payload
          BY <2>3, <3>3, Zenon DEF AppendInner, cache_manifest
        <4>2. w.piece = p /\ w.start = start /\ w.data = data
          OBVIOUS
        <4> HIDE DEF m, w
        <4>3. CopiesInv'
          BY <1>0, <2>1, <3>1, <4>1, Zenon DEF CopiesInv
        <4>4. BytesInv'
          BY <1>0, <2>2, <4>1, <4>2, Zenon DEF BytesInv
        <4> QED  BY <4>3, <4>4, Zenon DEF StoreInv
      <3> QED  BY <3>2, <3>3, Zenon
    <2>4. CASE AppendLast(p, start, data, o)
      <3> DEFINE bytes == Written(payload[p], start, data)
                 m == Checked(cache, p, bytes)
      <3> HIDE DEF bytes
      <3>0. CheckedFrom(cache, p, bytes, m)
        BY <2>1, <2>2, CheckedSound, Zenon
      <3> HIDE DEF m
      <3>1. Sound(m)
        BY <3>0, Zenon DEF CheckedFrom
      <3> USE DEF bytes, m
      <3>2. store_manifest(m, o) /\ inflight' = inflight /\ payload' = [payload EXCEPT ![p] = Written(@, start, data)]
        BY <2>4, Zenon DEF AppendLast
      <3>3. CopiesInv'
        BY <1>0, <3>1, <3>2, StoreKeeps, SMTT(40)
      <3>4. BytesInv'
        BY <1>0, <2>2, <3>2, PayloadWritten, Zenon DEF BytesInv
      <3> QED  BY <3>3, <3>4, Zenon DEF StoreInv
    <2> QED  BY <1>4, <2>3, <2>4, Zenon DEF AppendPieceBlock
  <1>5. ASSUME NEW o \in Outcomes, IngestLocalFile(o) PROVE StoreInv'
    <2>1. CopiesInv'
      BY <1>0, <1>5, IngestedSound, StoreKeeps, Zenon DEF IngestLocalFile
    <2>2. BytesInv'
      BY <1>0, <1>5, Zenon DEF IngestLocalFile, BytesInv, Content
    <2> QED  BY <2>1, <2>2, Zenon DEF StoreInv
  <1>6. ASSUME NEW p \in Pieces, NEW n \in Units(p), IngestCopyFails(p, n) PROVE StoreInv'
    <2>1. CopiesInv'
      BY <1>0, <1>6, Zenon DEF IngestCopyFails, CopiesInv
    <2>2. BytesInv'
      BY <1>0, <1>6, Zenon DEF IngestCopyFails, BytesInv, Content
    <2> QED  BY <2>1, <2>2, Zenon DEF StoreInv
  <1>7. ASSUME NEW w \in inflight, Land(w) PROVE StoreInv'
    <2>1. CopiesInv'
      BY <1>0, <1>7, Zenon DEF Land, CopiesInv
    <2>2. w.piece \in Pieces /\ w.start \in Nat /\ w.data \in Data
      BY <1>0, Zenon DEF BytesInv
    <2>3. payload' = [payload EXCEPT ![w.piece] = Written(@, w.start, w.data)] /\ inflight' \subseteq inflight
      BY <1>7, SMTT(40) DEF Land
    <2>4. BytesInv'
      BY <1>0, <2>2, <2>3, PayloadWritten, Zenon DEF BytesInv
    <2> QED  BY <2>1, <2>4, Zenon DEF StoreInv
  <1>8. CASE Crash \/ CrashWhileStoring
    <2>1. CopiesInv'
      BY <1>0, <1>8, AbsenceAssumption, Zenon DEF Crash, CrashWhileStoring, CopiesInv
    <2>2. BytesInv'
      BY <1>0, <1>8, Zenon DEF Crash, CrashWhileStoring, BytesInv
    <2> QED  BY <2>1, <2>2, Zenon DEF StoreInv
  <1>9. CASE UNCHANGED vars
    BY <1>0, <1>9, Zenon DEF vars, StoreInv, CopiesInv, BytesInv
  <1> QED
    BY <1>1, <1>2, <1>3, <1>4, <1>5, <1>6, <1>7, <1>8, <1>9, Zenon DEF Next, QuietStep

\* The empty store.
LEMMA StoreInit == Init => StoreInv
  <1> SUFFICES ASSUME Init PROVE StoreInv
    OBVIOUS
  <1>1. CopiesInv
    BY Zenon DEF Init, CopiesInv
  <1>2. BytesInv
    BY Zenon DEF Init, BytesInv
  <1> QED  BY <1>1, <1>2, Zenon DEF StoreInv

\* Both copies of the manifest are sound in every reachable state.
THEOREM StoreAlwaysSound == Spec => []StoreInv
  BY StoreInit, StoreStep, PTL DEF Spec

\* The completed flag, the verified ranges and the piece states of the manifest
\* in memory and of the one on disk agree, through every failed, torn or
\* interrupted write and for every layout of the file.
THEOREM CompletedAlwaysWhole == Spec => []CompletedIsWhole
  <1>1. StoreInv => CompletedIsWhole
    BY SMTT(40) DEF StoreInv, CopiesInv, CompletedIsWhole, Manifests, Sound
  <1> QED  BY <1>1, StoreAlwaysSound, PTL

\* A step that takes bytes away from a piece is the failed check of that piece.
LEMMA PrefixStep ==
    ASSUME StoreInv, [Next]_vars
    PROVE  KeepsPrefix
  <1>0. CopiesInv /\ BytesInv
    BY Zenon DEF StoreInv
  <1> SUFFICES ASSUME NEW q \in Pieces, cache # Absent, cache' # Absent, q \in DOMAIN cache.written,
                      cache'.written[q] < cache.written[q]
               PROVE  /\ cache.state[q] # "Verified"
                      /\ cache'.written[q] = 0
                      /\ ~verify_piece(cache, payload'[q])
    BY Zenon DEF KeepsPrefix
  <1>1. /\ Sound(cache) /\ disk # Absent /\ q \in DOMAIN cache.state
        /\ cache.written[q] \in Nat /\ cache.written[q] <= PieceLen[q]
    BY <1>0, SoundFields, Zenon DEF CopiesInv
  <1>2. cache' # cache
    BY <1>1
  <1>3. CASE QuietStep
    <2>1. PICK m : \E o \in Outcomes : QuietStore(m, o)
      BY <1>0, <1>3, QuietStepStores, Zenon
    <2>2. PICK o \in Outcomes : QuietStore(m, o)
      BY <2>1, Zenon
    <2>3. Sound(m) /\ store_manifest(m, o) /\ (m.written = cache.written \/ DOMAIN cache.written = {})
      BY <2>2, Zenon DEF QuietStore, Quiet
    <2>4. cache' = m
      BY <1>0, <1>2, <2>3, StoreKeeps, SMTT(40)
    <2> QED  BY <1>1, <2>3, <2>4
  <1>4. ASSUME NEW p \in Pieces, NEW data \in Data, NEW e \in BOOLEAN, NEW o \in Outcomes,
               NEW start \in Units(p), AppendPieceBlock(p, start, data, e, o)
        PROVE  /\ cache.state[q] # "Verified"
               /\ cache'.written[q] = 0
               /\ ~verify_piece(cache, payload'[q])
    <2>1. Accepts(cache, p, start, data)
      BY <1>4, Zenon DEF AppendPieceBlock
    <2>2. /\ p \in DOMAIN cache.state /\ cache.state[p] # "Verified" /\ start \in Nat /\ Len(data) \in Nat
          /\ start = cache.written[p] /\ PieceLen[p] \in Nat
      BY <1>1, <2>1, AcceptsOpen, SMTT(40)
    <2>3. CASE AppendInner(p, start, data, e, o)
      <3> DEFINE m == Extended(cache, p, Len(data))
      <3>1. /\ Sound(m)
            /\ \A r \in DOMAIN cache.state : m.written[r] = IF r = p THEN start + Len(data) ELSE cache.written[r]
        BY <1>1, <2>1, ExtendedSound
      <3>2. cache' = m
        <4>1. cache' = m \/ store_manifest(m, o)
          BY <2>3, Zenon DEF AppendInner, cache_manifest
        <4> QED  BY <1>0, <1>2, <3>1, <4>1, StoreKeeps, Zenon
      <3> HIDE DEF m
      <3>3. m.written[q] >= cache.written[q]
        <4>1. q \in DOMAIN cache.state /\ cache.written[q] \in Nat
          BY <1>1
        <4>2. CASE q = p
          <5>1. m.written[q] = start + Len(data) /\ cache.written[q] = start
            BY <2>2, <3>1, <4>1, <4>2, Zenon
          <5> QED  BY <2>2, <5>1
        <4>3. CASE q # p
          <5>1. m.written[q] = cache.written[q]
            BY <3>1, <4>1, <4>3, Zenon
          <5> QED  BY <4>1, <5>1
        <4> QED  BY <4>2, <4>3, Zenon
      <3> QED  BY <1>1, <2>2, <3>1, <3>2, <3>3
    <2>4. CASE AppendLast(p, start, data, o)
      <3> DEFINE bytes == Written(payload[p], start, data)
                 m == Checked(cache, p, bytes)
      <3> HIDE DEF bytes
      <3>0. CheckedFrom(cache, p, bytes, m)
        BY <1>1, <2>2, CheckedSound, Zenon
      <3> HIDE DEF m
      <3>1. /\ Sound(m)
            /\ \A r \in DOMAIN cache.state \ {p} : m.written[r] = cache.written[r]
            /\ verify_piece(cache, bytes) => m.written[p] = PieceLen[p]
            /\ ~verify_piece(cache, bytes) => m.written[p] = 0
        BY <3>0, Zenon DEF CheckedFrom
      <3> USE DEF bytes, m
      <3>2. store_manifest(m, o) /\ payload' = [payload EXCEPT ![p] = Written(@, start, data)]
        BY <2>4, SMTT(40) DEF AppendLast
      <3>3. cache' = m
        BY <1>0, <1>2, <3>1, <3>2, StoreKeeps, Zenon
      <3>4. payload'[p] = bytes
        BY <1>0, <2>2, <3>2, PayloadWritten, Zenon
      <3> HIDE DEF m, bytes
      <3>5. q = p /\ ~verify_piece(cache, bytes)
        BY <1>1, <2>2, <3>1, <3>3
      <3> QED  BY <2>2, <3>1, <3>3, <3>4, <3>5, Zenon
    <2> QED  BY <1>4, <2>3, <2>4, Zenon DEF AppendPieceBlock
  <1>5. ASSUME NEW o \in Outcomes, IngestLocalFile(o) PROVE FALSE
    <2>1. Sound(IngestedManifest) /\ IngestedManifest.written = PieceLen /\ store_manifest(IngestedManifest, o)
      BY <1>5, IngestedSound, Zenon DEF IngestLocalFile
    <2>2. cache' = IngestedManifest
      BY <1>0, <1>2, <2>1, StoreKeeps, Zenon
    <2>3. PieceLen[q] \in Nat
      BY LayoutAssumption, Zenon
    <2> QED  BY <1>1, <2>1, <2>2, <2>3
  <1>6. CASE LoadManifest \/ \E b \in BOOLEAN, o \in Outcomes : EnsureJob(b, o)
    BY <1>1, <1>6, Zenon DEF LoadManifest, EnsureJob
  <1>7. CASE \/ \E p \in Pieces : \E n \in Units(p) : IngestCopyFails(p, n)
             \/ \E w \in inflight : Land(w)
             \/ UNCHANGED vars
    BY <1>2, <1>7, Zenon DEF IngestCopyFails, Land, vars
  <1>8. CASE Crash \/ CrashWhileStoring
    BY <1>8, Zenon DEF Crash, CrashWhileStoring
  <1> QED
    BY <1>3, <1>4, <1>5, <1>6, <1>7, <1>8 DEF Next, QuietStep

\* No operation gives up downloaded bytes, but for the whole of a piece that was
\* read back and found wrong; a verified piece keeps all of its bytes.
THEOREM PrefixAlwaysKept == Spec => PrefixKept
  <1>1. StoreInv /\ [Next]_vars => KeepsPrefix
    BY PrefixStep, Zenon
  <1> QED  BY <1>1, StoreAlwaysSound, PTL DEF Spec, PrefixKept

-----------------------------------------------------------------------------
(* The bytes behind the manifest, where a payload write lands before the   *)
(* next operation and a copy never fails half way.                         *)

AllGood(P, f) == \A p \in P : \A i \in Units(p) : f[p][i] = "good"

Covers(w, p, i) == w.piece = p /\ i \in w.start .. w.start + Len(w.data) - 1

\* What m counts is in the file f or in one of the writes W.
HasPrefix(m, f, W) ==
    \A p \in DOMAIN m.written : \A i \in 0 .. m.written[p] - 1 :
        f[p][i] # "none" \/ \E w \in W : Covers(w, p, i)

OnDisk == disk \notin {Absent, Corrupt}

\* Writes in flight belong to a cached manifest and to a piece that is not
\* verified; the manifest on disk verifies no piece that the cached one does not.
BackedInv ==
    /\ cache # Absent => AllGood(VerifiedPieces(cache), payload) /\ HasPrefix(cache, payload, inflight)
    /\ OnDisk => AllGood(VerifiedPieces(disk), payload) /\ HasPrefix(disk, payload, {})
    /\ cache # Absent /\ OnDisk => VerifiedPieces(disk) \subseteq VerifiedPieces(cache)
    /\ cache = Absent => inflight = {}
    /\ \A w \in inflight : w.piece \notin VerifiedPieces(cache)

\* The file never loses what it holds.
Grown == \A q \in Pieces : \A i \in Units(q) : payload[q][i] # "none" => payload'[q][i] # "none"

\* Units a sound manifest counts are units of the piece.
LEMMA CountedUnits ==
    ASSUME NEW m, Sound(m), NEW p \in DOMAIN m.written, NEW i \in 0 .. m.written[p] - 1
    PROVE  p \in Pieces /\ i \in Units(p) /\ i \in Nat
  <1>1. p \in Pieces /\ m.written[p] \in Nat /\ m.written[p] <= PieceLen[p]
    BY SoundFields, Zenon
  <1>2. PieceLen[p] \in Nat
    BY <1>1, LayoutAssumption, Zenon
  <1> QED  BY <1>1, <1>2 DEF Units

LEMMA PrefixGrows ==
    ASSUME NEW m, Sound(m), Grown, NEW W, HasPrefix(m, payload, W)
    PROVE  HasPrefix(m, payload', W)
  BY CountedUnits, Zenon DEF HasPrefix, Grown

\* A write to one piece.
LEMMA WriteGrows ==
    ASSUME BytesInv, NEW p \in Pieces, NEW start \in Nat, NEW data \in Data,
           payload' = [payload EXCEPT ![p] = Written(@, start, data)]
    PROVE  /\ Grown
           /\ \A P \in SUBSET Pieces : p \notin P /\ AllGood(P, payload) => AllGood(P, payload')
           /\ \A i \in Units(p) : i \in start .. start + Len(data) - 1 => payload'[p][i] # "none"
  <1>1. /\ payload'[p] = Written(payload[p], start, data)
        /\ \A q \in Pieces \ {p} : payload'[q] = payload[q]
    BY PayloadWritten, Zenon
  <1>2. payload[p] \in [Units(p) -> Content \cup {"none"}]
    BY Zenon DEF BytesInv
  <1>3. \A i \in Units(p) :
           /\ i \in start .. start + Len(data) - 1 => payload'[p][i] # "none"
           /\ i \notin start .. start + Len(data) - 1 => payload'[p][i] = payload[p][i]
    BY <1>1, <1>2, WrittenUnits
  <1>4. Grown
    BY <1>1, <1>3, Zenon DEF Grown
  <1>5. ASSUME NEW P \in SUBSET Pieces, p \notin P, AllGood(P, payload) PROVE AllGood(P, payload')
    BY <1>1, <1>5, Zenon DEF AllGood
  <1> QED  BY <1>3, <1>4, <1>5, Zenon

\* Storing a backed manifest, or failing to, while no write is in flight.
LEMMA StoreBacked ==
    ASSUME CopiesInv, BackedInv, NEW m, Sound(m), NEW o \in Outcomes, store_manifest(m, o),
           inflight' = {}, Grown,
           HasPrefix(m, payload', {}), AllGood(VerifiedPieces(m), payload'),
           cache # Absent => AllGood(VerifiedPieces(cache), payload') /\ HasPrefix(cache, payload', {}),
           OnDisk => AllGood(VerifiedPieces(disk), payload')
    PROVE  BackedInv'
  <1>1. /\ o = "stored" => cache' = m /\ disk' = m
        /\ o # "stored" => cache' = cache /\ disk' \in {disk, Corrupt}
    BY StoreKeeps, Zenon
  <1>2. OnDisk => HasPrefix(disk, payload', {})
    BY PrefixGrows, SMTT(40) DEF BackedInv, CopiesInv, OnDisk
  <1>3. CASE o = "stored"
    BY <1>1, <1>3, SoundFields, Zenon DEF BackedInv, OnDisk
  <1>4. CASE o # "stored"
    BY <1>1, <1>2, <1>4, Zenon DEF BackedInv, OnDisk
  <1> QED  BY <1>3, <1>4, Zenon

\* A block of piece p, of which the manifest counted the start.
LEMMA AppendBacked ==
    ASSUME StoreInv, BackedInv, WritesSettle,
           NEW p \in Pieces, NEW data \in Data, NEW e \in BOOLEAN, NEW o \in Outcomes,
           NEW start \in Units(p), AppendPieceBlock(p, start, data, e, o)
    PROVE  BackedInv'
  <1>0. CopiesInv /\ BytesInv
    BY Zenon DEF StoreInv
  <1>1. cache # Absent /\ Sound(cache) /\ Accepts(cache, p, start, data) /\ inflight = {}
    BY <1>0, Zenon DEF AppendPieceBlock, CopiesInv
  <1>2. /\ p \in DOMAIN cache.state /\ cache.state[p] # "Verified" /\ start \in Nat /\ Len(data) \in Nat
        /\ start = cache.written[p] /\ start + Len(data) <= PieceLen[p] /\ PieceLen[p] \in Nat
    BY <1>1, AcceptsOpen, SMTT(40)
  <1>3. /\ p \notin VerifiedPieces(cache) /\ VerifiedPieces(cache) \subseteq Pieces
        /\ DOMAIN cache.written = DOMAIN cache.state
    BY <1>1, <1>2, SoundFields, Zenon DEF VerifiedPieces
  <1>4. OnDisk => VerifiedPieces(disk) \subseteq VerifiedPieces(cache) /\ AllGood(VerifiedPieces(disk), payload)
    BY <1>1, Zenon DEF BackedInv
  <1>5. AllGood(VerifiedPieces(cache), payload) /\ HasPrefix(cache, payload, {})
    BY <1>1, Zenon DEF BackedInv
  <1>6. ASSUME payload' = [payload EXCEPT ![p] = Written(@, start, data)]
        PROVE  /\ Grown /\ AllGood(VerifiedPieces(cache), payload') /\ HasPrefix(cache, payload', {})
               /\ OnDisk => AllGood(VerifiedPieces(disk), payload')
               /\ \A i \in Units(p) : i \in start .. start + Len(data) - 1 => payload'[p][i] # "none"
    <2>1. /\ Grown
          /\ \A P \in SUBSET Pieces : p \notin P /\ AllGood(P, payload) => AllGood(P, payload')
          /\ \A i \in Units(p) : i \in start .. start + Len(data) - 1 => payload'[p][i] # "none"
      BY <1>0, <1>2, <1>6, WriteGrows, Zenon
    <2>2. HasPrefix(cache, payload', {})
      BY <1>1, <1>5, <2>1, PrefixGrows, Zenon
    <2>3. AllGood(VerifiedPieces(cache), payload')
      BY <1>3, <1>5, <2>1, Zenon
    <2>4. OnDisk => AllGood(VerifiedPieces(disk), payload')
      BY <1>3, <1>4, <2>3, Zenon DEF AllGood
    <2> QED  BY <2>1, <2>2, <2>3, <2>4, SMTT(40)
  <1>7. CASE AppendInner(p, start, data, e, o)
    <2> DEFINE m == Extended(cache, p, Len(data))
               w == [piece |-> p, start |-> start, data |-> data]
    <2>1. /\ Sound(m) /\ VerifiedPieces(m) = VerifiedPieces(cache) /\ DOMAIN m.state = DOMAIN cache.state
          /\ \A q \in DOMAIN cache.state : m.written[q] = IF q = p THEN start + Len(data) ELSE cache.written[q]
      BY <1>1, ExtendedSound, SMTT(40)
    <2>2. DOMAIN m.written = DOMAIN cache.state
      BY <2>1, SoundFields, SMTT(40)
    <2>3. CASE should_checkpoint(m, e)
      <3>1. /\ payload' = [payload EXCEPT ![p] = Written(@, start, data)]
            /\ store_manifest(m, o) /\ inflight' = {}
        BY <1>1, <1>7, <2>3, Zenon DEF AppendInner
      <3> HIDE DEF m
      <3>2. HasPrefix(m, payload', {})
        <4> SUFFICES ASSUME NEW q \in DOMAIN m.written, NEW i \in 0 .. m.written[q] - 1
                     PROVE  payload'[q][i] # "none"
          BY Zenon DEF HasPrefix
        <4>1. i \in Units(q) /\ i \in Nat
          BY <2>1, CountedUnits, SMTT(40)
        <4>2. CASE q # p \/ i < start
          <5>1. q \in DOMAIN cache.written /\ i \in 0 .. cache.written[q] - 1
            <6>0. q \in DOMAIN cache.state /\ q \in DOMAIN cache.written
              BY <1>3, <2>2, Zenon
            <6>1. CASE q # p
              BY <2>1, <6>0, <6>1, Zenon
            <6>2. CASE q = p
              BY <1>2, <4>1, <4>2, <6>0, <6>2
            <6> QED  BY <6>1, <6>2, Zenon
          <5> QED  BY <1>6, <3>1, <5>1, SMTT(40) DEF HasPrefix
        <4>3. CASE q = p /\ i >= start
          <5>1. i \in start .. start + Len(data) - 1
            BY <1>2, <2>1, <4>1, <4>3, SMTT(40)
          <5> QED  BY <1>6, <3>1, <4>1, <4>3, <5>1, SMTT(40)
        <4>4. i < start \/ i >= start
          BY <1>2, <4>1
        <4> QED  BY <4>2, <4>3, <4>4, Zenon
      <3> QED  BY <1>0, <1>6, <2>1, <3>1, <3>2, StoreBacked, Zenon
    <2>4. CASE ~should_checkpoint(m, e)
      <3>1. inflight' = {w} /\ cache' = m /\ disk' = disk /\ payload' = payload
        BY <1>1, <1>7, <2>4, Zenon DEF AppendInner, cache_manifest
      <3>2. w.piece = p /\ w.start = start /\ w.data = data
        OBVIOUS
      <3> HIDE DEF m, w
      <3>3. HasPrefix(m, payload, {w})
        <4> SUFFICES ASSUME NEW q \in DOMAIN m.written, NEW i \in 0 .. m.written[q] - 1
                     PROVE  payload[q][i] # "none" \/ Covers(w, q, i)
          BY Zenon DEF HasPrefix
        <4>1. i \in Nat
          BY <2>1, CountedUnits, Zenon
        <4>2. CASE q # p \/ i < start
          <5>1. q \in DOMAIN cache.written /\ i \in 0 .. cache.written[q] - 1
            BY <1>2, <1>3, <2>1, <2>2, <4>1, <4>2
          <5> QED  BY <1>5, <5>1, SMTT(40) DEF HasPrefix
        <4>3. CASE q = p /\ i >= start
          <5>1. i \in start .. start + Len(data) - 1
            BY <1>2, <2>1, <4>1, <4>3, SMTT(40)
          <5> QED  BY <3>2, <4>3, <5>1, SMTT(40) DEF Covers
        <4>4. i < start \/ i >= start
          BY <1>2, <4>1
        <4> QED  BY <4>2, <4>3, <4>4, Zenon
      <3>4. m # Absent
        BY <2>1, SoundFields, SMTT(40)
      <3>5. AllGood(VerifiedPieces(cache'), payload') /\ HasPrefix(cache', payload', inflight')
        BY <1>5, <2>1, <3>1, <3>3, Zenon
      <3>6. OnDisk => AllGood(VerifiedPieces(disk'), payload') /\ HasPrefix(disk', payload', {})
        BY <3>1, Zenon DEF BackedInv
      <3>7. OnDisk => VerifiedPieces(disk') \subseteq VerifiedPieces(cache')
        BY <1>4, <2>1, <3>1, Zenon
      <3>8. \A v \in inflight' : v.piece \notin VerifiedPieces(cache')
        BY <1>3, <2>1, <3>1, <3>2, Zenon
      <3>9. OnDisk' <=> OnDisk
        BY <3>1, Zenon DEF OnDisk
      <3> QED  BY <3>1, <3>4, <3>5, <3>6, <3>7, <3>8, <3>9, Zenon DEF BackedInv
    <2> QED  BY <2>3, <2>4, SMTT(40)
  <1>8. CASE AppendLast(p, start, data, o)
    <2> DEFINE bytes == Written(payload[p], start, data)
               m == Checked(cache, p, bytes)
    <2> HIDE DEF bytes
    <2>0. CheckedFrom(cache, p, bytes, m)
      BY <1>1, <1>2, CheckedSound, ZenonT(40)
    <2> HIDE DEF m
    <2>1. /\ Sound(m) /\ DOMAIN m.state = DOMAIN cache.state
          /\ \A r \in DOMAIN cache.state \ {p} : m.written[r] = cache.written[r]
          /\ verify_piece(cache, bytes) => VerifiedPieces(m) = VerifiedPieces(cache) \cup {p}
          /\ ~verify_piece(cache, bytes) => m.written[p] = 0 /\ VerifiedPieces(m) = VerifiedPieces(cache)
      <3>1. Sound(m) /\ DOMAIN m.state = DOMAIN cache.state
        BY <2>0, Zenon DEF CheckedFrom
      <3>2. \A r \in DOMAIN cache.state \ {p} : m.written[r] = cache.written[r]
        BY <2>0, Zenon DEF CheckedFrom
      <3>3. verify_piece(cache, bytes) => VerifiedPieces(m) = VerifiedPieces(cache) \cup {p}
        BY <2>0, Zenon DEF CheckedFrom
      <3>4. ~verify_piece(cache, bytes) => m.written[p] = 0 /\ VerifiedPieces(m) = VerifiedPieces(cache)
        BY <2>0, Zenon DEF CheckedFrom
      <3> QED  BY <3>1, <3>2, <3>3, <3>4, Zenon
    <2> USE DEF bytes, m
    <2>2. /\ store_manifest(m, o) /\ payload' = [payload EXCEPT ![p] = Written(@, start, data)]
          /\ inflight' = {}
      BY <1>1, <1>8, Zenon DEF AppendLast
    <2>3. payload'[p] = bytes /\ DOMAIN bytes = Units(p)
      <3>1. payload'[p] = bytes
        BY <1>0, <1>2, <2>2, PayloadWritten, Zenon
      <3>2. payload[p] \in [Units(p) -> Content \cup {"none"}]
        BY <1>0, Zenon DEF BytesInv
      <3>3. bytes \in [Units(p) -> Content \cup {"none"}]
        BY <1>2, <3>2, WrittenUnits, Zenon
      <3> HIDE DEF bytes
      <3> QED  BY <3>1, <3>3, Zenon
    <2>4. DOMAIN m.written = DOMAIN cache.state
      BY <2>1, SoundFields, Zenon
    <2> HIDE DEF m, bytes
    <2>5. verify_piece(cache, bytes) => \A i \in Units(p) : payload'[p][i] = "good"
      BY <2>3, SMTT(40) DEF verify_piece
    <2>6. AllGood(VerifiedPieces(m), payload')
      BY <1>6, <2>1, <2>2, <2>5, Zenon DEF AllGood
    <2>7. HasPrefix(m, payload', {})
      <3> SUFFICES ASSUME NEW q \in DOMAIN m.written, NEW i \in 0 .. m.written[q] - 1
                   PROVE  payload'[q][i] # "none"
        BY Zenon DEF HasPrefix
      <3>1. i \in Units(q) /\ i \in Nat
        BY <2>1, CountedUnits, SMTT(40)
      <3>2. CASE q # p
        <4>1. q \in DOMAIN cache.written /\ i \in 0 .. cache.written[q] - 1
          BY <1>3, <2>1, <2>4, <3>2, SMTT(40)
        <4> QED  BY <1>6, <2>2, <4>1, ZenonT(40) DEF HasPrefix
      <3>3. CASE q = p
        BY <2>1, <2>5, <3>1, <3>3
      <3> QED  BY <3>2, <3>3, SMTT(40)
    <2> QED  BY <1>0, <1>6, <2>1, <2>2, <2>6, <2>7, StoreBacked, Zenon
  <1> QED  BY <1>7, <1>8, Zenon DEF AppendPieceBlock

LEMMA BackedStep ==
    ASSUME StoreInv, BackedInv, WritesSettle, "copy" \notin Faults, [Next]_vars
    PROVE  BackedInv'
  <1>0. CopiesInv /\ BytesInv
    BY SMTT(40) DEF StoreInv
  <1>1. CASE QuietStep
    <2>1. PICK m : \E o \in Outcomes : QuietStore(m, o)
      BY <1>0, <1>1, QuietStepStores, Zenon
    <2>2. PICK o \in Outcomes : QuietStore(m, o)
      BY <2>1, Zenon
    <2>3. /\ Sound(m) /\ store_manifest(m, o) /\ payload' = payload /\ inflight' = inflight
          /\ cache # Absent /\ VerifiedPieces(m) = VerifiedPieces(cache)
          /\ m.written = cache.written \/ \A p \in DOMAIN m.written : m.written[p] = 0
      BY <2>2, Zenon DEF QuietStore, Quiet
    <2>4. inflight = {}
      BY <2>3, SMTT(40) DEF store_manifest
    <2>5. HasPrefix(cache, payload, {}) /\ AllGood(VerifiedPieces(cache), payload)
      BY <2>3, <2>4, SMTT(40) DEF BackedInv
    <2>6. HasPrefix(m, payload, {})
      BY <2>3, <2>5 DEF HasPrefix
    <2>7. Grown
      BY <2>3, Zenon DEF Grown
    <2>8. OnDisk => AllGood(VerifiedPieces(disk), payload)
      BY Zenon DEF BackedInv
    <2> QED  BY <1>0, <2>3, <2>4, <2>5, <2>6, <2>7, <2>8, StoreBacked, Zenon
  <1>2. CASE LoadManifest
    <2>1. cache = Absent /\ OnDisk /\ cache' = disk /\ disk' = disk /\ payload' = payload /\ inflight' = inflight
      BY <1>2, Zenon DEF LoadManifest, OnDisk
    <2> QED  BY <2>1, Zenon DEF BackedInv, OnDisk
  <1>3. ASSUME NEW b \in BOOLEAN, NEW o \in Outcomes, EnsureJob(b, o) PROVE BackedInv'
    <2>1. o \in {"stored", "torn", "failed"} /\ cache = Absent /\ inflight = {}
      BY <1>0, <1>3, StoreAssumption, Zenon DEF Outcomes, EnsureJob, CopiesInv, BackedInv
    <2>2. /\ Sound(NewManifest(b)) /\ VerifiedPieces(NewManifest(b)) = {}
          /\ \A p \in DOMAIN NewManifest(b).written : NewManifest(b).written[p] = 0
      BY NewSound, Zenon
    <2>3. payload' = payload /\ inflight' = inflight
      BY <1>3, SMTT(40) DEF EnsureJob
    <2>4. CASE o = "stored"
      <3>1. cache' = NewManifest(b) /\ disk' = NewManifest(b)
        BY <1>3, <2>4, Zenon DEF EnsureJob
      <3>2. HasPrefix(NewManifest(b), payload, {}) /\ AllGood({}, payload)
        BY <2>2 DEF HasPrefix, AllGood
      <3> QED  BY <2>1, <2>2, <2>3, <3>1, <3>2, SoundFields, Zenon DEF BackedInv, OnDisk
    <2>5. CASE o # "stored"
      <3>1. cache' = Absent /\ disk' \in {Absent, Corrupt}
        BY <1>3, <2>1, <2>5, Zenon DEF EnsureJob
      <3> QED  BY <2>1, <2>3, <3>1, Zenon DEF BackedInv, OnDisk
    <2> QED  BY <2>4, <2>5, Zenon
  <1>4. ASSUME NEW p \in Pieces, NEW data \in Data, NEW e \in BOOLEAN, NEW o \in Outcomes,
               NEW start \in Units(p), AppendPieceBlock(p, start, data, e, o)
        PROVE  BackedInv'
    BY <1>4, AppendBacked, Zenon
  <1>5. ASSUME NEW o \in Outcomes, IngestLocalFile(o) PROVE BackedInv'
    <2>1. /\ Pieces # {} /\ payload' = [p \in Pieces |-> [i \in Units(p) |-> "good"]]
          /\ store_manifest(IngestedManifest, o) /\ inflight' = inflight
      BY <1>5, Zenon DEF IngestLocalFile
    <2>2. \A p \in Pieces : \A i \in Units(p) : payload'[p][i] = "good"
      BY <2>1, Zenon
    <2>3. Sound(IngestedManifest) /\ inflight = {}
      BY <2>1, IngestedSound, SMTT(40) DEF store_manifest
    <2>4. ASSUME NEW m, Sound(m) PROVE HasPrefix(m, payload', {}) /\ AllGood(VerifiedPieces(m), payload')
      <3>1. VerifiedPieces(m) \subseteq Pieces
        BY <2>4, SoundFields, Zenon
      <3> QED  BY <2>2, <2>4, <3>1, CountedUnits, Zenon DEF HasPrefix, AllGood
    <2>5. Grown
      BY <2>2, Zenon DEF Grown
    <2>6. cache # Absent => Sound(cache)
      BY <1>0, Zenon DEF CopiesInv
    <2>7. OnDisk => Sound(disk)
      BY <1>0, SMTT(40) DEF CopiesInv, OnDisk
    <2>8. CopiesInv /\ inflight' = {} /\ store_manifest(IngestedManifest, o)
      BY <1>0, <2>1, <2>3, Zenon
    <2>9. HasPrefix(IngestedManifest, payload', {}) /\ AllGood(VerifiedPieces(IngestedManifest), payload')
      BY <2>3, <2>4, Zenon
    <2>10. cache # Absent => AllGood(VerifiedPieces(cache), payload') /\ HasPrefix(cache, payload', {})
      BY <2>4, <2>6, Zenon
    <2>11. OnDisk => AllGood(VerifiedPieces(disk), payload')
      BY <2>4, <2>7, Zenon
    <2> QED  BY <2>3, <2>5, <2>8, <2>9, <2>10, <2>11, StoreBacked, Zenon
  <1>6. ASSUME NEW w \in inflight, Land(w) PROVE BackedInv'
    <2>1. w.piece \in Pieces /\ w.start \in Nat /\ w.data \in Data
      BY <1>0, Zenon DEF BytesInv
    <2>2. /\ payload' = [payload EXCEPT ![w.piece] = Written(@, w.start, w.data)]
          /\ inflight' = inflight \ {w} /\ cache' = cache /\ disk' = disk
      BY <1>6, Zenon DEF Land
    <2>3. /\ Grown
          /\ \A P \in SUBSET Pieces : w.piece \notin P /\ AllGood(P, payload) => AllGood(P, payload')
          /\ \A i \in Units(w.piece) : i \in w.start .. w.start + Len(w.data) - 1 => payload'[w.piece][i] # "none"
      <3> DEFINE p == w.piece
                 start == w.start
                 data == w.data
      <3>1. p \in Pieces /\ start \in Nat /\ data \in Data /\ payload' = [payload EXCEPT ![p] = Written(@, start, data)]
        BY <2>1, <2>2, Zenon
      <3> HIDE DEF p, start, data
      <3>2. /\ Grown
            /\ \A P \in SUBSET Pieces : p \notin P /\ AllGood(P, payload) => AllGood(P, payload')
            /\ \A i \in Units(p) : i \in start .. start + Len(data) - 1 => payload'[p][i] # "none"
        BY <1>0, <3>1, WriteGrows, ZenonT(40)
      <3> QED  BY <3>2, Zenon DEF p, start, data
    <2>4. /\ cache # Absent /\ Sound(cache) /\ VerifiedPieces(cache) \subseteq Pieces
          /\ w.piece \notin VerifiedPieces(cache)
      BY <1>0, SoundFields, Zenon DEF BackedInv, CopiesInv
    <2>5. AllGood(VerifiedPieces(cache), payload')
      BY <2>3, <2>4, SMTT(40) DEF BackedInv
    <2>6. HasPrefix(cache, payload', inflight')
      <3> SUFFICES ASSUME NEW q \in DOMAIN cache.written, NEW i \in 0 .. cache.written[q] - 1
                   PROVE  payload'[q][i] # "none" \/ \E v \in inflight' : Covers(v, q, i)
        BY Zenon DEF HasPrefix
      <3>1. q \in Pieces /\ i \in Units(q)
        BY <2>4, CountedUnits, SMTT(40)
      <3>2. payload[q][i] # "none" \/ \E v \in inflight : Covers(v, q, i)
        BY <2>4, SMTT(40) DEF BackedInv, HasPrefix
      <3>3. CASE payload[q][i] # "none"
        BY <2>3, <3>1, <3>3, Zenon DEF Grown
      <3>4. CASE Covers(w, q, i)
        BY <2>3, <3>1, <3>4, SMTT(40) DEF Covers
      <3> QED  BY <2>2, <3>2, <3>3, <3>4, SMTT(40)
    <2>7. OnDisk => AllGood(VerifiedPieces(disk), payload') /\ HasPrefix(disk, payload', {})
      <3> SUFFICES ASSUME OnDisk PROVE AllGood(VerifiedPieces(disk), payload') /\ HasPrefix(disk, payload', {})
        OBVIOUS
      <3>1. Sound(disk) /\ VerifiedPieces(disk) \subseteq VerifiedPieces(cache) /\ HasPrefix(disk, payload, {})
        BY <1>0, <2>4, SMTT(40) DEF CopiesInv, OnDisk, BackedInv
      <3> QED  BY <2>3, <2>5, <3>1, PrefixGrows, Zenon DEF AllGood
    <2> QED  BY <2>2, <2>4, <2>5, <2>6, <2>7, Zenon DEF BackedInv, OnDisk
  <1>7. CASE Crash
    BY <1>7, Zenon DEF Crash, BackedInv, OnDisk
  <1>8. CASE CrashWhileStoring
    BY <1>8, SMTT(40) DEF CrashWhileStoring, BackedInv, OnDisk
  <1>9. CASE UNCHANGED vars
    BY <1>9, Zenon DEF vars, BackedInv, OnDisk
  <1>10. ~ \E p \in Pieces : \E n \in Units(p) : IngestCopyFails(p, n)
    BY Zenon DEF IngestCopyFails
  <1> QED
    BY <1>1, <1>2, <1>3, <1>4, <1>5, <1>6, <1>7, <1>8, <1>9, <1>10, Zenon DEF Next, QuietStep

\* Where payload writes land before the next operation and no copy fails half
\* way, what a manifest calls verified is the file, and what the manifest on
\* disk counts is in the payload file, whatever else fails, is torn or crashes.
THEOREM PayloadAlwaysBacks ==
    ASSUME WritesSettle, "copy" \notin Faults
    PROVE  Spec => [](VerifiedIsGood /\ PrefixOnDisk)
  <1>1. Init => BackedInv
    BY Zenon DEF Init, BackedInv, OnDisk
  <1>2. StoreInv /\ BackedInv /\ [Next]_vars => BackedInv'
    BY BackedStep, Zenon
  <1>3. StoreInv /\ BackedInv => VerifiedIsGood /\ PrefixOnDisk
    <2> SUFFICES ASSUME StoreInv, BackedInv PROVE VerifiedIsGood /\ PrefixOnDisk
      BY SMTT(40)
    <2>1. PrefixOnDisk
      BY SMTT(40) DEF BackedInv, OnDisk, PrefixOnDisk, HasPrefix
    <2>2. VerifiedIsGood
      <3> SUFFICES ASSUME NEW m \in Manifests PROVE AllGood(VerifiedPieces(m) \cup m.verified_ranges, payload)
        BY Zenon DEF VerifiedIsGood, AllGood
      <3>1. m.verified_ranges = VerifiedPieces(m)
        BY Zenon DEF StoreInv, CopiesInv, Manifests, Sound
      <3>2. AllGood(VerifiedPieces(m), payload)
        BY Zenon DEF BackedInv, Manifests, OnDisk
      <3> QED  BY <3>1, <3>2, SMTT(40)
    <2> QED  BY <2>1, <2>2, Zenon
  <1> QED  BY <1>1, <1>2, <1>3, StoreAlwaysSound, PTL DEF Spec

-----------------------------------------------------------------------------
(* The catalog, where manifest writes succeed. *)

\* After a crash the catalog lists what the manifest on disk will bring back.
CatalogInv ==
    /\ cache # Absent => catalog \subseteq cache.verified_ranges
    /\ cache = Absent /\ OnDisk => catalog \subseteq disk.verified_ranges
    /\ cache = Absent /\ ~OnDisk => catalog = {}

LEMMA CatalogStep ==
    ASSUME StoreInv, CatalogInv, Faults \subseteq {"copy"}, [Next]_vars
    PROVE  CatalogInv'
  <1>0. CopiesInv /\ BytesInv
    BY Zenon DEF StoreInv
  <1>00. \A o \in Outcomes : o = "stored"
    BY SMTT(40) DEF Outcomes
  <1>01. ASSUME NEW m, Sound(m), NEW o \in Outcomes, store_manifest(m, o), catalog' \subseteq m.verified_ranges
         PROVE  CatalogInv'
    <2>1. cache' = m
      BY <1>00, <1>01, SMTT(40) DEF store_manifest
    <2> QED  BY <1>01, <2>1, SoundFields, Zenon DEF CatalogInv
  <1>1. CASE QuietStep
    <2>1. PICK m : \E o \in Outcomes : QuietStore(m, o)
      BY <1>0, <1>1, QuietStepStores, Zenon
    <2>2. PICK o \in Outcomes : QuietStore(m, o)
      BY <2>1, Zenon
    <2>3. /\ Sound(m) /\ store_manifest(m, o) /\ cache # Absent /\ VerifiedPieces(m) = VerifiedPieces(cache)
          /\ catalog' \in {catalog, m.verified_ranges}
      BY <2>2, SMTT(40) DEF QuietStore, Quiet
    <2>4. m.verified_ranges = cache.verified_ranges
      BY <1>0, <2>3, Zenon DEF CopiesInv, Sound
    <2> QED  BY <1>01, <2>3, <2>4, Zenon DEF CatalogInv
  <1>2. CASE LoadManifest
    <2>1. cache = Absent /\ OnDisk /\ cache' = disk /\ disk' = disk /\ catalog' = catalog
      BY <1>2, Zenon DEF LoadManifest, OnDisk
    <2> QED  BY <2>1, Zenon DEF CatalogInv, OnDisk
  <1>3. ASSUME NEW b \in BOOLEAN, NEW o \in Outcomes, EnsureJob(b, o) PROVE CatalogInv'
    <2>1. cache = Absent /\ ~OnDisk /\ cache' = NewManifest(b) /\ catalog' = catalog
      BY <1>0, <1>00, <1>3, SMTT(40) DEF EnsureJob, CopiesInv, OnDisk
    <2>2. NewManifest(b) # Absent
      BY NewSound, SoundFields, Zenon
    <2> QED  BY <2>1, <2>2, Zenon DEF CatalogInv
  <1>4. ASSUME NEW p \in Pieces, NEW data \in Data, NEW e \in BOOLEAN, NEW o \in Outcomes,
               NEW start \in Units(p), AppendPieceBlock(p, start, data, e, o)
        PROVE  CatalogInv'
    <2>1. cache # Absent /\ Sound(cache) /\ Accepts(cache, p, start, data)
      BY <1>0, <1>4, SMTT(40) DEF AppendPieceBlock, CopiesInv
    <2>2. p \in DOMAIN cache.state /\ cache.state[p] # "Verified"
      BY <2>1, AcceptsOpen, SMTT(40)
    <2>3. catalog \subseteq VerifiedPieces(cache)
      BY <2>1, SMTT(40) DEF CatalogInv, Sound
    <2>4. CASE AppendInner(p, start, data, e, o)
      <3> DEFINE m == Extended(cache, p, Len(data))
      <3>1. Sound(m) /\ VerifiedPieces(m) = VerifiedPieces(cache)
        BY <2>1, ExtendedSound, SMTT(40)
      <3>2. catalog' = catalog /\ (store_manifest(m, o) \/ cache' = m)
        BY <2>4, SMTT(40) DEF AppendInner, cache_manifest
      <3> HIDE DEF m
      <3>3. catalog' \subseteq m.verified_ranges /\ m # Absent
        BY <2>3, <3>1, <3>2, SoundFields, SMTT(40) DEF Sound
      <3> QED  BY <1>01, <3>1, <3>2, <3>3, SMTT(40) DEF CatalogInv
    <2>5. CASE AppendLast(p, start, data, o)
      <3> DEFINE bytes == Written(payload[p], start, data)
                 m == Checked(cache, p, bytes)
      <3> HIDE DEF bytes
      <3>0. CheckedFrom(cache, p, bytes, m)
        BY <2>1, <2>2, CheckedSound, ZenonT(40)
      <3> HIDE DEF m
      <3>1. Sound(m) /\ VerifiedPieces(cache) \subseteq VerifiedPieces(m)
        BY <3>0, SMTT(40) DEF CheckedFrom
      <3> USE DEF bytes, m
      <3>2. store_manifest(m, o) /\ catalog' \in {catalog, m.verified_ranges}
        BY <2>5, SMTT(40) DEF AppendLast, upsert_catalog
      <3> HIDE DEF m
      <3>3. catalog' \subseteq m.verified_ranges
        BY <2>3, <3>1, <3>2, SMTT(40) DEF Sound
      <3> QED  BY <1>01, <3>1, <3>2, <3>3, Zenon
    <2> QED  BY <1>4, <2>4, <2>5, Zenon DEF AppendPieceBlock
  <1>5. ASSUME NEW o \in Outcomes, IngestLocalFile(o) PROVE CatalogInv'
    <2>1. /\ Sound(IngestedManifest) /\ store_manifest(IngestedManifest, o)
          /\ catalog' = IngestedManifest.verified_ranges
      BY <1>00, <1>5, IngestedSound, SMTT(40) DEF IngestLocalFile, upsert_catalog
    <2> QED  BY <1>01, <2>1, SMTT(40)
  <1>6. CASE \/ \E p \in Pieces : \E n \in Units(p) : IngestCopyFails(p, n)
             \/ \E w \in inflight : Land(w)
             \/ UNCHANGED vars
    <2>1. cache' = cache /\ disk' = disk /\ catalog' = catalog
      BY <1>6, SMTT(40) DEF IngestCopyFails, Land, vars
    <2> QED  BY <2>1, Zenon DEF CatalogInv, OnDisk
  <1>7. CASE Crash
    <2>1. cache' = Absent /\ disk' = disk /\ (OnDisk => catalog' \subseteq disk.verified_ranges) /\ (~OnDisk => catalog' = {})
      BY <1>7, Zenon DEF Crash, OnDisk
    <2> QED  BY <2>1, SMTT(40) DEF CatalogInv, OnDisk
  <1>8. CASE CrashWhileStoring
    BY <1>8, Zenon DEF CrashWhileStoring, CatalogInv, OnDisk
  <1> QED
    BY <1>1, <1>2, <1>3, <1>4, <1>5, <1>6, <1>7, <1>8, Zenon DEF Next, QuietStep

\* Where manifest writes succeed, the catalog advertises only ranges that
\* read_verified_range serves, also after a crash and before the manifest is
\* loaded again, and whatever copy of an ingested file fails.
THEOREM CatalogAlwaysServable ==
    ASSUME Faults \subseteq {"copy"}
    PROVE  Spec => []CatalogServable
  <1>1. Init => CatalogInv
    BY Zenon DEF Init, CatalogInv, OnDisk
  <1>2. StoreInv /\ CatalogInv /\ [Next]_vars => CatalogInv'
    BY CatalogStep, Zenon
  <1>3. CatalogInv => CatalogServable
    BY Zenon DEF CatalogInv, CatalogServable
  <1> QED  BY <1>1, <1>2, <1>3, StoreAlwaysSound, PTL DEF Spec
=============================================================================
