--------------------------- MODULE TransferStore ---------------------------
(***************************************************************************)
(* The resume store of one eD2k transfer: Ed2kTransferRuntime in           *)
(* crates/overlord-agent-emule/src/ed2k_transfer/ (piece_store.rs,         *)
(* store.rs, manifest.rs, metadata.rs, ingest.rs).                         *)
(*                                                                         *)
(* A transfer is a payload file (pieces.bin), a resume manifest on disk    *)
(* (resume-manifest.json), a copy of the manifest in memory, and an entry  *)
(* of the shared catalog.  Every operation holds the manifest_io lock from *)
(* its first read to its last write, so each is one action.  What the lock *)
(* does not cover is modelled: a payload write that was not flushed is     *)
(* performed later by a background thread, a manifest write may fail or be *)
(* torn, and the process may crash between any two operations.             *)
(*                                                                         *)
(* Offsets are counted in units: a unit stands for the smallest fragment a *)
(* peer sends.  The content of a unit is either what the file really holds *)
(* ("good"), something else ("bad"), or the hole left by a range that was  *)
(* never written ("none").  A part's MD4 digest matches exactly when all   *)
(* of its units are good.                                                  *)
(***************************************************************************)
EXTENDS Integers, Sequences, FiniteSets, FiniteSetsExt

CONSTANTS
    Pieces,           \* indices of the parts of the file, in manifest order
    PieceLen,         \* expected_piece_length, in units
    CheckpointUnits,  \* ED2K_RESUME_CHECKPOINT_BYTES, in units
    MaxAppend,        \* bound: units carried by one append
    Faults,           \* I/O errors that may occur: subset of {"torn", "failed", "copy"}
    WritesSettle,     \* TRUE: an unflushed write lands before the next operation
    Crashes,          \* BOOLEAN: may the process crash
    Absent, Corrupt   \* no manifest; a manifest that does not decode

ASSUME LayoutAssumption ==
    /\ Pieces \subseteq Nat
    /\ IsFiniteSet(Pieces)
    /\ PieceLen \in [Pieces -> Nat \ {0}]

ASSUME StoreAssumption ==
    /\ CheckpointUnits \in Nat \ {0}
    /\ MaxAppend \in Nat \ {0}
    /\ Faults \subseteq {"torn", "failed", "copy"}
    /\ WritesSettle \in BOOLEAN
    /\ Crashes \in BOOLEAN

VARIABLES
    cache,      \* manifest_cache: the manifest in memory, or Absent
    disk,       \* resume-manifest.json: a manifest, Absent or Corrupt
    persisted,  \* persisted_bytes_written of the checkpoint state
    payload,    \* pieces.bin
    inflight,   \* payload writes handed to the blocking pool and not flushed
    catalog     \* pieces the shared catalog advertises as verified

vars == <<cache, disk, persisted, payload, inflight, catalog>>

Outcomes == {"stored"} \cup (Faults \ {"copy"})
State == {"Missing", "Requested", "Verified"}
Content == {"good", "bad"}
Units(p) == 0 .. PieceLen[p] - 1

\* Ed2kResumeManifest: one state and one byte count per piece, whether the MD4
\* hashset was acquired, whether an AICH root is known, the verified ranges (as
\* the set of pieces they cover) and the completed flag.  A manifest whose file
\* size is not known yet has no pieces.
Manifest(state, written, hashset, aich, ranges, completed) ==
    [state |-> state, written |-> written, md4_hashset_acquired |-> hashset,
     aich_root |-> aich, verified_ranges |-> ranges, completed |-> completed]

ManifestShape ==
    [state : [{} -> State] \cup [Pieces -> State], written : [{} -> Nat] \cup [Pieces -> Nat],
     md4_hashset_acquired : BOOLEAN, aich_root : BOOLEAN,
     verified_ranges : SUBSET Pieces, completed : BOOLEAN]

ASSUME AbsenceAssumption == Absent # Corrupt /\ {Absent, Corrupt} \cap ManifestShape = {}

IsManifest(m) ==
    /\ m \in ManifestShape
    /\ DOMAIN m.written = DOMAIN m.state
    /\ \A p \in DOMAIN m.written : m.written[p] <= PieceLen[p]
    /\ m.verified_ranges \subseteq DOMAIN m.state

\* Ed2kResumeManifest::new for a job whose size is known or still zero.
NewManifest(sized) ==
    LET D == IF sized THEN Pieces ELSE {}
    IN  Manifest([p \in D |-> "Missing"], [p \in D |-> 0], FALSE, FALSE, {}, FALSE)

WithPiece(m, p, state, written) ==
    Manifest([m.state EXCEPT ![p] = state], [m.written EXCEPT ![p] = written],
             m.md4_hashset_acquired, m.aich_root, m.verified_ranges, m.completed)

VerifiedPieces(m) == {p \in DOMAIN m.state : m.state[p] = "Verified"}

\* Mutant: the verified ranges are not rebuilt.
RebuiltFlagOnly(m) ==
    LET completed == VerifiedPieces(m) = DOMAIN m.state
    IN  Manifest(m.state, m.written, m.md4_hashset_acquired, m.aich_root \/ completed,
                 m.verified_ranges, completed)

\* rebuild_verified_ranges and is_fully_verified, after a piece was checked.  The
\* last piece also brings an AICH root, computed from the payload unless a peer
\* had given one (refresh_completed_manifest_aich_hashset).
Rebuilt(m) ==
    LET completed == VerifiedPieces(m) = DOMAIN m.state
    IN  Manifest(m.state, m.written, m.md4_hashset_acquired, m.aich_root \/ completed,
                 VerifiedPieces(m), completed)

\* manifest_progress_bytes
Progress(m) == MapThenSumSet(LAMBDA p : m.written[p], DOMAIN m.written)

\* Mutant: only the first unit is compared.
VerifyFirst(m, bytes) == m.md4_hashset_acquired /\ bytes[0] = "good"

\* verify_piece_against_manifest, of the bytes read back from the payload file.
verify_piece(m, bytes) ==
    m.md4_hashset_acquired /\ \A i \in DOMAIN bytes : bytes[i] = "good"

\* The content of a piece once the write has reached the file.
Written(bytes, start, data) ==
    [i \in DOMAIN bytes |->
        IF i \in start .. start + Len(data) - 1 THEN data[i - start + 1] ELSE bytes[i]]

Init ==
    /\ cache = Absent
    /\ disk = Absent
    /\ persisted = 0
    /\ payload = [p \in Pieces |-> [i \in Units(p) |-> "none"]]
    /\ inflight = {}
    /\ catalog = {}
-----------------------------------------------------------------------------
\* store_manifest_unlocked: tokio::fs::write truncates and rewrites the file in
\* place, and only then are the cache and the checkpoint state updated.  An
\* error leaves the memory copy as it was, and the file either untouched (the
\* open failed) or torn.
store_manifest(m, outcome) ==
    /\ WritesSettle => inflight = {}
    /\ disk' = CASE outcome = "stored" -> m
                 [] outcome = "torn" -> Corrupt
                 [] outcome = "failed" -> disk
    /\ cache' = IF outcome = "stored" THEN m ELSE cache
    /\ persisted' = IF outcome = "stored" THEN Progress(m) ELSE persisted

\* cache_manifest_unlocked
cache_manifest(m) == cache' = m /\ UNCHANGED <<disk, persisted>>

\* Mutant: the byte threshold is ignored.
CheckpointByTimer(m, elapsed) == Progress(m) > persisted /\ elapsed

\* should_checkpoint_manifest_unlocked; two seconds may have elapsed or not.
should_checkpoint(m, elapsed) ==
    LET dirty == Progress(m) - persisted
    IN  dirty >= CheckpointUnits \/ (dirty > 0 /\ elapsed)

\* upsert_verified_catalog_entry: the entry is rebuilt from the manifest.
upsert_catalog(m) == catalog' = m.verified_ranges

\* load_manifest_unlocked on a cold cache: reads, decodes and caches.  Every
\* operation starts with it; the ones below run with the cache warm, which the
\* load alone already brings about.
LoadManifest ==
    /\ cache = Absent
    /\ disk \notin {Absent, Corrupt}
    /\ cache' = disk
    /\ persisted' = Progress(disk)
    /\ UNCHANGED <<disk, payload, inflight, catalog>>

\* ensure_job: creates the manifest when the file is not there, and rebuilds it
\* (load_manifest_or_rebuild_unlocked, quarantine_corrupt_manifest) when the
\* file is there, does not decode, and no copy is cached.  The quarantine has
\* moved the corrupt file away before the new one is written.
EnsureJob(sized, outcome) ==
    /\ disk = Absent \/ (cache = Absent /\ disk = Corrupt)
    /\ disk' = CASE outcome = "stored" -> NewManifest(sized)
                 [] outcome = "torn" -> Corrupt
                 [] outcome = "failed" -> Absent
    /\ cache' = IF outcome = "stored" THEN NewManifest(sized) ELSE cache
    /\ persisted' = IF outcome = "stored" THEN 0 ELSE persisted
    /\ UNCHANGED <<payload, inflight, catalog>>

\* manifest_has_structural_progress
HasProgress(m) ==
    \/ m.completed \/ m.md4_hashset_acquired \/ m.aich_root \/ m.verified_ranges # {}
    \/ \E p \in DOMAIN m.written : m.written[p] # 0

\* A metadata change: the manifest is stored, and then the catalog entry renewed.
StoreAndPublish(m, outcome) ==
    /\ store_manifest(m, outcome)
    /\ IF outcome = "stored" THEN upsert_catalog(m) ELSE UNCHANGED catalog
    /\ UNCHANGED <<payload, inflight>>

\* reconcile_job_metadata.  A peer or a server revealed the file size: it is
\* adopted unless the manifest has progress already (the call fails then).
AdoptFileSize(outcome) ==
    /\ cache # Absent
    /\ DOMAIN cache.state = {}
    /\ ~HasProgress(cache)
    /\ StoreAndPublish(NewManifest(TRUE), outcome)

\* reconcile_job_metadata.  A peer revealed a better name, no piece changes.
AdoptName(outcome) ==
    /\ cache # Absent
    /\ StoreAndPublish(cache, outcome)

\* reconcile_aich_root and store_aich_hashset: a root is never replaced.
LearnAichRoot(outcome) ==
    /\ cache # Absent
    /\ StoreAndPublish([cache EXCEPT !.aich_root = TRUE], outcome)

\* remember_source: the whole manifest is stored for one more source.
RememberSource(outcome) ==
    /\ cache # Absent
    /\ store_manifest(cache, outcome)
    /\ UNCHANGED <<payload, inflight, catalog>>

\* store_md4_hashset: validated against the file hash, so that the stored
\* hashset is always the file's own.
StoreMd4Hashset(outcome) ==
    /\ cache # Absent
    /\ store_manifest([cache EXCEPT !.md4_hashset_acquired = TRUE], outcome)
    /\ UNCHANGED <<payload, inflight, catalog>>
-----------------------------------------------------------------------------
MissingPieces(m) == {p \in DOMAIN m.state : m.state[p] = "Missing"}

\* claim_next_missing_part: the first missing piece in manifest order.
NextMissing(m) == CHOOSE p \in MissingPieces(m) : \A q \in MissingPieces(m) : p <= q

ClaimNextMissingPart(outcome) ==
    /\ cache # Absent
    /\ MissingPieces(cache) # {}
    /\ LET p == NextMissing(cache)
       IN  store_manifest(WithPiece(cache, p, "Requested", cache.written[p]), outcome)
    /\ UNCHANGED <<payload, inflight, catalog>>

\* Mutant: the piece starts again from nothing.
ReleaseFromStart(p, outcome) ==
    /\ cache # Absent
    /\ p \in DOMAIN cache.state
    /\ cache.state[p] = "Requested"
    /\ store_manifest(WithPiece(cache, p, "Missing", 0), outcome)
    /\ UNCHANGED <<payload, inflight, catalog>>

\* release_piece_request: whoever asks, a requested piece becomes missing.
ReleasePieceRequest(p, outcome) ==
    /\ cache # Absent
    /\ p \in DOMAIN cache.state
    /\ cache.state[p] = "Requested"
    /\ store_manifest(WithPiece(cache, p, "Missing", cache.written[p]), outcome)
    /\ UNCHANGED <<payload, inflight, catalog>>

\* reclaim_stale_piece_requests
Reclaimed(m) ==
    [m EXCEPT !.state =
        [p \in DOMAIN m.state |-> IF m.state[p] = "Requested" THEN "Missing" ELSE m.state[p]]]

ReclaimStalePieceRequests(outcome) ==
    /\ cache # Absent
    /\ \E p \in DOMAIN cache.state : cache.state[p] = "Requested"
    /\ store_manifest(Reclaimed(cache), outcome)
    /\ UNCHANGED <<payload, inflight, catalog>>

\* The manifest append_piece_block leaves behind when the block was not the
\* last of its piece: the piece counts as requested, whatever it was before.
Extended(m, p, n) == WithPiece(m, p, "Requested", m.written[p] + n)

\* Mutant: a piece that failed verification keeps its byte count.
CheckedKeepsCount(m, p, bytes) ==
    Rebuilt(WithPiece(m, p, IF verify_piece(m, bytes) THEN "Verified" ELSE "Missing", PieceLen[p]))

\* The manifest append_piece_block leaves behind after checking a whole piece.
Checked(m, p, bytes) ==
    Rebuilt(IF verify_piece(m, bytes) THEN WithPiece(m, p, "Verified", PieceLen[p])
                                      ELSE WithPiece(m, p, "Missing", 0))

\* append_piece_block accepts the block only where the piece's prefix ends.
Accepts(m, p, start, data) ==
    /\ p \in DOMAIN m.state
    /\ start = m.written[p]
    /\ start + Len(data) <= PieceLen[p]

\* A block that is not the last one.  With a checkpoint the write is flushed and
\* the manifest stored; without, the file is dropped with the write still in the
\* blocking pool, and only the cached manifest advances.
AppendInner(p, start, data, elapsed, outcome) ==
    LET m == Extended(cache, p, Len(data))
    IN  /\ start + Len(data) < PieceLen[p]
        /\ IF should_checkpoint(m, elapsed)
             THEN /\ payload' = [payload EXCEPT ![p] = Written(@, start, data)]
                  /\ store_manifest(m, outcome)
                  /\ UNCHANGED inflight
             ELSE /\ inflight' = inflight \cup {[piece |-> p, start |-> start, data |-> data]}
                  /\ cache_manifest(m)
                  /\ UNCHANGED payload
        /\ UNCHANGED catalog

\* The last block: flushed, then the whole piece is read back and hashed.  The
\* catalog is updated before the manifest is stored.
AppendLast(p, start, data, outcome) ==
    LET bytes == Written(payload[p], start, data)
        m     == Checked(cache, p, bytes)
    IN  /\ start + Len(data) = PieceLen[p]
        /\ payload' = [payload EXCEPT ![p] = bytes]
        /\ IF m.state[p] = "Verified" THEN upsert_catalog(m) ELSE UNCHANGED catalog
        /\ store_manifest(m, outcome)
        /\ UNCHANGED inflight

AppendPieceBlock(p, start, data, elapsed, outcome) ==
    /\ cache # Absent
    /\ WritesSettle => inflight = {}
    /\ Accepts(cache, p, start, data)
    /\ \/ AppendInner(p, start, data, elapsed, outcome)
       \/ AppendLast(p, start, data, outcome)

\* ingest_local_file: a complete local copy replaces the payload; an empty file
\* is refused.  The hash of the source decides which transfer it is, so its
\* content is always good.
IngestedManifest ==
    Manifest([p \in Pieces |-> "Verified"], PieceLen, TRUE, TRUE, Pieces, TRUE)

IngestLocalFile(outcome) ==
    /\ Pieces # {}
    /\ payload' = [p \in Pieces |-> [i \in Units(p) |-> "good"]]
    /\ store_manifest(IngestedManifest, outcome)
    /\ IF outcome = "stored" THEN upsert_catalog(IngestedManifest) ELSE UNCHANGED catalog
    /\ UNCHANGED inflight

\* tokio::fs::copy truncates the payload file first and fails, or dies with the
\* process, after n units of piece p: what follows is lost.
IngestCopyFails(p, n) ==
    /\ "copy" \in Faults
    /\ payload' = [q \in Pieces |-> [i \in Units(q) |->
                      IF q < p \/ (q = p /\ i < n) THEN "good" ELSE "none"]]
    /\ UNCHANGED <<cache, disk, persisted, inflight, catalog>>

\* A write left in the blocking pool by a dropped tokio::fs::File completes.
Land(w) ==
    /\ inflight' = inflight \ {w}
    /\ payload' = [payload EXCEPT ![w.piece] = Written(@, w.start, w.data)]
    /\ UNCHANGED <<cache, disk, persisted, catalog>>

\* The process dies and is started again.  Memory and unperformed writes are
\* lost; load_catalog_from_manifests lists completed transfers only.
Crash ==
    /\ Crashes
    /\ cache' = Absent
    /\ persisted' = 0
    /\ inflight' = {}
    /\ catalog' = IF disk \in {Absent, Corrupt} THEN {}
                  ELSE IF disk.completed THEN disk.verified_ranges ELSE {}
    /\ UNCHANGED <<disk, payload>>

\* The process dies inside store_manifest_unlocked: the file is torn.
CrashWhileStoring ==
    /\ Crashes
    /\ cache # Absent \/ disk \in {Absent, Corrupt}
    /\ cache' = Absent
    /\ disk' = Corrupt
    /\ persisted' = 0
    /\ inflight' = {}
    /\ catalog' = {}
    /\ UNCHANGED payload

Data == UNION {[1 .. n -> Content] : n \in 1 .. MaxAppend}

Next ==
    \/ LoadManifest
    \/ \E sized \in BOOLEAN, o \in Outcomes : EnsureJob(sized, o)
    \/ \E o \in Outcomes : AdoptFileSize(o)
    \/ \E o \in Outcomes : AdoptName(o)
    \/ \E o \in Outcomes : LearnAichRoot(o)
    \/ \E o \in Outcomes : RememberSource(o)
    \/ \E o \in Outcomes : StoreMd4Hashset(o)
    \/ \E o \in Outcomes : ClaimNextMissingPart(o)
    \/ \E p \in Pieces, o \in Outcomes : ReleasePieceRequest(p, o)
    \/ \E o \in Outcomes : ReclaimStalePieceRequests(o)
    \/ \E p \in Pieces, data \in Data, elapsed \in BOOLEAN, o \in Outcomes :
          \E start \in Units(p) : AppendPieceBlock(p, start, data, elapsed, o)
    \/ \E o \in Outcomes : IngestLocalFile(o)
    \/ \E p \in Pieces : \E n \in Units(p) : IngestCopyFails(p, n)
    \/ \E w \in inflight : Land(w)
    \/ Crash
    \/ CrashWhileStoring

Spec == Init /\ [][Next]_vars
-----------------------------------------------------------------------------
Manifests == {m \in {cache, disk} : m \notin {Absent, Corrupt}}

\* Type correctness; a cached manifest is never the undecodable one.
TypeOK ==
    /\ cache = Absent \/ IsManifest(cache)
    /\ disk \in {Absent, Corrupt} \/ IsManifest(disk)
    /\ persisted \in Nat
    /\ payload \in [Pieces -> UNION {[Units(p) -> Content \cup {"none"}] : p \in Pieces}]
    /\ \A p \in Pieces : DOMAIN payload[p] = Units(p)
    /\ \A w \in inflight : /\ DOMAIN w = {"piece", "start", "data"}
                          /\ w.piece \in Pieces
                          /\ w.start + Len(w.data) <= PieceLen[w.piece]
                          /\ \A i \in DOMAIN w.data : w.data[i] \in Content
    /\ catalog \subseteq Pieces

\* What read_verified_range serves is the file: a piece that the manifest, in
\* memory or on disk, calls verified is whole and correct in the payload file,
\* and stays so across crashes, torn manifests and later blocks from any peer.
VerifiedIsGood ==
    \A m \in Manifests : \A p \in VerifiedPieces(m) \cup m.verified_ranges :
        \A i \in Units(p) : payload[p][i] = "good"

\* The completed flag, the verified ranges and the piece states of a manifest,
\* which append_piece_block and ingest_local_file update separately, agree; and
\* a manifest that has no pieces yet is never complete (is_fully_verified holds
\* vacuously for it).
CompletedIsWhole ==
    \A m \in Manifests :
        /\ m.verified_ranges = VerifiedPieces(m)
        /\ m.completed <=> (DOMAIN m.state # {} /\ VerifiedPieces(m) = Pieces)
        /\ \A p \in VerifiedPieces(m) : m.written[p] = PieceLen[p]

\* bytes_written is the "last persisted byte count written into the piece store":
\* a resumed session starts after it, so the prefix it counts must be in the
\* payload file whatever manifest a restart finds on disk.
PrefixOnDisk ==
    disk \notin {Absent, Corrupt} =>
        \A p \in DOMAIN disk.written : \A i \in 0 .. disk.written[p] - 1 :
            payload[p][i] # "none"

\* A crash costs less than one checkpoint: should_checkpoint_manifest_unlocked
\* keeps the manifest on disk within ED2K_RESUME_CHECKPOINT_BYTES of the one in
\* memory, whatever operations come between the appends.
BoundedLoss ==
    (cache # Absent /\ disk \notin {Absent, Corrupt}) =>
        Progress(cache) - Progress(disk) < CheckpointUnits

\* The catalog advertises only ranges that read_verified_range would serve.
CatalogServable == cache # Absent => catalog \subseteq cache.verified_ranges

\* A transfer created without a file size can still adopt one when a peer or a
\* server reveals it (reconcile_job_metadata).
SizeAdoptable == (cache # Absent /\ DOMAIN cache.state = {}) => ~HasProgress(cache)

\* Downloaded bytes are given up only when a whole piece was read back and found
\* wrong: release_piece_request and reclaim_stale_piece_requests keep the prefix
\* of a piece, and no piece that was verified is ever asked for again.
KeepsPrefix ==
    \A p \in Pieces :
        (/\ cache # Absent /\ cache' # Absent
         /\ p \in DOMAIN cache.written
         /\ cache'.written[p] < cache.written[p])
        => /\ cache.state[p] # "Verified"
           /\ cache'.written[p] = 0
           /\ ~verify_piece(cache, payload'[p])

\* No step of the store, crash or late write takes bytes of a known manifest
\* away in any other way (append_piece_block, release_piece_request).
PrefixKept == [][KeepsPrefix]_vars
=============================================================================
