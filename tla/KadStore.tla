------------------------------ MODULE KadStore ------------------------------
(***************************************************************************)
(* The in-memory store of Kad publishes (kad_store.rs) and the part of the *)
(* packet handler that fills it and answers searches from it               *)
(* (agent/kad_unsolicited.rs).                                             *)
(*                                                                         *)
(* One sequence of entries per packet family, in the order of the code's   *)
(* vectors.  An entry is reduced to what the store compares: target, the   *)
(* 128-bit id (file hash or publisher), size (0: no size tag), address,    *)
(* ports and the time it was observed.  A publish that the tag checks of   *)
(* the code refuse is one with ok = FALSE.  KsWeight is the number of      *)
(* bytes a result takes in an encoded answer.                              *)
(***************************************************************************)
EXTENDS Integers, Sequences, SequencesExt, FiniteSetsExt

CONSTANTS
    KsTargets, KsIds, KsIps, KsPorts, KsSizes,
    KsEnabled,      \* local_store_enabled
    KsTtl,          \* lifetime of an entry
    KsCapacity,     \* entries of one family
    KsPerFile,      \* STOCK_MAX_SOURCES_PER_FILE, STOCK_MAX_NOTES_PER_FILE
    KsIndex,        \* STOCK_MAX_KEYWORD_INDEX
    KsKeywordMax,   \* STOCK_MAX_KEYWORD_ENTRIES
    KsHotMargin,    \* STOCK_HOT_KEYWORD_REPUBLISH_MARGIN
    KsLimit,        \* LOCAL_*_SEARCH_RESPONSE_LIMIT
    KsPageMax,      \* LOCAL_SEARCH_RESPONSE_MAX_PACKET_BYTES
    KsWeight,
    KsMaxTime       \* bound on the clock

ASSUME KsBounds == /\ {KsTtl, KsCapacity, KsPerFile, KsIndex, KsLimit} \subseteq Nat \ {0}
                   /\ KsWeight \in [KsIds -> Nat \ {0}]

NoIp == "0.0.0.0"
KsFamilies == {"keyword", "source", "notes"}

VARIABLES
    ksEntries,  \* keyword_entries, source_entries, notes_entries
    ksNow,
    ksReply     \* what the last packet was answered with

ksVars == <<ksEntries, ksNow, ksReply>>

(* kind, load, found and pages are the answer; about is the family, the     *)
(* last acceptable entry and the entries stored of a publish, kept for the  *)
(* properties.                                                              *)
Silent == [kind |-> "none", load |-> 0, about |-> <<>>, found |-> <<>>, pages |-> <<>>]
LoadOf(load, about) == [Silent EXCEPT !.kind = "load", !.load = load, !.about = about]

KsInit ==
    /\ ksEntries = [f \in KsFamilies |-> <<>>]
    /\ ksNow = 0
    /\ ksReply = Silent

-----------------------------------------------------------------------------
(* Expiry, replacement and eviction *)

Live(f, e) == e.at + KsTtl > ksNow

Purged(f) == SelectSeq(ksEntries[f], LAMBDA e : Live(f, e))

OfTarget(s, t) == {i \in DOMAIN s : s[i].t = t}

(* The entry a publish replaces: the same file and size of a keyword, the  *)
(* same address and one equal port of a source, the same address or the    *)
(* same publisher of a note.                                               *)
Replaces(f, e, old) ==
    /\ e.t = old.t
    /\ CASE f = "keyword" -> e.id = old.id /\ e.size = old.size
         [] f = "source"  -> e.ip = old.ip /\ (e.tcp = old.tcp \/ e.udp = old.udp)
         [] f = "notes"   -> e.ip = old.ip \/ e.id = old.id

WithoutFirstOfTarget(f, s, t) ==
    IF f # "keyword" /\ Cardinality(OfTarget(s, t)) > KsPerFile
    THEN RemoveAt(s, Min(OfTarget(s, t)))
    ELSE s

OldestAt(s) == Min({i \in DOMAIN s : \A j \in DOMAIN s : s[i].at <= s[j].at})

WithinCapacity(s) == IF Len(s) >= KsCapacity THEN RemoveAt(s, OldestAt(s)) ELSE s

(* Mutant: room is made before an entry to replace is looked for. *)
UpsertedEvictingFirst(f, s, e) ==
    LET kept == WithinCapacity(WithoutFirstOfTarget(f, s, e.t))
        same == {i \in DOMAIN kept : Replaces(f, e, kept[i])}
    IN IF same # {} THEN [kept EXCEPT ![Min(same)] = e] ELSE Append(kept, e)

Upserted(f, s, e) ==
    LET same == {i \in DOMAIN s : Replaces(f, e, s[i])}
    IN IF same # {}
       THEN [s EXCEPT ![Min(same)] = e]
       ELSE Append(WithinCapacity(WithoutFirstOfTarget(f, s, e.t)), e)

-----------------------------------------------------------------------------
(* Publishing *)

FilesOf(s, t) == {s[i].id : i \in OfTarget(s, t)}

(* stock_keyword_publish_decision: the load answered, and whether the      *)
(* entry is kept.                                                          *)
Decision(s, e) ==
    LET files == FilesOf(s, e.t)
        n == Cardinality(files)
        full == \/ Len(s) > KsKeywordMax
                \/ n > KsIndex
                \/ e.id \in files /\ n > KsIndex - KsHotMargin
    IN [store |-> ~full,
        load |-> CASE full -> 100
                   [] ~full /\ n = 0 -> 1
                   [] OTHER -> (n * 100) \div KsIndex]

PublishLoad(f, s, e) ==
    LET n == Cardinality(OfTarget(s, e.t))
    IN CASE n = 0 -> 1
         [] n > KsPerFile /\ ~\E i \in DOMAIN s : Replaces(f, e, s[i]) -> 100
         [] OTHER -> (n * 100) \div KsPerFile

KeywordStep(acc, e) ==
    IF ~e.ok \/ e.size = 0 THEN acc
    ELSE LET d == Decision(acc.s, e)
             new == [e EXCEPT !.at = ksNow]
             kept == IF d.store THEN acc.kept \cup {new} ELSE acc.kept
         IN [s |-> IF d.store THEN Upserted("keyword", acc.s, new) ELSE acc.s,
             load |-> d.load, kept |-> kept, about |-> <<"keyword", new, kept>>]

(* PublishKeyReq: every acceptable entry of the batch is decided on in     *)
(* turn; the answer carries the load of the last one.                      *)
PublishKeys(batch) ==
    LET start == [s |-> IF KsEnabled THEN Purged("keyword") ELSE ksEntries["keyword"],
                  load |-> 0, kept |-> {}, about |-> <<>>]
        end == IF KsEnabled THEN FoldLeft(KeywordStep, start, batch) ELSE start
    IN /\ ksEntries' = [ksEntries EXCEPT !["keyword"] = end.s]
       /\ ksReply' = LoadOf(end.load, end.about)
       /\ UNCHANGED ksNow

AcceptsSource(e) == KsEnabled /\ e.ok /\ e.ip # NoIp /\ e.udp # 0 /\ e.tcp # 0
AcceptsNote(e) == KsEnabled /\ e.ok /\ e.ip # NoIp

(* PublishSourceReq, PublishNotesReq: a refused publish is not answered.   *)
PublishOne(f, e) ==
    /\ IF IF f = "source" THEN AcceptsSource(e) ELSE AcceptsNote(e)
       THEN LET s == Purged(f)
                new == [e EXCEPT !.at = ksNow]
            IN /\ ksEntries' = [ksEntries EXCEPT ![f] = Upserted(f, s, new)]
               /\ ksReply' = LoadOf(PublishLoad(f, s, e), <<f, new, {new}>>)
       ELSE ksReply' = Silent /\ UNCHANGED ksEntries
    /\ UNCHANGED ksNow

-----------------------------------------------------------------------------
(* Searching *)

(* Keyword results come in the order of the vector, the others newest      *)
(* first; a source search skips start_position entries before it filters   *)
(* by size, a notes search has no start position.                          *)
Skipped(s, n) == SubSeq(s, n + 1, Len(s))
FirstOf(s) == SubSeq(s, 1, Min({Len(s), KsLimit}))
SizeFits(e, size) == size = 0 \/ e.size = 0 \/ e.size = size

(* passing: the ids whose names and tags satisfy the restrictive payload   *)
(* of a keyword search, all of them when it has none.                      *)
Matching(f, s, t, start, size, passing) ==
    LET ofTarget == SelectSeq(s, LAMBDA e : e.t = t)
    IN FirstOf(CASE f = "keyword" ->
                      Skipped(SelectSeq(ofTarget, LAMBDA e : e.id \in passing), start)
                 [] f = "source" ->
                      SelectSeq(Skipped(Reverse(ofTarget), start), LAMBDA e : SizeFits(e, size))
                 [] f = "notes" -> SelectSeq(Reverse(ofTarget), LAMBDA e : SizeFits(e, size)))

PageBytes(page) == FoldLeft(LAMBDA n, e : n + KsWeight[e.id], 0, page)

(* split_stock_search_responses: a page is closed when the next result     *)
(* would make its packet too long; a single result is never split.         *)
Paged(results) ==
    FoldLeft(LAMBDA pages, e :
                IF pages # <<>> /\ PageBytes(Append(Last(pages), e)) <= KsPageMax
                THEN [pages EXCEPT ![Len(pages)] = Append(@, e)]
                ELSE Append(pages, <<e>>),
             <<>>, results)

(* The store's half of SearchKeyReq, SearchSourceReq and SearchNotesReq:   *)
(* nothing is sent when nothing matches.                                   *)
AnswerSearch(f, t, start, size, passing) ==
    LET s == IF KsEnabled THEN Purged(f) ELSE ksEntries[f]
        found == IF KsEnabled THEN Matching(f, s, t, start, size, passing) ELSE <<>>
    IN /\ ksEntries' = [ksEntries EXCEPT ![f] = s]
       /\ ksReply' = IF found = <<>> THEN Silent
                     ELSE [Silent EXCEPT !.kind = "results", !.found = found,
                                         !.pages = Paged(found)]
       /\ UNCHANGED ksNow

KsTick ==
    /\ ksNow < KsMaxTime
    /\ ksNow' = ksNow + 1
    /\ ksReply' = Silent
    /\ UNCHANGED ksEntries

-----------------------------------------------------------------------------
(* Properties *)

(* A family never holds more entries than its capacity, and no target has  *)
(* more sources or notes than the per-file limit lets in, whatever the     *)
(* publishes (upsert_source_entry, upsert_notes_entry).                    *)
StoreBounded ==
    \A f \in KsFamilies :
        /\ Len(ksEntries[f]) <= KsCapacity
        /\ f # "keyword" => \A t \in KsTargets :
               Cardinality(OfTarget(ksEntries[f], t)) <= KsPerFile + 1

(* What a publish costs: an entry that refreshes another takes its place   *)
(* and no other live entry goes, also when the store is full; a new one    *)
(* costs at most the oldest of the whole store and, of sources and notes,  *)
(* one of its file (upsert_entry, upsert_source_entry, upsert_notes_entry). *)
(* A keyword publish stores a batch of entries, one after the other.       *)
RefreshCostsNothing ==
    ksReply'.about # <<>> =>
        LET f == ksReply'.about[1]
            stored == ksReply'.about[3]
            old == ToSet(Purged(f))
            lost == old \ ToSet(ksEntries'[f])
            fresh == {n \in stored : ~\E e \in old : Replaces(f, n, e)}
            price == IF f = "keyword" THEN 1 ELSE 2
        IN /\ Cardinality({e \in lost : ~\E n \in stored : Replaces(f, n, e)})
                 <= price * Cardinality(fresh)
           /\ Cardinality(lost) <= price * Cardinality(fresh) + Cardinality(stored \ fresh)

(* A publisher that is told a load below 100 has its entry in the store,   *)
(* the last one of its batch (record_keyword_publish_batch and the two     *)
(* single publishes).                                                      *)
LoadTellsKept ==
    ksReply.kind = "load" /\ ksReply.about # <<>> /\ ksReply.load < 100 =>
        ksReply.about[2] \in ToSet(ksEntries[ksReply.about[1]])

(* The packets of an answer hold exactly the results found, in order, each *)
(* packet but those of a single oversized result within the limit, and no  *)
(* result outlives its time (split_stock_search_responses, purge_expired). *)
AnswerExact ==
    ksReply.kind = "results" =>
        /\ FlattenSeq(ksReply.pages) = ksReply.found
        /\ \A p \in ToSet(ksReply.pages) : Len(p) = 1 \/ (p # <<>> /\ PageBytes(p) <= KsPageMax)
        /\ \A e \in ToSet(ksReply.found) : ksNow - e.at < KsTtl

(* The store keeps its bounds and its word: what the load tells a          *)
(* publisher, what a search returns, and what a refresh may cost others.   *)
(* The first three are of every state after a step; the initial store is   *)
(* empty and has replied to nobody.                                        *)
StoreHonest ==
    [][StoreBounded' /\ LoadTellsKept' /\ AnswerExact' /\ RefreshCostsNothing]_ksVars
=============================================================================
