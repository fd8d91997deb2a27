----------------------------- MODULE KadRouting -----------------------------
(***************************************************************************)
(* The Kad routing table (crates/overlord-kad-routing: bin.rs, zone.rs,     *)
(* table.rs, contact.rs) and the two ways the node changes it (node/        *)
(* routing.rs, node/contact_helpers.rs of overlord-kad-dht).                *)
(*                                                                         *)
(* The binary tree of zones is the function rtBins from the path of each    *)
(* leaf (a sequence of bits) to its bin, oldest contact first.  Beside the  *)
(* tree the table keeps counters of its own, which must agree with it:      *)
(* contacts per IP, per /24 and in total.  A node id is a sequence of bits, *)
(* longer than RtDepthLimit as 128 bits are longer than 127.                *)
(*                                                                         *)
(* Version, keys, TCP port and timestamps of a contact are left out: no     *)
(* decision of the table reads them, and no code marks a contact alive or   *)
(* dead, so eviction of dead contacts never happens.                        *)
(***************************************************************************)
EXTENDS Integers, Sequences, FiniteSets, SequencesExt, FiniteSetsExt

CONSTANTS
    RtIds,            \* node ids, as sequences of bits
    RtIps,            \* IPv4 addresses
    RtPorts,          \* UDP ports
    RtLanIps,         \* the addresses is_lan accepts
    RtSubnet,         \* [RtIps -> the first three octets]
    RtK,              \* K, the capacity of a bin
    RtKBase,          \* KBASE, the depth down to which every zone may split
    RtKK,             \* KK, the zone index below which a zone may split
    RtDepthLimit,     \* 127
    RtBinSubnetMax,   \* MAX_PER_BIN_SUBNET24
    RtSubnetMax,      \* GLOBAL_MAX_PER_SUBNET24
    RtMaxSize         \* max_size of the table

VARIABLES
    rtBins,           \* the leaves of the zone tree
    rtIpCounts,       \* ip_counts, 0 where the map has no entry
    rtSubnetCounts,   \* subnet_counts
    rtTotal           \* total_contacts

rtVars == <<rtBins, rtIpCounts, rtSubnetCounts, rtTotal>>

RtContact == [id : RtIds, ip : RtIps, port : RtPorts]
RtSubnets == {RtSubnet[ip] : ip \in RtIps}
Lan(ip) == ip \in RtLanIps

RtInit ==
    /\ rtBins = [p \in {<<>>} |-> <<>>]
    /\ rtIpCounts = [ip \in RtIps |-> 0]
    /\ rtSubnetCounts = [s \in RtSubnets |-> 0]
    /\ rtTotal = 0

-----------------------------------------------------------------------------
(* Reading the tree. *)

Path(id, depth) == SubSeq(id, 1, depth)
LeafOf(bins, id) == CHOOSE p \in DOMAIN bins : p = Path(id, Len(p))
Held(bins) == UNION {ToSet(bins[p]) : p \in DOMAIN bins}
Found(bins, id) == {c \in ToSet(bins[LeafOf(bins, id)]) : c.id = id}

-----------------------------------------------------------------------------
(* A bin: RoutingBin::try_add.                                             *)

OthersInSubnet(bin, c) ==
    {i \in DOMAIN bin : /\ bin[i].id # c.id
                        /\ ~Lan(bin[i].ip)
                        /\ RtSubnet[bin[i].ip] = RtSubnet[c.ip]}

CrowdedSubnet(bin, c) ==
    ~Lan(c.ip) /\ Cardinality(OthersInSubnet(bin, c)) >= RtBinSubnetMax

HoldsId(bin, id) == \E i \in DOMAIN bin : bin[i].id = id

\* The existing contact is overwritten and moved to the back.
Refreshed(bin, c) == Append(SelectSeq(bin, LAMBDA x : x.id # c.id), c)

-----------------------------------------------------------------------------
(* The zone tree: RoutingZone::add, can_split, split.                      *)

ZoneIndex(p) ==
    FoldLeft(LAMBDA acc, bit : IF 2 * acc + bit < RtKK THEN 2 * acc + bit ELSE RtKK, 0, p)

CanSplit(p) ==
    /\ Len(p) < RtDepthLimit
    /\ rtTotal < RtMaxSize
    /\ Len(p) < RtKBase \/ ZoneIndex(p) < RtKK

Part(bin, p) == SelectSeq(bin, LAMBDA x : Path(x.id, Len(p)) = p)

\* How deep the retries after a full bin split the tree for id: down to the
\* first leaf with room, or the first one that may not split.
SplitDepth(p, id) ==
    LET Stops(d) == \/ Len(Part(rtBins[p], Path(id, d))) < RtK
                    \/ ~CanSplit(Path(id, d))
    IN  CHOOSE d \in Len(p) .. RtDepthLimit :
            Stops(d) /\ \A e \in Len(p) .. d - 1 : ~Stops(e)

\* The tree once leaf p has been split along id down to depth d.
SplitTo(p, id, d) ==
    LET leaves == {Path(id, d)}
                  \cup {Append(Path(id, e), 1 - id[e + 1]) : e \in Len(p) .. d - 1}
    IN  [q \in (DOMAIN rtBins \ {p}) \cup leaves |->
            IF q \in leaves THEN Part(rtBins[p], q) ELSE rtBins[q]]

\* The contacts of a bin can be put into an empty one in their order: try_add
\* accepts each beside those before it.
Readds(bin) ==
    \A i \in DOMAIN bin : i <= RtK /\ ~CrowdedSubnet(SubSeq(bin, 1, i - 1), bin[i])

\* The depths at which a split along id fails: it drains the leaf, then re-adds
\* its contacts to a fresh bin and from there to the two children, with `?'.
FailedSplits(p, id, d) ==
    {e \in Len(p) .. d - 1 :
        LET q == Path(id, e) IN
        ~(/\ Readds(Part(rtBins[p], q))
          /\ \A bit \in {0, 1} : Readds(Part(rtBins[p], Append(q, bit))))}

\* A failed split leaves its leaf in place, and drained.
DrainedAt(p, id, e) == [SplitTo(p, id, e) EXCEPT ![Path(id, e)] = <<>>]

-----------------------------------------------------------------------------
(* The table: RoutingTable::add_contact and remove.                        *)

Less(n) == IF n > 1 THEN n - 1 ELSE 0

DropCounts(ip) ==
    [ips |-> [rtIpCounts EXCEPT ![ip] = Less(@)],
     subnets |-> IF Lan(ip) THEN rtSubnetCounts
                 ELSE [rtSubnetCounts EXCEPT ![RtSubnet[ip]] = Less(@)]]

AddCounts(counts, ip) ==
    /\ rtIpCounts' = [counts.ips EXCEPT ![ip] = @ + 1]
    /\ rtSubnetCounts' = IF Lan(ip) THEN counts.subnets
                         ELSE [counts.subnets EXCEPT ![RtSubnet[ip]] = @ + 1]

OwnCounts == [ips |-> rtIpCounts, subnets |-> rtSubnetCounts]

\* The checks against the counters that come before the tree is touched.
PassesTableLimits(c) ==
    LET known == {x.ip : x \in Found(rtBins, c.id)} IN
    /\ rtIpCounts[c.ip] > 0 => c.ip \in known
    /\ Lan(c.ip) \/ c.ip \in known \/ rtSubnetCounts[RtSubnet[c.ip]] < RtSubnetMax

\* Mutant: the counters keep the address a contact moved away from.
RefreshContactStale(c) ==
    LET p == LeafOf(rtBins, c.id) IN
    /\ PassesTableLimits(c)
    /\ ~CrowdedSubnet(rtBins[p], c)
    /\ \E old \in Found(rtBins, c.id) :
          IF old.ip = c.ip THEN UNCHANGED <<rtIpCounts, rtSubnetCounts>>
          ELSE AddCounts(OwnCounts, c.ip)
    /\ rtBins' = [rtBins EXCEPT ![p] = Refreshed(@, c)]
    /\ UNCHANGED rtTotal

\* Mutant: a known contact is updated before the subnet rule of the bin is
\* looked at.
RefreshContactFirst(c) ==
    LET p == LeafOf(rtBins, c.id) IN
    /\ PassesTableLimits(c)
    /\ \E old \in Found(rtBins, c.id) :
          IF old.ip = c.ip THEN UNCHANGED <<rtIpCounts, rtSubnetCounts>>
          ELSE AddCounts(DropCounts(old.ip), c.ip)
    /\ rtBins' = [rtBins EXCEPT ![p] = Refreshed(@, c)]
    /\ UNCHANGED rtTotal

RefreshContact(c) ==
    LET p == LeafOf(rtBins, c.id) IN
    /\ PassesTableLimits(c)
    /\ ~CrowdedSubnet(rtBins[p], c)
    /\ \E old \in Found(rtBins, c.id) :
          IF old.ip = c.ip THEN UNCHANGED <<rtIpCounts, rtSubnetCounts>>
          ELSE AddCounts(DropCounts(old.ip), c.ip)
    /\ rtBins' = [rtBins EXCEPT ![p] = Refreshed(@, c)]
    /\ UNCHANGED rtTotal

\* A split that is denied or fails is reported after the splits above it were
\* made, and the counters stay as they are.
InsertContact(c) ==
    LET p == LeafOf(rtBins, c.id)
        d == SplitDepth(p, c.id)
        split == SplitTo(p, c.id, d)
        failed == FailedSplits(p, c.id, d)
        q == Path(c.id, d) IN
    /\ PassesTableLimits(c)
    /\ ~CrowdedSubnet(rtBins[p], c)
    /\ ~HoldsId(rtBins[p], c.id)
    /\ IF failed = {} /\ Len(split[q]) < RtK
       THEN /\ rtBins' = [split EXCEPT ![q] = Append(@, c)]
            /\ AddCounts(OwnCounts, c.ip)
            /\ rtTotal' = rtTotal + 1
       ELSE /\ rtBins' = IF failed = {} THEN split ELSE DrainedAt(p, c.id, Min(failed))
            /\ UNCHANGED <<rtIpCounts, rtSubnetCounts, rtTotal>>

RemoveContact(id) ==
    LET p == LeafOf(rtBins, id) IN
    \E c \in Found(rtBins, id) :
        /\ rtBins' = [rtBins EXCEPT ![p] = SelectSeq(@, LAMBDA x : x.id # id)]
        /\ rtIpCounts' = DropCounts(c.ip).ips
        /\ rtSubnetCounts' = DropCounts(c.ip).subnets
        /\ rtTotal' = rtTotal - 1

\* expire_contact_for_massive_flood: the contact of the flooding endpoint.
ExpireFlooder(ip, port) ==
    \E c \in Held(rtBins) : c.ip = ip /\ c.port = port /\ RemoveContact(c.id)

RtNext ==
    \/ \E c \in RtContact : RefreshContact(c)
    \/ \E c \in RtContact : InsertContact(c)
    \/ \E ip \in RtIps, port \in RtPorts : ExpireFlooder(ip, port)

RtSpec == RtInit /\ [][RtNext]_rtVars

-----------------------------------------------------------------------------
(* Properties *)

\* The counters the limits are checked against agree with the tree after any
\* mix of insertions, moves to another address, denied splits and expiries
\* (table.rs add_contact and remove keep them by hand).
CountersMatchTree ==
    /\ \A ip \in RtIps : rtIpCounts[ip] = Cardinality({c \in Held(rtBins) : c.ip = ip})
    /\ \A s \in RtSubnets :
          rtSubnetCounts[s] = Cardinality({c \in Held(rtBins) : ~Lan(c.ip) /\ RtSubnet[c.ip] = s})
    /\ rtTotal = Cardinality(Held(rtBins))

\* Every contact lies, once, in the only leaf whose path its id follows:
\* otherwise get and remove, which walk the path, would miss it (zone.rs).
FoundWhereHeld ==
    /\ \A p, q \in DOMAIN rtBins : p # q => ~IsPrefix(p, q)
    /\ \A p \in DOMAIN rtBins : \A i \in DOMAIN rtBins[p] :
          /\ p = Path(rtBins[p][i].id, Len(p))
          /\ \A j \in DOMAIN rtBins[p] : rtBins[p][i].id = rtBins[p][j].id => i = j

\* One contact per address, at most RtSubnetMax of a public /24 in the table
\* and RtBinSubnetMax in a bin, also after contacts changed their address.
AddressLimits ==
    /\ \A c, x \in Held(rtBins) : c.ip = x.ip => c = x
    /\ \A s \in RtSubnets :
          Cardinality({c \in Held(rtBins) : ~Lan(c.ip) /\ RtSubnet[c.ip] = s}) <= RtSubnetMax
    /\ \A p \in DOMAIN rtBins :
          /\ Len(rtBins[p]) <= RtK
          /\ \A s \in RtSubnets :
                Cardinality({i \in DOMAIN rtBins[p] : ~Lan(rtBins[p][i].ip)
                                /\ RtSubnet[rtBins[p][i].ip] = s}) <= RtBinSubnetMax

\* Adding a contact never loses another one, however often the tree splits on
\* the way: split drains the bin before it re-adds its contacts with `?', and the
\* limits of a bin, kept by every earlier insertion and change of address,
\* are what keeps the re-adding from failing.  A contact leaves only with its
\* expiry, which the total counts.
SplitsLoseNothing ==
    [][\A c \in Held(rtBins) :
          \/ \E x \in Held(rtBins') : x.id = c.id
          \/ Held(rtBins') = Held(rtBins) \ {c} /\ rtTotal' = rtTotal - 1]_rtVars

\* The table is sound after any mix of operations: its counters agree with its
\* tree, a contact is found where it is held, and the limits hold.
TableSound == CountersMatchTree /\ FoundWhereHeld /\ AddressLimits
=============================================================================
