# Verification of the Overlord eMule agent

TLA+ models of `p2p-overlord-agents`, an eMule agent driven by a coordinator. TLC
checks the models on small instances. TLAPS proves the central safety properties
for every value of the constants. `PROJECT.json` maps each definition to the lines
it models, and lists the hazards, the mutants and the findings.

## The system and its modules

| Part | Module | State | What makes it hard |
| --- | --- | --- | --- |
| Upload queue (`ed2k_transfer/upload_queue.rs`, `upload.rs`) | `UploadQueue` | session map, waiting order, sequence counter | lazy reaping, takeover on reconnect, ids drawn before the lock |
| Inbound connections (`ed2k_tcp/listener`) | `UploadListener`, `UploadGrantStall` | per connection: handle, what the peer was told | the queue changes between two calls; error paths skip the release |
| Dialogue of a download (`ed2k_tcp/identity.rs`, `download/session`, `listener/session`) | `PeerDialogue` | both ends, packets in flight | each end holds something back until the other answers |
| Transport (`ed2k_tcp/transport.rs`, `obfuscation.rs`) | `PeerTransport` | streams, cipher positions | reads cancelled half way; one byte tells the mode |
| Resume store (`ed2k_transfer`) | `TransferStore` | manifest in memory and on disk, payload, catalog | crashes, torn, failed and unflushed writes |
| Download sessions (`ed2k_tcp/download`) | `DownloadSession` | request windows, task | sessions share one manifest; callbacks outlive their task |
| Download task (`agent/ed2k_download`) | `SourceHunt` | permits, rounds, sources | dials, fallbacks and callbacks race completion |
| Server session (`ed2k_server`) | `ServerLink` | link, pending search, inbox | late answers; `select!` drops reads |
| Searches over servers (`ed2k_server/active_*.rs`) | `ActiveSearch` | attempts, results | one of several servers fails; cancellation |
| Search jobs (`agent/search.rs`, `service.rs`) | `SearchJobs` | job table, counts, reports | calls that fail, drains under running jobs |
| Agent process (`agent.rs`, `agent/p2p_runtime.rs`, `control_runtime.rs`) | `AgentRuntime` | runtime slot, mutex, configuration | overlapping reconciles, restart, signal |
| NAT manager (`overlord-agent-nat`) | `NatManager` | status, router table | rollback, leases, blocking threads |
| Firewall checks (`kad_firewall.rs`) | `KadFirewall` | rounds, probes, reports | late and contradicting answers |
| Publishing (`agent/publish*.rs`) | `PublishRun` | gate, hints, totals, activities | several sources of batches, failures, aborts |
| Kad index (`kad_store.rs`, `kad_unsolicited.rs`) | `KadStore`, `KadIndex` | entries per family | expiry, limits, refresh, paging |
| Snoop queue and replays (`snoop_queue.rs`, `passive_*.rs`) | `SnoopQueue`, `PassiveReplay` | entries, observations, budgets | failed flushes, restarts, shared budgets |
| Kad requests (`overlord-kad-net`) | `KadRpc`, abstract `KadCalls` | pending map, tracker, budgets | timeout against answer, aborts, keys learned meanwhile |
| Routing table (`overlord-kad-routing`) | `KadRouting` | tree of bins, counters | splits, updates, limits |
| Lookups (`overlord-kad-dht`) | `KadLookup` | candidates, channels | convergence with requests open, back pressure |

The listener and the queue meet in `begin/poll/note/release_upload_session`, and
`UploadListener` extends `UploadQueue`. Sessions and store meet in
`claim_next_missing_part`, `append_piece_block` and `release_piece_request`, and
`DownloadSession` extends `TransferStore`. `KadIndex` composes the store with the
snoop queue, which both see a search request. The request layer implements
`KadCalls`, which says what a lookup may rely on.

State and actions follow the code: one Rust method of a locked structure is one
operator or action. A function that awaits is cut into one action per stretch
between awaits. An error that leaves a function through `?` is a disjunct of its
own. Content is counted in units that are good, bad or missing. Keys, hashes,
terms and addresses are model values. `Land` in `TransferStore` is external: tokio's
background write of a file that was dropped without a flush.

Operators commented `Mutant` are plausible bugs. Put in place of the definition
that follows, each makes TLC refute a property.

## Runs

A module `MC…` holds several components; the variable `scene` chooses in the initial
state which of them moves. Components in different scenes share no state.

| Run | Distinct states | Question |
| --- | --- | --- |
| `upload_queue` | 292,144 | do slots, places and rank survive reconnects, stale owners and expiry? |
| `upload_listener_live` | 44,479 | is every peer told its state in the end, and does a dialogue ever leave both ends waiting? |
| `downloads` | 1,179,657 | do manifest, payload and catalog agree, with two sessions, with a callback, with faults and crashes, with copies? |
| `kad_net` | 80,722 | is the table sound, is a call answered once, does a lookup settle and end? |
| `ed2k_net` | 580,568 | do answers go to who asked, frames arrive whole, reports match deliveries? |
| `agent_services` | 384,227 | are runtime, mappings, checks, announcements, index and observations accounted for? |
| `live` | 75,607 | do downloads complete, requests come to an outcome, signals end the process? |

Five runs end in a counterexample to a sentence of the code's own comments:

* `upload_grant_stall`: polling keeps a granted, silent peer alive past `granted_timeout`.
* `transfer_unflushed`: a stored byte count includes bytes still in the blocking pool.
* `transfer_size`: an AICH root learned first blocks the file size for good.
* `download_claim`: a new task reclaims the piece of a live callback session.
* `restart_lost`: a restart requested while `serve()` still syncs at startup wakes
  nobody, because `notify_waiters` keeps no permit.

### Conditions in passing runs

Some properties are stated for the scenes in which the code keeps them, and the
scenes that break them are played as well:

* `PayloadBacks`: an unflushed write lands before the next operation (see
  `transfer_unflushed`), and no copy of an ingested file fails. A failing re-ingest
  truncates the payload of a verified transfer (`ingest.rs:59`).
* `DiskKeepsUp`: manifest writes succeed. `append_piece_block` renews the catalog
  (`piece_store.rs:254`) before it stores the manifest.
* `SettledAlone`: reconciles do not overlap. Two at once may leave a generation
  running and publish a selection that is not the stored one (`p2p_runtime.rs:97`).
  A persisted update is then in effect or reported as failed; it is in effect
  where no job keeps the old sockets.
* `DemandHonoured`: the cooldown between two replays binds the queue as long as it knows
  the shape. A source shape that gave nothing is dropped, at run time or when a
  snapshot is restored, and is new when it is asked for again. Repeated demand outlives
  a restart when a flush had stored it and the restart reaches the coordinator.
* `SessionCompletes`: from some point on no peer sends packets other than data. A queue
  rank renews `queued_until`, so a peer that sends ranks for ever keeps its session and
  the piece it has claimed, and the file stays incomplete (TLC finds that lasso without
  the premise).
* `MappingsAccounted`: no reconcile on a blocking thread outlives its manager; one
  that does adds its mapping again after `stop()` released it.
* `StatsHonest`: totals are monotone where no batch fails, and activities are exact
  where no task is aborted.
* `JobsAccounted`: for job ids not taken up again after a reconcile drained the table;
  the older task would remove the newer one's entry (`service.rs:265`).

### Bounds

Three peers, one slot and one or two places are the least for which eviction,
promotion and takeover compete; the two peers that are not friends are symmetric, and
`upload_queue` counts states up to exchanging them. Clocks run far enough for every timeout to expire.
A piece of three units takes two appends or two block requests, and a second piece
shows effects across pieces. Windows `<<1,1>>` and `<<3,2>>` are a slow and a fast
peer. Bins of two, a depth limit of two and five ids make a split, a full bin and a
refused update all happen. Two calls on two ports of one host compete for a
tracked answer. Three servers, two pages and two results give each search an attempt
that fails before and after one that succeeds. A peer that is not honest is dialled once in `live` and twice in `downloads` (`MaxStarts`),
enough to hold a piece the honest one needs; the honest one is dialled without bound. A rate
window of one tick (`SnWindow`) is no longer than the cooldowns, so that a shape can be
evicted and replayed again before its cooldown is over. In `ed2k_net` the second server
session gets one unasked packet, and all three kinds of request meet only whole packets,
any two of them a torn one. Two updates, two jobs and three
generations are the least with an overlap and a survivor. Deadlock checking is off
because clocks, ids, sessions and starts are bounded, and a finished task stops.

### Fairness

* `UploadListener`: the queue lock is fair, a payload write ends or fails, and a
  silent connection reaches its read timeout (500 ms while it has a session). Nothing
  makes an idle connection fail.
* `DownloadSession`: tokio schedules every task, and a clock runs out: a read times out,
  and a queue rank that is not renewed lapses. Only an honest peer has to accept and to
  send what was asked. That an incomplete download is requested again is an
  assumption about the coordinator.
* `KadRpc`: each call's own steps and its timeout happen, budgets refill.
* `KadLookup`: requests end (they have timeouts), tasks are scheduled, the reader of
  a result stream reads or drops it.
* `SourceHunt`, `AgentRuntime`: each task is scheduled. `SourceHunt` also assumes that each
  session with a peer ends, which `DownloadSession` shows a peer can put off. Nothing makes
  a request handler return; the server's shutdown does not wait for it forever.

## Proofs

Eight modules hold theorems. Each follows the same argument: an inductive invariant
holds initially, one lemma per action or operator shows that it is kept, and the
property follows from it. The assumptions are the `ASSUME`s of the component modules:
constants have their types, and the values that stand for "nothing" differ from
real ones.

**`UploadQueueProofs`** proves `TypeOK`, `QueueConsistent`, `SlotsUsed` and
`WaitingWithinCapacity`. `IInv` is their conjunction with the finiteness of the session
map. They need each other: slots are counted over a finite map, promotion finds every
waiter only if `waiting_order` matches the phases, and it restores work conservation
only if the ranking has no ties. Operators break parts of it on the way (a reap
breaks work conservation, an admission the capacity), so each has a lemma saying
what it keeps and restores.

The same module proves the action properties `RankDecides` and `PlacesKept`. A session is
followed by its peer, because a reconnect may move it to another key. `Evolves` says
where the sessions of a queue come from and by what right they became active. Every
operator satisfies it, and so does the composition of a call.

**`UploadListenerProofs`** proves that the listener uses the queue as the queue's own
specification allows (`LSpec => Spec`), so that everything proved of the queue holds of
the queue the connections share, and `AnswerMatchesQueue` and `OrphansAgeOut`. A call made on
one handle leaves the entries of other handles alone, except that it may promote or drop
them (`Moves`), and no two connections hold handles with the same id (`Apart`), though ids
are drawn before the lock.

**`TransferStoreProofs`** proves, for every layout and checkpoint size:
* `CompletedIsWhole` and `PrefixKept`, under every fault and crash. `StoreInv` says that
  both copies of the manifest have flags that agree with their pieces, and that
  late writes stay inside their piece.
* `VerifiedIsGood` and `PrefixOnDisk` (`PayloadAlwaysBacks`), if `WritesSettle` and no copy
  fails. `BackedInv` adds that the file on disk never verifies more than memory, and that
  no late write touches a verified piece. The hypotheses are those of `PayloadBacks`;
  without the first `transfer_unflushed` is a counterexample.
* `CatalogServable`, if manifest writes succeed.

The proof needed the guard of `ingest_local_file` that refuses empty payloads, which the
model had left out: a file without pieces would be complete without a verified piece.

**`KadRpcProofs`** proves `CallsBacked`, and that every step of the request layer is a
step of `KadCalls` or leaves it alone. `RpcInv` ties how far a call has come to its entry
in the pending map and to whether the receive loop has handed it a packet.

**`AgentServicesProofs`** holds the proofs of two services that share no state.
* `StoredIsAlive`, for overlapping reconciles too, and that the runtime mutex is held by
  exactly the actor that is inside `nat.stop()`.
  A generation that is built and not stored must be known to nobody else
  (`FreshUntilStored`). The reconnect task exists only once `serve()` has failed to connect
  and waits, or shuts down (`ReconnectLate`).
* `ChecksSound`, from three invariants that share no state: `DiscInv` (each known port was
  reported), `RoundInv` (what an open round has recorded of its helpers is what the
  requests and datagrams of its own time said) and `RecheckInv` (a slot belongs to a probe
  that is out). The second gives the verdict: open exactly when a helper confirmed a port
  while the round lasted, and a verdict whenever a helper could be asked.

**`Ed2kNetProofs`** proves `ToldIsDelivered`, from an invariant that relates the counts of a
search task to what the coordinator holds at each place of the task, and `JobsAccounted`.
Of the server session it proves `ServerHonest`: `ServerInv` adds that the pending search is
one the server was asked, so that whatever answers it, early, late or twice, no job is
told Ok without having reached the server. Of publishing it proves `AnnouncedIsOffered`,
aborts included: the hints match a batch because it holds the gate, which every way out gives
back, and each item is handed to the local store before it is sent. Whether that store kept it
is not claimed, because it may refuse.

**`SourceHuntProofs`** proves `CompletedNeverFails` and the safety part of `HuntBounded`: an
endpoint is dialled twice at most per download. An endpoint waits at most once, is dialled at
most once at a time, and only a source that may be obfuscated leaves a second dial open
(`DialledSoundly`); the plaintext fallback closes it. The step that reports a failure has
just looked at the manifest.

**`PeerTransportProofs`** proves `StreamAgreed` for every amount of padding and any number of
packets and timeouts. `StreamAgreed` speaks of packets that were read; `StreamInv` speaks of the
units still on the way. They are the rest of the packets written, each enciphered with the key
the reader will use when it comes to it, and during a handshake a wire holds the
request or the answer and nothing else.

### Model-checked only

Liveness and `ENABLED` are outside the prover's reach: `ConnectionsCatchUp`,
`SessionCompletes`, `HuntBounded`, `ShutdownCompletes`, `LookupEnds` and the liveness of
`ImplementsCalls`. `BroadcastOnlyAsked` and `BoundedLoss` sum with folds, whose
value for every input needs induction over data. `TableSound` and `SplitsLoseNothing` rest on
a tree built by repeated splits. The properties of `ActiveSearch`, `PeerDialogue`, `NatManager`, `SnoopQueue`,
`PassiveReplay`, `KadStore`, `KadLookup` and `DownloadSession`, and those of `AgentRuntime` and
`PublishRun` that hold under conditions on the scene (`SettledAlone`, `StatsHonest`), have no
proof yet.

## What the code does that nothing promises otherwise

Modelling met behaviour that no sentence of the repository contradicts, so no run
claims it is wrong:

* A UDP answer of the other kind drops the pending background search
  (`ed2k_server/background.rs:203`).
* Late keyword results may complete a later search of the same session.
* A called-back session whose peer has no secure identification waits for it until
  it times out (`listener/session.rs:250`).
* An update is changed in memory before it is persisted. After a failed write the
  same update counts as unchanged (`control_runtime.rs:360`).
* A firewall datagram of an earlier round counts in a later one
  (`kad_firewall.rs:362`), and a late probe timeout frees the slot a newer round
  gave the same helper.
* A search that fails after it delivered batches reports zero results
  (`agent/service.rs:238`).
* The check loop does not pause while there are no helper contacts
  (`background_firewall.rs:90`).
* An aborted flush loses the observations it had taken out (`agent/snoop.rs:51`).
* `split` drains a bin before it re-adds its contacts with `?` (`zone.rs:194`); an error
  would lose the rest. The model takes that path wherever a re-add fails, and
  `SplitsLoseNothing` shows that the limits kept by earlier insertions never let it.
* A keyword search without a term ends well without asking a server
  (`OutcomeEarned` lists the inputs that spend no attempt).

## Not modelled, and why

`replace_catalog_hints` copies the catalog under a read lock and overwrites it under a
write lock. Its only caller, `build_runtime`, runs it on a runtime no other task holds
yet. `store_piece_data` is called by tests only. Compressed parts are modelled as the
bytes they inflate to. Digests, packet layouts, tags, search expressions, configuration
records, UPnP bindings and tools are computation or input and output without shared
state. Routing refresh and hello tasks are timers that call modelled layers. Part
counts are a set of pieces, so the file of exactly one part size
(`download/session/startup.rs:202`) is not represented. The modules stand for about a
third of the implementation's lines.
