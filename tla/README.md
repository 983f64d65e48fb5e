# A verification project for the CommonsDB iroh service

TLA+ models, TLC runs and TLAPS proofs for the registry daemon `registryd`, its
offline commands, the readers (`registry-viewer`, `storectl`) and the data
structures under them. The models are translated from the Rust sources
under `crates/`; `PROJECT.json` maps each definition to the lines it stands
for.

```
tlc -workers 2 -config MCRegistryd_publish.cfg MCRegistryd
tlapm RegistrydProofs.tla      # likewise the other modules named *Proofs
```

## 1. The system

Clients submit records (a key and a value) over HTTP to one daemon, the only
writer of a registry. The daemon stores each value as a content-addressed
blob, claims the key in an embedded index and queues it. A background task,
the publisher, inserts queued records into one hash trie per partition and
publishes each new root in a replicated iroh document, the pointer document.
Readers replicate the document and fetch trie nodes and values by hash.

| part | source | state it keeps | operations | talks to |
|---|---|---|---|---|
| record index | `registryd/index.rs` | redb tables `records`, `queue`, `meta`, `local_roots` | submit, submit_many, pending_batch, mark_published, mark_denylisted, requeue, set_local_root, bulk operations; one transaction each | called by API, publisher and offline commands |
| write API | `registryd/api.rs` | nothing durable; a handler per request | POST /records, POST /records/batch, read endpoints | blob store, then index |
| publisher | `registryd/publisher.rs` | a batch in memory, timers | seed_local_roots, heal_pointer_doc, publish_cycle | index, document, trie, denylist file |
| pointer document | `registry-node/pointer_doc.rs` | an entry per partition, its content in a blob | get, set, snapshot of all roots | iroh-docs, iroh-blobs |
| life cycle | `registryd/main.rs` | the process | start, SIGTERM, drain, exit | all of the above |
| partition trie | `registry-core/hamt.rs` | immutable nodes | lookup, insert, bulk build, walks | node store |
| garbage collection | `registryd/gc.rs` | `active_writes`, the protect set | write guards, collect_live, sweep callback | index, trie, document, iroh-blobs |
| offline commands | `registryd/verify.rs`, `bulk_load.rs` | spill files | verify --fix, set-root, bulk-ingest, retimestamp, bulk-build; only while the daemon is stopped | index, trie, document |
| blob fetching | `registry-node/blob_store.rs` | permits, connections | get with retries and download, prefetch under a deadline, permits and a stall guard, put | iroh-blobs |
| viewer | `registry-viewer/main.rs` | listing cache, sync state, code index; `viewer-state.json` | sync loop, one task per partition, read API | document, blob fetching |
| storectl | `storectl/` | seed: the roots warmed so far | get, list, similar, watch, seed | document, blob fetching |
| ISCC index | `registry-core/iscc_store.rs`, `similarity.rs` | directory, manifests, segments as blobs | insert_batch, query, collect_reachable | node store; the daemon never writes it |

What is hard here, and what makes each part correct:

* **Four durable writes per published partition** (document, local root,
  published, denylisted), in two stores, with no common transaction. A stop
  between any two must lose nothing: `NoSilentLoss`, `QueueMatchesIndex`.
* **The document can be unreadable** for one read or for good. Reading that as
  "no root" would rebuild a partition from nothing. `current_root` is strict,
  the local root comes first, heal writes it back: `NoSilentLoss`,
  `EventuallyHealed`.
* **Concurrent submissions.** The batch precheck is stale when the transaction
  runs, puts fail one by one, clients hang up: `AcceptedIsKept`,
  `QueueMatchesIndex`.
* **Replays.** The queue is at-least-once: rows already in the tree are
  inserted again. `ReplayIsNoop`, `ImplementsMap`, `ImplementsRegistry`.
* **Progress.** Every accepted record is settled in spite of failing cycles,
  restarts and shutdowns: `EventuallySettled`.
* **A denylist that changes** between a cycle and its replay: `takedown` (finding 1).
* **The trie on a store with unreadable nodes**, splits, overfull leaves,
  walks with a deadline: the properties of `Hamt`.
* **The collector** enumerates what is live beside the writers, on one sample
  of `active_writes`: `AcceptedValuesAreProtected`, `QuietRunIsComplete`.
* **Offline commands stop half-way** and come in any order. Ingest calls a
  record published before its bytes are stored and before a tree lists it; a
  build writes two roots; an audit queues records that are published already:
  `BytesAccountedFor`, `DumpIsCovered`, `AuditHolds`, `RowsLeaveSettled`,
  `BindingsNeverChange`, `EventuallyRepaired`.
* **The viewer's caches** (listings, sync state, code index, state file) are
  filled by the loop's tasks and by handlers, each across awaits, from
  snapshots that may leave entries out: `OnceServedStaysServed`,
  `SyncNeverRegresses`, `EventuallySynced`; `viewer_search` (finding 2).
* **Fetching.** A transfer must never be dropped while it writes, yet
  providers wedge, deadlines pass and callers go away; a failed read is not a
  missing blob: `NeverPoisoned`, `ProvidersAreSpared`, `EveryPrefetchEnds`,
  `TransientErrorsAreNotMisses`.
* **The similarity index** rewrites the last segment of a bucket over and over,
  fails between blobs, is swept and migrated: `SearchIsExact`,
  `SegmentsAreTidy`, `FullSegmentsStay`, `MirrorsReference`, `ScanIsExact`.
* **A replica** remembers what it has warmed, and forgets which values failed:
  `WarmedHasIndex`, `EventuallySeeded`.
* **Listings and lookups** of storectl must say where they are incomplete and
  answer truly while the document syncs: `ListIsHonest`, `GetIsHonest`.

The full list of hazards, each at its line, is in `PROJECT.json`.

## 2. Modules

```
Registry                          abstract: what the daemon promises
PartitionMap                      abstract: what the trie of a partition promises
TreeContent <- RecordIndex, PartitionMap
RecordIndex <- PointerDoc <- Publisher \
RecordIndex <- WriteApi ---------------- Registryd     <- MCRegistryd
Registryd <- Gc                           the collector <- MCGc
Registryd <- Offline                      the commands  <- MCOffline
Hamt                                      the trie      <- MCHamt
Viewer                                                  <- MCViewer
BlobFetch                                               <- MCBlobFetch
IsccStore                                 similarity    <- MCIsccStore
Seeder <- Storectl                                      <- MCStorectl

Registryd <- RegistrydProofs
Gc, RegistrydProofs <- GcProofs           Offline, RegistrydProofs <- OfflineProofs
Viewer <- ViewerProofs      BlobFetch <- FetchProofs      Hamt <- HamtProofs
Storectl <- StorectlProofs  IsccStore <- IsccProofs
```

**RecordIndex** (index.rs). Variables are the four tables. Each operator is
one redb transaction. `Fresh` are the positions of a call that claim their
key; `submit_many` gives them a pending record and a queue row; `submit` is
the one-element case. `finish` is the common body of mark_published and
mark_denylisted.

**PointerDoc** (pointer_doc.rs). `doc_roots` is what the entries name,
`doc_readable` whether their content blob is there. `get_partition_root`
gives the set of results a read may have: exact, no entry, or an error, the
error also at random while faults may happen. `LoseEntryBlob` is the external
loss of an entry's blob.

**Publisher** (publisher.rs). One action per await at which something else can
come between, in the order of the code: seed, heal, begin a cycle, build, write
document, write local root, mark published, mark denylisted; then the next
partition. Any `?` of a cycle is `CycleFails`. Timers are abstracted: a cycle may begin
whenever the queue is not empty and a heal pass whenever the task is idle,
which includes every timing of the real intervals.

**WriteApi** (api.rs). A handler is at arrival (validation, precheck), put, or
submit. Each put may fail alone; the transaction may fail; the client may hang
up, in which case work already handed to other tasks goes on: `detached` are
the index transactions that spawn_blocking runs for a handler that is gone.

**Registryd** (main.rs). Composition and process life cycle: down, serving,
closing (SIGTERM, handlers finish), draining (one last cycle), down. `Crash`
comes in any state and clears what is in memory. `Init` is a fresh data
directory or one left by a version that kept no local roots (`Legacy`).

**Gc** (gc.rs). The protect callback beside the whole daemon, one action per
read of collect_live: index, local roots, document roots, one walk per root,
entry hashes, hand-over. `active_writes` is computed from who holds a guard:
each handler and a publish cycle; a detached transaction, seeding and healing
hold none. What the sweep then deletes depends on tags inside iroh-blobs and
is not modelled: the properties are about the protect set that is handed over.

**Registry.** The abstract specification: a key is bound to one content for
ever, the catalogue only grows and only by bound content, a record is called
published only after the catalogue lists it. The refinement mapping reads
`binding` and `state` off the records table and `catalogue` off the root a
cycle would build on (local root, else the document).

**TreeContent, PartitionMap.** A tree seen from outside is the function from keys
to content hashes, and a batch adds to it what it does not have yet
(`FirstWins`). Publisher's `insert_batch` is this operator. `PartitionMap` is the
specification of such a map: the entries of a batch come into it all at once or
not at all, the first one of each key. It knows neither nodes nor their loss.

**Hamt** (hamt.rs, partition.rs). A node is its own address, in a store where
some nodes are `lost`. The code's recursion over depths is written as recursive
functions: `Path` is the way to a key, which `lookup` reads and `insert_at`
rebuilds from its end upwards, splitting a leaf that overflows; `Levels` are the
nodes by depth, which `collect_reachable` and the parallel walk visit;
`build_subtree` gives the bulk-built tree of each set of keys by height;
`InsertEach` is the tree after each entry of a batch. `ImplementsMap` says that
the trie implements `PartitionMap`, with what a reader who had every node would
find (`Held`) for the map: that is why Publisher may have maps for trees. The code calls
`insert_batch` with an empty denylist outside its tests, so the model has no
such argument.

**Offline** (bulk_load.rs, verify.rs, the bulk half of index.rs). The commands
composed with the whole daemon: `Free` lets one start when the daemon is down,
`Daemon` lets the daemon run when no command does. One action per durable
write: `FlushBatch` (a batch's spill lines and its index transaction, handing
out the puts), `PutDone`, `IngestEnd`; `BuildPartition` (document) and
`BuildLocal` (index); `VerifyPartition`, `RequeueOne`, `PartitionAudited`;
`set_root` and `SetRootLocal`. `IngestCut` leaves any part of the buffered
spill lines on disk, as a dropped or killed BufWriter does (a line torn in the
middle makes the next build fail, which `CommandCut` covers); `CommandCut` ends any
other command where it stands. An ingest starts at any line of the dump or at its
end, where it reads nothing. `set_root` takes the roots a partition has had
(`KnownRoots`); the code accepts any blob that decodes as a trie node. A spill
directory is the tree its lines collapse to. `completed`, `audited` and `loaded`
are history variables for the properties.

**Viewer** (registry-viewer/main.rs, partition_roots). The roots of a partition
are numbered in the order of publication, and a listing, a sync state or a code
index is the root it was made from. `loop` goes off, restore, top, plan, walk,
wait. `Start` reads the state file and snapshots the document, `RestoreOne` is
one joined startup walk, `PlanPass` takes the requests over and makes the work
list, `TaskWalk`, `TaskCache`, `TaskDone` are the three steps of
sync_partition between which a handler may come, `PassEnd` joins and saves.
`ReadPartition`, `ReaderCaches`, `ReaderResets` are partition_entries,
`SearchCopies`, `SearchStores` are similar, `Stop` and `Exit` the graceful
shutdown. A snapshot may leave any entry out; a walk fails only where blobs are
missing locally, and a complete local walk is assumed to be done within its
20 s. Users ask, read and search for ever, after the origin is quiet too.

**BlobFetch** (blob_store.rs). A prefetch goes filter, dial, acquire, transfer,
drain; a blob stands for one request's worth of hashes. A deadline may pass
wherever one is armed. `wedged` providers answer nothing: the only way on is
`Stall`, which closes the connection and drains, or detaches. `writing` are the
transfer futures that have not come to an end; a future is `Driven` while its
call polls it or a task of its own does. What the store does to one that nobody
drives is external (`Corrupts`): the slot of a blob that is not complete is marked
corrupt. The callers in `Handlers` run inside a request handler, whose future,
and with it the transfer it polls, may be dropped with its connection at any
time; every other future must be driven until it ends, which is
`NeverPoisoned`. `can_fetch` is whether the store was opened with
providers. A get goes read, download, reread; `MaxErrors` is the number of
transient errors its retries are built to outlast.

**IsccStore** (iscc_store.rs, similarity.rs, the viewer's scan). Codes are sets
of bits; blobs are identified with their content, by kind. `insert_batch`
computes the directory, `Insert` and `InsertFails` write its blobs, `Sweep`
(external) keeps what `Reachable` protects. An insert is one step beside it, since
nothing in the repository builds this index while a collector runs; a failed one
leaves its new segments, or these and its new manifests. A query without an
index, or beyond the maximal radius, is an error of storectl and an empty answer
here. `memory` is the in-memory index of
similarity.rs fed with the same batches. An index of the old format may be
there at the start. `scan` is the viewer's search over its listings: the members
within the distance in the order of the listings, the first MAX_HITS of them,
sorted stably by distance and cut to the limit; the sort puts each hit at the
number of hits that come before it. What is recursive is written as a recursive function, over
the members of a batch (`Extended`, `MemoryInsert`) or the number of flipped
bits (`bit_flip_masks`), so that it can be proved about.

**Seeder** (storectl seed, warm_partition). One pass is a loop over the selected
partitions with the root read, the index walk, the values one by one, and the
bound on a partition. Root r indexes records 1 to r.

**Storectl** (storectl get, list and seed). The process runs one `command` on its
own node while the document syncs under it: the seeder's loop, a listing (the
anchor wait, partition after partition, row after row with --max, --values and
the pager, or the parallel summary), or a get. `error` is the call an early
return comes from: of both, opening the node and importing the document; of a
get, the root, the lookup, the value and the write of the output, behind which
the node is shut down; of a listing, a sick root entry or value and a terminal
that is gone, behind which it is not. `known` is a history variable: the root the
document had when a get was opened.

Values are their content hashes, contents and keys are model values. Sizes,
timestamps, ISCC codes, authentication and response texts decide nothing
modelled here and are left out.

## 3. Runs

| run | expects | instance | shows |
|---|---|---|---|
| `api` | pass | 1 key, 2 contents, 2 clients, a batch naming the key twice, 1 detached transaction | racing submissions with clashing content, hang-ups, a claim that commits after its handler is gone: `TypeOK`, `QueueMatchesIndex`, `AcceptedIsKept` |
| `publish` | pass | 3 keys, 2 partitions, full batches (MaxPending 2), legacy directory, denylist | `NoSilentLoss`, the inductive invariant `Inv` and refinement of `Registry` with a stop between any two writes |
| `gc` | pass | 2 keys in 2 partitions, one of them legacy, 1 client, 1 detached transaction | `AcceptedValuesAreProtected`, `QuietRunIsComplete` and the collector's invariant `GcInv` |
| `live` | pass | 2 keys of one partition, one of them legacy, 1 client, MaxPending 1, 2 commands | `EventuallySettled`, `EventuallyHealed`, `EventuallyRepaired`, `BindingsNeverChange` |
| `offline` | pass | 2 keys in 2 partitions, legacy directory, denylist, a dump of 3 lines, two of which clash, 3 commands | `AuditHolds`, `BytesAccountedFor`, `DumpIsCovered`, `RowsLeaveSettled` |
| `hamt` | pass | 5 keys, 3-byte digests over 2 byte values, leaves of 2 | five invariants of the trie and the refinement of `PartitionMap` |
| `viewer` | pass | 1 partition, 2 roots, 1 reader, 1 search, lost blobs | `OnceServedStaysServed`, `SyncNeverRegresses`, `EventuallySynced` and the inductive invariant `ViewerInv` |
| `fetch` | pass | 2 blobs, 2 callers, one of them in a handler, 1 getter, 1 permit, with and without a provider | `NeverPoisoned`, `ProvidersAreSpared`, `TransientErrorsAreNotMisses`, `EveryPrefetchEnds` |
| `iscc` | pass | 4-bit codes in 2 bands, segments of 2, batches of up to 2, an old index with a list longer than a segment, radii up to 3 | the four properties of the similarity index, and `ScanIsExact` of the viewer's scan, for every order of the listings |
| `storectl` | pass | 2 partitions, one of them sick, 2 roots each, all option combinations, a full pass every 3 | `WarmedHasIndex`, `EventuallySeeded`, `ListIsHonest`, `GetIsHonest` |
| `takedown` | violation | 2 keys of one partition | finding 1 |
| `viewer_search` | violation | 1 partition | finding 2 |

Each property of a passing run has a mutant in `PROJECT.json`: a plausible bug
in the code's place (the names with a suffix, such as
`get_partition_root_Lenient`), which TLC must catch under the same cfg.

**Bounds, and why they are enough.** Two contents are what a conflict needs,
two clients what a race needs. Two keys of one partition let a later tree be
built on an earlier one; a key of a second partition lets a cycle stop between
partitions, or one failing partition hold up the next. `MaxPending` 1 makes a
backlog longer than a batch, 2 makes a batch with several partitions.
`BatchMax` 2 allows a batch with a key twice and a batch of which one put
fails. With `LeafMax` 2, digests that share two bytes make a split whose
children are overfull and a second split below it. A batch whose two keys lie in
different subtrees lets one of its inserts fail alone. Keys never free up, so
claims, queue rows and `next_seq` are bounded by the number of keys and no
counter of the daemon needs a cap; the bounds in guards are `MaxDetached`, the
number of transactions that may outlive their handlers at a time (1 in `api`
and `gc`, 0 elsewhere), and `MaxRuns`, the number of commands the operator
starts. The runs allow any number of crashes, restarts, faults and denylist
edits. Symmetry is used for the clients of `api` only, which checks no
liveness property.

Three commands are what a scenario of the operator needs: ingest and build with
one of them cut and repeated, or something that makes a gap, an audit, and one
more; the liveness run has two. With `Limit` 3 all lines
of a dump fall into one ingest, with `BatchLines` 1 into a transaction each; `--skip` goes
up to the length of the dump. Two roots per
partition (`MaxRoot`) are what a race between an older and a newer root needs;
`FullPassEvery` 2 and `FullEvery` 3 make full passes come between others. One
permit for two callers makes waiting for a permit happen. Four bits in two bands
give radii below, at and above the banding guarantee; two members per segment
make rollover and a full last segment happen. Limits of 32 hashes, 4096
members, 120 passes and 10000 hits are scaled to these small values. Where a
run has one partition, provider or key for the sake of its liveness properties,
the safety properties beside them are proved for any number (section 5).
Runs of `Storectl` switch deadlock checking off: a command ends.

## 4. Fairness

The daemon's fairness is stated in `OfflineFairSpec`, over the steps that
Registryd names for it (`Working`, `StartCycle`, `StartHeal`, `Answer`). It
assumes that

* a handler that has started and a publisher that is working go on (weak
  fairness): tokio runs ready tasks;
* a dead daemon is started again (weak): the systemd unit restarts it;
* a cycle or a heal pass that is due again and again starts (strong): every
  round of the publisher's loop looks at both timers, but the other one may
  win a given round; the same for the last cycle of a drain;
* faults cease one day (`FaultsCease`). Without it no progress can be
  promised: a store that always fails publishes nothing.

The other fair specifications assume the same of their own parts: a command
goes on by itself and the operator is done when faults cease
(`OfflineFairness`); the viewer's loop, its tasks and its handlers, and the
seeder's loop go on and their process is restarted; document sync delivers the
origin's entries (`Replicate`); a timer fires and a task that can run does, but
a provider owes nothing, and neither do gets (`BlobFetch`). A seeder reads a root outside its
per-partition bound, so its liveness needs that read to end, which `calm`
stands for.

Clients, the operator and SIGTERM owe nothing: the daemon may be told to stop
again and again and the properties must hold. A partition is exempt when it is
`Wedged`: its document entry is lost and the index has no local root to heal
it from, which only an upgraded directory can meet and which the set-root
command is for. One wedged partition stops the cycle for all partitions after
it, as the code does.

## 5. Proofs

`RegistrydProofs` and `GcProofs` prove, for any finite set of keys, any
contents, number of partitions, clients, batch limits, requests and legacy
content:

* `TypeCorrect`: `Spec => []TypeOK`;
* `Invariant`: `Spec => []Inv`;
* `NoSilentLossHolds`: `Spec => []NoSilentLoss`;
* `AcceptedIsKeptHolds`: `Spec => []AcceptedIsKept`;
* `QueueMatchesIndexHolds`: `Spec => []QueueMatchesIndex`;
* `RegistryImplemented`: `Spec => ImplementsRegistry`, the refinement of
  `Registry`;
* `GcKeepsDaemon`: `GcSpec => Spec`, so all of the above holds beside the
  collector;
* `GcInvariant`: `GcSpec => []GcInv`;
* `AcceptedValuesHold`: `GcSpec => []AcceptedValuesAreProtected`;
* `QuietRunHolds`: `GcSpec => []QuietRunIsComplete`.

Assumptions are those named in the modules, and no more: `IndexAssumption`
(finitely many keys, at least one partition, every key has one, `None` is no
value), `DocAssumption` (`Unreadable` is no tree), `PublisherAssumption` and
`ApiAssumption` (limits are positive, inputs are well typed),
`LegacyAssumption`, and for the collector `GcAssumption` (finitely many
clients). TLC evaluates all of them on every run.

`NoSilentLoss` is not inductive: nothing in it says what the publisher holds
in memory. `Inv` adds

* `TreesSound`: every tree, the one under construction too, holds only claimed
  keys with the content they are bound to. Needed because the first write
  wins: a tree with a wrong entry would keep it;
* `BatchSound`: the snapshot taken by pending_batch stays true, because a
  binding never changes;
* `NewRootComplete`: before a new tree replaces a root it lists everything
  published in its partition and everything publishable of this batch;
* `WritesInOrder`: at set_local the document already names the new tree, and
  at mark_published both roots list what is about to be marked;
* `BytesFirst`: a claimed record, and a submission about to be claimed by a
  handler or by a detached transaction, has its bytes. `AcceptedIsKept` follows from it and from bindings being kept.

A crash, a failed cycle and a heal preserve `Inv` since the document is only
ever replaced by the tree just built or by the local root, and both list all
that is published. The proof has one lemma per group of actions (`HandlerInv`,
`SeedAndHeal`, `BuildInv`, `RootWrites`, `MarkInv`), over lemmas on the
operators (`SubmitBinds`, `InsertTree`, `BindingsKept`, ...). `Inv` is also
checked by TLC in run `publish`.

For the collector, `GcInv` says what each step has gathered. Its central fact
is that while a run is quiet no handler, cycle or detached transaction exists
(`Untouched`), so no record changes, and a root changes only by seeding, which
takes the tree the document names (`QuietStep`): what was read earlier in the
run is still what is referenced at its end. Accepted values need no quiet at
all, only that the index is read first and that `AcceptedIsKept` holds.

**The queue** (`RegistrydProofs`). `QueueMatchesIndex` needs to know what a cycle is
about to remove. `QueueInv` adds `RowsBelowCounter` (a new row cannot clash with
one that waits) and `BatchQueued`: a batch item has its row until the
transaction that settles it, the publishable ones until mark_published, the
denied ones until mark_denylisted. `SubmitQueues` counts the rows of a claim:
the number of earlier fresh positions is strictly increasing, so no two rows
get one number. `FinishUnqueues` is the step from "these items have their rows"
to "these rows and no others are gone".

**The refinement** (`RegistrydProofs`). The mapping's catalogue is what the
root under a cycle lists, so both root writes could in principle take entries
away or list what nobody waits for. `NewRootExtends` excludes that: between
building and writing, the new tree is the writer's root with publishable keys
added and nothing else. With it a root write is `List` (of no new key, when the
local root hides the document's), mark_published is `Settle` since
`WritesInOrder` has both roots list the items, mark_denylisted is `TakeDown`
since `BatchQueued` and `QueueMatchesIndex` make its items pending, a claim is
`Accept`, and everything else, seeding and healing included, is a stutter. One
lemma per abstract action gives its conditions key by key (`IsAccept`,
`IsList`, `IsSettle`, `IsTakeDown`, `IsStutter`).

**The viewer** (`ViewerProofs`), for any number of partitions, roots, readers
and searches: `ViewerInvariant`, `ViewerServes` (`OnceServedStaysServed`) and
`ViewerNeverRegresses` (`SyncNeverRegresses`). `ViewerInv` orders the roots
that the pieces of state name (`RootsInOrder`: sync states, snapshots and the
state file never run ahead of the document, nor the document of the origin, and
a snapshot is never behind a sync state),
ties tasks to the pass that spawned them (`TasksOfThisPass`), and says that
what is saved is served once it has been restored (`RestoreInOrder`,
`ServedOnceSaved`). That a pass joins all its tasks before the next snapshot is
what makes a sync state monotone.

**Fetching** (`FetchProofs`), for any number of blobs, callers, getters,
providers and permits: `NeverPoisonedHolds`, `ProvidersAreSparedHolds`,
`NoFalseMiss`. The invariant says of every transfer future that has not ended
that it is driven, or that its call was dropped with its handler, and of a call in
transfer or drain that its provider is one of the list (`ProviderCounted`), so
that the future it drives is the one it made. `PermitsBalance` says that free
permits and callers that hold one add up to PREFETCH_CONCURRENCY; it is the cardinality argument behind the
cap and the return of permits. `GetsOutlast` counts the attempts of a get
against the errors it has met.

**The offline commands** (`OfflineProofs`), for the daemon and the commands
together, any dump, cut into chunks, partitions and clients:

* `OfflineTypeCorrect`: `OfflineSpec => []OfflineTypeOK`;
* `BindingsNeverChangeHolds`: `OfflineSpec => BindingsNeverChange`;
* `BytesAccountedForHolds`: `OfflineSpec => []BytesAccountedFor`;
* `AuditHoldsAlways`: `OfflineSpec => []AuditHolds`;
* `RowsLeaveSettledHolds`: `OfflineSpec => RowsLeaveSettled`;
* `DumpIsCoveredHolds`: `OfflineSpec => []DumpIsCovered`.

`Inv` and `QueueMatchesIndex` of the daemon do not hold here: an ingest calls
records published that no tree lists and whose bytes are still to come, and
verify queues published records, some of them twice. The proofs start from
weaker invariants of the daemon's steps. `BaseInv` is type correctness and
`CommandsApart`, a command runs only while the process is down. `BytesInv` says
whose bytes may be outstanding: a handler at its transaction has stored them,
and a record without is a line of an ingest that has not ended, in its buffer
of puts if that ingest runs. `CycleInv` is what is left of the daemon's order
of writes: row numbers are unique and a batch item never shares one with the row of
another key (`RowsDistinct`, needed because a key may have several rows), the
tree about to replace a root extends it (`NewRootGrows`) and lists what is about
to be marked. From it `DaemonRoots` and `DaemonCovers` follow: a daemon step
drops a row only with its key in the tree or denylisted. For `RowsLeaveSettled`,
`ItemsClaimed` adds that a batch item has a record, which mark_denylisted finds.
`AuditInv` adds what a
requeue loop has still to do (`GapsFound`), `LoadInv` what spill files, buffers
and the partitions behind a build hold. Both say that a root between its two
writes belongs to no audited partition and to no loaded dump.

**storectl** (`StorectlProofs`), for any number of partitions, roots and
options: `StorectlInvariant`, `WarmedHasIndexHolds`, `ListIsHonestHolds`,
`GetIsHonestHolds`. `StorectlInv` has one part per command. Of the seeder,
`WarmingInOrder` says that a root at its values has its index in the store. Of a
listing, `ListPlaces` says that the partitions it is past, and the one whose rows
it shows, are accounted for, `RowsShown` that shown rows and rows to come add
up to what was read, `MaxKept` that a row is begun only below --max, and
`FailsOnSick` what may end it. Of a get, that the root it read is no older than
the one `known` when it was opened, since the document's entries only move on.

**The similarity index** (`IsccProofs`), for any code width, bands, segment
size, members, old posting lists, batches and query codes:

* `IndexInvariant`: `Spec => []IndexInv`;
* `SearchIsExactHolds`: `Spec => []SearchIsExact`;
* `SegmentsAreTidyHolds`: `Spec => []SegmentsAreTidy`;
* `MirrorsReferenceHolds`: `Spec => []MirrorsReference`;
* `FullSegmentsStayHolds`: `Spec => FullSegmentsStay`;
* `ScanIsExactHolds`: `Spec => []ScanIsExact`.

`IndexInv` is about what `load_bucket_manifest` gives a reader: every manifest
is tidy (`AllTidy`), its blobs are in the store (`AllReadable`, which is what
the sweep's walk must keep), a bucket holds exactly the delivered members that
belong there (`AllPlaced`), and the reference index has their keys
(`AllMirrored`). An insert is `NewManifestIs`: `KeptIs` for what remains when
the last segment is taken up, `ExtendedHolds` for the members that are added,
`SegmentedHolds` and `PiecesCounted` for the cut. The two indexes drop
duplicates by different rules, by member and by key, which is why
`MirrorsReference` speaks of keys.

That a search misses nothing is a counting argument on top of it. If every band
of two codes differed in more than `probe` bits they would differ in at least
bands * (probe + 1) (`CrowdedBands`: the bands partition the bits), so below
that radius some band differs in at most `probe`; flipping these turns one
band value into the other (`FlipTurns`), the flip is one of the masks
(`MasksComplete`), so the bucket is probed (`SomeBucketProbed`) and by
`AllPlaced` holds the member.

That the scan is exact while the matches fit is an argument on the ranks of its
hits. The place of a hit after sorting is the number of hits before it, which is
smaller than their number and different for any two (`RankGrows`); so the ranks
fill the places and the sort neither drops nor repeats a hit (`RanksFill`). An order
of the listings has each member once (`OrderLists`), so there are as many hits as
matches (`MatchesCounted`) and nothing is cut off (`NothingCutOff`). That what has
been delivered is finite (`DeliveredFinite`), so that it has an order and a size at
all, is an invariant of its own.

These operators are recursive functions, and the induction theorems of the
library cannot be instantiated here. `Recursion` (a step function on a set has a
solution up to K), `OneSolution` and `UpTo` (a set that holds 0 and is closed
under successor up to K) are proved from the least member of a set of numbers and
stand in for them. The assumptions are `BandParams`, what BandParams::new
accepts, and `IsccAssumption` (the segment size is positive, members, lists and
query codes are well typed).

**The trie** (`HamtProofs`), for any keys and content hashes, fan-out, digest
length, leaf bound and batches:

* `HamtInvariant`: `Spec => []HamtInv`;
* `LookupNeverLiesHolds`: `Spec => []LookupNeverLies`;
* `ReplayIsNoopHolds`: `Spec => []ReplayIsNoop`;
* `ProtectSetSufficesHolds`: `Spec => []ProtectSetSuffices`;
* `WalkIsHonestHolds`: `Spec => []WalkIsHonest`;
* `BulkBuildIsEquivalentHolds`: `Spec => []BulkBuildIsEquivalent`;
* `TrieImplementsMap`: `Spec => ImplementsMap`, the refinement of `PartitionMap`;
* `BatchesGoThroughHolds`: `Spec => []BatchesGoThrough`, no batch runs out of depth
  on a tree whose nodes can all be read.

`HamtInv` says that the root is a well-formed tree over all keys and that the way
to each key ends at what was first inserted for it. Well-formed (`TreesAt`, by
height and set of keys) is what the lookups alone would not need but the
induction and the walks do: a leaf holds only keys whose way passes it, the slot
of a byte only keys with that byte there, and nothing is intermediate below the
last byte. `LeafInserts`, `SplitKeeps` and `CopyInserts` are the three kinds of
node an insert writes; each keeps well-formedness, changes what is found of the
entry's key only if there was nothing, and nothing else. `InsertOne` stacks them
by height, `BatchHolds` strings inserts together next to `FirstInserted`. A batch
that fails, and any loss of nodes, leaves the root alone, so `lost` does not
occur in the invariant.

For the refinement, the map the trie holds is what was first inserted
(`HeldIsInserted`), and `BatchIsFirstWins` compares one batch on the trie, entry
after entry, with `FirstWins` of the whole batch, by way of the first entry of
each key (`FirstInsertedAfter`, `HasFirst`). While no node
is lost a batch does not fail (`InsertWorks`, `BatchWorks`): only a full leaf below
the last byte cannot be split, and there all keys share their whole digest, so
that there is one key (`SamePrefix`, `LeafTakes`). `ReplayIsNoop` says the same of
a replay: on a readable tree it does not fail and returns the root itself.

The walks follow from `PathInNodes` (the way to a key stays inside the levels)
and its converse `LevelTyped` (a node on a level is passed by the way to every
key of its set), so that leaves and lookups tell the same; `FrontierIn` compares
a walk that skips unreadable nodes with a whole one. The bulk builder is compared
by `BuiltHolds`: at height h it is called with keys that share the bytes above
(`SamePrefix`), at height 0 that is one key, which fits a leaf, and that is why it
cannot fail. `HamtAssumption` has what the code gives: a positive leaf bound, no
two keys with one digest (SHA-256 without byte 0 taken as injective), batches of entries, and
marks for "absent" and "error" that are no content hashes.

Each recursive function has a lemma with its equations (`PathIs`, `LevelsAre`,
`InsertIs`, `BatchIs`, `FirstIs`, `BuildIs`, `TreesAre`). They have one shape: a
solution up to m extends to m + 1. It cannot be stated once, since a lemma over
an arbitrary step operator is what the provers cannot instantiate.

**What the prover is trusted with.** Two encodings of TLAPS 1.4.5 for SMT are
unsound, and the proofs rest on neither. From an `EXCEPT` that updates one index
twice (`![c].x = .., ![c].y = ..`) it derives a contradiction; the modules
write `![c] = [f[c] EXCEPT !.x = .., !.y = ..]`. And where an obligation mentions
`Seq` or `Len`, it takes every value for a sequence (`DOMAIN s = 1 .. n` is made
equivalent to `Len(s) = n`), which a function on `0 .. n` contradicts. All proofs
have also been run with that axiom replaced by its sound half, `DOMAIN s = 1 .. n
=> Len(s) = n`, and go through.

**Only model-checked.** Liveness under fairness (`EventuallySettled`,
`EventuallyHealed`, `EventuallyRepaired`, `EventuallySynced`,
`EveryPrefetchEnds`, `EventuallySeeded`) is outside what TLAPS 1.4.5 proves.

## 6. Findings

1. `takedown`. The operator guide says a denylisted key is excluded "from
   every future published tree". The cycle withholds denylisted rows of its
   batch, but starts from the current root and never removes: a key published
   before it was denylisted is in every later tree.
2. `viewer_search`. The viewer says its code index is rebuilt after any
   partition update and that one built too early must not stick. A search
   stores what it built from listings copied before the update.

Other disagreements between a text of the repository and its code were met
while modelling; the models behave as the code does in each of them, and no run
is kept for them:

* `publisher.rs:245`: a cycle that stops after a root write leaves its rows
  queued; if one of them is denylisted before the replay, its record is marked
  denylisted and the tree lists it (publisher.rs:11: denylisted records "are
  excluded from the tree").
* `hamt.rs:497`: a split writes each bucket as a leaf whatever its size, so
  when all entries share the next byte the incremental tree has an overfull
  leaf and another root than the bulk builder's (hamt.rs:384:
  "byte-identical"). Lookups agree.
* `gc.rs:84`: `active_writes` is read once, before the enumeration; a
  submission that comes later is claimed after the index has been read.
* `gc.rs:157`: an error of a tree walk is logged and the run goes on
  (gc.rs:19: "any error during enumeration aborts the run").
* `gc.rs:143`: after a cycle that stopped between its two root writes the
  document names a newer tree than the local root the collector walks.
* `bulk_load.rs:132`: within one batch both lines of a key are new; the index
  keeps the last, the tree the first. And a run that is cut may have spilled
  lines whose transaction never committed.
* `verify.rs:123`: verify walks the local root; after a build cut between its
  two root writes the document names another tree and the audit is clean.
* `registry-viewer/main.rs:1024`: a handler's slow walk of the older root
  overwrites the newer listing. `:282`: the full pass is not forced, so it takes
  the cached listing of an unchanged root and walks nothing. `:504`: a pass
  takes the request flags and then plans only what its snapshot holds. `:1152`:
  the scan called exact nearest-neighbour stops at MAX_HITS before it sorts;
  `ScanIsExact` holds while the matches fit.
* `blob_store.rs:210`: the viewer awaits a transfer inside a request handler,
  whose future is dropped with the connection. `:201`: a free permit is taken
  after the deadline too.
* `storectl/commands.rs:676`: a root with a failed value counts as warmed and
  is left out until the next full pass. `:469`: one unreadable entry ends a
  listing with an error. `:62`: an import of the document that fails returns
  from get after the node was spawned and before the block that always shuts it
  down (:66: "so the node is ALWAYS closed before exit"); from the root wait on
  that is so (`GetIsHonest`). `:279` and the errors after it end a listing without
  closing its node. `:543`: `--max 0` prints one row.

The exact lines of what is modelled are in `PROJECT.json`.

## 7. Not modelled

* **Node and identity** (registry-node, apart from the blob store and the
  document): endpoint set-up, key files and relays are start-up I/O with no
  decision a property could speak of.
* **Keys, hashes, records, configuration**: parsers and validators without
  state. What they reject never reaches the modelled operations.
* **Deployment scripts** and service units, apart from the restart of a dead
  daemon that fairness assumes.
* **Read-only endpoints, output formats, timestamps and sizes**: nothing
  modelled depends on them. retimestamp's dump pass changes timestamps only.
* **iroh-blobs, iroh-docs and redb** are external: a transaction is atomic and
  durable, a blob is what its hash says, an entry's blob may be lost, a
  transfer may stall. What a sweep deletes beyond the protect set, and how
  documents are reconciled, happens inside them.
* **watch** of storectl prints what the document receives and keeps no state.

What could come next: two viewers over one document; liveness of the daemon over
two partitions with a client, or with claims that outlive their handlers, which the
present instance leaves out for its size.
