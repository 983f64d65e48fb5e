------------------------------- MODULE Viewer -------------------------------
(***************************************************************************)
(* The registry viewer (crates/registry-viewer/src/main.rs): a reader node *)
(* whose background loop replicates every partition's index and keeps its  *)
(* listing in memory, while HTTP handlers read the same caches.            *)
(*                                                                         *)
(* Data abstraction.  The roots the origin publishes for a partition are   *)
(* numbered 1, 2, ... in the order of publication, 0 is "no root"; a       *)
(* listing, a sync state or a code index is the root it was made from.     *)
(* The local store is the set of (partition, root) whose tree it can walk  *)
(* to the end, and such a walk is done within its time limit.  Timers are  *)
(* left out: a wait may end at any time, because a poll interval ends it   *)
(* when no doc event or request does.  The cap on cached listings (256) is *)
(* not reached: there are as many partitions.                              *)
(***************************************************************************)
EXTENDS Naturals, FiniteSets

CONSTANTS
    NumPartitions, \* top_level_partitions
    MaxRoot,       \* bound on the roots the origin publishes per partition
    AutoSync,      \* sync_mode = Auto
    FullPassEvery, \* FULL_PASS_EVERY
    Readers,       \* concurrent GET /api/partition handlers
    Searchers,     \* concurrent GET /api/similar handlers
    LocalLoss,     \* whether the local store may lose blobs
    NoIndex        \* the None of code_index

Partitions == 0 .. NumPartitions - 1
Roots      == 1 .. MaxRoot

ASSUME ViewerAssumption ==
    /\ NumPartitions \in Nat \ {0} /\ MaxRoot \in Nat
    /\ FullPassEvery \in Nat \ {0}
    /\ AutoSync \in BOOLEAN /\ LocalLoss \in BOOLEAN

VARIABLES
    published,  \* the origin's root per partition
    doc,        \* the replicated pointer document
    local,      \* trees the local store holds completely
    disk,       \* viewer-state.json: the last persisted root per partition
    loop,       \* where the sync loop stands, "off": no process
    roots,      \* the loop's snapshot of the document
    todo,       \* startup: partitions whose local walk is not joined yet
    tasks,      \* sync_partition tasks of this pass
    pass,       \* passes since the last full pass
    forced,     \* partitions whose sync was requested; force_all is all of them
    stopping,   \* the shutdown flag
    listing,    \* listing_cache: the root of the cached listing, 0 for none
    synced,     \* sync_state per partition
    code_index, \* the listings a code index was built from, NoIndex when reset
    reader,     \* per Reader: the walk it is in
    searcher,   \* per Searcher: the listings it has copied
    calm        \* no more faults, restarts or publications

procVars == <<loop, roots, todo, tasks, pass, forced, stopping, listing, synced,
              code_index, reader, searcher>>
envVars  == <<published, doc, local, disk, calm>>
vars     == <<envVars, procVars>>

Root0     == Roots \union {0}
Task      == [part : Partitions, root : Roots, force : BOOLEAN,
              at : {"queued", "walked", "cached", "done"}]
SyncState == [root : Root0, stale : BOOLEAN]
Listings  == [Partitions -> Root0]
NoListing == [p \in Partitions |-> 0]
IdleReader   == [at |-> "idle", part |-> 0, root |-> 0]
IdleSearcher == [at |-> "idle", copied |-> NoListing]

TypeOK ==
    /\ published \in Listings /\ doc \in Listings /\ disk \in Listings
    /\ local \subseteq Partitions \X Roots
    /\ loop \in {"off", "restore", "top", "plan", "walk", "wait", "drained"}
    /\ roots \in Listings
    /\ todo \subseteq Partitions /\ forced \subseteq Partitions
    /\ tasks \subseteq Task
    /\ pass \in 0 .. FullPassEvery
    /\ stopping \in BOOLEAN /\ calm \in BOOLEAN
    /\ listing \in Listings
    /\ synced \in [Partitions -> SyncState]
    /\ code_index \in Listings \union {NoIndex}
    /\ reader \in [Readers -> [at : {"idle", "walk", "reset"}, part : Partitions, root : Root0]]
    /\ searcher \in [Searchers -> [at : {"idle", "build"}, copied : Listings]]

\* What a process that is not running has in memory.
NoProcess ==
    /\ loop' = "off" /\ roots' = NoListing /\ todo' = {} /\ tasks' = {} /\ pass' = 0
    /\ forced' = {} /\ stopping' = FALSE /\ listing' = NoListing
    /\ synced' = [p \in Partitions |-> [root |-> 0, stale |-> FALSE]]
    /\ code_index' = NoIndex
    /\ reader' = [c \in Readers |-> IdleReader]
    /\ searcher' = [c \in Searchers |-> IdleSearcher]

Init ==
    /\ published = NoListing /\ doc = NoListing /\ disk = NoListing
    /\ local = {} /\ calm = FALSE
    /\ loop = "off" /\ roots = NoListing /\ todo = {} /\ tasks = {} /\ pass = 0
    /\ forced = {} /\ stopping = FALSE /\ listing = NoListing
    /\ synced = [p \in Partitions |-> [root |-> 0, stale |-> FALSE]]
    /\ code_index = NoIndex
    /\ reader = [c \in Readers |-> IdleReader]
    /\ searcher = [c \in Searchers |-> IdleSearcher]

-----------------------------------------------------------------------------
(***************************************************************************)
(* External: the origin and the network.                                   *)
(***************************************************************************)
OriginPublishes ==
    /\ ~calm
    /\ \E p \in Partitions :
          /\ published[p] < MaxRoot
          /\ published' = [published EXCEPT ![p] = @ + 1]
    /\ UNCHANGED <<doc, local, disk, calm, procVars>>

\* Document sync brings the origin's current entry of a partition.
Replicate ==
    /\ loop # "off"
    /\ \E p \in Partitions :
          /\ doc[p] # published[p]
          /\ doc' = [doc EXCEPT ![p] = published[p]]
    /\ UNCHANGED <<published, local, disk, calm, procVars>>

LoseLocalBlobs ==
    /\ LocalLoss /\ ~calm
    /\ \E t \in local : local' = local \ {t}
    /\ UNCHANGED <<published, doc, disk, calm, procVars>>

FaultsCease ==
    /\ ~calm /\ calm' = TRUE
    /\ UNCHANGED <<published, doc, local, disk, procVars>>

\* walk_entries_parallel on the local store, then on the network: the results
\* a walk may have.  The network brings every node of the tree into the store.
WalkOutcomes(p, r) ==
    IF <<p, r>> \in local THEN {TRUE}
    ELSE IF calm THEN {TRUE} ELSE {TRUE, FALSE}

-----------------------------------------------------------------------------
\* doc_roots_snapshot: an entry whose content is unreadable now is left out.
Snapshot(s) ==
    \A p \in Partitions : s[p] = doc[p] \/ (~calm /\ s[p] = 0)

(***************************************************************************)
(* The start of sync_loop: the state file fills the overview, every entry  *)
(* marked stale, and local walks are started for all partitions.           *)
(***************************************************************************)
Start ==
    /\ loop = "off"
    /\ loop' = "restore" /\ todo' = Partitions
    /\ synced' = [p \in Partitions |-> [root |-> disk[p], stale |-> disk[p] # 0]]
    /\ \E s \in Listings : Snapshot(s) /\ roots' = s
    /\ UNCHANGED <<envVars, tasks, pass, forced, stopping, listing, code_index,
                   reader, searcher>>

\* A startup that only tries the current root.
Restorable_CurrentOnly(p) ==
    IF roots[p] # 0 /\ <<p, roots[p]>> \in local THEN roots[p] ELSE 0

\* The root a startup walk ends with: the current one, else the last known.
Restorable(p) ==
    IF roots[p] # 0 /\ <<p, roots[p]>> \in local THEN roots[p]
    ELSE IF disk[p] # 0 /\ <<p, disk[p]>> \in local THEN disk[p] ELSE 0

RestoreOne(p) ==
    /\ loop = "restore" /\ p \in todo
    /\ todo' = todo \ {p}
    /\ IF Restorable(p) = 0
       THEN UNCHANGED <<listing, synced>>
       ELSE /\ listing' = [listing EXCEPT ![p] = Restorable(p)]
            /\ synced' = [synced EXCEPT ![p] = [root |-> Restorable(p), stale |-> FALSE]]
    /\ UNCHANGED <<envVars, loop, roots, tasks, pass, forced, stopping, code_index,
                   reader, searcher>>

\* persist_state: write-then-rename, so the file is the old or the new one.
persist_state == disk' = [p \in Partitions |-> synced[p].root]

RestoreDone ==
    /\ loop = "restore" /\ todo = {}
    /\ code_index' = NoIndex
    /\ persist_state
    /\ loop' = "top"
    /\ UNCHANGED <<published, doc, local, calm, roots, todo, tasks, pass, forced,
                   stopping, listing, synced, reader, searcher>>

-----------------------------------------------------------------------------
\* A loop that keeps the snapshot it made at startup.
PassTop_OldSnapshot ==
    /\ loop = "top"
    /\ loop' = IF stopping THEN "drained" ELSE "plan"
    /\ UNCHANGED <<envVars, roots, todo, tasks, pass, forced, stopping, listing, synced,
                   code_index, reader, searcher>>

\* The head of the loop: the shutdown flag, then the snapshot for this pass.
\* A snapshot that fails or times out is tried again after a while.
PassTop ==
    /\ loop = "top"
    /\ IF stopping
       THEN loop' = "drained" /\ UNCHANGED roots
       ELSE /\ loop' = "plan"
            /\ \E s \in Listings : Snapshot(s) /\ roots' = s
    /\ UNCHANGED <<envVars, todo, tasks, pass, forced, stopping, listing, synced,
                   code_index, reader, searcher>>

Full == AutoSync /\ pass = FullPassEvery

Changed(p) == synced[p].root # roots[p] \/ synced[p].stale

\* The pass's work, and the requests it takes over from the handlers.
PlanPass ==
    /\ loop = "plan"
    /\ tasks' = tasks \union
         {[part |-> p, root |-> roots[p], force |-> p \in forced, at |-> "queued"] :
             p \in {q \in Partitions : roots[q] # 0 /\
                      (q \in forced \/ (AutoSync /\ (Full \/ Changed(q))))}}
    /\ forced' = {}
    /\ loop' = "walk"
    /\ UNCHANGED <<envVars, roots, todo, pass, stopping, listing, synced, code_index,
                   reader, searcher>>

Move(t, at) == tasks' = (tasks \ {t}) \union {[t EXCEPT !.at = at]}

(***************************************************************************)
(* sync_partition: the cached listing when its root has not moved and      *)
(* nobody insists, else a walk; a task that starts after the shutdown flag *)
(* does nothing.  A failed walk marks what was served before as stale.     *)
(***************************************************************************)
TaskWalk(t) ==
    /\ t \in tasks /\ t.at = "queued"
    /\ \/ /\ stopping
          /\ Move(t, "done") /\ UNCHANGED <<local, synced>>
       \/ /\ ~stopping /\ ~t.force /\ listing[t.part] = t.root
          /\ Move(t, "walked") /\ UNCHANGED <<local, synced>>
       \/ /\ ~stopping /\ (t.force \/ listing[t.part] # t.root)
          /\ \E ok \in WalkOutcomes(t.part, t.root) :
                IF ok
                THEN /\ Move(t, "walked")
                     /\ local' = local \union {<<t.part, t.root>>}
                     /\ UNCHANGED synced
                ELSE /\ Move(t, "done")
                     /\ synced' = [synced EXCEPT ![t.part].stale = synced[t.part].root # 0]
                     /\ UNCHANGED local
    /\ UNCHANGED <<published, doc, disk, calm, loop, roots, todo, pass, forced, stopping,
                   listing, code_index, reader, searcher>>

TaskCache(t) ==
    /\ t \in tasks /\ t.at = "walked"
    /\ listing' = [listing EXCEPT ![t.part] = t.root]
    /\ Move(t, "cached")
    /\ UNCHANGED <<envVars, loop, roots, todo, pass, forced, stopping, synced,
                   code_index, reader, searcher>>

TaskDone(t) ==
    /\ t \in tasks /\ t.at = "cached"
    /\ synced' = [synced EXCEPT ![t.part] = [root |-> t.root, stale |-> FALSE]]
    /\ code_index' = NoIndex
    /\ Move(t, "done")
    /\ UNCHANGED <<envVars, loop, roots, todo, pass, forced, stopping, listing,
                   reader, searcher>>

Progressed == {t \in tasks : synced[t.part] = [root |-> t.root, stale |-> FALSE]}
Behind     == {p \in Partitions : roots[p] # 0 /\ synced[p].root # roots[p]}

\* A loop that goes on while the pass's tasks still run.
PassEnd_NotJoined ==
    /\ loop = "walk"
    /\ disk' = IF tasks = {} THEN disk ELSE [p \in Partitions |-> synced[p].root]
    /\ pass' = IF pass = FullPassEvery THEN 1 ELSE pass + 1
    /\ loop' = IF ~AutoSync \/ Behind = {} \/ Progressed = {} THEN "wait" ELSE "top"
    /\ tasks' = {t \in tasks : t.at # "done"}
    /\ UNCHANGED <<published, doc, local, calm, roots, todo, forced, stopping, listing,
                   synced, code_index, reader, searcher>>

\* All tasks are joined and the state is saved.  The loop waits when nothing
\* is behind, when nothing progressed, and always in manual mode.
PassEnd ==
    /\ loop = "walk"
    /\ \A t \in tasks : t.at = "done"
    /\ IF tasks = {} THEN UNCHANGED disk ELSE persist_state
    /\ pass' = IF pass = FullPassEvery THEN 1 ELSE pass + 1
    /\ loop' = IF ~AutoSync \/ Behind = {} \/ Progressed = {} THEN "wait" ELSE "top"
    /\ tasks' = {}
    /\ UNCHANGED <<published, doc, local, calm, roots, todo, forced, stopping, listing,
                   synced, code_index, reader, searcher>>

WaitOver ==
    /\ loop = "wait"
    /\ loop' = "top"
    /\ UNCHANGED <<envVars, roots, todo, tasks, pass, forced, stopping, listing, synced,
                   code_index, reader, searcher>>

-----------------------------------------------------------------------------
Running == loop \notin {"off", "drained"}

\* POST /api/sync/:id and POST /api/sync.
SyncRequest ==
    /\ Running /\ ~stopping
    /\ \E ids \in {Partitions} \union {{p} : p \in Partitions} :
          forced' = forced \union ids
    /\ UNCHANGED <<envVars, loop, roots, todo, tasks, pass, stopping, listing, synced,
                   code_index, reader, searcher>>

\* partition_entries: without a cached listing it reads the root and walks.
ReadPartition(c) ==
    /\ Running /\ ~stopping
    /\ reader[c].at = "idle"
    /\ \E p \in Partitions :
          /\ listing[p] = 0 /\ doc[p] # 0
          /\ reader' = [reader EXCEPT ![c] = [at |-> "walk", part |-> p, root |-> doc[p]]]
    /\ UNCHANGED <<envVars, loop, roots, todo, tasks, pass, forced, stopping, listing,
                   synced, code_index, searcher>>

ReaderCaches(c) ==
    /\ reader[c].at = "walk"
    /\ \E ok \in WalkOutcomes(reader[c].part, reader[c].root) :
          IF ok
          THEN /\ listing' = [listing EXCEPT ![reader[c].part] = reader[c].root]
               /\ local' = local \union {<<reader[c].part, reader[c].root>>}
               /\ reader' = [reader EXCEPT ![c].at = "reset"]
          ELSE /\ reader' = [reader EXCEPT ![c] = IdleReader]
               /\ UNCHANGED <<listing, local>>
    /\ UNCHANGED <<published, doc, disk, calm, loop, roots, todo, tasks, pass, forced,
                   stopping, synced, code_index, searcher>>

ReaderResets(c) ==
    /\ reader[c].at = "reset"
    /\ code_index' = NoIndex
    /\ reader' = [reader EXCEPT ![c] = IdleReader]
    /\ UNCHANGED <<envVars, loop, roots, todo, tasks, pass, forced, stopping, listing,
                   synced, searcher>>

\* similar: without an index it copies the listings, builds one in a blocking
\* task and stores it when it has codes.
SearchCopies(c) ==
    /\ Running /\ ~stopping
    /\ searcher[c].at = "idle" /\ code_index = NoIndex
    /\ searcher' = [searcher EXCEPT ![c] = [at |-> "build", copied |-> listing]]
    /\ UNCHANGED <<envVars, loop, roots, todo, tasks, pass, forced, stopping, listing,
                   synced, code_index, reader>>

SearchStores(c) ==
    /\ searcher[c].at = "build"
    /\ code_index' = IF searcher[c].copied = NoListing THEN code_index ELSE searcher[c].copied
    /\ searcher' = [searcher EXCEPT ![c] = IdleSearcher]
    /\ UNCHANGED <<envVars, loop, roots, todo, tasks, pass, forced, stopping, listing,
                   synced, reader>>

-----------------------------------------------------------------------------
\* SIGTERM: axum waits for the handlers, then the loop is told to stop.
Stop ==
    /\ Running /\ ~stopping /\ ~calm
    /\ \A c \in Readers : reader[c].at = "idle"
    /\ \A c \in Searchers : searcher[c].at = "idle"
    /\ stopping' = TRUE
    /\ UNCHANGED <<envVars, loop, roots, todo, tasks, pass, forced, listing, synced,
                   code_index, reader, searcher>>

\* The drained loop lets the process close its node and exit.
Exit ==
    /\ loop = "drained"
    /\ NoProcess
    /\ UNCHANGED envVars

Crash ==
    /\ ~calm /\ loop # "off"
    /\ NoProcess
    /\ UNCHANGED envVars

LoopStep ==
    \/ RestoreDone \/ PassTop \/ PlanPass \/ PassEnd \/ WaitOver
    \/ \E p \in Partitions : RestoreOne(p)
    \/ \E t \in tasks : TaskWalk(t) \/ TaskCache(t) \/ TaskDone(t)

Handlers ==
    \/ SyncRequest
    \/ \E c \in Readers : ReadPartition(c) \/ ReaderCaches(c) \/ ReaderResets(c)
    \/ \E c \in Searchers : SearchCopies(c) \/ SearchStores(c)

Next ==
    \/ Start \/ LoopStep \/ Handlers \/ Stop \/ Exit \/ Crash
    \/ OriginPublishes \/ Replicate \/ LoseLocalBlobs \/ FaultsCease

Spec == Init /\ [][Next]_vars

\* The loop and the process manager go on, document sync delivers what the
\* origin has once it is reachable for good; users and the origin owe nothing.
FairSpec ==
    /\ Spec
    /\ WF_vars(Start) /\ WF_vars(Exit) /\ WF_vars(LoopStep)
    /\ WF_vars(Replicate) /\ WF_vars(FaultsCease)
    /\ \A c \in Readers : WF_vars(ReaderCaches(c) \/ ReaderResets(c))
    /\ \A c \in Searchers : WF_vars(SearchStores(c))

-----------------------------------------------------------------------------
(***************************************************************************)
(* "the origin being busy or unreachable then only delays fresh data, it   *)
(* never makes partitions unavailable": after the startup walks, a         *)
(* partition that was ever saved and whose saved tree is in the local      *)
(* store has a listing (or a task about to cache it), whatever the         *)
(* document names by now.                                                  *)
(***************************************************************************)
Served(p) ==
    <<p, disk[p]>> \in local =>
        listing[p] # 0 \/ \E t \in tasks : t.part = p /\ t.at = "walked"

OnceServedStaysServed ==
    loop \notin {"off", "restore"} => \A p \in Partitions : Served(p)

(***************************************************************************)
(* While the process runs, no partition's sync state ever goes back to an  *)
(* older root: tasks of two passes never race for one partition, and a     *)
(* startup never prefers what it was told by the file.                     *)
(***************************************************************************)
SyncNeverRegresses ==
    [][loop # "off" /\ loop' # "off" =>
          \A p \in Partitions : synced'[p].root >= synced[p].root]_vars

(***************************************************************************)
(* Auto mode catches up: once the origin is quiet and reachable, every     *)
(* partition it has published is synced at its root with no error left,    *)
(* after any number of failed walks, stale marks and restarts.             *)
(***************************************************************************)
EventuallySynced ==
    \A p \in Partitions : (calm /\ published[p] # 0) ~>
        synced[p] = [root |-> published[p], stale |-> FALSE]

Quiet == /\ loop = "wait"
         /\ \A c \in Readers : reader[c].at = "idle"
         /\ \A c \in Searchers : searcher[c].at = "idle"

(***************************************************************************)
(* What the viewer says of its similarity index: rebuilt after any         *)
(* partition update; one built while listings are still filling must not   *)
(* stick.  With nobody at work the index is reset or made from the         *)
(* listings there are.                                                     *)
(***************************************************************************)
CodeIndexIsCurrent == Quiet => code_index \in {NoIndex, listing}

-----------------------------------------------------------------------------
(***************************************************************************)
(* The inductive strengthening, proved in ViewerProofs: every root a       *)
(* running process knows is one the document has had, and a snapshot is    *)
(* never older than what was synced before it.                             *)
(***************************************************************************)
RootsInOrder ==
    /\ \A p \in Partitions :
          /\ doc[p] <= published[p]
          /\ disk[p] <= doc[p] /\ synced[p].root <= doc[p] /\ roots[p] <= doc[p]
    /\ loop \in {"restore", "plan", "walk"} =>
          \A p \in Partitions : roots[p] # 0 => synced[p].root <= roots[p]

TasksOfThisPass ==
    /\ loop # "walk" => tasks = {}
    /\ \A t \in tasks : /\ t.root = roots[t.part]
                        /\ t.at = "cached" => listing[t.part] # 0

ReadersHaveRoots == \A c \in Readers : reader[c].at # "idle" => reader[c].root # 0

RestoreInOrder ==
    loop = "restore" => \A p \in Partitions :
        IF p \in todo THEN synced[p].root = disk[p] ELSE Served(p)

\* What persist_state will save next is served as well.
ServedOnceSaved ==
    loop # "off" => \A p \in Partitions :
        synced[p].root # 0 => listing[p] # 0 \/ synced[p].root = disk[p]

ViewerInv ==
    /\ TypeOK
    /\ RootsInOrder /\ TasksOfThisPass /\ ReadersHaveRoots
    /\ RestoreInOrder /\ ServedOnceSaved
    /\ OnceServedStaysServed

=============================================================================
