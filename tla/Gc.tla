--------------------------------- MODULE Gc ---------------------------------
(***************************************************************************)
(* Garbage collection beside the running daemon                            *)
(* (crates/registryd/src/gc.rs): the protect callback iroh-blobs calls     *)
(* before each sweep.  The callback looks at active_writes once and then   *)
(* collects the live set in steps between which handlers, publisher and    *)
(* operator go on:                                                         *)
(*                                                                         *)
(*   index    all_content_hashes                                           *)
(*   roots    all_local_roots                                              *)
(*   doc      the document's root for each partition without a local one   *)
(*   walk     hamt::collect_reachable for each root                        *)
(*   entries  the ISCC root, which the daemon never writes, and            *)
(*            entry_content_hashes                                         *)
(*   sweep    ProtectOutcome::Continue: the live set is handed over        *)
(*                                                                         *)
(* A tree stands for its nodes, as in RecordIndex.  What a sweep deletes   *)
(* also depends on the tags iroh-blobs keeps and is not modelled: the      *)
(* properties are about the protect set at the moment of the hand-over.    *)
(***************************************************************************)
EXTENDS Registryd

ASSUME GcAssumption == IsFiniteSet(Clients)

VARIABLES
    gc_pc,       \* where the callback stands
    live,        \* the protect set: values, fully walked trees, entry blobs
    gc_roots,    \* the roots to walk, by partition
    todo,        \* partitions the doc or walk step has not come to
    acked_then,  \* history: what was accepted when the run began
    quiet,       \* history: nothing has been writing since the run began
    partial      \* history: a walk of this run has failed

gcVars == <<gc_pc, live, gc_roots, todo, acked_then, quiet, partial>>

NoLive == [values |-> {}, nodes |-> {}, entries |-> {}]

GcTypeOK ==
    /\ gc_pc \in {"idle", "index", "roots", "doc", "walk", "entries", "sweep"}
    /\ live \in [values : SUBSET Hashes, nodes : SUBSET Tree, entries : SUBSET Tree]
    /\ gc_roots \in [Partitions -> Tree \union {None}]
    /\ todo \subseteq Partitions
    /\ acked_then \subseteq Submission
    /\ quiet \in BOOLEAN /\ partial \in BOOLEAN

\* The write guards that are held: one per handler, one per publish cycle.
\* A transaction that outlives its handler holds none, nor do seed and heal.
active_writes ==
    Cardinality({c \in Clients : req[c].at # "idle"})
    + (IF pc \in InCycle THEN 1 ELSE 0)

GcOff ==
    /\ gc_pc' = "idle" /\ live' = NoLive /\ todo' = {}
    /\ gc_roots' = [p \in Partitions |-> None]
    /\ acked_then' = {} /\ quiet' = FALSE /\ partial' = FALSE

-----------------------------------------------------------------------------
\* A callback that does not look at the guards.
BeginRun_Unguarded ==
    /\ phase # "down"
    /\ gc_pc = "idle"
    /\ gc_pc' = "index"
    /\ acked_then' = acked /\ quiet' = (detached = {})
    /\ UNCHANGED <<live, gc_roots, todo, partial>>

\* The callback starts: it goes on only if no guard is held now.
BeginRun ==
    /\ phase # "down"
    /\ gc_pc = "idle"
    /\ active_writes = 0
    /\ gc_pc' = "index"
    /\ acked_then' = acked /\ quiet' = (detached = {})
    /\ UNCHANGED <<live, gc_roots, todo, partial>>

\* A live set without the values no tree lists yet.
all_content_hashes_PublishedOnly ==
    {records[k].hash : k \in {l \in Keys : records[l] # None /\ records[l].status = "published"}}

all_content_hashes == {records[k].hash : k \in {l \in Keys : records[l] # None}}

ReadIndex ==
    /\ gc_pc = "index"
    /\ gc_pc' = "roots"
    /\ live' = [live EXCEPT !.values = all_content_hashes]
    /\ UNCHANGED <<gc_roots, todo, acked_then, quiet, partial>>

ReadLocalRoots ==
    /\ gc_pc = "roots"
    /\ gc_roots' = local_roots
    /\ todo' = {p \in Partitions : local_roots[p] = None}
    /\ gc_pc' = "doc"
    /\ UNCHANGED <<live, acked_then, quiet, partial>>

\* Roots from the index alone: an installation that was never seeded has none.
ReadDocRoots_Skipped(faults) ==
    /\ gc_pc = "doc"
    /\ gc_pc' = "walk" /\ todo' = {q \in Partitions : gc_roots[q] # None}
    /\ UNCHANGED <<gc_roots, live, acked_then, quiet, partial>>

\* The document's root for the lowest partition that has no local one; an
\* entry that cannot be read ends the run.
ReadDocRoots(faults) ==
    /\ gc_pc = "doc"
    /\ IF todo = {}
       THEN /\ gc_pc' = "walk" /\ todo' = {p \in Partitions : gc_roots[p] # None}
            /\ UNCHANGED gc_roots
       ELSE LET p == CHOOSE q \in todo : \A r \in todo : q <= r
            IN  \E root \in get_partition_root(p, faults) \ {Unreadable} :
                   /\ gc_roots' = [gc_roots EXCEPT ![p] = root]
                   /\ todo' = todo \ {p} /\ gc_pc' = gc_pc
    /\ UNCHANGED <<live, acked_then, quiet, partial>>

ValuesIn(tree) == {tree[k] : k \in {l \in Keys : tree[l] # None}}

\* collect_reachable for one root, in no particular order.
Walk ==
    /\ gc_pc = "walk"
    /\ \E p \in todo :
          /\ live' = [live EXCEPT !.nodes = @ \union {gc_roots[p]},
                                  !.values = @ \union ValuesIn(gc_roots[p])]
          /\ todo' = todo \ {p}
    /\ UNCHANGED <<gc_pc, gc_roots, acked_then, quiet, partial>>

\* A node that cannot be read ends the walk of this root, not the run: what
\* the walk had found by then is kept.
WalkFails ==
    /\ gc_pc = "walk"
    /\ \E p \in todo : \E found \in SUBSET ValuesIn(gc_roots[p]) :
          /\ live' = [live EXCEPT !.values = @ \union found]
          /\ todo' = todo \ {p}
    /\ partial' = TRUE
    /\ UNCHANGED <<gc_pc, gc_roots, acked_then, quiet>>

WalksDone ==
    /\ gc_pc = "walk" /\ todo = {}
    /\ gc_pc' = "entries"
    /\ UNCHANGED <<live, gc_roots, todo, acked_then, quiet, partial>>

\* An entry's content hash is known to the document, readable or not.
ReadEntries ==
    /\ gc_pc = "entries"
    /\ live' = [live EXCEPT !.entries = {doc_roots[p] : p \in {q \in Partitions :
                                                              doc_roots[q] # None}}]
    /\ gc_pc' = "sweep"
    /\ UNCHANGED <<gc_roots, todo, acked_then, quiet, partial>>

Sweep ==
    /\ gc_pc = "sweep"
    /\ GcOff

\* Every `?` of collect_live: the run is aborted, no sweep.  A root entry that
\* is unreadable for good does so without any further fault.
RunAborts ==
    /\ \/ ~calm /\ gc_pc \in {"index", "roots", "doc", "entries"}
       \/ gc_pc = "doc" /\ \E p \in todo : Unreadable \in get_partition_root(p, FALSE)
    /\ GcOff

GcStep ==
    /\ \/ BeginRun \/ ReadIndex \/ ReadLocalRoots \/ ReadDocRoots(~calm) \/ Walk
       \/ ~calm /\ WalkFails
       \/ WalksDone \/ ReadEntries \/ Sweep \/ RunAborts
    /\ UNCHANGED vars

\* A step of the daemon.  The collector ends with the process; otherwise it
\* only matters to it whether somebody is writing.
DaemonStep ==
    /\ Next
    /\ IF phase' = "down" /\ phase # "down" THEN GcOff
       ELSE /\ quiet' = (quiet /\ active_writes' = 0 /\ detached' = {}
                               /\ doc_roots' = doc_roots)
            /\ UNCHANGED <<gc_pc, live, gc_roots, todo, acked_then, partial>>

GcInit ==
    /\ Init
    /\ gc_pc = "idle" /\ live = NoLive /\ todo = {}
    /\ gc_roots = [p \in Partitions |-> None]
    /\ acked_then = {} /\ quiet = FALSE /\ partial = FALSE

GcSpec == GcInit /\ [][DaemonStep \/ GcStep]_<<vars, gcVars>>

-----------------------------------------------------------------------------
(***************************************************************************)
(* Whatever goes on beside the collector and whichever walks fail, a sweep *)
(* never comes without the value of a submission that had been accepted    *)
(* when the run began, published or still pending.                         *)
(***************************************************************************)
AcceptedValuesAreProtected ==
    gc_pc = "sweep" => \A s \in acked_then : s.hash \in live.values

(***************************************************************************)
(* A run beside which nothing wrote, and whose walks all succeeded, hands  *)
(* over everything that is referenced: the values the index knows, every   *)
(* tree the writer builds on (the document's where no local root has been  *)
(* seeded), and every document entry.                                      *)
(***************************************************************************)
QuietRunIsComplete ==
    gc_pc = "sweep" /\ quiet /\ ~partial =>
        /\ \A k \in Keys : records[k] # None => records[k].hash \in live.values
        /\ \A p \in Partitions : WriterRoot(p) # None => WriterRoot(p) \in live.nodes
        /\ \A p \in Partitions : doc_roots[p] # None => doc_roots[p] \in live.entries

(***************************************************************************)
(* Why both hold (proved in GcProofs).  As long as a run is quiet no       *)
(* handler, no cycle and no late transaction is there to change a record   *)
(* or a root; only seeding may give a partition a local root meanwhile,    *)
(* and it is the one the document names.                                   *)
(***************************************************************************)
Untouched ==
    /\ \A c \in Clients : req[c].at = "idle"
    /\ pc \notin InCycle
    /\ detached = {}

\* What the steps of a run have collected by the time they are over.
ValuesCollected ==
    gc_pc \in {"roots", "doc", "walk", "entries", "sweep"} =>
        /\ \A s \in acked_then : s.hash \in live.values
        /\ quiet => \A k \in Keys : records[k] # None => records[k].hash \in live.values

RootsCollected ==
    /\ gc_pc = "doc" /\ quiet => \A p \in Partitions :
          IF p \in todo THEN local_roots[p] \in {None, doc_roots[p]}
                        ELSE gc_roots[p] = WriterRoot(p)
    /\ gc_pc = "walk" /\ quiet => \A p \in Partitions : gc_roots[p] = WriterRoot(p)
    /\ gc_pc = "walk" => \A p \in todo : gc_roots[p] # None

NodesCollected ==
    /\ gc_pc = "walk" /\ quiet /\ ~partial => \A p \in Partitions \ todo :
          gc_roots[p] # None => gc_roots[p] \in live.nodes
    /\ gc_pc \in {"entries", "sweep"} /\ quiet /\ ~partial => \A p \in Partitions :
          WriterRoot(p) # None => WriterRoot(p) \in live.nodes
    /\ gc_pc = "sweep" /\ quiet => \A p \in Partitions :
          doc_roots[p] # None => doc_roots[p] \in live.entries

\* The inductive invariant of the collector.
GcInv ==
    /\ GcTypeOK
    /\ acked_then \subseteq acked
    /\ quiet => Untouched
    /\ ValuesCollected /\ RootsCollected /\ NodesCollected

=============================================================================
