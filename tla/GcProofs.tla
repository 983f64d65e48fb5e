------------------------------ MODULE GcProofs ------------------------------
(***************************************************************************)
(* The protect set of the collector, for every set of keys, partitions,    *)
(* clients and requests: GcInv is an invariant of GcSpec, and with it      *)
(* AcceptedValuesAreProtected and QuietRunIsComplete.                      *)
(***************************************************************************)
EXTENDS Gc, RegistrydProofs

\* No guard is held exactly when no handler and no cycle is at work.
LEMMA NoGuard ==
    ASSUME active_writes = 0
    PROVE  (\A c \in Clients : req[c].at = "idle") /\ pc \notin InCycle
<1> DEFINE busy == {c \in Clients : req[c].at # "idle"}
<1>1. IsFiniteSet(busy)
  BY GcAssumption, FS_Subset
<1>2. Cardinality(busy) \in Nat
  BY <1>1, FS_CardinalityType
<1>3. Cardinality(busy) = 0 /\ pc \notin InCycle
  BY <1>2 DEF active_writes
<1>4. busy = {}
  BY <1>1, <1>3, FS_EmptySet
<1> QED
  BY <1>3, <1>4

\* Every step of the system is a step of the daemon or leaves it alone, so
\* whatever is proved of the daemon holds with the collector beside it.
THEOREM GcKeepsDaemon == GcSpec => Spec
<1>1. GcInit => Init
  BY DEF GcInit
<1>2. [DaemonStep \/ GcStep]_<<vars, gcVars>> => [Next]_vars
  BY DEF DaemonStep, GcStep
<1> QED
  BY <1>1, <1>2, PTL DEF GcSpec, Spec

\* What has been accepted stays accepted.
LEMMA AckedGrows ==
    ASSUME Next
    PROVE  acked \subseteq acked'
<1>1. ASSUME NEW c \in Clients, Handle(c) PROVE acked \subseteq acked'
  BY <1>1 DEF Handle, Arrive, put, Submit, SubmitFails, Disconnect
<1>2. CASE Detached
  BY <1>2 DEF Detached, DetachedSubmit, DetachedFails
<1>3. CASE Start \/ Sigterm \/ HandlersDone \/ Exit \/ Crash
  BY <1>3 DEF Start, Sigterm, HandlersDone, Exit, Crash, apiVars
<1>4. CASE \/ Publish \/ Drain \/ PublisherFails
           \/ EntryBlobLost \/ EditDenylist \/ FaultsCease
  BY <1>4 DEF Publish, Drain, PublisherFails, EntryBlobLost, EditDenylist, FaultsCease, apiVars
<1> QED
  BY <1>1, <1>2, <1>3, <1>4 DEF Next

\* While nobody writes, a step changes no record, and a root only by seeding.
LEMMA QuietStep ==
    ASSUME TypeOK, Untouched, Next, doc_roots' = doc_roots
    PROVE  /\ records' = records
           /\ \A p \in Partitions :
                \/ local_roots'[p] = local_roots[p]
                \/ local_roots[p] = None /\ local_roots'[p] = doc_roots[p]
<1> DEFINE Kept == UNCHANGED <<records, local_roots>>
<1>1. ASSUME NEW c \in Clients, Handle(c) PROVE Kept
  <2>1. req[c].at = "idle"
    BY DEF Untouched
  <2> QED
    BY <1>1, <2>1 DEF Handle, Arrive, put, Submit, SubmitFails, Disconnect, indexVars
<1>2. CASE Detached
  BY <1>2 DEF Detached, Untouched
<1>3. CASE \/ Start \/ Sigterm \/ HandlersDone \/ Exit \/ Crash
           \/ EntryBlobLost \/ EditDenylist \/ FaultsCease
  BY <1>3 DEF Start, Sigterm, HandlersDone, Exit, Crash, EntryBlobLost, EditDenylist,
              FaultsCease, indexVars
<1>4. CASE Drain \/ PublisherFails
  BY <1>4 DEF Drain, PublisherFails, BeginCycle, StopIdle, SeedFails, HealFails, CycleFails,
              indexVars
<1>5. ASSUME NEW f \in BOOLEAN, seed_local_roots(f)
      PROVE  /\ records' = records
             /\ \A p \in Partitions :
                  \/ local_roots'[p] = local_roots[p]
                  \/ local_roots[p] = None /\ local_roots'[p] = doc_roots[p]
  <2>0. cursor \in Partitions /\ DocTypeOK /\ local_roots \in [Partitions -> Tree \union {None}]
    BY DEF TypeOK, PublisherTypeOK, IndexTypeOK
  <2>1. CASE UNCHANGED indexVars
    BY <2>1 DEF indexVars
  <2>2. ASSUME local_roots[cursor] = None, NEW root \in get_partition_root(cursor, f),
               root \in Tree, set_local_root(cursor, root)
        PROVE  /\ records' = records
               /\ \A p \in Partitions :
                    \/ local_roots'[p] = local_roots[p]
                    \/ local_roots[p] = None /\ local_roots'[p] = doc_roots[p]
    <3>1. root = doc_roots[cursor]
      BY <2>0, <2>2, ReadType, DocAssumption
    <3> QED
      BY <2>0, <2>2, <3>1 DEF set_local_root
  <2> QED
    BY <1>5, <2>1, <2>2 DEF seed_local_roots
<1>6. CASE Publish
  <2>1. (~calm) \in BOOLEAN
    OBVIOUS
  <2>2. CASE seed_local_roots(~calm)
    BY <1>5, <2>1, <2>2
  <2>3. CASE ~seed_local_roots(~calm)
    <3>1. \/ heal_pointer_doc(~calm) \/ HealDue \/ BeginCycle(FALSE, ~calm)
          \/ pc \in InCycle
      BY <1>6, <2>3 DEF Publish, PublisherNext, InCycle, BuildTree, NothingToBuild,
         SetDocRoot, SetLocalRoot, mark_published, mark_denylisted, RootUnreadable
    <3>2. heal_pointer_doc(~calm) \/ HealDue \/ BeginCycle(FALSE, ~calm)
      BY <3>1 DEF Untouched
    <3> QED
      BY <3>2 DEF heal_pointer_doc, HealDue, BeginCycle, indexVars
  <2> QED
    BY <2>2, <2>3
<1> QED
  BY <1>1, <1>2, <1>3, <1>4, <1>6 DEF Next

-----------------------------------------------------------------------------
\* A collector that is not running satisfies its invariant.
LEMMA OffInv ==
    ASSUME GcOff
    PROVE  GcInv'
  BY DEF GcOff, GcInv, GcTypeOK, NoLive, ValuesCollected, RootsCollected, NodesCollected

\* So does one that has never run.
LEMMA GcInitInv == GcInit => GcInv
<1> SUFFICES ASSUME GcInit PROVE GcInv
  OBVIOUS
<1>1. GcTypeOK /\ acked_then = {} /\ quiet = FALSE /\ gc_pc = "idle"
  BY DEF GcInit, GcTypeOK, NoLive
<1> QED
  BY <1>1 DEF GcInv, ValuesCollected, RootsCollected, NodesCollected

\* A step of the daemon keeps what a run has collected, or ends its quiet.
LEMMA DaemonKeeps ==
    ASSUME TypeOK, GcInv, DaemonStep
    PROVE  GcInv'
<1>1. CASE phase' = "down" /\ phase # "down"
  BY <1>1, OffInv DEF DaemonStep
<1>2. CASE ~(phase' = "down" /\ phase # "down")
  <2>1. /\ UNCHANGED <<gc_pc, live, gc_roots, todo, acked_then, partial>>
        /\ quiet' = (quiet /\ active_writes' = 0 /\ detached' = {} /\ doc_roots' = doc_roots)
    BY <1>2 DEF DaemonStep
  <2>2. GcTypeOK'
    BY <2>1 DEF GcInv, GcTypeOK
  <2>3. (acked_then \subseteq acked)'
    BY <2>1, AckedGrows DEF GcInv, DaemonStep
  <2>4. (quiet => Untouched)'
    <3>1. active_writes' = 0 => (\A c \in Clients : req'[c].at = "idle") /\ pc' \notin InCycle
      <4> DEFINE busy == {c \in Clients : req'[c].at # "idle"}
      <4>1. IsFiniteSet(busy)
        BY GcAssumption, FS_Subset
      <4>2. Cardinality(busy) \in Nat
        BY <4>1, FS_CardinalityType
      <4>3. active_writes' = 0 => Cardinality(busy) = 0 /\ pc' \notin InCycle
        BY <4>2 DEF active_writes
      <4>4. Cardinality(busy) = 0 => busy = {}
        BY <4>1, FS_EmptySet
      <4> QED
        BY <4>3, <4>4
    <3> QED
      BY <2>1, <3>1 DEF Untouched
  <2>5. ASSUME quiet'
        PROVE  /\ quiet /\ records' = records /\ doc_roots' = doc_roots
               /\ \A p \in Partitions :
                    \/ local_roots'[p] = local_roots[p]
                    \/ local_roots[p] = None /\ local_roots'[p] = doc_roots[p]
    BY <2>1, <2>5, QuietStep DEF GcInv, DaemonStep
  <2>6. ASSUME quiet', NEW p \in Partitions
        PROVE  /\ WriterRoot(p)' = WriterRoot(p)
               /\ local_roots[p] \in {None, doc_roots[p]} =>
                     local_roots'[p] \in {None, doc_roots'[p]}
    BY <2>5, <2>6 DEF WriterRoot
  <2>7. ValuesCollected'
    BY <2>1, <2>5 DEF GcInv, ValuesCollected
  <2>8. RootsCollected'
    BY <2>1, <2>5, <2>6 DEF GcInv, RootsCollected
  <2>9. NodesCollected'
    BY <2>1, <2>5, <2>6 DEF GcInv, NodesCollected
  <2> QED
    BY <2>2, <2>3, <2>4, <2>7, <2>8, <2>9 DEF GcInv
<1> QED
  BY <1>1, <1>2

\* A step of the collector collects what its place in the run promises.
LEMMA CollectorKeeps ==
    ASSUME TypeOK, AcceptedIsKept, GcInv, GcStep
    PROVE  GcInv'
<1>u. /\ UNCHANGED <<records, local_roots, doc_roots, req, detached, acked, pc>>
      /\ \A p \in Partitions : WriterRoot(p)' = WriterRoot(p)
  BY DEF GcStep, vars, indexVars, docVars, apiVars, taskVars, WriterRoot
<1>q. Untouched' <=> Untouched
  BY <1>u DEF Untouched
<1>l. /\ live \in [values : SUBSET Hashes, nodes : SUBSET Tree, entries : SUBSET Tree]
      /\ gc_roots \in [Partitions -> Tree \union {None}] /\ todo \subseteq Partitions
      /\ quiet \in BOOLEAN /\ partial \in BOOLEAN
      /\ local_roots \in [Partitions -> Tree \union {None}]
      /\ doc_roots \in [Partitions -> Tree \union {None}]
      /\ acked \subseteq Submission
      /\ \A k \in Keys : records[k] # None => records[k].hash \in Hashes
  BY DEF GcInv, GcTypeOK, TypeOK, IndexTypeOK, DocTypeOK, ApiTypeOK, IndexRecord
<1>1. CASE BeginRun
  <2>1. quiet' => Untouched
    BY <1>1, NoGuard DEF BeginRun, Untouched
  <2>2. GcTypeOK'
    BY <1>1, <1>l DEF BeginRun, GcInv, GcTypeOK
  <2> QED
    BY <1>1, <1>u, <1>q, <2>1, <2>2
       DEF BeginRun, GcInv, ValuesCollected, RootsCollected, NodesCollected
<1>2. CASE ReadIndex
  <2>1. /\ live' = [live EXCEPT !.values = all_content_hashes]
        /\ gc_pc' = "roots" /\ UNCHANGED <<gc_roots, todo, acked_then, quiet, partial>>
    BY <1>2 DEF ReadIndex
  <2>2. live'.values = all_content_hashes
    BY <1>l, <2>1
  <2>3. all_content_hashes \subseteq Hashes
    BY <1>l DEF all_content_hashes
  <2>4. GcTypeOK'
    BY <1>l, <2>1, <2>3 DEF GcInv, GcTypeOK
  <2>5. \A s \in acked_then : s.hash \in all_content_hashes
    BY <1>l DEF GcInv, AcceptedIsKept, all_content_hashes, Submission
  <2>6. \A k \in Keys : records[k] # None => records[k].hash \in all_content_hashes
    BY DEF all_content_hashes
  <2>7. ValuesCollected'
    BY <1>u, <2>1, <2>2, <2>5, <2>6 DEF ValuesCollected
  <2> QED
    BY <1>u, <1>q, <2>1, <2>4, <2>7 DEF GcInv, RootsCollected, NodesCollected
<1>3. CASE ReadLocalRoots
  <2>1. /\ gc_pc = "roots" /\ gc_pc' = "doc" /\ gc_roots' = local_roots
        /\ todo' = {p \in Partitions : local_roots[p] = None}
        /\ UNCHANGED <<live, acked_then, quiet, partial>>
    BY <1>3 DEF ReadLocalRoots
  <2>2. GcTypeOK'
    BY <1>l, <2>1 DEF GcInv, GcTypeOK
  <2>3. RootsCollected'
    BY <1>u, <2>1 DEF RootsCollected, WriterRoot
  <2> QED
    BY <1>u, <1>q, <2>1, <2>2, <2>3 DEF GcInv, ValuesCollected, NodesCollected
<1>4. CASE ReadDocRoots(~calm)
  <2>0. gc_pc = "doc" /\ UNCHANGED <<live, acked_then, quiet, partial>>
    BY <1>4 DEF ReadDocRoots
  <2>1. CASE todo = {}
    <3>1. /\ gc_pc' = "walk" /\ todo' = {p \in Partitions : gc_roots[p] # None}
          /\ gc_roots' = gc_roots
      BY <1>4, <2>1 DEF ReadDocRoots
    <3>2. GcTypeOK'
      BY <1>l, <2>0, <3>1 DEF GcInv, GcTypeOK
    <3>3. RootsCollected'
      BY <1>u, <2>0, <2>1, <3>1 DEF GcInv, RootsCollected
    <3> QED
      BY <1>u, <1>q, <2>0, <3>1, <3>2, <3>3 DEF GcInv, ValuesCollected, NodesCollected
  <2>2. CASE todo # {}
    <3> DEFINE p == CHOOSE q \in todo : \A r \in todo : q <= r
    <3>1. p \in todo
      <4>1. PICK q \in todo : \A r \in todo : ~(r < q)
        BY <1>l, <2>2, Least DEF Partitions
      <4>2. \A r \in todo : q <= r
        BY <1>l, <4>1, IndexAssumption DEF Partitions
      <4> QED
        BY <4>2
    <3>2. PICK root \in get_partition_root(p, ~calm) \ {Unreadable} :
             /\ gc_roots' = [gc_roots EXCEPT ![p] = root]
             /\ todo' = todo \ {p} /\ gc_pc' = gc_pc
      BY <1>4, <2>2 DEF ReadDocRoots
    <3> HIDE DEF p
    <3>3. root = doc_roots[p] /\ root \in Tree \union {None}
      BY <1>l, <3>1, <3>2, ReadType DEF TypeOK
    <3>4. GcTypeOK'
      BY <1>l, <2>0, <3>1, <3>2, <3>3 DEF GcInv, GcTypeOK
    <3>5. RootsCollected'
      BY <1>l, <1>u, <2>0, <3>1, <3>2, <3>3 DEF GcInv, RootsCollected, WriterRoot
    <3> QED
      BY <1>u, <1>q, <2>0, <3>2, <3>4, <3>5 DEF GcInv, ValuesCollected, NodesCollected
  <2> QED
    BY <2>1, <2>2
<1>5. CASE Walk \/ WalkFails
  <2>1. PICK p \in todo :
           /\ gc_pc = "walk" /\ todo' = todo \ {p}
           /\ UNCHANGED <<gc_pc, gc_roots, acked_then, quiet>>
           /\ \E found \in SUBSET ValuesIn(gc_roots[p]) :
                \/ /\ partial' = partial
                   /\ live' = [live EXCEPT !.nodes = @ \union {gc_roots[p]},
                                           !.values = @ \union found]
                \/ /\ partial' = TRUE
                   /\ live' = [live EXCEPT !.values = @ \union found]
    BY <1>5 DEF Walk, WalkFails
  <2>2. gc_roots[p] \in Tree
    BY <1>l, <2>1 DEF GcInv, RootsCollected
  <2>3. ValuesIn(gc_roots[p]) \subseteq Hashes
    BY <2>2 DEF ValuesIn, Tree
  <2>4. /\ live' \in [values : SUBSET Hashes, nodes : SUBSET Tree, entries : SUBSET Tree]
        /\ live.values \subseteq live'.values /\ live.nodes \subseteq live'.nodes
        /\ ~partial' => ~partial /\ gc_roots[p] \in live'.nodes
        /\ partial' \in BOOLEAN
    <3>1. PICK found \in SUBSET ValuesIn(gc_roots[p]) :
             \/ /\ partial' = partial
                /\ live' = [live EXCEPT !.nodes = @ \union {gc_roots[p]},
                                        !.values = @ \union found]
             \/ /\ partial' = TRUE
                /\ live' = [live EXCEPT !.values = @ \union found]
      BY <2>1
    <3>2. found \subseteq Hashes
      BY <2>3, <3>1
    <3>3. CASE /\ partial' = partial
               /\ live' = [live EXCEPT !.nodes = @ \union {gc_roots[p]},
                                       !.values = @ \union found]
      BY <1>l, <2>2, <3>2, <3>3
    <3>4. CASE /\ partial' = TRUE
               /\ live' = [live EXCEPT !.values = @ \union found]
      BY <1>l, <3>2, <3>4
    <3> QED
      BY <3>1, <3>3, <3>4
  <2>5. GcTypeOK'
    BY <1>l, <2>1, <2>4 DEF GcInv, GcTypeOK
  <2>6. ValuesCollected'
    BY <1>u, <2>1, <2>4 DEF GcInv, ValuesCollected
  <2>7. RootsCollected'
    BY <1>u, <2>1 DEF GcInv, RootsCollected
  <2>8. NodesCollected'
    BY <1>u, <2>1, <2>4 DEF GcInv, NodesCollected
  <2> QED
    BY <1>u, <1>q, <2>1, <2>5, <2>6, <2>7, <2>8 DEF GcInv
<1>6. CASE WalksDone
  <2>1. /\ gc_pc = "walk" /\ todo = {} /\ gc_pc' = "entries"
        /\ UNCHANGED <<live, gc_roots, todo, acked_then, quiet, partial>>
    BY <1>6 DEF WalksDone
  <2>2. GcTypeOK'
    BY <2>1 DEF GcInv, GcTypeOK
  <2>3. NodesCollected'
    BY <1>u, <2>1 DEF GcInv, NodesCollected, RootsCollected
  <2> QED
    BY <1>u, <1>q, <2>1, <2>2, <2>3 DEF GcInv, ValuesCollected, RootsCollected
<1>7. CASE ReadEntries
  <2> DEFINE named == {doc_roots[p] : p \in {q \in Partitions : doc_roots[q] # None}}
  <2>1. /\ gc_pc = "entries" /\ gc_pc' = "sweep"
        /\ live' = [live EXCEPT !.entries = named]
        /\ UNCHANGED <<gc_roots, todo, acked_then, quiet, partial>>
    BY <1>7 DEF ReadEntries
  <2>2. named \subseteq Tree
    BY <1>l
  <2>3. /\ live' \in [values : SUBSET Hashes, nodes : SUBSET Tree, entries : SUBSET Tree]
        /\ live'.values = live.values /\ live'.nodes = live.nodes /\ live'.entries = named
    BY <1>l, <2>1, <2>2
  <2>4. GcTypeOK'
    BY <2>1, <2>3 DEF GcInv, GcTypeOK
  <2>5. NodesCollected'
    BY <1>u, <2>1, <2>3 DEF GcInv, NodesCollected
  <2> QED
    BY <1>u, <1>q, <2>1, <2>3, <2>4, <2>5 DEF GcInv, ValuesCollected, RootsCollected
<1>8. CASE Sweep \/ RunAborts
  BY <1>8, OffInv DEF Sweep, RunAborts
<1> QED
  BY <1>1, <1>2, <1>3, <1>4, <1>5, <1>6, <1>7, <1>8 DEF GcStep

\* The collector's invariant holds beside every behaviour of the daemon.
THEOREM GcInvariant == GcSpec => []GcInv
<1>1. TypeOK /\ AcceptedIsKept /\ GcInv /\ [DaemonStep \/ GcStep]_<<vars, gcVars>> => GcInv'
  <2> SUFFICES ASSUME TypeOK, AcceptedIsKept, GcInv,
                      [DaemonStep \/ GcStep]_<<vars, gcVars>>
               PROVE  GcInv'
    OBVIOUS
  <2>1. CASE DaemonStep
    BY <2>1, DaemonKeeps
  <2>2. CASE GcStep
    BY <2>2, CollectorKeeps
  <2>3. CASE UNCHANGED <<vars, gcVars>>
    BY <2>3 DEF vars, gcVars, indexVars, docVars, apiVars, taskVars, GcInv, GcTypeOK,
       Untouched, ValuesCollected, RootsCollected, NodesCollected, WriterRoot
  <2> QED
    BY <2>1, <2>2, <2>3
<1> QED
  BY <1>1, GcInitInv, GcKeepsDaemon, TypeCorrect, AcceptedIsKeptHolds, PTL DEF GcSpec

\* A sweep never comes without the value of a submission that was accepted
\* before its run began, whatever is written beside it and whichever walks
\* fail (gc.rs, collect_live: the index first).
THEOREM AcceptedValuesHold == GcSpec => []AcceptedValuesAreProtected
<1>1. GcInv => AcceptedValuesAreProtected
  BY DEF GcInv, ValuesCollected, AcceptedValuesAreProtected
<1> QED
  BY <1>1, GcInvariant, PTL

\* A run that nothing writes beside and whose walks succeed hands over all
\* that is referenced.
THEOREM QuietRunHolds == GcSpec => []QuietRunIsComplete
<1>1. GcInv => QuietRunIsComplete
  BY DEF GcInv, ValuesCollected, NodesCollected, QuietRunIsComplete
<1> QED
  BY <1>1, GcInvariant, PTL

=============================================================================
