---------------------------- MODULE ViewerProofs ----------------------------
(***************************************************************************)
(* The viewer's sync loop for every number of partitions, roots, readers   *)
(* and searchers.                                                          *)
(***************************************************************************)
EXTENDS Viewer, TLAPS

\* The roots in the state are numbers.
LEMMA RootTypes ==
    ASSUME TypeOK
    PROVE  \A p \in Partitions :
               /\ published[p] \in Nat /\ doc[p] \in Nat /\ disk[p] \in Nat
               /\ roots[p] \in Nat /\ listing[p] \in Nat /\ synced[p].root \in Nat
<1> TAKE p \in Partitions
<1>1. synced[p] \in SyncState
  BY DEF TypeOK
<1>2. /\ published[p] \in Root0 /\ doc[p] \in Root0 /\ disk[p] \in Root0
      /\ roots[p] \in Root0 /\ listing[p] \in Root0
  BY DEF TypeOK, Listings
<1> QED
  BY <1>1, <1>2, ViewerAssumption DEF Root0, Roots, SyncState

\* The result of a startup walk: a root of the store, and one if there is one.
LEMMA RestorableRoot ==
    ASSUME TypeOK
    PROVE  \A p \in Partitions :
               /\ Restorable(p) \in Root0
               /\ Restorable(p) # 0 => /\ Restorable(p) \in {roots[p], disk[p]}
                                       /\ <<p, Restorable(p)>> \in local
               /\ (<<p, disk[p]>> \in local) => Restorable(p) # 0
<1> TAKE p \in Partitions
<1>1. roots[p] \in Root0 /\ disk[p] \in Root0
  BY DEF TypeOK, Listings
<1>2. (<<p, disk[p]>> \in local) => disk[p] # 0
  BY ViewerAssumption DEF TypeOK, Roots
<1> QED
  BY <1>1, <1>2 DEF Restorable, Root0

\* What the walk of a task may do.
LEMMA TaskWalkEffect ==
    ASSUME TypeOK, NEW t \in tasks, TaskWalk(t)
    PROVE  /\ t.at = "queued" /\ t.part \in Partitions /\ t.root \in Roots
           /\ \E at \in {"walked", "done"} :
                 /\ tasks' = (tasks \ {t}) \union {[t EXCEPT !.at = at]}
                 /\ local' \in {local, local \union {<<t.part, t.root>>}}
                 /\ local' # local => at = "walked"
           /\ synced' \in [Partitions -> SyncState]
           /\ \A p \in Partitions : synced'[p].root = synced[p].root
<1>1. t \in Task
  BY DEF TypeOK
<1>2. t.at = "queued" /\ t.part \in Partitions /\ t.root \in Roots
  BY <1>1 DEF TaskWalk, Task
<1>3. \E at \in {"walked", "done"} :
         /\ tasks' = (tasks \ {t}) \union {[t EXCEPT !.at = at]}
         /\ local' \in {local, local \union {<<t.part, t.root>>}}
         /\ local' # local => at = "walked"
  BY DEF TaskWalk, Move
<1>4. synced' = synced \/ synced' = [synced EXCEPT ![t.part].stale = synced[t.part].root # 0]
  BY DEF TaskWalk
<1>5. synced \in [Partitions -> SyncState]
  BY DEF TypeOK
<1>6. synced' \in [Partitions -> SyncState] /\ \A p \in Partitions : synced'[p].root = synced[p].root
  <2>1. CASE synced' = synced
    BY <1>5, <2>1
  <2>2. CASE synced' = [synced EXCEPT ![t.part].stale = synced[t.part].root # 0]
    <3>1. synced[t.part] \in SyncState
      BY <1>2, <1>5
    <3>2. [synced[t.part] EXCEPT !.stale = synced[t.part].root # 0] \in SyncState
      BY <3>1 DEF SyncState
    <3> QED
      BY <1>2, <1>5, <2>2, <3>1, <3>2 DEF SyncState
  <2> QED
    BY <1>4, <2>1, <2>2
<1> QED
  BY <1>2, <1>3, <1>6

\* What a reader's walk may do.
LEMMA ReaderEffect ==
    ASSUME TypeOK, ReadersHaveRoots, NEW c0 \in Readers, ReaderCaches(c0)
    PROVE  \/ /\ reader' = [reader EXCEPT ![c0] = IdleReader]
              /\ UNCHANGED <<listing, local>>
           \/ \E p \in Partitions, r \in Roots :
                 /\ reader[c0].part = p /\ reader[c0].root = r
                 /\ reader' = [reader EXCEPT ![c0].at = "reset"]
                 /\ listing' = [listing EXCEPT ![p] = r]
                 /\ local' = local \union {<<p, r>>}
<1>1. reader[c0] \in [at : {"idle", "walk", "reset"}, part : Partitions, root : Root0]
  BY DEF TypeOK
<1>2. reader[c0].part \in Partitions /\ reader[c0].root \in Roots
  BY <1>1 DEF ReaderCaches, ReadersHaveRoots, Root0
<1> QED
  BY <1>2 DEF ReaderCaches

\* Types are kept.
LEMMA TypeStep ==
    ASSUME TypeOK, ReadersHaveRoots, [Next]_vars
    PROVE  TypeOK'
<1> USE ViewerAssumption
<1>1. CASE Start
  BY <1>1 DEF Start, Snapshot, envVars, procVars, TypeOK, Listings, Root0, SyncState, Task,
     IdleReader, Partitions
<1>2. CASE RestoreDone
  BY <1>2 DEF RestoreDone, persist_state, envVars, procVars, TypeOK, Listings, Root0,
     SyncState, Task, IdleReader, Partitions
<1>3. CASE PassTop
  BY <1>3 DEF PassTop, Snapshot, envVars, procVars, TypeOK
<1>4. CASE PlanPass
  <2> DEFINE new == {[part |-> p, root |-> roots[p], force |-> p \in forced, at |-> "queued"] :
             p \in {q \in Partitions : roots[q] # 0 /\
                      (q \in forced \/ (AutoSync /\ (Full \/ Changed(q))))}}
  <2>1. new \subseteq Task
    <3>1. \A p \in Partitions : roots[p] # 0 => roots[p] \in Roots
      BY DEF TypeOK, Listings, Root0
    <3> SUFFICES ASSUME NEW p \in Partitions, roots[p] # 0
                 PROVE  [part |-> p, root |-> roots[p], force |-> p \in forced,
                         at |-> "queued"] \in Task
      OBVIOUS
    <3>2. (p \in forced) \in BOOLEAN
      OBVIOUS
    <3> QED
      BY <3>1, <3>2 DEF Task
  <2>2. tasks' \subseteq Task
    BY <1>4, <2>1 DEF PlanPass, TypeOK
  <2> QED
    BY <1>4, <2>2 DEF PlanPass, envVars, TypeOK
<1>5. CASE PassEnd
  BY <1>5 DEF PassEnd, persist_state, envVars, procVars, TypeOK, Listings, Root0, SyncState,
     Task, IdleReader, Partitions
<1>6. CASE WaitOver
  BY <1>6 DEF WaitOver, envVars, procVars, TypeOK
<1>7. ASSUME NEW p0 \in Partitions, RestoreOne(p0) PROVE TypeOK'
  <2>0. Restorable(p0) \in Root0
    BY RestorableRoot
  <2>1. /\ listing' \in Listings
        /\ synced' \in [Partitions -> SyncState]
    <3>1. CASE Restorable(p0) = 0
      BY <1>7, <3>1 DEF RestoreOne, TypeOK
    <3>2. CASE Restorable(p0) # 0
      <4>1. listing' = [listing EXCEPT ![p0] = Restorable(p0)]
            /\ synced' = [synced EXCEPT ![p0] = [root |-> Restorable(p0), stale |-> FALSE]]
        BY <1>7, <3>2 DEF RestoreOne
      <4>2. [root |-> Restorable(p0), stale |-> FALSE] \in SyncState
        BY <2>0 DEF SyncState
      <4> QED
        BY <2>0, <4>1, <4>2 DEF TypeOK, Listings
    <3> QED
      BY <3>1, <3>2
  <2> QED
    BY <1>7, <2>1 DEF RestoreOne, envVars, TypeOK
<1>8. ASSUME NEW t \in tasks, TaskWalk(t) PROVE TypeOK'
  <2>1. PICK at \in {"walked", "done"} :
           /\ tasks' = (tasks \ {t}) \union {[t EXCEPT !.at = at]}
           /\ local' \in {local, local \union {<<t.part, t.root>>}}
    BY <1>8, TaskWalkEffect
  <2>2. t \in Task /\ [t EXCEPT !.at = at] \in Task
    BY DEF TypeOK, Task
  <2>3. tasks' \subseteq Task /\ local' \subseteq Partitions \X Roots
    BY <1>8, <2>1, <2>2, TaskWalkEffect DEF TypeOK
  <2>4. synced' \in [Partitions -> SyncState]
    BY <1>8, TaskWalkEffect
  <2> QED
    BY <1>8, <2>3, <2>4 DEF TaskWalk, TypeOK
<1>9. ASSUME NEW t \in tasks, TaskCache(t) PROVE TypeOK'
  BY <1>9 DEF TaskCache, Move, envVars, procVars, TypeOK, Listings, Root0, SyncState, Task,
     IdleReader, Partitions
<1>10. ASSUME NEW t \in tasks, TaskDone(t) PROVE TypeOK'
  BY <1>10 DEF TaskDone, Move, envVars, procVars, TypeOK, Listings, Root0, SyncState, Task,
     IdleReader, Partitions
<1>11. CASE SyncRequest
  BY <1>11 DEF SyncRequest, envVars, procVars, TypeOK
<1>12. ASSUME NEW c0 \in Readers, ReadPartition(c0) PROVE TypeOK'
  BY <1>12 DEF ReadPartition, envVars, procVars, TypeOK, Listings, Root0, SyncState, Task,
     IdleReader, Partitions
<1>13. ASSUME NEW c0 \in Readers, ReaderCaches(c0) PROVE TypeOK'
  <2>1. /\ listing' \in Listings /\ local' \subseteq Partitions \X Roots
    BY <1>13, ReaderEffect DEF TypeOK, Listings, Root0
  <2>2. reader' \in [Readers -> [at : {"idle", "walk", "reset"}, part : Partitions, root : Root0]]
    <3>1. IdleReader \in [at : {"idle", "walk", "reset"}, part : Partitions, root : Root0]
      BY ViewerAssumption DEF IdleReader, Partitions, Root0
    <3>2. reader \in [Readers -> [at : {"idle", "walk", "reset"}, part : Partitions, root : Root0]]
      BY DEF TypeOK
    <3>3. reader' = [reader EXCEPT ![c0] = IdleReader] \/ reader' = [reader EXCEPT ![c0].at = "reset"]
      BY <1>13, ReaderEffect
    <3>4. [reader[c0] EXCEPT !.at = "reset"] \in [at : {"idle", "walk", "reset"}, part : Partitions, root : Root0]
      BY <3>2
    <3> QED
      BY <3>1, <3>2, <3>3, <3>4
  <2> QED
    BY <1>13, <2>1, <2>2 DEF ReaderCaches, TypeOK
<1>14. ASSUME NEW c0 \in Readers, ReaderResets(c0) PROVE TypeOK'
  BY <1>14 DEF ReaderResets, envVars, procVars, TypeOK, Listings, Root0, SyncState, Task,
     IdleReader, Partitions
<1>15. ASSUME NEW c0 \in Searchers, SearchCopies(c0) PROVE TypeOK'
  BY <1>15 DEF SearchCopies, envVars, procVars, TypeOK
<1>16. ASSUME NEW c0 \in Searchers, SearchStores(c0) PROVE TypeOK'
  BY <1>16 DEF SearchStores, envVars, procVars, ReadersHaveRoots, TypeOK, Partitions, Roots,
     Root0, Task, SyncState, Listings, NoListing, IdleReader, IdleSearcher
<1>17. CASE Stop
  BY <1>17 DEF Stop, envVars, procVars, TypeOK
<1>18. CASE Exit
  <2>1. NoListing \in Listings
    BY DEF NoListing, Listings, Root0
  <2>2. [p \in Partitions |-> [root |-> 0, stale |-> FALSE]] \in [Partitions -> SyncState]
    BY DEF SyncState, Root0
  <2>3. 0 \in Partitions /\ 0 \in 0 .. FullPassEvery
    BY DEF Partitions
  <2>4. IdleReader \in [at : {"idle", "walk", "reset"}, part : Partitions, root : Root0]
    BY <2>3 DEF IdleReader, Root0
  <2>5. IdleSearcher \in [at : {"idle", "build"}, copied : Listings]
    BY <2>1 DEF IdleSearcher
  <2> QED
    BY <1>18, <2>1, <2>2, <2>3, <2>4, <2>5 DEF Exit, Crash, NoProcess, envVars, TypeOK
<1>19. CASE Crash
  <2>1. NoListing \in Listings
    BY DEF NoListing, Listings, Root0
  <2>2. [p \in Partitions |-> [root |-> 0, stale |-> FALSE]] \in [Partitions -> SyncState]
    BY DEF SyncState, Root0
  <2>3. 0 \in Partitions /\ 0 \in 0 .. FullPassEvery
    BY DEF Partitions
  <2>4. IdleReader \in [at : {"idle", "walk", "reset"}, part : Partitions, root : Root0]
    BY <2>3 DEF IdleReader, Root0
  <2>5. IdleSearcher \in [at : {"idle", "build"}, copied : Listings]
    BY <2>1 DEF IdleSearcher
  <2> QED
    BY <1>19, <2>1, <2>2, <2>3, <2>4, <2>5 DEF Exit, Crash, NoProcess, envVars, TypeOK
<1>20. CASE OriginPublishes
  <2>1. \A p \in Partitions : published[p] \in Nat
    BY RootTypes
  <2>2. published' \in Listings
    BY <1>20, <2>1 DEF OriginPublishes, TypeOK, Listings, Root0, Roots
  <2> QED
    BY <1>20, <2>2 DEF OriginPublishes, procVars, TypeOK
<1>21. CASE Replicate
  BY <1>21 DEF Replicate, envVars, procVars, TypeOK, Listings, Root0, SyncState, Task,
     IdleReader, Partitions
<1>22. CASE LoseLocalBlobs
  BY <1>22 DEF LoseLocalBlobs, envVars, procVars, TypeOK
<1>23. CASE FaultsCease
  BY <1>23 DEF FaultsCease, envVars, procVars, TypeOK
<1>24. CASE UNCHANGED vars
  BY <1>24 DEF vars, envVars, procVars, TypeOK
<1> QED
  BY <1>1, <1>2, <1>3, <1>4, <1>5, <1>6, <1>7, <1>8, <1>9, <1>10, <1>11, <1>12, <1>13,
     <1>14, <1>15, <1>16, <1>17, <1>18, <1>19, <1>20, <1>21, <1>22, <1>23, <1>24 DEF Next,
     LoopStep, Handlers

\* Roots stay in the order they were published in.
LEMMA OrderStep ==
    ASSUME TypeOK, RootsInOrder, RestoreInOrder, TasksOfThisPass, [Next]_vars
    PROVE  RootsInOrder'
<1> USE ViewerAssumption
<1>1. CASE Start
  <2>1. \A p \in Partitions : roots'[p] = doc[p] \/ roots'[p] = 0 \/ roots'[p] = roots[p]
    BY <1>1 DEF Start, Snapshot, Listings
  <2>2. \A p \in Partitions : synced'[p].root \in {disk[p], synced[p].root}
    BY <1>1 DEF Start, TypeOK
  <2>3. loop' \in {"restore", "plan"} => \A p \in Partitions : roots'[p] \in {doc[p], 0}
    BY <1>1 DEF Start, Snapshot
  <2>4. UNCHANGED <<published, doc, disk>>
    BY <1>1 DEF Start, envVars
  <2>5. loop' \in {"restore", "plan", "drained"}
    BY <1>1 DEF Start
  <2> QED
    BY <2>1, <2>2, <2>3, <2>4, <2>5, RootTypes DEF RootsInOrder
<1>2. CASE RestoreDone
  BY <1>2 DEF RestoreDone, persist_state, envVars, procVars, RootsInOrder
<1>3. CASE PassTop
  <2>1. \A p \in Partitions : roots'[p] = doc[p] \/ roots'[p] = 0 \/ roots'[p] = roots[p]
    BY <1>3 DEF PassTop, Snapshot, Listings
  <2>2. \A p \in Partitions : synced'[p].root \in {disk[p], synced[p].root}
    BY <1>3 DEF PassTop, TypeOK
  <2>3. loop' \in {"restore", "plan"} => \A p \in Partitions : roots'[p] \in {doc[p], 0}
    BY <1>3 DEF PassTop, Snapshot
  <2>4. UNCHANGED <<published, doc, disk>>
    BY <1>3 DEF PassTop, envVars
  <2>5. loop' \in {"restore", "plan", "drained"}
    BY <1>3 DEF PassTop
  <2> QED
    BY <2>1, <2>2, <2>3, <2>4, <2>5, RootTypes DEF RootsInOrder
<1>4. CASE PlanPass
  BY <1>4 DEF PlanPass, Changed, Full, envVars, procVars, RootsInOrder
<1>5. CASE PassEnd
  BY <1>5 DEF PassEnd, persist_state, envVars, procVars, RootsInOrder
<1>6. CASE WaitOver
  BY <1>6 DEF WaitOver, envVars, procVars, RootsInOrder
<1>7. ASSUME NEW p0 \in Partitions, RestoreOne(p0) PROVE RootsInOrder'
  <2>1. UNCHANGED <<published, doc, disk, roots, loop>> /\ loop = "restore" /\ p0 \in todo
    BY <1>7 DEF RestoreOne, envVars
  <2>2. \A p \in Partitions : p # p0 => synced'[p] = synced[p]
    BY <1>7 DEF RestoreOne, TypeOK
  <2>3. synced'[p0].root \in {synced[p0].root, Restorable(p0)} /\ (synced'[p0].root # synced[p0].root => Restorable(p0) # 0)
    BY <1>7 DEF RestoreOne, TypeOK
  <2>4. synced[p0].root = disk[p0]
    BY <2>1 DEF RestoreInOrder
  <2>5. synced'[p0].root \in {disk[p0], roots[p0]} /\ (synced'[p0].root # disk[p0] => synced'[p0].root # 0)
    BY <2>3, <2>4, RestorableRoot
  <2>6. synced'[p0].root <= doc[p0] /\ (roots[p0] # 0 => synced'[p0].root <= roots[p0])
    BY <2>1, <2>4, <2>5, RootTypes DEF RootsInOrder
  <2> QED
    BY <2>1, <2>2, <2>6 DEF RootsInOrder
<1>8. ASSUME NEW t \in tasks, TaskWalk(t) PROVE RootsInOrder'
  <2>1. \A p \in Partitions : synced'[p].root = synced[p].root
    BY <1>8, TaskWalkEffect
  <2> QED
    BY <1>8, <2>1 DEF TaskWalk, RootsInOrder
<1>9. ASSUME NEW t \in tasks, TaskCache(t) PROVE RootsInOrder'
  BY <1>9 DEF TaskCache, Move, envVars, procVars, RootsInOrder
<1>10. ASSUME NEW t \in tasks, TaskDone(t) PROVE RootsInOrder'
  BY <1>10 DEF TaskDone, Move, envVars, procVars, RootsInOrder, RestoreInOrder,
     TasksOfThisPass, TypeOK, Partitions, Roots, Root0, Task, SyncState, Listings
<1>11. CASE SyncRequest
  BY <1>11 DEF SyncRequest, envVars, procVars, RootsInOrder
<1>12. ASSUME NEW c0 \in Readers, ReadPartition(c0) PROVE RootsInOrder'
  BY <1>12 DEF ReadPartition, envVars, procVars, RootsInOrder
<1>13. ASSUME NEW c0 \in Readers, ReaderCaches(c0) PROVE RootsInOrder'
  BY <1>13 DEF ReaderCaches, WalkOutcomes, envVars, procVars, RootsInOrder
<1>14. ASSUME NEW c0 \in Readers, ReaderResets(c0) PROVE RootsInOrder'
  BY <1>14 DEF ReaderResets, envVars, procVars, RootsInOrder
<1>15. ASSUME NEW c0 \in Searchers, SearchCopies(c0) PROVE RootsInOrder'
  BY <1>15 DEF SearchCopies, envVars, procVars, RootsInOrder
<1>16. ASSUME NEW c0 \in Searchers, SearchStores(c0) PROVE RootsInOrder'
  BY <1>16 DEF SearchStores, envVars, procVars, RootsInOrder
<1>17. CASE Stop
  BY <1>17 DEF Stop, envVars, procVars, RootsInOrder
<1>18. CASE Exit
  <2>1. UNCHANGED <<published, doc, disk>> /\ loop' = "off"
    BY <1>18 DEF Exit, Crash, NoProcess, envVars
  <2>2. \A p \in Partitions : synced'[p].root = 0 /\ roots'[p] = 0
    BY <1>18 DEF Exit, Crash, NoProcess, NoListing
  <2> QED
    BY <2>1, <2>2, RootTypes DEF RootsInOrder
<1>19. CASE Crash
  <2>1. UNCHANGED <<published, doc, disk>> /\ loop' = "off"
    BY <1>19 DEF Exit, Crash, NoProcess, envVars
  <2>2. \A p \in Partitions : synced'[p].root = 0 /\ roots'[p] = 0
    BY <1>19 DEF Exit, Crash, NoProcess, NoListing
  <2> QED
    BY <2>1, <2>2, RootTypes DEF RootsInOrder
<1>20. CASE OriginPublishes
  <2>1. UNCHANGED <<disk, synced, roots, loop>>
    BY <1>20 DEF OriginPublishes, procVars
  <2>2. \A p \in Partitions : doc[p] <= doc'[p] /\ doc'[p] <= published'[p] /\ doc'[p] \in Nat
    BY <1>20, RootTypes DEF OriginPublishes, TypeOK, Listings, RootsInOrder
  <2> QED
    BY <2>1, <2>2, RootTypes DEF RootsInOrder
<1>21. CASE Replicate
  <2>1. UNCHANGED <<disk, synced, roots, loop>>
    BY <1>21 DEF Replicate, procVars
  <2>2. \A p \in Partitions : doc[p] <= doc'[p] /\ doc'[p] <= published'[p] /\ doc'[p] \in Nat
    BY <1>21, RootTypes DEF Replicate, TypeOK, Listings, RootsInOrder
  <2> QED
    BY <2>1, <2>2, RootTypes DEF RootsInOrder
<1>22. CASE LoseLocalBlobs
  BY <1>22 DEF LoseLocalBlobs, envVars, procVars, RootsInOrder
<1>23. CASE FaultsCease
  BY <1>23 DEF FaultsCease, envVars, procVars, RootsInOrder
<1>24. CASE UNCHANGED vars
  BY <1>24 DEF vars, envVars, procVars, RootsInOrder
<1> QED
  BY <1>1, <1>2, <1>3, <1>4, <1>5, <1>6, <1>7, <1>8, <1>9, <1>10, <1>11, <1>12, <1>13,
     <1>14, <1>15, <1>16, <1>17, <1>18, <1>19, <1>20, <1>21, <1>22, <1>23, <1>24 DEF Next,
     LoopStep, Handlers

\* Tasks belong to the pass that planned them.
LEMMA TasksStep ==
    ASSUME TypeOK, TasksOfThisPass, ReadersHaveRoots, [Next]_vars
    PROVE  TasksOfThisPass'
<1> USE ViewerAssumption
<1>1. CASE Start
  BY <1>1 DEF Start, Snapshot, envVars, procVars, TasksOfThisPass
<1>2. CASE RestoreDone
  BY <1>2 DEF RestoreDone, persist_state, envVars, procVars, TasksOfThisPass
<1>3. CASE PassTop
  BY <1>3 DEF PassTop, Snapshot, envVars, procVars, TasksOfThisPass
<1>4. CASE PlanPass
  BY <1>4 DEF PlanPass, Changed, Full, envVars, procVars, TasksOfThisPass
<1>5. CASE PassEnd
  BY <1>5 DEF PassEnd, persist_state, envVars, procVars, TasksOfThisPass
<1>6. CASE WaitOver
  BY <1>6 DEF WaitOver, envVars, procVars, TasksOfThisPass
<1>7. ASSUME NEW p0 \in Partitions, RestoreOne(p0) PROVE TasksOfThisPass'
  BY <1>7 DEF RestoreOne, Restorable, envVars, procVars, TasksOfThisPass
<1>8. ASSUME NEW t \in tasks, TaskWalk(t) PROVE TasksOfThisPass'
  <2>1. PICK at \in {"walked", "done"} : tasks' = (tasks \ {t}) \union {[t EXCEPT !.at = at]}
    BY <1>8, TaskWalkEffect
  <2>2. [t EXCEPT !.at = at].root = t.root /\ [t EXCEPT !.at = at].part = t.part
        /\ [t EXCEPT !.at = at].at = at
    BY DEF TypeOK, Task
  <2> QED
    BY <1>8, <2>1, <2>2 DEF TaskWalk, TasksOfThisPass
<1>9. ASSUME NEW t \in tasks, TaskCache(t) PROVE TasksOfThisPass'
  BY <1>9 DEF TaskCache, Move, envVars, procVars, TasksOfThisPass, ReadersHaveRoots, TypeOK,
     Roots, Root0, Task, Listings
<1>10. ASSUME NEW t \in tasks, TaskDone(t) PROVE TasksOfThisPass'
  BY <1>10 DEF TaskDone, Move, envVars, procVars, TasksOfThisPass, TypeOK, Task
<1>11. CASE SyncRequest
  BY <1>11 DEF SyncRequest, envVars, procVars, TasksOfThisPass
<1>12. ASSUME NEW c0 \in Readers, ReadPartition(c0) PROVE TasksOfThisPass'
  BY <1>12 DEF ReadPartition, envVars, procVars, TasksOfThisPass
<1>13. ASSUME NEW c0 \in Readers, ReaderCaches(c0) PROVE TasksOfThisPass'
  BY <1>13 DEF ReaderCaches, WalkOutcomes, envVars, procVars, TasksOfThisPass,
     ReadersHaveRoots, TypeOK, Roots, Root0, Task, Listings
<1>14. ASSUME NEW c0 \in Readers, ReaderResets(c0) PROVE TasksOfThisPass'
  BY <1>14 DEF ReaderResets, envVars, procVars, TasksOfThisPass
<1>15. ASSUME NEW c0 \in Searchers, SearchCopies(c0) PROVE TasksOfThisPass'
  BY <1>15 DEF SearchCopies, envVars, procVars, TasksOfThisPass
<1>16. ASSUME NEW c0 \in Searchers, SearchStores(c0) PROVE TasksOfThisPass'
  BY <1>16 DEF SearchStores, envVars, procVars, TasksOfThisPass
<1>17. CASE Stop
  BY <1>17 DEF Stop, envVars, procVars, TasksOfThisPass
<1>18. CASE Exit
  BY <1>18 DEF Exit, NoProcess, envVars, procVars, TasksOfThisPass
<1>19. CASE Crash
  BY <1>19 DEF Crash, NoProcess, envVars, procVars, TasksOfThisPass
<1>20. CASE OriginPublishes
  BY <1>20 DEF OriginPublishes, envVars, procVars, TasksOfThisPass
<1>21. CASE Replicate
  BY <1>21 DEF Replicate, envVars, procVars, TasksOfThisPass
<1>22. CASE LoseLocalBlobs
  BY <1>22 DEF LoseLocalBlobs, envVars, procVars, TasksOfThisPass
<1>23. CASE FaultsCease
  BY <1>23 DEF FaultsCease, envVars, procVars, TasksOfThisPass
<1>24. CASE UNCHANGED vars
  BY <1>24 DEF vars, envVars, procVars, TasksOfThisPass
<1> QED
  BY <1>1, <1>2, <1>3, <1>4, <1>5, <1>6, <1>7, <1>8, <1>9, <1>10, <1>11, <1>12, <1>13,
     <1>14, <1>15, <1>16, <1>17, <1>18, <1>19, <1>20, <1>21, <1>22, <1>23, <1>24 DEF Next,
     LoopStep, Handlers

\* A reader that walks has a root.
LEMMA ReadersStep ==
    ASSUME TypeOK, ReadersHaveRoots, [Next]_vars
    PROVE  ReadersHaveRoots'
<1> USE ViewerAssumption
<1>1. CASE Start
  BY <1>1 DEF Start, Snapshot, envVars, procVars, ReadersHaveRoots
<1>2. CASE RestoreDone
  BY <1>2 DEF RestoreDone, persist_state, envVars, procVars, ReadersHaveRoots
<1>3. CASE PassTop
  BY <1>3 DEF PassTop, Snapshot, envVars, procVars, ReadersHaveRoots
<1>4. CASE PlanPass
  BY <1>4 DEF PlanPass, Changed, Full, envVars, procVars, ReadersHaveRoots
<1>5. CASE PassEnd
  BY <1>5 DEF PassEnd, persist_state, envVars, procVars, ReadersHaveRoots
<1>6. CASE WaitOver
  BY <1>6 DEF WaitOver, envVars, procVars, ReadersHaveRoots
<1>7. ASSUME NEW p0 \in Partitions, RestoreOne(p0) PROVE ReadersHaveRoots'
  BY <1>7 DEF RestoreOne, Restorable, envVars, procVars, ReadersHaveRoots
<1>8. ASSUME NEW t \in tasks, TaskWalk(t) PROVE ReadersHaveRoots'
  BY <1>8 DEF TaskWalk, Move, WalkOutcomes, envVars, procVars, ReadersHaveRoots
<1>9. ASSUME NEW t \in tasks, TaskCache(t) PROVE ReadersHaveRoots'
  BY <1>9 DEF TaskCache, Move, envVars, procVars, ReadersHaveRoots
<1>10. ASSUME NEW t \in tasks, TaskDone(t) PROVE ReadersHaveRoots'
  BY <1>10 DEF TaskDone, Move, envVars, procVars, ReadersHaveRoots
<1>11. CASE SyncRequest
  BY <1>11 DEF SyncRequest, envVars, procVars, ReadersHaveRoots
<1>12. ASSUME NEW c0 \in Readers, ReadPartition(c0) PROVE ReadersHaveRoots'
  BY <1>12 DEF ReadPartition, envVars, procVars, ReadersHaveRoots
<1>13. ASSUME NEW c0 \in Readers, ReaderCaches(c0) PROVE ReadersHaveRoots'
  <2>1. reader' = [reader EXCEPT ![c0] = IdleReader] \/ reader' = [reader EXCEPT ![c0].at = "reset"]
    BY <1>13, ReaderEffect
  <2>2. reader[c0] \in [at : {"idle", "walk", "reset"}, part : Partitions, root : Root0] /\ reader[c0].root # 0
    BY <1>13 DEF TypeOK, ReaderCaches, ReadersHaveRoots
  <2>3. \A c \in Readers : c # c0 => reader'[c] = reader[c]
    BY <2>1 DEF TypeOK
  <2>4. reader'[c0].at # "idle" => reader'[c0].root # 0
    BY <2>1, <2>2 DEF TypeOK, IdleReader
  <2> QED
    BY <2>3, <2>4 DEF ReadersHaveRoots
<1>14. ASSUME NEW c0 \in Readers, ReaderResets(c0) PROVE ReadersHaveRoots'
  BY <1>14 DEF ReaderResets, envVars, procVars, ReadersHaveRoots, TypeOK, IdleReader
<1>15. ASSUME NEW c0 \in Searchers, SearchCopies(c0) PROVE ReadersHaveRoots'
  BY <1>15 DEF SearchCopies, envVars, procVars, ReadersHaveRoots
<1>16. ASSUME NEW c0 \in Searchers, SearchStores(c0) PROVE ReadersHaveRoots'
  BY <1>16 DEF SearchStores, envVars, procVars, ReadersHaveRoots
<1>17. CASE Stop
  BY <1>17 DEF Stop, envVars, procVars, ReadersHaveRoots
<1>18. CASE Exit
  BY <1>18 DEF Exit, NoProcess, envVars, procVars, ReadersHaveRoots, TypeOK, IdleReader
<1>19. CASE Crash
  BY <1>19 DEF Crash, NoProcess, envVars, procVars, ReadersHaveRoots, TypeOK, IdleReader
<1>20. CASE OriginPublishes
  BY <1>20 DEF OriginPublishes, envVars, procVars, ReadersHaveRoots
<1>21. CASE Replicate
  BY <1>21 DEF Replicate, envVars, procVars, ReadersHaveRoots
<1>22. CASE LoseLocalBlobs
  BY <1>22 DEF LoseLocalBlobs, envVars, procVars, ReadersHaveRoots
<1>23. CASE FaultsCease
  BY <1>23 DEF FaultsCease, envVars, procVars, ReadersHaveRoots
<1>24. CASE UNCHANGED vars
  BY <1>24 DEF vars, envVars, procVars, ReadersHaveRoots
<1> QED
  BY <1>1, <1>2, <1>3, <1>4, <1>5, <1>6, <1>7, <1>8, <1>9, <1>10, <1>11, <1>12, <1>13,
     <1>14, <1>15, <1>16, <1>17, <1>18, <1>19, <1>20, <1>21, <1>22, <1>23, <1>24 DEF Next,
     LoopStep, Handlers

\* The startup walks serve one partition after the other.
LEMMA RestoreStep ==
    ASSUME TypeOK, RestoreInOrder, ReadersHaveRoots, TasksOfThisPass, [Next]_vars
    PROVE  RestoreInOrder'
<1> USE ViewerAssumption
<1>1. CASE Start
  BY <1>1 DEF Start, Snapshot, envVars, procVars, RestoreInOrder
<1>2. CASE RestoreDone
  BY <1>2 DEF RestoreDone, persist_state, envVars, procVars, RestoreInOrder
<1>3. CASE PassTop
  BY <1>3 DEF PassTop, Snapshot, envVars, procVars, RestoreInOrder
<1>4. CASE PlanPass
  BY <1>4 DEF PlanPass, Changed, Full, envVars, procVars, RestoreInOrder
<1>5. CASE PassEnd
  BY <1>5 DEF PassEnd, persist_state, envVars, procVars, RestoreInOrder
<1>6. CASE WaitOver
  BY <1>6 DEF WaitOver, envVars, procVars, RestoreInOrder
<1>7. ASSUME NEW p0 \in Partitions, RestoreOne(p0) PROVE RestoreInOrder'
  <2>1. /\ UNCHANGED <<disk, local, tasks>> /\ loop = "restore" /\ p0 \in todo /\ todo' = todo \ {p0}
        /\ \A p \in Partitions : p # p0 => synced'[p] = synced[p] /\ listing'[p] = listing[p]
    BY <1>7 DEF RestoreOne, envVars, TypeOK, Listings
  <2>2. Restorable(p0) # 0 => listing'[p0] = Restorable(p0)
    BY <1>7 DEF RestoreOne, TypeOK, Listings
  <2>3. Served(p0)'
    BY <2>1, <2>2, RestorableRoot DEF Served
  <2> QED
    BY <2>1, <2>3 DEF RestoreInOrder, Served
<1>8. ASSUME NEW t \in tasks, TaskWalk(t) PROVE RestoreInOrder'
  BY <1>8 DEF TaskWalk, Move, WalkOutcomes, envVars, procVars, RestoreInOrder,
     TasksOfThisPass, Served, TypeOK
<1>9. ASSUME NEW t \in tasks, TaskCache(t) PROVE RestoreInOrder'
  BY <1>9 DEF TaskCache, Move, envVars, procVars, RestoreInOrder, TasksOfThisPass, Served,
     TypeOK
<1>10. ASSUME NEW t \in tasks, TaskDone(t) PROVE RestoreInOrder'
  BY <1>10 DEF TaskDone, Move, envVars, procVars, RestoreInOrder, TasksOfThisPass, Served,
     TypeOK
<1>11. CASE SyncRequest
  BY <1>11 DEF SyncRequest, envVars, procVars, RestoreInOrder, Served
<1>12. ASSUME NEW c0 \in Readers, ReadPartition(c0) PROVE RestoreInOrder'
  BY <1>12 DEF ReadPartition, envVars, procVars, RestoreInOrder, Served
<1>13. ASSUME NEW c0 \in Readers, ReaderCaches(c0) PROVE RestoreInOrder'
  <2>1. UNCHANGED <<disk, synced, todo, tasks, loop>>
    BY <1>13 DEF ReaderCaches
  <2>2. CASE UNCHANGED <<listing, local>>
    BY <2>1, <2>2 DEF RestoreInOrder, Served
  <2>3. CASE \E p \in Partitions, r \in Roots :
           listing' = [listing EXCEPT ![p] = r] /\ local' = local \union {<<p, r>>}
    <3>1. PICK p \in Partitions, r \in Roots :
             listing' = [listing EXCEPT ![p] = r] /\ local' = local \union {<<p, r>>}
      BY <2>3
    <3>2. listing'[p] # 0 /\ \A q \in Partitions : q # p => listing'[q] = listing[q]
      BY <3>1 DEF TypeOK, Listings, Roots
    <3>3. Served(p)'
      BY <3>2 DEF Served
    <3>4. \A q \in Partitions : q # p /\ Served(q) => Served(q)'
      BY <2>1, <3>1, <3>2 DEF Served
    <3> QED
      BY <2>1, <3>3, <3>4 DEF RestoreInOrder
  <2> QED
    BY <1>13, <2>2, <2>3, ReaderEffect
<1>14. ASSUME NEW c0 \in Readers, ReaderResets(c0) PROVE RestoreInOrder'
  BY <1>14 DEF ReaderResets, envVars, procVars, RestoreInOrder, Served
<1>15. ASSUME NEW c0 \in Searchers, SearchCopies(c0) PROVE RestoreInOrder'
  BY <1>15 DEF SearchCopies, envVars, procVars, RestoreInOrder, Served
<1>16. ASSUME NEW c0 \in Searchers, SearchStores(c0) PROVE RestoreInOrder'
  BY <1>16 DEF SearchStores, envVars, procVars, RestoreInOrder, Served
<1>17. CASE Stop
  BY <1>17 DEF Stop, envVars, procVars, RestoreInOrder, Served
<1>18. CASE Exit
  BY <1>18 DEF Exit, NoProcess, envVars, procVars, RestoreInOrder
<1>19. CASE Crash
  BY <1>19 DEF Crash, NoProcess, envVars, procVars, RestoreInOrder
<1>20. CASE OriginPublishes
  BY <1>20 DEF OriginPublishes, envVars, procVars, RestoreInOrder, Served
<1>21. CASE Replicate
  BY <1>21 DEF Replicate, envVars, procVars, RestoreInOrder, Served
<1>22. CASE LoseLocalBlobs
  BY <1>22 DEF LoseLocalBlobs, envVars, procVars, RestoreInOrder, Served
<1>23. CASE FaultsCease
  BY <1>23 DEF FaultsCease, envVars, procVars, RestoreInOrder, Served
<1>24. CASE UNCHANGED vars
  BY <1>24 DEF vars, envVars, procVars, RestoreInOrder, Served
<1> QED
  BY <1>1, <1>2, <1>3, <1>4, <1>5, <1>6, <1>7, <1>8, <1>9, <1>10, <1>11, <1>12, <1>13,
     <1>14, <1>15, <1>16, <1>17, <1>18, <1>19, <1>20, <1>21, <1>22, <1>23, <1>24 DEF Next,
     LoopStep, Handlers

\* What will be saved next is served.
LEMMA SavedStep ==
    ASSUME TypeOK, ServedOnceSaved, TasksOfThisPass, ReadersHaveRoots, [Next]_vars
    PROVE  ServedOnceSaved'
<1> USE ViewerAssumption
<1>1. CASE Start
  BY <1>1 DEF Start, Snapshot, envVars, procVars, ServedOnceSaved
<1>2. CASE RestoreDone
  BY <1>2 DEF RestoreDone, persist_state, envVars, procVars, ServedOnceSaved
<1>3. CASE PassTop
  BY <1>3 DEF PassTop, Snapshot, envVars, procVars, ServedOnceSaved
<1>4. CASE PlanPass
  BY <1>4 DEF PlanPass, Changed, Full, envVars, procVars, ServedOnceSaved
<1>5. CASE PassEnd
  BY <1>5 DEF PassEnd, persist_state, envVars, procVars, ServedOnceSaved
<1>6. CASE WaitOver
  BY <1>6 DEF WaitOver, envVars, procVars, ServedOnceSaved
<1>7. ASSUME NEW p0 \in Partitions, RestoreOne(p0) PROVE ServedOnceSaved'
  BY <1>7 DEF RestoreOne, Restorable, envVars, procVars, ServedOnceSaved, TypeOK,
     TasksOfThisPass, Listings, Task
<1>8. ASSUME NEW t \in tasks, TaskWalk(t) PROVE ServedOnceSaved'
  <2>1. \A p \in Partitions : synced'[p].root = synced[p].root
    BY <1>8, TaskWalkEffect
  <2> QED
    BY <1>8, <2>1 DEF TaskWalk, ServedOnceSaved
<1>9. ASSUME NEW t \in tasks, TaskCache(t) PROVE ServedOnceSaved'
  BY <1>9 DEF TaskCache, Move, envVars, procVars, ServedOnceSaved, TasksOfThisPass,
     ReadersHaveRoots, TypeOK, Roots, Root0, Task, SyncState, Listings
<1>10. ASSUME NEW t \in tasks, TaskDone(t) PROVE ServedOnceSaved'
  BY <1>10 DEF TaskDone, Move, envVars, procVars, ServedOnceSaved, TypeOK, TasksOfThisPass,
     Listings, Task
<1>11. CASE SyncRequest
  BY <1>11 DEF SyncRequest, envVars, procVars, ServedOnceSaved
<1>12. ASSUME NEW c0 \in Readers, ReadPartition(c0) PROVE ServedOnceSaved'
  BY <1>12 DEF ReadPartition, envVars, procVars, ServedOnceSaved
<1>13. ASSUME NEW c0 \in Readers, ReaderCaches(c0) PROVE ServedOnceSaved'
  BY <1>13 DEF ReaderCaches, WalkOutcomes, envVars, procVars, ServedOnceSaved,
     TasksOfThisPass, ReadersHaveRoots, TypeOK, Roots, Root0, Task, SyncState, Listings
<1>14. ASSUME NEW c0 \in Readers, ReaderResets(c0) PROVE ServedOnceSaved'
  BY <1>14 DEF ReaderResets, envVars, procVars, ServedOnceSaved
<1>15. ASSUME NEW c0 \in Searchers, SearchCopies(c0) PROVE ServedOnceSaved'
  BY <1>15 DEF SearchCopies, envVars, procVars, ServedOnceSaved
<1>16. ASSUME NEW c0 \in Searchers, SearchStores(c0) PROVE ServedOnceSaved'
  BY <1>16 DEF SearchStores, envVars, procVars, ServedOnceSaved
<1>17. CASE Stop
  BY <1>17 DEF Stop, envVars, procVars, ServedOnceSaved
<1>18. CASE Exit
  BY <1>18 DEF Exit, NoProcess, envVars, procVars, ServedOnceSaved
<1>19. CASE Crash
  BY <1>19 DEF Crash, NoProcess, envVars, procVars, ServedOnceSaved
<1>20. CASE OriginPublishes
  BY <1>20 DEF OriginPublishes, envVars, procVars, ServedOnceSaved
<1>21. CASE Replicate
  BY <1>21 DEF Replicate, envVars, procVars, ServedOnceSaved
<1>22. CASE LoseLocalBlobs
  BY <1>22 DEF LoseLocalBlobs, envVars, procVars, ServedOnceSaved
<1>23. CASE FaultsCease
  BY <1>23 DEF FaultsCease, envVars, procVars, ServedOnceSaved
<1>24. CASE UNCHANGED vars
  BY <1>24 DEF vars, envVars, procVars, ServedOnceSaved
<1> QED
  BY <1>1, <1>2, <1>3, <1>4, <1>5, <1>6, <1>7, <1>8, <1>9, <1>10, <1>11, <1>12, <1>13,
     <1>14, <1>15, <1>16, <1>17, <1>18, <1>19, <1>20, <1>21, <1>22, <1>23, <1>24 DEF Next,
     LoopStep, Handlers

\* What was saved and is held locally is served.
LEMMA ServedStep ==
    ASSUME TypeOK, OnceServedStaysServed, RestoreInOrder, ServedOnceSaved, TasksOfThisPass, ReadersHaveRoots, [Next]_vars
    PROVE  OnceServedStaysServed'
<1> USE ViewerAssumption
<1>1. CASE Start
  BY <1>1 DEF Start, Snapshot, envVars, procVars, OnceServedStaysServed
<1>2. CASE RestoreDone
  BY <1>2 DEF RestoreDone, persist_state, envVars, procVars, OnceServedStaysServed,
     RestoreInOrder, ServedOnceSaved, TasksOfThisPass, Served, TypeOK, Roots, Root0, Task,
     Listings
<1>3. CASE PassTop
  BY <1>3 DEF PassTop, Snapshot, envVars, procVars, OnceServedStaysServed, Served
<1>4. CASE PlanPass
  BY <1>4 DEF PlanPass, Changed, Full, envVars, procVars, OnceServedStaysServed, Served
<1>5. CASE PassEnd
  BY <1>5 DEF PassEnd, persist_state, envVars, procVars, OnceServedStaysServed,
     RestoreInOrder, ServedOnceSaved, TasksOfThisPass, Served, TypeOK, Roots, Root0, Task,
     Listings
<1>6. CASE WaitOver
  BY <1>6 DEF WaitOver, envVars, procVars, OnceServedStaysServed, Served
<1>7. ASSUME NEW p0 \in Partitions, RestoreOne(p0) PROVE OnceServedStaysServed'
  BY <1>7 DEF RestoreOne, Restorable, envVars, procVars, OnceServedStaysServed
<1>8. ASSUME NEW t \in tasks, TaskWalk(t) PROVE OnceServedStaysServed'
  <2>1. PICK at \in {"walked", "done"} :
           /\ tasks' = (tasks \ {t}) \union {[t EXCEPT !.at = at]}
           /\ local' \in {local, local \union {<<t.part, t.root>>}}
           /\ local' # local => at = "walked"
    BY <1>8, TaskWalkEffect
  <2>2. [t EXCEPT !.at = at].part = t.part /\ [t EXCEPT !.at = at].at = at /\ t.at = "queued"
    BY <1>8 DEF TypeOK, Task, TaskWalk
  <2>3. UNCHANGED <<loop, listing, disk>>
    BY <1>8 DEF TaskWalk
  <2>4. \A p \in Partitions : Served(p) => Served(p)'
    <3> SUFFICES ASSUME NEW p \in Partitions, Served(p), <<p, disk[p]>> \in local', listing[p] = 0
                 PROVE  \E u \in tasks' : u.part = p /\ u.at = "walked"
      BY <2>3 DEF Served
    <3>1. CASE <<p, disk[p]>> \in local
      BY <2>1, <2>2, <3>1 DEF Served
    <3>2. CASE <<p, disk[p]>> \notin local
      <4>1. <<p, disk[p]>> = <<t.part, t.root>> /\ at = "walked"
        BY <2>1, <2>3, <3>2
      <4> QED
        BY <2>1, <2>2, <4>1
    <3> QED
      BY <3>1, <3>2
  <2> QED
    BY <2>3, <2>4 DEF OnceServedStaysServed
<1>9. ASSUME NEW t \in tasks, TaskCache(t) PROVE OnceServedStaysServed'
  BY <1>9 DEF TaskCache, Move, envVars, procVars, OnceServedStaysServed, RestoreInOrder,
     ServedOnceSaved, TasksOfThisPass, Served, TypeOK, Roots, Root0, Task, Listings
<1>10. ASSUME NEW t \in tasks, TaskDone(t) PROVE OnceServedStaysServed'
  BY <1>10 DEF TaskDone, Move, envVars, procVars, OnceServedStaysServed, Served
<1>11. CASE SyncRequest
  BY <1>11 DEF SyncRequest, envVars, procVars, OnceServedStaysServed, Served
<1>12. ASSUME NEW c0 \in Readers, ReadPartition(c0) PROVE OnceServedStaysServed'
  BY <1>12 DEF ReadPartition, envVars, procVars, OnceServedStaysServed, Served
<1>13. ASSUME NEW c0 \in Readers, ReaderCaches(c0) PROVE OnceServedStaysServed'
  <2>1. UNCHANGED <<disk, synced, todo, tasks, loop>>
    BY <1>13 DEF ReaderCaches
  <2>2. CASE UNCHANGED <<listing, local>>
    BY <2>1, <2>2 DEF OnceServedStaysServed, Served
  <2>3. CASE \E p \in Partitions, r \in Roots :
           listing' = [listing EXCEPT ![p] = r] /\ local' = local \union {<<p, r>>}
    <3>1. PICK p \in Partitions, r \in Roots :
             listing' = [listing EXCEPT ![p] = r] /\ local' = local \union {<<p, r>>}
      BY <2>3
    <3>2. listing'[p] # 0 /\ \A q \in Partitions : q # p => listing'[q] = listing[q]
      BY <3>1 DEF TypeOK, Listings, Roots
    <3>3. Served(p)'
      BY <3>2 DEF Served
    <3>4. \A q \in Partitions : q # p /\ Served(q) => Served(q)'
      BY <2>1, <3>1, <3>2 DEF Served
    <3> QED
      BY <2>1, <3>3, <3>4 DEF OnceServedStaysServed
  <2> QED
    BY <1>13, <2>2, <2>3, ReaderEffect
<1>14. ASSUME NEW c0 \in Readers, ReaderResets(c0) PROVE OnceServedStaysServed'
  BY <1>14 DEF ReaderResets, envVars, procVars, OnceServedStaysServed, Served
<1>15. ASSUME NEW c0 \in Searchers, SearchCopies(c0) PROVE OnceServedStaysServed'
  BY <1>15 DEF SearchCopies, envVars, procVars, OnceServedStaysServed, Served
<1>16. ASSUME NEW c0 \in Searchers, SearchStores(c0) PROVE OnceServedStaysServed'
  BY <1>16 DEF SearchStores, envVars, procVars, OnceServedStaysServed, Served
<1>17. CASE Stop
  BY <1>17 DEF Stop, envVars, procVars, OnceServedStaysServed, Served
<1>18. CASE Exit
  BY <1>18 DEF Exit, NoProcess, envVars, procVars, OnceServedStaysServed
<1>19. CASE Crash
  BY <1>19 DEF Crash, NoProcess, envVars, procVars, OnceServedStaysServed
<1>20. CASE OriginPublishes
  BY <1>20 DEF OriginPublishes, envVars, procVars, OnceServedStaysServed, Served
<1>21. CASE Replicate
  BY <1>21 DEF Replicate, envVars, procVars, OnceServedStaysServed, Served
<1>22. CASE LoseLocalBlobs
  BY <1>22 DEF LoseLocalBlobs, envVars, procVars, OnceServedStaysServed, Served
<1>23. CASE FaultsCease
  BY <1>23 DEF FaultsCease, envVars, procVars, OnceServedStaysServed, Served
<1>24. CASE UNCHANGED vars
  BY <1>24 DEF vars, envVars, procVars, OnceServedStaysServed, Served
<1> QED
  BY <1>1, <1>2, <1>3, <1>4, <1>5, <1>6, <1>7, <1>8, <1>9, <1>10, <1>11, <1>12, <1>13,
     <1>14, <1>15, <1>16, <1>17, <1>18, <1>19, <1>20, <1>21, <1>22, <1>23, <1>24 DEF Next,
     LoopStep, Handlers

\* A step of the loop takes no partition back.
LEMMA ForwardStep ==
    ASSUME TypeOK, RootsInOrder, RestoreInOrder, TasksOfThisPass, [Next]_vars
    PROVE  (loop # "off" /\ loop' # "off") =>
               \A p \in Partitions : synced'[p].root >= synced[p].root
<1> USE ViewerAssumption
<1>1. CASE Start
  BY <1>1 DEF Start, Snapshot, envVars, procVars, TypeOK
<1>2. CASE RestoreDone
  <2>1. synced' = synced
    BY <1>2 DEF RestoreDone, procVars
  <2> QED
    BY <2>1, RootTypes
<1>3. CASE PassTop
  <2>1. synced' = synced
    BY <1>3 DEF PassTop, procVars
  <2> QED
    BY <2>1, RootTypes
<1>4. CASE PlanPass
  <2>1. synced' = synced
    BY <1>4 DEF PlanPass, procVars
  <2> QED
    BY <2>1, RootTypes
<1>5. CASE PassEnd
  <2>1. synced' = synced
    BY <1>5 DEF PassEnd, procVars
  <2> QED
    BY <2>1, RootTypes
<1>6. CASE WaitOver
  <2>1. synced' = synced
    BY <1>6 DEF WaitOver, procVars
  <2> QED
    BY <2>1, RootTypes
<1>7. ASSUME NEW p0 \in Partitions, RestoreOne(p0) PROVE (loop # "off" /\ loop' # "off") =>
               \A p \in Partitions : synced'[p].root >= synced[p].root
  <2>1. UNCHANGED <<disk, roots>> /\ loop = "restore" /\ p0 \in todo
    BY <1>7 DEF RestoreOne, envVars
  <2>2. \A p \in Partitions : p # p0 => synced'[p] = synced[p]
    BY <1>7 DEF RestoreOne, TypeOK
  <2>3. synced'[p0].root \in {synced[p0].root, Restorable(p0)} /\ (synced'[p0].root # synced[p0].root => Restorable(p0) # 0)
    BY <1>7 DEF RestoreOne, TypeOK
  <2>4. synced[p0].root = disk[p0]
    BY <2>1 DEF RestoreInOrder
  <2>5. synced'[p0].root >= synced[p0].root
    <3>1. Restorable(p0) # 0 => Restorable(p0) \in {roots[p0], disk[p0]}
      BY RestorableRoot
    <3>2. roots[p0] # 0 => synced[p0].root <= roots[p0]
      BY <2>1 DEF RootsInOrder
    <3>3. synced[p0].root \in Nat /\ roots[p0] \in Nat /\ disk[p0] \in Nat
      BY RootTypes
    <3> QED
      BY <2>3, <2>4, <3>1, <3>2, <3>3
  <2> QED
    BY <2>2, <2>5, RootTypes
<1>8. ASSUME NEW t \in tasks, TaskWalk(t) PROVE (loop # "off" /\ loop' # "off") =>
               \A p \in Partitions : synced'[p].root >= synced[p].root
  BY <1>8, TaskWalkEffect, RootTypes
<1>9. ASSUME NEW t \in tasks, TaskCache(t) PROVE (loop # "off" /\ loop' # "off") =>
               \A p \in Partitions : synced'[p].root >= synced[p].root
  <2>1. synced' = synced
    BY <1>9 DEF TaskCache, procVars
  <2> QED
    BY <2>1, RootTypes
<1>10. ASSUME NEW t \in tasks, TaskDone(t) PROVE (loop # "off" /\ loop' # "off") =>
               \A p \in Partitions : synced'[p].root >= synced[p].root
  BY <1>10 DEF TaskDone, Move, envVars, procVars, RootsInOrder, RestoreInOrder,
     TasksOfThisPass, TypeOK, Partitions, Roots, Root0, Task, SyncState, Listings
<1>11. CASE SyncRequest
  <2>1. synced' = synced
    BY <1>11 DEF SyncRequest, procVars
  <2> QED
    BY <2>1, RootTypes
<1>12. ASSUME NEW c0 \in Readers, ReadPartition(c0) PROVE (loop # "off" /\ loop' # "off") =>
               \A p \in Partitions : synced'[p].root >= synced[p].root
  <2>1. synced' = synced
    BY <1>12 DEF ReadPartition, procVars
  <2> QED
    BY <2>1, RootTypes
<1>13. ASSUME NEW c0 \in Readers, ReaderCaches(c0) PROVE (loop # "off" /\ loop' # "off") =>
               \A p \in Partitions : synced'[p].root >= synced[p].root
  <2>1. synced' = synced
    BY <1>13 DEF ReaderCaches, procVars
  <2> QED
    BY <2>1, RootTypes
<1>14. ASSUME NEW c0 \in Readers, ReaderResets(c0) PROVE (loop # "off" /\ loop' # "off") =>
               \A p \in Partitions : synced'[p].root >= synced[p].root
  <2>1. synced' = synced
    BY <1>14 DEF ReaderResets, procVars
  <2> QED
    BY <2>1, RootTypes
<1>15. ASSUME NEW c0 \in Searchers, SearchCopies(c0) PROVE (loop # "off" /\ loop' # "off") =>
               \A p \in Partitions : synced'[p].root >= synced[p].root
  <2>1. synced' = synced
    BY <1>15 DEF SearchCopies, procVars
  <2> QED
    BY <2>1, RootTypes
<1>16. ASSUME NEW c0 \in Searchers, SearchStores(c0) PROVE (loop # "off" /\ loop' # "off") =>
               \A p \in Partitions : synced'[p].root >= synced[p].root
  <2>1. synced' = synced
    BY <1>16 DEF SearchStores, procVars
  <2> QED
    BY <2>1, RootTypes
<1>17. CASE Stop
  <2>1. synced' = synced
    BY <1>17 DEF Stop, procVars
  <2> QED
    BY <2>1, RootTypes
<1>18. CASE Exit
  BY <1>18 DEF Exit, NoProcess, envVars, procVars, TypeOK
<1>19. CASE Crash
  BY <1>19 DEF Crash, NoProcess, envVars, procVars, TypeOK
<1>20. CASE OriginPublishes
  <2>1. synced' = synced
    BY <1>20 DEF OriginPublishes, procVars
  <2> QED
    BY <2>1, RootTypes
<1>21. CASE Replicate
  <2>1. synced' = synced
    BY <1>21 DEF Replicate, procVars
  <2> QED
    BY <2>1, RootTypes
<1>22. CASE LoseLocalBlobs
  <2>1. synced' = synced
    BY <1>22 DEF LoseLocalBlobs, procVars
  <2> QED
    BY <2>1, RootTypes
<1>23. CASE FaultsCease
  <2>1. synced' = synced
    BY <1>23 DEF FaultsCease, procVars
  <2> QED
    BY <2>1, RootTypes
<1>24. CASE UNCHANGED vars
  <2>1. synced' = synced
    BY <1>24 DEF vars, procVars
  <2> QED
    BY <2>1, RootTypes
<1> QED
  BY <1>1, <1>2, <1>3, <1>4, <1>5, <1>6, <1>7, <1>8, <1>9, <1>10, <1>11, <1>12, <1>13,
     <1>14, <1>15, <1>16, <1>17, <1>18, <1>19, <1>20, <1>21, <1>22, <1>23, <1>24 DEF Next,
     LoopStep, Handlers

(***************************************************************************)
(* ViewerInv is an invariant: after the startup walks, whatever was saved  *)
(* and is held locally is served, and no snapshot, task or saved state is  *)
(* out of order.                                                           *)
(***************************************************************************)
THEOREM ViewerInvariant == Spec => []ViewerInv
<1>1. Init => ViewerInv
  <2> SUFFICES ASSUME Init PROVE ViewerInv
    OBVIOUS
  <2>1. NoListing \in Listings /\ 0 \in Partitions /\ 0 \in 0 .. FullPassEvery
    BY ViewerAssumption DEF NoListing, Listings, Root0, Partitions
  <2>2. [p \in Partitions |-> [root |-> 0, stale |-> FALSE]] \in [Partitions -> SyncState]
    BY DEF SyncState, Root0
  <2>3. /\ IdleReader \in [at : {"idle", "walk", "reset"}, part : Partitions, root : Root0]
        /\ IdleSearcher \in [at : {"idle", "build"}, copied : Listings]
    BY <2>1 DEF IdleReader, IdleSearcher, Root0
  <2>4. TypeOK
    BY <2>1, <2>2, <2>3 DEF Init, TypeOK
  <2>5. \A p \in Partitions : doc[p] = 0 /\ published[p] = 0 /\ disk[p] = 0 /\ roots[p] = 0 /\ synced[p].root = 0
    BY DEF Init, NoListing
  <2>6. RootsInOrder
    BY <2>5 DEF Init, RootsInOrder
  <2> QED
    BY <2>4, <2>6 DEF Init, ViewerInv, TasksOfThisPass, ReadersHaveRoots, RestoreInOrder,
       ServedOnceSaved, OnceServedStaysServed, IdleReader
<1>2. ViewerInv /\ [Next]_vars => ViewerInv'
  BY TypeStep, OrderStep, TasksStep, ReadersStep, RestoreStep, SavedStep, ServedStep
  DEF ViewerInv
<1> QED
  BY <1>1, <1>2, PTL DEF Spec

(***************************************************************************)
(* OnceServedStaysServed, for every instance: an unreachable origin never  *)
(* makes a partition unavailable that was saved and is held.               *)
(***************************************************************************)
THEOREM ViewerServes == Spec => []OnceServedStaysServed
  BY ViewerInvariant, PTL DEF ViewerInv

(***************************************************************************)
(* SyncNeverRegresses, for every instance: no step of a running viewer     *)
(* takes a partition's sync state back to an older root.                   *)
(***************************************************************************)
THEOREM ViewerNeverRegresses == Spec => SyncNeverRegresses
<1>1. ViewerInv /\ [Next]_vars =>
        [loop # "off" /\ loop' # "off" =>
          \A p \in Partitions : synced'[p].root >= synced[p].root]_vars
  BY ForwardStep DEF ViewerInv
<1> QED
  BY <1>1, ViewerInvariant, PTL DEF Spec, SyncNeverRegresses

=============================================================================
