----------------------------- MODULE Publisher -----------------------------
(***************************************************************************)
(* The publisher task of registryd (crates/registryd/src/publisher.rs):    *)
(* the single writer that turns pending queue rows into published          *)
(* partition trees.  One action per await at which another actor, a        *)
(* failure or a crash can come between:                                    *)
(*                                                                         *)
(*   seed    seed_local_roots, one partition per step                      *)
(*   heal    heal_pointer_doc, one partition per step                      *)
(*   idle    the loop in run(), between two cycles                         *)
(*   build   publish_cycle: the lowest partition left in the batch         *)
(*   set_doc, set_local, mark_published, mark_denylisted                   *)
(*           the four durable writes for that partition, in this order     *)
(*                                                                         *)
(* A step that reads the two roots and builds the new tree is one action:  *)
(* only this task writes either root while the daemon runs.  The timers    *)
(* (publish interval, heal interval, the one-second sleep) are left out:   *)
(* a cycle may start whenever the queue is not empty, a heal pass whenever *)
(* the task is idle.                                                       *)
(***************************************************************************)
EXTENDS PointerDoc

CONSTANTS
    MaxPending,  \* publish_max_pending
    Deniable     \* keys the operator may ever write into the denylist file

ASSUME PublisherAssumption ==
    /\ MaxPending \in Nat \ {0}
    /\ Deniable \subseteq Keys

VARIABLES
    denylist,   \* the denylist file
    pc,         \* where the task stands
    cursor,     \* the partition seed and heal look at next
    batch,      \* rows of this cycle whose partition is not finished
    denied,     \* the denylist as loaded by this cycle
    new_root,   \* the tree built for the current partition
    final       \* this cycle is the last one, run() returns after it

taskVars == <<pc, cursor, batch, denied, new_root, final>>

PcValues == {"off", "seed", "heal", "idle", "build", "set_doc", "set_local",
             "mark_published", "mark_denylisted"}
InCycle  == {"build", "set_doc", "set_local", "mark_published", "mark_denylisted"}

PublisherTypeOK ==
    /\ denylist \subseteq Deniable
    /\ pc \in PcValues
    /\ cursor \in Partitions
    /\ batch \subseteq BatchItem
    /\ denied \subseteq Deniable
    /\ new_root \in Tree \union {None}
    /\ final \in BOOLEAN

-----------------------------------------------------------------------------
\* What a process that is not running has in memory.
TaskOff ==
    /\ pc' = "off" /\ cursor' = 0 /\ batch' = {} /\ denied' = {}
    /\ new_root' = None /\ final' = FALSE

TaskStart ==
    /\ pc' = "seed" /\ cursor' = 0
    /\ UNCHANGED <<batch, denied, new_root, final>>

\* The next partition of a pass over all of them, or the state after the pass.
Advance(after) ==
    /\ IF cursor + 1 \in Partitions
       THEN pc' = pc /\ cursor' = cursor + 1
       ELSE pc' = after /\ cursor' = 0
    /\ UNCHANGED <<batch, denied, new_root, final>>

Leave(after) ==
    /\ pc' = after /\ cursor' = 0
    /\ UNCHANGED <<batch, denied, new_root, final>>

\* A seed that stores whatever the read gave, the error value included.
seed_local_roots_Unchecked(faults) ==
    /\ pc = "seed"
    /\ \/ /\ local_roots[cursor] # None
          /\ UNCHANGED indexVars
       \/ /\ local_roots[cursor] = None
          /\ \E root \in get_partition_root(cursor, faults) :
                IF root # None THEN set_local_root(cursor, root)
                               ELSE UNCHANGED indexVars
    /\ Advance("heal")
    /\ UNCHANGED docVars

(***************************************************************************)
(* seed_local_roots: a partition without a local root takes the one of the *)
(* document, when that can be read.  An index error ends the pass.         *)
(***************************************************************************)
seed_local_roots(faults) ==
    /\ pc = "seed"
    /\ \/ /\ local_roots[cursor] # None
          /\ UNCHANGED indexVars
       \/ /\ local_roots[cursor] = None
          /\ \E root \in get_partition_root(cursor, faults) :
                IF root \in Tree THEN set_local_root(cursor, root)
                                 ELSE UNCHANGED indexVars
    /\ Advance("heal")
    /\ UNCHANGED docVars

SeedFails ==
    /\ pc = "seed"
    /\ Leave("heal")
    /\ UNCHANGED <<indexVars, docVars>>

(***************************************************************************)
(* heal_pointer_doc: every partition with a local root whose entry reads   *)
(* as missing or fails to read gets the local root written back.  A        *)
(* failing write ends the pass.                                            *)
(***************************************************************************)
\* A heal pass that only repairs missing entries and leaves damaged ones.
heal_pointer_doc_MissingOnly(faults) ==
    /\ pc = "heal"
    /\ \/ /\ local_roots[cursor] = None
          /\ UNCHANGED docVars
       \/ /\ local_roots[cursor] # None
          /\ \E root \in get_partition_root(cursor, faults) :
                IF root = None
                THEN set_partition_root(cursor, local_roots[cursor])
                ELSE UNCHANGED docVars
    /\ Advance("idle")
    /\ UNCHANGED indexVars

heal_pointer_doc(faults) ==
    /\ pc = "heal"
    /\ \/ /\ local_roots[cursor] = None
          /\ UNCHANGED docVars
       \/ /\ local_roots[cursor] # None
          /\ \E root \in get_partition_root(cursor, faults) :
                IF root \in {None, Unreadable}
                THEN set_partition_root(cursor, local_roots[cursor])
                ELSE UNCHANGED docVars
    /\ Advance("idle")
    /\ UNCHANGED indexVars

HealFails ==
    /\ pc = "heal"
    /\ Leave("idle")
    /\ UNCHANGED <<indexVars, docVars>>

HealDue ==
    /\ pc = "idle"
    /\ Leave("heal")
    /\ UNCHANGED <<indexVars, docVars>>

-----------------------------------------------------------------------------
\* current_root: the local root first, the document only when there is none.
current_root(p, faults) ==
    IF local_roots[p] # None THEN {local_roots[p]} ELSE get_partition_root(p, faults)

\* load_denylist: the file as it is now; one that cannot be read is empty.
load_denylist(faults) == {denylist} \union (IF faults THEN {{}} ELSE {})

\* hamt::insert_batch on what a tree holds: the promise of PartitionMap, which
\* the trie of module Hamt keeps.
insert_batch(root, entries) == FirstWins(IF root = None THEN EmptyTree ELSE root, entries)

\* The partition publish_cycle works on: BTreeMap order, lowest id first.
LowestPartition(items) ==
    LET ids == {PartitionOf[k] : k \in KeysOf(items)}
    IN  CHOOSE p \in ids : \A q \in ids : p <= q

CurrentPartition == LowestPartition(batch)
Items       == {it \in batch : PartitionOf[it.key] = CurrentPartition}
Publishable == {it \in Items : it.key \notin denied}
Denylisted  == {it \in Items : it.key \in denied}

Goto(next) ==
    /\ pc' = next
    /\ UNCHANGED <<cursor, batch, denied, new_root, final>>

\* The end of publish_cycle, Ok or Err: back to the loop, or out of run().
CycleEnds ==
    /\ pc' = (IF final THEN "off" ELSE "idle")
    /\ batch' = {} /\ denied' = {} /\ new_root' = None /\ final' = FALSE
    /\ UNCHANGED cursor

BeginCycle(last, faults) ==
    /\ pc = "idle"
    /\ queue # {}
    /\ batch' = pending_batch(MaxPending)
    /\ IF batch' = {}
       THEN denied' = {} /\ pc' = (IF last THEN "off" ELSE "idle") /\ final' = FALSE
       ELSE denied' \in load_denylist(faults) /\ pc' = "build" /\ final' = last
    /\ UNCHANGED <<cursor, new_root, indexVars, docVars>>

\* run() returns at once when a shutdown finds nothing queued; a queue whose
\* depth cannot be read counts as empty.
StopIdle(faults) ==
    /\ pc = "idle"
    /\ queue = {} \/ faults
    /\ Goto("off")
    /\ UNCHANGED <<indexVars, docVars>>

BuildTree(faults) ==
    /\ pc = "build"
    /\ Publishable # {}
    /\ \E root \in current_root(CurrentPartition, faults) \ {Unreadable} :
          new_root' = insert_batch(root, Publishable)
    /\ pc' = "set_doc"
    /\ UNCHANGED <<cursor, batch, denied, final, indexVars, docVars>>

NothingToBuild ==
    /\ pc = "build"
    /\ Publishable = {}
    /\ Goto("mark_published")
    /\ UNCHANGED <<indexVars, docVars>>

\* A cycle that records the new root in the index and forgets the document.
SetDocRoot_Skipped ==
    /\ pc = "set_doc"
    /\ Goto("set_local")
    /\ UNCHANGED <<indexVars, docVars>>

SetDocRoot ==
    /\ pc = "set_doc"
    /\ set_partition_root(CurrentPartition, new_root)
    /\ Goto("set_local")
    /\ UNCHANGED indexVars

SetLocalRoot ==
    /\ pc = "set_local"
    /\ set_local_root(CurrentPartition, new_root)
    /\ pc' = "mark_published" /\ new_root' = None
    /\ UNCHANGED <<cursor, batch, denied, final, docVars>>

mark_published ==
    /\ pc = "mark_published"
    /\ finish(Publishable, "published")
    /\ Goto("mark_denylisted")
    /\ UNCHANGED docVars

mark_denylisted ==
    /\ pc = "mark_denylisted"
    /\ finish(Denylisted, "denylisted")
    /\ IF batch = Items
       THEN CycleEnds
       ELSE /\ batch' = batch \ Items /\ pc' = "build"
            /\ UNCHANGED <<cursor, denied, new_root, final>>
    /\ UNCHANGED docVars

\* Any `?` of publish_cycle: the rest of the batch stays queued.
CycleFails ==
    /\ pc \in InCycle
    /\ CycleEnds
    /\ UNCHANGED <<indexVars, docVars>>

\* current_root fails for good: a lost entry blob and no local root to use.
RootUnreadable ==
    /\ pc = "build"
    /\ Publishable # {}
    /\ Unreadable \in current_root(CurrentPartition, FALSE)
    /\ CycleEnds
    /\ UNCHANGED <<indexVars, docVars>>

PublisherNext(faults) ==
    \/ seed_local_roots(faults)
    \/ heal_pointer_doc(faults)
    \/ HealDue
    \/ BeginCycle(FALSE, faults)
    \/ BuildTree(faults)
    \/ NothingToBuild
    \/ SetDocRoot
    \/ SetLocalRoot
    \/ mark_published
    \/ mark_denylisted
    \/ RootUnreadable

=============================================================================
