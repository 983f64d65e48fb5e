------------------------------ MODULE Registryd ------------------------------
(***************************************************************************)
(* The registryd daemon (crates/registryd/src/main.rs, run): the write API *)
(* and the publisher over one record index, one blob store and one pointer *)
(* document, with its process life cycle.                                  *)
(*                                                                         *)
(*   down      no process; the tables, the document and the blobs persist  *)
(*   serving   the API accepts requests and the publisher runs             *)
(*   closing   SIGTERM: axum accepts nothing new and waits for the handlers*)
(*   draining  shutdown_tx has been sent: the publisher makes at most one  *)
(*             more cycle and returns, then the node is closed             *)
(*                                                                         *)
(* A crash may come in any state and between any two durable writes; it    *)
(* takes everything that is only in memory.  Faults (crashes, failing      *)
(* transactions, unreadable reads, lost entry blobs) happen as long as     *)
(* `calm` is FALSE; nothing forces them to happen or to stop, except in    *)
(* the fair specification of module Offline, where they stop one day.      *)
(***************************************************************************)
EXTENDS Publisher, WriteApi

CONSTANT Legacy   \* a Tree: what a version without local roots had published

ASSUME LegacyAssumption == Legacy \in Tree

VARIABLES phase, calm

vars == <<indexVars, docVars, denylist, taskVars, apiVars, phase, calm>>

\* The part of a tree that belongs to partition p, None when there is none.
PartOf(tree, p) ==
    LET mine == [k \in Keys |-> IF PartitionOf[k] = p THEN tree[k] ELSE None]
    IN  IF mine = EmptyTree THEN None ELSE mine

(***************************************************************************)
(* A data directory left by a version that kept no local roots: its        *)
(* published records are in the document's trees, local_roots is empty.    *)
(* Legacy = EmptyTree is a fresh installation.                             *)
(***************************************************************************)
Init ==
    /\ records = [k \in Keys |-> IF Legacy[k] = None THEN None
                                 ELSE [hash |-> Legacy[k], status |-> "published"]]
    /\ queue = {}
    /\ next_seq = Cardinality({k \in Keys : Legacy[k] # None})
    /\ local_roots = [p \in Partitions |-> None]
    /\ doc_roots = [p \in Partitions |-> PartOf(Legacy, p)]
    /\ doc_readable = [p \in Partitions |-> TRUE]
    /\ denylist = {}
    /\ pc = "off" /\ cursor = 0 /\ batch = {} /\ denied = {}
    /\ new_root = None /\ final = FALSE
    /\ blobs = {Legacy[k] : k \in {x \in Keys : Legacy[x] # None}}
    /\ req = [c \in Clients |-> NoRequest]
    /\ detached = {} /\ acked = {}
    /\ phase = "down" /\ calm = FALSE

-----------------------------------------------------------------------------
Start ==
    /\ phase = "down"
    /\ phase' = "serving"
    /\ TaskStart
    /\ UNCHANGED <<indexVars, docVars, denylist, apiVars, calm>>

Sigterm ==
    /\ phase = "serving"
    /\ phase' = "closing"
    /\ UNCHANGED <<indexVars, docVars, denylist, taskVars, apiVars, calm>>

HandlersDone ==
    /\ phase = "closing"
    /\ \A c \in Clients : req[c].at = "idle"
    /\ phase' = "draining"
    /\ UNCHANGED <<indexVars, docVars, denylist, taskVars, apiVars, calm>>

\* The publisher has returned: the node is closed and the process exits.  A
\* blocking task the runtime has not begun by then is dropped.
Exit ==
    /\ phase = "draining"
    /\ pc = "off"
    /\ phase' = "down"
    /\ detached' = {}
    /\ UNCHANGED <<indexVars, docVars, denylist, taskVars, blobs, req, acked, calm>>

Crash ==
    /\ ~calm
    /\ phase # "down"
    /\ phase' = "down"
    /\ TaskOff
    /\ req' = [c \in Clients |-> NoRequest]
    /\ detached' = {}
    /\ UNCHANGED <<indexVars, docVars, denylist, blobs, acked, calm>>

-----------------------------------------------------------------------------
Handle(c) ==
    /\ phase \in {"serving", "closing"}
    /\ \/ phase = "serving" /\ \E r \in Requests : Arrive(c, r)
       \/ \E ok \in SUBSET DOMAIN req[c].subs :
             (calm => ok = DOMAIN req[c].subs) /\ put(c, ok)
       \/ Submit(c)
       \/ ~calm /\ SubmitFails(c)
       \/ Disconnect(c)
    /\ UNCHANGED <<docVars, denylist, taskVars, phase, calm>>

Detached ==
    /\ \E subs \in detached : DetachedSubmit(subs) \/ (~calm /\ DetachedFails(subs))
    /\ UNCHANGED <<docVars, denylist, taskVars, phase, calm>>

Publish ==
    /\ PublisherNext(~calm)
    /\ UNCHANGED <<denylist, apiVars, phase, calm>>

\* After the shutdown signal: the final cycle, or no cycle on an empty queue.
Drain ==
    /\ phase = "draining"
    /\ BeginCycle(TRUE, ~calm) \/ StopIdle(~calm)
    /\ UNCHANGED <<denylist, apiVars, phase, calm>>

PublisherFails ==
    /\ ~calm
    /\ SeedFails \/ HealFails \/ CycleFails
    /\ UNCHANGED <<denylist, apiVars, phase, calm>>

EntryBlobLost ==
    /\ ~calm
    /\ \E p \in Partitions : LoseEntryBlob(p)
    /\ UNCHANGED <<indexVars, denylist, taskVars, apiVars, phase, calm>>

\* The operator edits the denylist file, whether the daemon runs or not.
EditDenylist ==
    /\ denylist' \in SUBSET Deniable
    /\ UNCHANGED <<indexVars, docVars, taskVars, apiVars, phase, calm>>

FaultsCease ==
    /\ ~calm /\ calm' = TRUE
    /\ UNCHANGED <<indexVars, docVars, denylist, taskVars, apiVars, phase>>

Next ==
    \/ Start \/ Sigterm \/ HandlersDone \/ Exit \/ Crash
    \/ \E c \in Clients : Handle(c)
    \/ Detached
    \/ Publish \/ Drain \/ PublisherFails
    \/ EntryBlobLost \/ EditDenylist \/ FaultsCease

Spec == Init /\ [][Next]_vars

(***************************************************************************)
(* Fairness.  tokio runs every ready task, so a handler and the publisher  *)
(* go on while they can; systemd restarts a dead daemon.  In every round   *)
(* of its loop the publisher looks at both timers, so a cycle (a heal      *)
(* pass) that stays due again and again is started: strong fairness,       *)
(* because the other of the two may come first each time.  Clients, the    *)
(* operator and SIGTERM owe nothing.  Faults are assumed to cease.  These  *)
(* are the steps module Offline's fair specification is fair to.           *)
(***************************************************************************)
Working    == pc \notin {"off", "idle"} /\ Publish
StartCycle == Publish /\ pc = "idle" /\ pc' = "build"
StartHeal  == Publish /\ pc = "idle" /\ pc' = "heal"
Answer(c)  == req[c].at # "idle" /\ Handle(c)

-----------------------------------------------------------------------------
\* Every variable has the shape the code gives it.
TypeOK ==
    /\ IndexTypeOK /\ DocTypeOK /\ PublisherTypeOK /\ ApiTypeOK
    /\ phase \in {"down", "serving", "closing", "draining"}
    /\ calm \in BOOLEAN

\* The root a cycle would build on (current_root), whether it reads or not.
WriterRoot(p) == IF local_roots[p] # None THEN local_roots[p] ELSE doc_roots[p]

Lists(root, k) == root # None /\ root[k] = records[k].hash

(***************************************************************************)
(* No silent loss: a record the index calls published is, with its content *)
(* hash, in the tree the writer builds on and in the tree the pointer      *)
(* document names.  This is what `registryd verify` audits ("should always *)
(* report zero missing", also after crashes) and the rule that a record is *)
(* never marked published before the document references its tree.         *)
(***************************************************************************)
NoSilentLoss ==
    \A k \in Keys :
        records[k] # None /\ records[k].status = "published" =>
            /\ Lists(WriterRoot(PartitionOf[k]), k)
            /\ Lists(doc_roots[PartitionOf[k]], k)

(***************************************************************************)
(* A crash never leaves a claimed record unqueued, and a settled record    *)
(* never keeps a row: exactly the pending records have a queue row, each   *)
(* one row, and no two rows share a sequence number.                       *)
(***************************************************************************)
QueueMatchesIndex ==
    /\ \A k \in Keys :
          (records[k] # None /\ records[k].status = "pending")
              <=> \E r \in queue : r.key = k
    /\ \A r, s \in queue : r.key = s.key \/ r.seq = s.seq => r = s

(***************************************************************************)
(* An accepted submission is kept: the key is bound to that content hash   *)
(* whatever other clients sent, and the value's bytes were stored before.  *)
(***************************************************************************)
AcceptedIsKept ==
    \A s \in acked :
        /\ records[s.key] # None
        /\ records[s.key].hash = s.hash
        /\ s.hash \in blobs

\* A partition nothing can publish into: the document's entry is lost and the
\* index has no root to heal it from (the operator's set-root is for this).
Wedged(p) == local_roots[p] = None /\ doc_roots[p] # None /\ ~doc_readable[p]

StatusOf(k) == IF records[k] = None THEN "free" ELSE records[k].status

(***************************************************************************)
(* Every accepted record is settled in the end: published or denylisted,   *)
(* across crashes, failed cycles and restarts, unless a partition is       *)
(* wedged.  (One wedged partition stops the cycle for the ones after it.)  *)
(***************************************************************************)
EventuallySettled ==
    \A k \in Keys : StatusOf(k) = "pending" ~>
        (StatusOf(k) # "pending" \/ \E p \in Partitions : Wedged(p))

(***************************************************************************)
(* A missing or unreadable document entry of a partition with a local root *)
(* is written back: "without healing that wedges the partition forever".   *)
(***************************************************************************)
Damaged(p) == local_roots[p] # None /\ (doc_roots[p] = None \/ ~doc_readable[p])
EventuallyHealed == \A p \in Partitions : Damaged(p) ~> ~Damaged(p)

(***************************************************************************)
(* What the operator guide says of takedowns: a key on the denylist is     *)
(* excluded from every tree published from then on.                        *)
(***************************************************************************)
TakedownGoesForward ==
    pc = "set_doc" => \A k \in denied : new_root[k] = None

\* registryd implements the abstract registry (module Registry).
Abstract == INSTANCE Registry WITH
    binding   <- [k \in Keys |-> IF records[k] = None THEN None ELSE records[k].hash],
    catalogue <- [k \in Keys |-> IF WriterRoot(PartitionOf[k]) = None THEN None
                                 ELSE WriterRoot(PartitionOf[k])[k]],
    state     <- [k \in Keys |-> IF records[k] = None THEN "free" ELSE records[k].status]

\* Every behaviour of the daemon, crashes and replays included, is one of the
\* abstract registry: immutable bindings, a catalogue that never shrinks.
ImplementsRegistry == Abstract!Spec

-----------------------------------------------------------------------------
(***************************************************************************)
(* Why no published record is lost, and why what is accepted is kept: an   *)
(* inductive strengthening, proved in RegistrydProofs.                     *)
(***************************************************************************)
IsPublished(k) == records[k] # None /\ records[k].status = "published"

\* A tree holds only claimed keys, each with the content it is bound to.
Sound(root) ==
    \A k \in Keys : root # None /\ root[k] # None =>
        records[k] # None /\ root[k] = records[k].hash

TreesSound ==
    /\ \A p \in Partitions : Sound(local_roots[p]) /\ Sound(doc_roots[p])
    /\ Sound(new_root)

\* The snapshot a cycle works from stays true while the cycle runs.
BatchSound ==
    \A it \in batch : records[it.key] # None /\ it.hash = records[it.key].hash

\* What the tree under construction must hold before it replaces a root.
NewRootComplete ==
    pc \in {"set_doc", "set_local"} =>
        /\ new_root # None
        /\ \A k \in Keys : PartitionOf[k] = CurrentPartition /\ IsPublished(k) =>
              Lists(new_root, k)
        /\ \A it \in Publishable : Lists(new_root, it.key)

\* The document comes first, then the local root, then the index.
WritesInOrder ==
    /\ pc = "set_local" /\ Publishable # {} =>
          doc_roots[CurrentPartition] = new_root
    /\ pc = "mark_published" => \A it \in Publishable :
          /\ Lists(local_roots[CurrentPartition], it.key)
          /\ Lists(doc_roots[CurrentPartition], it.key)

BytesFirst ==
    /\ \A k \in Keys : records[k] # None => records[k].hash \in blobs
    /\ \A c \in Clients :
          /\ req[c].at = "submit" =>
                \A i \in DOMAIN req[c].subs : req[c].subs[i].hash \in blobs
          /\ \A s \in req[c].dups : records[s.key] # None /\ records[s.key].hash = s.hash
    /\ \A subs \in detached : \A i \in DOMAIN subs : subs[i].hash \in blobs

\* The inductive invariant of the daemon: trees, batch, the order of the four
\* writes and the order of blob and claim, together with the two promises.
Inv ==
    /\ TypeOK
    /\ TreesSound /\ BatchSound /\ NewRootComplete /\ WritesInOrder
    /\ NoSilentLoss
    /\ BytesFirst /\ AcceptedIsKept

=============================================================================
