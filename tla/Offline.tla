------------------------------ MODULE Offline ------------------------------
(***************************************************************************)
(* The operator's one-shot commands on a stopped daemon: `bulk-ingest`,    *)
(* `bulk-build`, `retimestamp` (crates/registryd/src/bulk_load.rs),        *)
(* `verify --fix` and `set-root` (verify.rs), composed with the daemon     *)
(* that runs before and after them.  Both stores are single-process, so a  *)
(* command and the daemon never overlap; a command may be cut off between  *)
(* any two durable writes, and nothing makes the operator run them in the  *)
(* documented order.                                                       *)
(*                                                                         *)
(* Data abstraction.  Dump holds the dump's valid lines (an invalid line   *)
(* is only counted).  A spill directory is the tree its lines collapse to: *)
(* of two lines for one key only the first can matter to the build, so     *)
(* later ones leave it as it is.  Timestamps are left out, so the dump     *)
(* pass of retimestamp changes nothing here.  `verify` without --fix is    *)
(* the same walk and writes nothing.                                       *)
(***************************************************************************)
EXTENDS Registryd

CONSTANTS
    Dump,       \* sequence of Submission: the dump's valid lines
    BatchLines, \* lines per index transaction (2000)
    Limit,      \* --limit, lines per ingest run
    MaxRuns     \* bound on the commands the operator starts

ASSUME OfflineAssumption ==
    /\ Dump \in Seq(Submission)
    /\ BatchLines \in Nat \ {0}
    /\ Limit \in Nat \ {0}
    /\ MaxRuns \in Nat

VARIABLES
    op,         \* the command that runs and where it stands
    pos, stop,  \* bulk-ingest: next dump line, first line after the chunk
    from,       \* bulk-ingest: first line of the chunk
    puts,       \* bulk-ingest: value blobs handed to the put tasks
    buffered,   \* bulk-ingest: spill lines not yet flushed, a Tree
    spill,      \* the spill files, a Tree; None: the directory is not there
    source,     \* the spill files the running build reads
    todo,       \* partitions the running build or audit has not finished
    missing,    \* verify: keys of this partition still to be re-queued
    runs,       \* commands started so far
    completed,  \* history: dump lines whose ingest run has ended well
    audited,    \* history: partitions audited since they were last rebuilt
    loaded      \* history: the roots come from a build over the whole dump

cmdVars == <<op, pos, stop, from, puts, buffered, spill, source, todo, missing>>
offVars == <<cmdVars, runs, completed, audited, loaded>>
allVars == <<vars, offVars>>

Ops == {"none", "ingest", "build", "build_local", "verify", "requeue", "set_local"}
Lines == 1 .. Len(Dump)

\* Every variable has the shape the commands give it.
OfflineTypeOK ==
    /\ op \in Ops
    /\ {pos, stop, from} \subseteq 1 .. Len(Dump) + 1 /\ pos <= stop
    /\ puts \subseteq Hashes
    /\ buffered \in Tree /\ spill \in Tree \union {None} /\ source \in Tree
    /\ todo \subseteq Partitions /\ missing \subseteq Keys
    /\ runs \in Nat
    /\ completed \subseteq Lines /\ audited \subseteq Partitions
    /\ loaded \in BOOLEAN

\* What no command has in memory.
NoCommand ==
    /\ op' = "none" /\ pos' = 1 /\ stop' = 1 /\ from' = 1
    /\ puts' = {} /\ buffered' = EmptyTree /\ source' = EmptyTree
    /\ todo' = {} /\ missing' = {}

OfflineInit ==
    /\ Init
    /\ op = "none" /\ pos = 1 /\ stop = 1 /\ from = 1
    /\ puts = {} /\ buffered = EmptyTree /\ source = EmptyTree
    /\ todo = {} /\ missing = {}
    /\ spill = None /\ runs = 0
    /\ completed = {} /\ audited = {} /\ loaded = FALSE

\* Appending lines to a spill: the first line of a key is the one that counts.
Append1st(tree, lines) ==
    [k \in Keys |-> IF tree[k] = None THEN lines[k] ELSE tree[k]]

\* A command starts: the daemon is stopped and no other command runs.
Free ==
    /\ phase = "down" /\ op = "none" /\ ~calm
    /\ runs < MaxRuns
    /\ runs' = runs + 1

-----------------------------------------------------------------------------
(***************************************************************************)
(* ingest: one chunk of the dump, in index transactions of BatchLines.     *)
(***************************************************************************)
\* --skip and --limit: the dump from line skip + 1 on, Limit lines of it or what
\* there is.
IngestStart(skip) ==
    /\ Free
    /\ op' = "ingest" /\ from' = skip + 1 /\ pos' = skip + 1
    /\ stop' = IF skip + Limit < Len(Dump) THEN skip + Limit + 1 ELSE Len(Dump) + 1
    /\ spill' = IF spill = None THEN EmptyTree ELSE spill
    /\ UNCHANGED <<puts, buffered, source, todo, missing, completed, audited, loaded, vars>>

BatchEnd == IF pos + BatchLines < stop THEN pos + BatchLines ELSE stop
Batch    == pos .. BatchEnd - 1

\* The lines that find no record, all of them against the index as it was
\* before this batch.
ToInsert == {i \in Batch : records[Dump[i].key] = None}
ToPut    == {i \in Batch : i \in ToInsert \/ records[Dump[i].key].hash = Dump[i].hash}

\* The leaf a batch spills for a key: the index's binding wins over the dump,
\* and of two new lines the first counts.
SpillLeaf(k) ==
    LET mine == {i \in Batch : Dump[i].key = k}
    IN  IF mine = {} THEN None
        ELSE IF records[k] # None THEN records[k].hash
        ELSE Dump[CHOOSE i \in mine : \A j \in mine : i <= j].hash

\* bulk_mark_published: one transaction, inserted in order, no queue rows.
bulk_mark_published(lines) ==
    /\ records' = [k \in Keys |->
         LET mine == {i \in lines : Dump[i].key = k}
         IN  IF mine = {} THEN records[k]
             ELSE [hash   |-> Dump[CHOOSE i \in mine : \A j \in mine : j <= i].hash,
                   status |-> "published"]]
    /\ UNCHANGED <<queue, next_seq, local_roots>>

\* A batch that writes every line of the dump into the index.
FlushBatch_DumpWins ==
    /\ op = "ingest" /\ pos < stop
    /\ bulk_mark_published(Batch)
    /\ buffered' = Append1st(buffered, [k \in Keys |-> SpillLeaf(k)])
    /\ puts' = puts \union {Dump[i].hash : i \in ToPut}
    /\ pos' = BatchEnd
    /\ audited' = audited \ {PartitionOf[Dump[i].key] : i \in ToInsert}
    /\ UNCHANGED <<op, stop, from, spill, source, todo, missing, completed, runs, loaded,
                   docVars, denylist, taskVars, apiVars, phase, calm>>

\* A batch that stores the bytes of new records only: a re-run finds the key.
FlushBatch_PutsNewOnly ==
    /\ op = "ingest" /\ pos < stop
    /\ bulk_mark_published(ToInsert)
    /\ buffered' = Append1st(buffered, [k \in Keys |-> SpillLeaf(k)])
    /\ puts' = puts \union {Dump[i].hash : i \in ToInsert}
    /\ pos' = BatchEnd
    /\ audited' = audited \ {PartitionOf[Dump[i].key] : i \in ToInsert}
    /\ UNCHANGED <<op, stop, from, spill, source, todo, missing, completed, runs, loaded,
                   docVars, denylist, taskVars, apiVars, phase, calm>>

\* A batch that spills new records only: what is known is left to its tree.
FlushBatch_SpillsNewOnly ==
    /\ op = "ingest" /\ pos < stop
    /\ bulk_mark_published(ToInsert)
    /\ buffered' = Append1st(buffered, [k \in Keys |->
                      IF records[k] = None THEN SpillLeaf(k) ELSE None])
    /\ puts' = puts \union {Dump[i].hash : i \in ToPut}
    /\ pos' = BatchEnd
    /\ audited' = audited \ {PartitionOf[Dump[i].key] : i \in ToInsert}
    /\ UNCHANGED <<op, stop, from, spill, source, todo, missing, completed, runs, loaded,
                   docVars, denylist, taskVars, apiVars, phase, calm>>

(***************************************************************************)
(* flush_batch and the put tasks it hands out: every line's leaf goes to   *)
(* the spill buffers, new records become published, and only then the      *)
(* values of new and of identical records are put.                         *)
(***************************************************************************)
FlushBatch ==
    /\ op = "ingest" /\ pos < stop
    /\ bulk_mark_published(ToInsert)
    /\ buffered' = Append1st(buffered, [k \in Keys |-> SpillLeaf(k)])
    /\ puts' = puts \union {Dump[i].hash : i \in ToPut}
    /\ pos' = BatchEnd
    /\ audited' = audited \ {PartitionOf[Dump[i].key] : i \in ToInsert}
    /\ UNCHANGED <<op, stop, from, spill, source, todo, missing, completed, runs, loaded,
                   docVars, denylist, taskVars, apiVars, phase, calm>>

PutDone ==
    /\ op = "ingest"
    /\ \E h \in puts : blobs' = blobs \union {h} /\ puts' = puts \ {h}
    /\ UNCHANGED <<op, pos, stop, from, buffered, spill, source, todo, missing,
                   completed, runs, audited, loaded,
                   indexVars, docVars, denylist, taskVars, req, detached, acked, phase, calm>>

\* Every put has been joined, the spill buffers are flushed.
IngestEnd ==
    /\ op = "ingest" /\ pos = stop /\ puts = {}
    /\ spill' = Append1st(spill, buffered)
    /\ completed' = completed \union (from .. stop - 1)
    /\ NoCommand
    /\ UNCHANGED <<runs, audited, loaded, vars>>

(***************************************************************************)
(* The run ends early.  On an error the buffers are dropped, which writes  *)
(* them out, with the lines of a batch whose transaction failed among      *)
(* them; a killed process leaves whatever part had been written.           *)
(***************************************************************************)
IngestCut ==
    /\ ~calm /\ op = "ingest"
    /\ \E lines \in {buffered, Append1st(buffered, [k \in Keys |-> SpillLeaf(k)])},
          kept \in SUBSET Keys :
          spill' = Append1st(spill, [k \in Keys |-> IF k \in kept THEN lines[k] ELSE None])
    /\ NoCommand
    /\ UNCHANGED <<completed, runs, audited, loaded, vars>>

-----------------------------------------------------------------------------
\* The partition a build or an audit works on: in increasing order.
Current == CHOOSE p \in todo : \A q \in todo : p <= q

PartFrom(tree, p) == [k \in Keys |-> IF PartitionOf[k] = p THEN tree[k] ELSE None]

\* bulk-build; without a spill directory it ends at once with an error.
BuildStart ==
    /\ Free
    /\ spill # None
    /\ op' = "build" /\ source' = spill /\ todo' = Partitions
    /\ loaded' = FALSE
    /\ UNCHANGED <<pos, stop, from, puts, buffered, spill, missing, completed, audited, vars>>

\* spill_published_entries, the leaves of the published records only, into
\* fresh files of retimestamp's own directory, then the same build.
retimestamp ==
    /\ Free
    /\ op' = "build" /\ todo' = Partitions
    /\ source' = [k \in Keys |-> IF IsPublished(k) THEN records[k].hash ELSE None]
    /\ loaded' = FALSE
    /\ UNCHANGED <<pos, stop, from, puts, buffered, spill, missing, completed, audited, vars>>

\* build_trees, one partition: build_from_entries and the document first ...
BuildPartition ==
    /\ op = "build"
    /\ set_partition_root(Current, PartFrom(source, Current))
    /\ op' = "build_local"
    /\ audited' = audited \ {Current}
    /\ UNCHANGED <<pos, stop, from, puts, buffered, spill, source, todo, missing,
                   completed, runs, loaded,
                   indexVars, denylist, taskVars, apiVars, phase, calm>>

\* ... then the local root; after the last partition the command ends.
BuildLocal ==
    /\ op = "build_local"
    /\ set_local_root(Current, PartFrom(source, Current))
    /\ IF todo = {Current}
       THEN /\ NoCommand
            /\ loaded' = (source = spill /\ Lines \subseteq completed)
       ELSE /\ op' = "build" /\ todo' = todo \ {Current}
            /\ UNCHANGED <<pos, stop, from, puts, buffered, source, missing, loaded>>
    /\ UNCHANGED <<spill, completed, runs, audited,
                   docVars, denylist, taskVars, apiVars, phase, calm>>

-----------------------------------------------------------------------------
(***************************************************************************)
(* verify::run with fix: the whole audit, or one partition of it.          *)
(***************************************************************************)
VerifyStart(parts) ==
    /\ Free
    /\ op' = "verify" /\ todo' = parts
    /\ UNCHANGED <<pos, stop, from, puts, buffered, spill, source, missing,
                   completed, audited, loaded, vars>>

\* Published keys the tree does not hold; the walk compares keys only.
Gaps(p, root) ==
    {k \in Keys : PartitionOf[k] = p /\ IsPublished(k) /\ (root = None \/ root[k] = None)}

\* The local root first, the document without one; an error ends the command.
VerifyPartition ==
    /\ op = "verify"
    /\ \E root \in current_root(Current, ~calm) \ {Unreadable} :
          missing' = Gaps(Current, root)
    /\ op' = "requeue"
    /\ UNCHANGED <<pos, stop, from, puts, buffered, spill, source, todo,
                   completed, runs, audited, loaded, vars>>

VerifyError ==
    /\ op = "verify"
    /\ Unreadable \in current_root(Current, FALSE)
    /\ NoCommand
    /\ UNCHANGED <<spill, completed, runs, audited, loaded, vars>>

\* A requeue that leaves a record alone whose status says it is published.
requeue_PendingOnly(k) ==
    /\ records[k] # None
    /\ IF IsPublished(k) THEN UNCHANGED <<queue, next_seq>>
       ELSE queue' = queue \union {[seq |-> next_seq, key |-> k]} /\ next_seq' = next_seq + 1
    /\ UNCHANGED <<records, local_roots>>

\* A requeue that takes a number and does not write the counter back.
requeue_SameNumber(k) ==
    /\ records[k] # None
    /\ queue' = queue \union {[seq |-> next_seq, key |-> k]}
    /\ UNCHANGED <<records, next_seq, local_roots>>

\* requeue: a new row for a known key; its status stays what it is.
requeue(k) ==
    /\ records[k] # None
    /\ queue' = queue \union {[seq |-> next_seq, key |-> k]}
    /\ next_seq' = next_seq + 1
    /\ UNCHANGED <<records, local_roots>>

RequeueOne ==
    /\ op = "requeue"
    /\ \E k \in missing : requeue(k) /\ missing' = missing \ {k}
    /\ UNCHANGED <<op, pos, stop, from, puts, buffered, spill, source, todo,
                   completed, runs, audited, loaded,
                   docVars, denylist, taskVars, apiVars, phase, calm>>

PartitionAudited ==
    /\ op = "requeue" /\ missing = {}
    /\ audited' = audited \union {Current}
    /\ IF todo = {Current}
       THEN NoCommand
       ELSE /\ op' = "verify" /\ todo' = todo \ {Current}
            /\ UNCHANGED <<pos, stop, from, puts, buffered, source, missing>>
    /\ UNCHANGED <<spill, completed, runs, loaded, vars>>

-----------------------------------------------------------------------------
(***************************************************************************)
(* set_root: any root the partition has had and whose node blob the store  *)
(* still holds: the one the document or the index names, or an older one.  *)
(* The document first, then the index.                                     *)
(***************************************************************************)
KnownRoots(p) == {doc_roots[p], local_roots[p], PartOf(Legacy, p)} \ {None}

set_root(p, tree) ==
    /\ Free
    /\ tree \in KnownRoots(p)
    /\ set_partition_root(p, tree)
    /\ op' = "set_local" /\ source' = tree /\ todo' = {p}
    /\ audited' = audited \ {p} /\ loaded' = FALSE
    /\ UNCHANGED <<pos, stop, from, puts, buffered, spill, missing, completed,
                   indexVars, denylist, taskVars, apiVars, phase, calm>>

SetRootLocal ==
    /\ op = "set_local"
    /\ set_local_root(Current, source)
    /\ NoCommand
    /\ UNCHANGED <<spill, completed, runs, audited, loaded,
                   docVars, denylist, taskVars, apiVars, phase, calm>>

\* An error or a kill at any other point: what is written stays written.
CommandCut ==
    /\ ~calm /\ op \notin {"none", "ingest"}
    /\ NoCommand
    /\ UNCHANGED <<spill, completed, runs, audited, loaded, vars>>

-----------------------------------------------------------------------------
CommandStarts ==
    \/ \E skip \in 0 .. Len(Dump) : IngestStart(skip)
    \/ BuildStart \/ retimestamp
    \/ \E parts \in {Partitions} \union {{p} : p \in Partitions} : VerifyStart(parts)
    \/ \E p \in Partitions : \E tree \in KnownRoots(p) : set_root(p, tree)

CommandStep ==
    \/ FlushBatch \/ PutDone \/ IngestEnd
    \/ BuildPartition \/ BuildLocal
    \/ VerifyPartition \/ VerifyError \/ RequeueOne \/ PartitionAudited
    \/ SetRootLocal

\* A step of the daemon, while no command runs.
Daemon(step) == op = "none" /\ step /\ UNCHANGED offVars

OfflineNext == Daemon(Next) \/ CommandStarts \/ CommandStep \/ IngestCut \/ CommandCut

OfflineSpec == OfflineInit /\ [][OfflineNext]_allVars

\* A command runs on by itself; the operator owes no command, and is done
\* when the faults cease.  The daemon's fairness is that of Registryd.
OfflineFairness ==
    /\ WF_allVars(CommandStep)
    /\ WF_allVars(Daemon(FaultsCease)) /\ WF_allVars(Daemon(Start))
    /\ WF_allVars(Daemon(HandlersDone)) /\ WF_allVars(Daemon(Exit))
    /\ \A c \in Clients : WF_allVars(Daemon(Answer(c)))
    /\ WF_allVars(Daemon(Working))
    /\ SF_allVars(Daemon(StartCycle)) /\ SF_allVars(Daemon(StartHeal))
    /\ SF_allVars(Daemon(Drain))

OfflineFairSpec == OfflineSpec /\ OfflineFairness

-----------------------------------------------------------------------------
InTree(root, k) == root # None /\ root[k] # None
Queued(k)       == \E r \in queue : r.key = k

(***************************************************************************)
(* What `verify --fix` leaves behind stays true: in a partition audited    *)
(* since its root was last replaced, every published record is in the      *)
(* writer's tree or has a queue row ("so the next publish cycles repair    *)
(* it"), across crashes, failed cycles, duplicate rows and denylisting.    *)
(***************************************************************************)
AuditHolds ==
    \A k \in Keys : PartitionOf[k] \in audited /\ IsPublished(k) =>
        InTree(WriterRoot(PartitionOf[k]), k) \/ Queued(k)

(***************************************************************************)
(* bulk-ingest marks a record published before its bytes are stored, but   *)
(* only an ingest that was cut off leaves one without bytes: running that  *)
(* chunk again to its end stores them.                                     *)
(***************************************************************************)
BytesAccountedFor ==
    \A k \in Keys : records[k] # None =>
        \/ records[k].hash \in blobs \union puts
        \/ \E i \in Lines \ completed : Dump[i].key = k

(***************************************************************************)
(* A build over a completely ingested dump, interrupted and repeated       *)
(* chunks included, publishes every key of the dump; no later run of the   *)
(* daemon takes one out of the writer's tree or of the document's.         *)
(***************************************************************************)
DumpIsCovered ==
    loaded => \A i \in Lines :
        LET k == Dump[i].key
        IN  /\ InTree(local_roots[PartitionOf[k]], k)
            /\ InTree(doc_roots[PartitionOf[k]], k)

(***************************************************************************)
(* "Immutability: the index's existing binding wins": no command and no    *)
(* daemon step changes the content a key is bound to, and none unbinds it. *)
(***************************************************************************)
BindingsNeverChange ==
    [][\A k \in Keys : records[k] # None =>
          records'[k] # None /\ records'[k].hash = records[k].hash]_allVars

(***************************************************************************)
(* What is queued is done before its row goes: a row of a client or of     *)
(* `verify --fix`, of a pending or of a published record, one of several   *)
(* for its key or replayed after a crash, leaves the queue only with the   *)
(* key in the writer's tree or the record denylisted.                      *)
(***************************************************************************)
RowsLeaveSettled ==
    [][\A r \in queue \ queue' :
          \/ InTree(WriterRoot(PartitionOf[r.key]), r.key)'
          \/ records'[r.key] # None /\ records'[r.key].status = "denylisted"]_allVars

(***************************************************************************)
(* "re-queue whatever is missing so the next publish cycles repair it":    *)
(* once the operator is done, a published record that an audited partition *)
(* lacks gets into its tree (or is denylisted), unless a partition is      *)
(* wedged.                                                                 *)
(***************************************************************************)
EventuallyRepaired ==
    \A k \in Keys :
        (calm /\ PartitionOf[k] \in audited /\ IsPublished(k)) ~>
            \/ InTree(WriterRoot(PartitionOf[k]), k) \/ ~IsPublished(k)
            \/ \E p \in Partitions : Wedged(p)

=============================================================================
