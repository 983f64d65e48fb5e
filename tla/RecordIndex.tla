---------------------------- MODULE RecordIndex ----------------------------
(***************************************************************************)
(* The embedded record index and pending queue of registryd                *)
(* (crates/registryd/src/index.rs): four redb tables in one database file. *)
(* Every operation is one redb transaction, so each operator below is one  *)
(* atomic, durable step; the modules that use the index decide when.       *)
(*                                                                         *)
(* Data abstraction.  A value is its content hash, a member of Hashes.  A  *)
(* partition tree is the function from keys to the content hash its leaf   *)
(* entry holds (None: the key is not in the tree), which is what a root    *)
(* hash stands for in a content-addressed store; how the trie stores it is *)
(* the business of hamt.rs.  Sizes, timestamps and ISCC codes are left     *)
(* out: no decision of the code modelled here reads them.                  *)
(***************************************************************************)
EXTENDS Naturals, Sequences, FiniteSets, TreeContent

CONSTANTS
    Hashes,         \* content hashes of the values they submit
    NumPartitions,  \* top_level_partitions
    PartitionOf     \* partition_id_for_key, a function on Keys

Partitions == 0 .. NumPartitions - 1

Status      == {"pending", "published", "denylisted"}
IndexRecord == [hash : Hashes, status : Status]
Submission  == [key : Keys, hash : Hashes]
Row         == [seq : Nat, key : Keys]
BatchItem   == [seq : Nat, key : Keys, hash : Hashes]
Tree        == [Keys -> Hashes \union {None}]

ASSUME IndexAssumption ==
    /\ IsFiniteSet(Keys)
    /\ NumPartitions \in Nat \ {0}
    /\ PartitionOf \in [Keys -> Partitions]
    /\ None \notin Hashes
    /\ None \notin IndexRecord
    /\ None \notin Tree

VARIABLES
    records,     \* table "records": key -> IndexRecord, None when unclaimed
    queue,       \* table "queue": the rows, as a set
    next_seq,    \* table "meta", entry "next_seq"
    local_roots  \* table "local_roots": the writer's own root per partition

indexVars == <<records, queue, next_seq, local_roots>>

IndexTypeOK ==
    /\ records \in [Keys -> IndexRecord \union {None}]
    /\ queue \subseteq Row
    /\ next_seq \in Nat
    /\ local_roots \in [Partitions -> Tree \union {None}]

SeqsOf(items) == {it.seq : it \in items}

-----------------------------------------------------------------------------
(***************************************************************************)
(* submit_many: one transaction for all the submissions of a call, given   *)
(* by position.                                                            *)
(*                                                                         *)
(* Fresh(subs) are the positions that claim their key: the key has no      *)
(* record yet and no earlier position of the same call names it.  Those    *)
(* get a pending record and a queue row with consecutive sequence numbers; *)
(* every other position changes nothing and is told whether the record it  *)
(* met has the same content hash.                                          *)
(***************************************************************************)
\* A claim that trusts the caller's earlier look at the table: it rebinds a
\* key that somebody else has claimed in the meantime.
Fresh_TrustsPrecheck(subs) ==
    {i \in DOMAIN subs : \A j \in DOMAIN subs : j < i => subs[j].key # subs[i].key}

Fresh(subs) ==
    {i \in DOMAIN subs :
        /\ records[subs[i].key] = None
        /\ \A j \in DOMAIN subs : j < i => subs[j].key # subs[i].key}

\* The record a key has once the transaction has run.
Claimed(subs, k) ==
    IF \E i \in Fresh(subs) : subs[i].key = k
    THEN [hash   |-> subs[CHOOSE i \in Fresh(subs) : subs[i].key = k].hash,
          status |-> "pending"]
    ELSE records[k]

NewRows(subs) ==
    {[seq |-> next_seq + Cardinality({j \in Fresh(subs) : j < i}),
      key |-> subs[i].key] : i \in Fresh(subs)}

SubmitOutcome(subs, i) ==
    IF i \in Fresh(subs) THEN "Queued"
    ELSE IF Claimed(subs, subs[i].key).hash = subs[i].hash
         THEN "DuplicateIdentical" ELSE "Conflict"

\* The claim and the queue row in two transactions, cut off between them.
submit_many_Unqueued(subs) ==
    /\ records' = [k \in Keys |-> Claimed(subs, k)]
    /\ queue' \in {queue, queue \union NewRows(subs)}
    /\ next_seq' = next_seq + Cardinality(Fresh(subs))
    /\ UNCHANGED local_roots

submit_many(subs) ==
    /\ records' = [k \in Keys |-> Claimed(subs, k)]
    /\ queue' = queue \union NewRows(subs)
    /\ next_seq' = next_seq + Cardinality(Fresh(subs))
    /\ UNCHANGED local_roots

-----------------------------------------------------------------------------
(***************************************************************************)
(* pending_batch: the oldest `max` rows joined with their records.  A row  *)
(* whose record is missing is skipped and does not count towards `max`.    *)
(***************************************************************************)
Joined == {r \in queue : records[r.key] # None}

\* A loop that stops one row too early.
pending_batch_OneShort(max) ==
    {[seq |-> r.seq, key |-> r.key, hash |-> records[r.key].hash] :
        r \in {q \in Joined : Cardinality({o \in Joined : o.seq < q.seq}) + 1 < max}}

pending_batch(max) ==
    {[seq |-> r.seq, key |-> r.key, hash |-> records[r.key].hash] :
        r \in {q \in Joined : Cardinality({o \in Joined : o.seq < q.seq}) < max}}

(***************************************************************************)
(* finish (mark_published, mark_denylisted): set the status of every item  *)
(* that still has a record and drop the items' rows.  No items, no change. *)
(***************************************************************************)
finish(items, status) ==
    /\ records' = [k \in Keys |->
                     IF k \in KeysOf(items) /\ records[k] # None
                     THEN [records[k] EXCEPT !.status = status]
                     ELSE records[k]]
    /\ queue' = {r \in queue : r.seq \notin SeqsOf(items)}
    /\ UNCHANGED <<next_seq, local_roots>>

set_local_root(p, tree) ==
    /\ local_roots' = [local_roots EXCEPT ![p] = tree]
    /\ UNCHANGED <<records, queue, next_seq>>

=============================================================================
