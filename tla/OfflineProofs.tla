---------------------------- MODULE OfflineProofs ----------------------------
(***************************************************************************)
(* What the daemon and the one-shot commands together never do, for every  *)
(* dump, every batch size and limit, any number of runs in any order, each *)
(* of them cut off anywhere.  Inv of Registryd does not hold here: an      *)
(* ingest calls records published before a build puts them into a tree,    *)
(* and verify queues records that are published already.                   *)
(***************************************************************************)
EXTENDS Offline, RegistrydProofs

(***************************************************************************)
(* Types, and who runs.                                                    *)
(***************************************************************************)
\* A command runs on a stopped daemon; an ingest has its spill directory, and
\* a command that goes through the partitions has one to work on.
CommandsApart ==
    /\ Stopped
    /\ op # "none" => phase = "down"
    /\ op = "ingest" => spill # None
    /\ op \notin {"none", "ingest"} => todo # {}

BaseInv == TypeOK /\ OfflineTypeOK /\ CommandsApart

\* The partition a command works on is one of those it has left.
LEMMA CurrentType ==
    ASSUME todo \subseteq Partitions, todo # {}
    PROVE  Current \in todo /\ Current \in Partitions
<1>1. todo \in SUBSET Nat /\ Partitions \subseteq Nat
  BY IndexAssumption DEF Partitions
<1>2. PICK p \in todo : \A q \in todo : ~(q < p)
  BY <1>1, Least
<1>3. \A q \in todo : p <= q
  BY <1>1, <1>2
<1>4. Current \in todo
  BY <1>2, <1>3 DEF Current
<1> QED
  BY <1>4

\* A line of the dump names a key and a content hash.
LEMMA LineType ==
    ASSUME NEW i \in Lines
    PROVE  Dump[i].key \in Keys /\ Dump[i].hash \in Hashes /\ i \in Nat /\ Len(Dump) \in Nat
<1>1. Dump \in Seq(Submission) /\ Len(Dump) \in Nat
  BY OfflineAssumption
<1>2. Dump[i] \in Submission
  BY <1>1 DEF Lines
<1> QED
  BY <1>1, <1>2 DEF Submission, Lines

\* The lines of a batch lie inside the chunk, the chunk inside the dump.
LEMMA BatchLinesType ==
    ASSUME OfflineTypeOK
    PROVE  /\ BatchEnd \in Nat /\ pos <= BatchEnd /\ BatchEnd <= stop
           /\ BatchEnd \in 1 .. Len(Dump) + 1
           /\ Batch \subseteq Lines /\ ToInsert \subseteq Batch /\ ToPut \subseteq Batch
<1>1. /\ pos \in Nat /\ stop \in Nat /\ pos >= 1 /\ pos <= stop /\ stop <= Len(Dump) + 1 /\ Len(Dump) \in Nat
      /\ BatchLines \in Nat /\ BatchLines > 0
  BY OfflineAssumption DEF OfflineTypeOK
<1>2. BatchEnd \in Nat /\ pos <= BatchEnd /\ BatchEnd <= stop
  BY <1>1 DEF BatchEnd
<1> QED
  BY <1>1, <1>2 DEF Batch, Lines, ToInsert, ToPut

\* Spilling keeps a tree a tree, and a key once spilled stays.
LEMMA AppendType ==
    ASSUME NEW tree \in Tree, NEW lines \in Tree
    PROVE  /\ Append1st(tree, lines) \in Tree
           /\ \A k \in Keys : tree[k] # None \/ lines[k] # None =>
                 Append1st(tree, lines)[k] # None
  BY DEF Append1st, Tree

\* No leaf at all.
LEMMA EmptyTreeType == EmptyTree \in Tree /\ \A k \in Keys : EmptyTree[k] = None
  BY DEF EmptyTree, Tree

\* The first line of a key is one of its lines.
LEMMA FirstLine ==
    ASSUME NEW mine \in SUBSET Lines, mine # {}
    PROVE  (CHOOSE i \in mine : \A j \in mine : i <= j) \in mine
<1>1. mine \in SUBSET Nat
  BY OfflineAssumption DEF Lines
<1>2. PICK p \in mine : \A q \in mine : ~(q < p)
  BY <1>1, Least
<1>3. \A q \in mine : p <= q
  BY <1>1, <1>2
<1> QED
  BY <1>2, <1>3

\* The last line of a key is one of its lines.
LEMMA LastLine ==
    ASSUME NEW mine \in SUBSET Lines, mine # {}
    PROVE  (CHOOSE i \in mine : \A j \in mine : j <= i) \in mine
<1> DEFINE n == Len(Dump)
           mirrored == {n - i : i \in mine}
<1>1. n \in Nat /\ \A i \in mine : i \in Nat /\ i <= n
  BY OfflineAssumption DEF Lines
<1>2. mirrored \in SUBSET Nat /\ mirrored # {}
  BY <1>1
<1>3. PICK x \in mirrored : \A y \in mirrored : ~(y < x)
  BY <1>2, Least
<1>4. PICK p \in mine : x = n - p
  BY <1>3
<1>5. ASSUME NEW q \in mine PROVE q <= p
  <2>1. n - q \in mirrored
    OBVIOUS
  <2>2. ~(n - q < n - p)
    BY <1>3, <1>4, <2>1
  <2> HIDE DEF mirrored, n
  <2> QED
    BY <1>1, <2>2
<1> QED
  BY <1>4, <1>5

\* What a batch spills: a leaf for each of its keys, of a real content hash.
LEMMA SpillLeafType ==
    ASSUME TypeOK, OfflineTypeOK
    PROVE  /\ [k \in Keys |-> SpillLeaf(k)] \in Tree
           /\ \A i \in Batch : SpillLeaf(Dump[i].key) # None
<1>1. Batch \subseteq Lines
  BY BatchLinesType
<1>2. ASSUME NEW k \in Keys, {i \in Batch : Dump[i].key = k} # {}
      PROVE  SpillLeaf(k) \in Hashes
  <2> DEFINE mine == {i \in Batch : Dump[i].key = k}
             first == CHOOSE i \in mine : \A j \in mine : i <= j
  <2>1. mine \in SUBSET Lines /\ mine # {}
    BY <1>1, <1>2
  <2>2. first \in mine
    BY <2>1, FirstLine
  <2>3. Dump[first].hash \in Hashes
    BY <2>1, <2>2, LineType
  <2>4. records[k] # None => records[k].hash \in Hashes
    BY DEF TypeOK, IndexTypeOK, IndexRecord
  <2>5. SpillLeaf(k) = IF records[k] # None THEN records[k].hash ELSE Dump[first].hash
    BY <2>1 DEF SpillLeaf
  <2> QED
    BY <2>3, <2>4, <2>5
<1>3. ASSUME NEW k \in Keys PROVE SpillLeaf(k) \in Hashes \union {None}
  <2>1. {i \in Batch : Dump[i].key = k} = {} => SpillLeaf(k) = None
    BY DEF SpillLeaf
  <2> QED
    BY <1>2, <2>1
<1>4. ASSUME NEW i \in Batch PROVE SpillLeaf(Dump[i].key) # None
  <2>1. Dump[i].key \in Keys
    BY <1>1, LineType
  <2>2. SpillLeaf(Dump[i].key) \in Hashes
    BY <1>2, <2>1
  <2> QED
    BY <2>2, IndexAssumption
<1> QED
  BY <1>3, <1>4 DEF Tree

\* bulk_mark_published on the lines that found no record: nothing there is
\* changed, every line of the batch has a record afterwards.
LEMMA IngestClaims ==
    ASSUME TypeOK, OfflineTypeOK, bulk_mark_published(ToInsert)
    PROVE  /\ IndexTypeOK'
           /\ \A k \in Keys : records[k] # None => records'[k] = records[k]
           /\ \A k \in Keys : records[k] = None /\ records'[k] # None =>
                 \E i \in ToInsert : /\ Dump[i].key = k
                                     /\ records'[k] = [hash   |-> Dump[i].hash,
                                                       status |-> "published"]
           /\ \A i \in Batch : records'[Dump[i].key] # None
<1> DEFINE mine(k) == {i \in ToInsert : Dump[i].key = k}
           last(k) == CHOOSE i \in mine(k) : \A j \in mine(k) : j <= i
<1>1. Batch \subseteq Lines /\ ToInsert \subseteq Batch
  BY BatchLinesType
<1>2. ASSUME NEW k \in Keys
      PROVE  records'[k] = IF mine(k) = {} THEN records[k]
                           ELSE [hash |-> Dump[last(k)].hash, status |-> "published"]
  BY DEF bulk_mark_published
<1>3. ASSUME NEW k \in Keys, mine(k) # {}
      PROVE  last(k) \in ToInsert /\ Dump[last(k)].key = k /\ Dump[last(k)].hash \in Hashes
  <2>1. mine(k) \in SUBSET Lines
    BY <1>1
  <2>2. last(k) \in mine(k)
    BY <1>3, <2>1, LastLine
  <2> QED
    BY <1>1, <2>2, LineType
<1> HIDE DEF last
<1>4. ASSUME NEW k \in Keys, mine(k) # {}
      PROVE  [hash |-> Dump[last(k)].hash, status |-> "published"] \in IndexRecord
  BY <1>3, <1>4 DEF IndexRecord, Status
<1>5. records' \in [Keys -> IndexRecord \union {None}]
  <2>1. \A k \in Keys : records'[k] \in IndexRecord \union {None}
    BY <1>2, <1>4 DEF TypeOK, IndexTypeOK
  <2>2. records' = [k \in Keys |-> records'[k]]
    BY DEF bulk_mark_published
  <2> QED
    BY <2>1, <2>2
<1>6. IndexTypeOK'
  BY <1>5 DEF bulk_mark_published, TypeOK, IndexTypeOK
<1>7. ASSUME NEW k \in Keys, records[k] # None PROVE records'[k] = records[k]
  <2>1. mine(k) = {}
    BY <1>7 DEF ToInsert
  <2> QED
    BY <1>2, <2>1
<1>8. ASSUME NEW k \in Keys, records[k] = None, records'[k] # None
      PROVE  \E i \in ToInsert : /\ Dump[i].key = k
                                 /\ records'[k] = [hash   |-> Dump[i].hash,
                                                   status |-> "published"]
  <2>1. mine(k) # {}
    BY <1>2, <1>8
  <2> QED
    BY <1>2, <1>3, <2>1
<1>9. ASSUME NEW i \in Batch PROVE records'[Dump[i].key] # None
  <2> DEFINE k == Dump[i].key
  <2>1. k \in Keys
    BY <1>1, LineType
  <2>2. CASE records[k] # None
    BY <1>7, <2>1, <2>2
  <2>3. CASE records[k] = None
    <3>1. mine(k) # {}
      BY <2>3 DEF ToInsert
    <3>2. records'[k] \in IndexRecord
      BY <1>2, <1>4, <2>1, <3>1
    <3> QED
      BY <3>2, IndexAssumption
  <2> QED
    BY <2>2, <2>3
<1> QED
  BY <1>6, <1>7, <1>8, <1>9

\* What a command leaves in memory when it ends.
LEMMA NoCommandType ==
    ASSUME OfflineTypeOK, NoCommand, spill' \in Tree \union {None},
           completed' \subseteq Lines, audited' \subseteq Partitions, loaded' \in BOOLEAN,
           runs' = runs
    PROVE  OfflineTypeOK'
<1>1. 1 \in 1 .. Len(Dump) + 1
  BY OfflineAssumption
<1> QED
  BY <1>1, EmptyTreeType DEF NoCommand, OfflineTypeOK, Ops

\* A part of a tree is a tree.
LEMMA PartFromType ==
    ASSUME NEW tree \in Tree, NEW p
    PROVE  PartFrom(tree, p) \in Tree
  BY DEF PartFrom, Tree

\* Roots set-root may go back to are trees.
LEMMA KnownRootsType ==
    ASSUME TypeOK, NEW p \in Partitions
    PROVE  KnownRoots(p) \subseteq Tree
<1> DEFINE mine == [k \in Keys |-> IF PartitionOf[k] = p THEN Legacy[k] ELSE None]
<1>1. mine \in Tree
  BY LegacyAssumption DEF Tree
<1>2. PartOf(Legacy, p) \in Tree \union {None}
  BY <1>1 DEF PartOf
<1> QED
  BY <1>2 DEF KnownRoots, TypeOK, IndexTypeOK, DocTypeOK

\* The steps of an ingest keep the types (bulk_load.rs, ingest).
LEMMA IngestType ==
    ASSUME BaseInv,
           \/ \E skip \in 0 .. Len(Dump) : IngestStart(skip)
           \/ FlushBatch \/ PutDone \/ IngestEnd \/ IngestCut
    PROVE  BaseInv'
<1> USE DEF BaseInv
<1>t. /\ TypeOK /\ OfflineTypeOK /\ CommandsApart
      /\ {pos, stop, from} \subseteq 1 .. Len(Dump) + 1 /\ pos <= stop /\ Len(Dump) \in Nat
      /\ buffered \in Tree /\ spill \in Tree \union {None}
  BY OfflineAssumption DEF OfflineTypeOK
<1>v. ASSUME UNCHANGED vars PROVE TypeOK' /\ Stopped'
  BY <1>v DEF vars, indexVars, docVars, taskVars, apiVars, TypeOK, IndexTypeOK, DocTypeOK,
     PublisherTypeOK, ApiTypeOK, CommandsApart, Stopped
<1>1. ASSUME NEW skip \in 0 .. Len(Dump), IngestStart(skip) PROVE BaseInv'
  <2>1. TypeOK' /\ Stopped'
    BY <1>1, <1>v DEF IngestStart
  <2>2. /\ from' = skip + 1 /\ pos' = skip + 1 /\ skip + 1 \in 1 .. Len(Dump) + 1
        /\ stop' \in 1 .. Len(Dump) + 1 /\ skip + 1 <= stop'
    BY <1>1, OfflineAssumption DEF IngestStart
  <2>3. spill' \in Tree
    BY <1>1, <1>t, EmptyTreeType DEF IngestStart
  <2>4. /\ UNCHANGED <<puts, buffered, source, todo, missing, completed, audited, loaded>>
        /\ op' = "ingest" /\ runs' = runs + 1 /\ phase = "down" /\ phase' = phase
    BY <1>1 DEF IngestStart, Free, vars
  <2>5. OfflineTypeOK'
    BY <2>2, <2>3, <2>4 DEF OfflineTypeOK, Ops
  <2> QED
    BY <2>1, <2>3, <2>4, <2>5, IndexAssumption DEF CommandsApart
<1>2. CASE FlushBatch
  <2>1. /\ pos < stop /\ bulk_mark_published(ToInsert)
        /\ UNCHANGED <<op, stop, from, spill, source, todo, missing, completed, runs, loaded,
                       docVars, denylist, taskVars, apiVars, phase, calm>>
    BY <1>2 DEF FlushBatch
  <2>2. IndexTypeOK'
    BY <1>t, <2>1, IngestClaims
  <2>3. TypeOK'
    BY <2>1, <2>2 DEF TypeOK, DocTypeOK, PublisherTypeOK, ApiTypeOK, docVars, taskVars, apiVars
  <2>4. buffered' \in Tree
    BY <1>t, <1>2, <2>1, SpillLeafType, AppendType DEF FlushBatch
  <2>5. puts' \subseteq Hashes
    <3>1. \A i \in ToPut : Dump[i].hash \in Hashes
      BY <1>t, <2>1, BatchLinesType, LineType
    <3> QED
      BY <1>2, <3>1 DEF FlushBatch, OfflineTypeOK
  <2>6. pos' \in 1 .. Len(Dump) + 1 /\ pos' <= stop'
    BY <1>t, <1>2, <2>1, BatchLinesType DEF FlushBatch
  <2>7. audited' \subseteq Partitions
    BY <1>2 DEF FlushBatch, OfflineTypeOK
  <2>8. OfflineTypeOK'
    BY <2>1, <2>4, <2>5, <2>6, <2>7 DEF OfflineTypeOK
  <2> QED
    BY <2>1, <2>3, <2>8 DEF CommandsApart, Stopped, taskVars
<1>3. CASE PutDone
  <2>1. PICK h \in puts : blobs' = blobs \union {h} /\ puts' = puts \ {h}
    BY <1>3 DEF PutDone
  <2>2. UNCHANGED <<op, pos, stop, from, buffered, spill, source, todo, missing,
                    completed, runs, audited, loaded,
                    indexVars, docVars, denylist, taskVars, req, detached, acked, phase, calm>>
    BY <1>3 DEF PutDone
  <2>3. OfflineTypeOK'
    BY <2>1, <2>2 DEF OfflineTypeOK
  <2>4. ApiTypeOK'
    BY <2>1, <2>2 DEF TypeOK, ApiTypeOK, OfflineTypeOK
  <2>5. TypeOK'
    BY <2>2, <2>4 DEF TypeOK, IndexTypeOK, DocTypeOK, PublisherTypeOK, indexVars, docVars, taskVars
  <2> QED
    BY <2>2, <2>3, <2>5 DEF CommandsApart, Stopped, taskVars
<1>4. CASE IngestEnd
  <2>1. spill' = Append1st(spill, buffered) /\ NoCommand /\ UNCHANGED <<runs, audited, loaded, vars>>
        /\ completed' = completed \union (from .. stop - 1)
    BY <1>4 DEF IngestEnd
  <2>2. spill' \in Tree
    BY <1>t, <1>4, <2>1, AppendType DEF IngestEnd, CommandsApart
  <2>3. completed' \subseteq Lines
    <3>1. from \in Nat /\ stop \in Nat /\ from >= 1 /\ stop <= Len(Dump) + 1
      BY <1>t
    <3>2. from .. stop - 1 \subseteq Lines
      BY <1>t, <3>1 DEF Lines
    <3> QED
      BY <2>1, <3>2 DEF OfflineTypeOK
  <2>4. OfflineTypeOK'
    BY <1>t, <2>1, <2>2, <2>3, NoCommandType DEF OfflineTypeOK
  <2> QED
    BY <1>v, <2>1, <2>4 DEF NoCommand, CommandsApart
<1>5. CASE IngestCut
  <2>1. NoCommand /\ UNCHANGED <<completed, runs, audited, loaded, vars>> /\ op = "ingest"
    BY <1>5 DEF IngestCut
  <2>2. PICK lines \in {buffered, Append1st(buffered, [k \in Keys |-> SpillLeaf(k)])},
             kept \in SUBSET Keys :
             spill' = Append1st(spill, [k \in Keys |-> IF k \in kept THEN lines[k] ELSE None])
    BY <1>5 DEF IngestCut
  <2>3. lines \in Tree
    BY <1>t, <2>2, SpillLeafType, AppendType
  <2>4. [k \in Keys |-> IF k \in kept THEN lines[k] ELSE None] \in Tree
    BY <2>3 DEF Tree
  <2>5. spill' \in Tree
    BY <1>t, <2>1, <2>2, <2>4, AppendType DEF CommandsApart
  <2>6. OfflineTypeOK'
    BY <1>t, <2>1, <2>5, NoCommandType DEF OfflineTypeOK
  <2> QED
    BY <1>v, <2>1, <2>6 DEF NoCommand, CommandsApart
<1>6. ASSUME NEW skip \in 0 .. Len(Dump), IngestStart(skip) PROVE BaseInv'
  BY <1>1, <1>6
<1> QED
  BY <1>2, <1>3, <1>4, <1>5, <1>6

\* The steps of a build, an audit and a root change keep the types
\* (bulk_load.rs, build_trees and retimestamp; verify.rs).
LEMMA PartitionsType ==
    ASSUME BaseInv,
           \/ BuildStart \/ retimestamp \/ BuildPartition \/ BuildLocal
           \/ \E parts \in {Partitions} \union {{p} : p \in Partitions} : VerifyStart(parts)
           \/ VerifyPartition \/ VerifyError \/ RequeueOne \/ PartitionAudited
           \/ \E p \in Partitions : \E tree \in KnownRoots(p) : set_root(p, tree)
           \/ SetRootLocal \/ CommandCut
    PROVE  BaseInv'
<1> USE DEF BaseInv
<1>t. TypeOK /\ OfflineTypeOK /\ CommandsApart /\ runs \in Nat
  BY DEF OfflineTypeOK
<1>v. ASSUME UNCHANGED vars PROVE TypeOK' /\ Stopped' /\ phase' = phase
  BY <1>v DEF vars, indexVars, docVars, taskVars, apiVars, TypeOK, IndexTypeOK, DocTypeOK,
     PublisherTypeOK, ApiTypeOK, CommandsApart, Stopped
<1>i. ASSUME IndexTypeOK', UNCHANGED <<docVars, denylist, taskVars, apiVars, phase, calm>>
      PROVE  TypeOK' /\ Stopped' /\ phase' = phase
  BY <1>i DEF docVars, taskVars, apiVars, TypeOK, DocTypeOK, PublisherTypeOK, ApiTypeOK,
     CommandsApart, Stopped
<1>d. ASSUME DocTypeOK', UNCHANGED <<indexVars, denylist, taskVars, apiVars, phase, calm>>
      PROVE  TypeOK' /\ Stopped' /\ phase' = phase
  BY <1>d DEF indexVars, taskVars, apiVars, TypeOK, IndexTypeOK, PublisherTypeOK, ApiTypeOK,
     CommandsApart, Stopped
<1>p. Partitions # {} /\ \A p \in Partitions : {p} \subseteq Partitions /\ {p} # {}
  BY FirstPartition
<1>c. ASSUME op \notin {"none", "ingest"}
      PROVE  phase = "down" /\ Current \in todo /\ Current \in Partitions
  BY <1>t, <1>c, CurrentType DEF CommandsApart, OfflineTypeOK
<1>e. ASSUME NoCommand, UNCHANGED <<spill, runs>>, completed' = completed,
             audited' \subseteq Partitions, loaded' \in BOOLEAN, TypeOK', Stopped'
      PROVE  BaseInv'
  <2>1. OfflineTypeOK'
    BY <1>t, <1>e, NoCommandType DEF OfflineTypeOK
  <2> QED
    BY <1>e, <2>1 DEF NoCommand, CommandsApart
<1>1. CASE BuildStart \/ retimestamp
  <2>a. runs' = runs + 1
    BY <1>1 DEF BuildStart, retimestamp, Free
  <2>b. loaded' = FALSE
    BY <1>1 DEF BuildStart, retimestamp
  <2>0. runs' \in Nat /\ loaded' \in BOOLEAN
    <3>1. runs' \in Nat
      BY <1>t, <2>a
    <3>2. loaded' \in BOOLEAN
      BY <2>b
    <3> QED
      BY <3>1, <3>2
  <2>1. /\ op' = "build" /\ todo' = Partitions /\ phase = "down"
        /\ UNCHANGED <<pos, stop, from, puts, buffered, spill, missing, completed, audited, vars>>
    BY <1>1 DEF BuildStart, retimestamp, Free
  <2>2. source' \in Tree
    <3>1. CASE BuildStart
      BY <3>1 DEF BuildStart, OfflineTypeOK
    <3>2. CASE retimestamp
      <4>1. ASSUME NEW k \in Keys
            PROVE  (IF IsPublished(k) THEN records[k].hash ELSE None) \in Hashes \union {None}
        BY DEF IsPublished, TypeOK, IndexTypeOK, IndexRecord
      <4> QED
        BY <3>2, <4>1 DEF retimestamp, Tree
    <3> QED
      BY <1>1, <3>1, <3>2
  <2>3. OfflineTypeOK'
    BY <2>0, <2>1, <2>2 DEF OfflineTypeOK, Ops
  <2> QED
    BY <1>v, <1>p, <2>1, <2>3 DEF CommandsApart
<1>2. CASE BuildPartition
  <2>1. /\ op = "build" /\ op' = "build_local" /\ audited' = audited \ {Current}
        /\ set_partition_root(Current, PartFrom(source, Current))
        /\ UNCHANGED <<pos, stop, from, puts, buffered, spill, source, todo, missing,
                       completed, runs, loaded,
                       indexVars, denylist, taskVars, apiVars, phase, calm>>
    BY <1>2 DEF BuildPartition
  <2>2. PartFrom(source, Current) \in Tree
    BY PartFromType DEF OfflineTypeOK
  <2>3. DocTypeOK'
    BY <2>1, <2>2 DEF set_partition_root, TypeOK, DocTypeOK
  <2>4. OfflineTypeOK'
    BY <2>1 DEF OfflineTypeOK, Ops
  <2> QED
    BY <1>c, <1>d, <2>1, <2>3, <2>4 DEF CommandsApart
<1>3. CASE BuildLocal
  <2>1. /\ op = "build_local"
        /\ set_local_root(Current, PartFrom(source, Current))
        /\ UNCHANGED <<spill, completed, runs, audited,
                       docVars, denylist, taskVars, apiVars, phase, calm>>
    BY <1>3 DEF BuildLocal
  <2>2. PartFrom(source, Current) \in Tree
    BY PartFromType DEF OfflineTypeOK
  <2>3. IndexTypeOK'
    BY <2>1, <2>2 DEF set_local_root, TypeOK, IndexTypeOK
  <2>4. TypeOK' /\ Stopped' /\ phase' = phase
    BY <1>i, <2>1, <2>3
  <2>5. CASE todo = {Current}
    <3>1. NoCommand /\ loaded' \in BOOLEAN
      BY <1>3, <2>5 DEF BuildLocal
    <3> QED
      BY <1>e, <2>1, <2>4, <3>1 DEF OfflineTypeOK
  <2>6. CASE todo # {Current}
    <3>1. /\ op' = "build" /\ todo' = todo \ {Current}
          /\ UNCHANGED <<pos, stop, from, puts, buffered, source, missing, loaded>>
      BY <1>3, <2>6 DEF BuildLocal
    <3>2. OfflineTypeOK'
      BY <2>1, <3>1 DEF OfflineTypeOK, Ops
    <3>3. todo' # {}
      BY <1>c, <2>1, <2>6, <3>1
    <3> QED
      BY <1>c, <2>1, <2>4, <3>1, <3>2, <3>3 DEF CommandsApart
  <2> QED
    BY <2>5, <2>6
<1>4. ASSUME NEW parts \in {Partitions} \union {{p} : p \in Partitions}, VerifyStart(parts)
      PROVE  BaseInv'
  <2>1. /\ op' = "verify" /\ todo' = parts /\ runs' = runs + 1 /\ phase = "down"
        /\ UNCHANGED <<pos, stop, from, puts, buffered, spill, source, missing,
                       completed, audited, loaded, vars>>
    BY <1>4 DEF VerifyStart, Free
  <2>2. parts \subseteq Partitions /\ parts # {}
    BY <1>p
  <2>3. OfflineTypeOK'
    BY <1>t, <2>1, <2>2 DEF OfflineTypeOK, Ops
  <2> QED
    BY <1>v, <2>1, <2>2, <2>3 DEF CommandsApart
<1>5. CASE VerifyPartition
  <2>1. /\ op = "verify" /\ op' = "requeue"
        /\ UNCHANGED <<pos, stop, from, puts, buffered, spill, source, todo,
                       completed, runs, audited, loaded, vars>>
    BY <1>5 DEF VerifyPartition
  <2>2. missing' \subseteq Keys
    BY <1>5 DEF VerifyPartition, Gaps
  <2>3. OfflineTypeOK'
    BY <2>1, <2>2 DEF OfflineTypeOK, Ops
  <2> QED
    BY <1>v, <2>1, <2>3 DEF CommandsApart
<1>6. CASE VerifyError \/ CommandCut
  <2>1. NoCommand /\ UNCHANGED <<spill, completed, runs, audited, loaded, vars>>
    BY <1>6 DEF VerifyError, CommandCut
  <2> QED
    BY <1>e, <1>v, <2>1 DEF OfflineTypeOK
<1>7. CASE RequeueOne
  <2>1. /\ op = "requeue"
        /\ UNCHANGED <<op, pos, stop, from, puts, buffered, spill, source, todo,
                       completed, runs, audited, loaded,
                       docVars, denylist, taskVars, apiVars, phase, calm>>
    BY <1>7 DEF RequeueOne
  <2>2. PICK k \in missing : requeue(k) /\ missing' = missing \ {k}
    BY <1>7 DEF RequeueOne
  <2>3. k \in Keys
    BY DEF OfflineTypeOK
  <2>4. IndexTypeOK'
    BY <2>2, <2>3 DEF requeue, TypeOK, IndexTypeOK, Row
  <2>5. OfflineTypeOK'
    BY <2>1, <2>2 DEF OfflineTypeOK
  <2> QED
    BY <1>i, <2>1, <2>4, <2>5 DEF CommandsApart
<1>8. CASE PartitionAudited
  <2>1. /\ op = "requeue" /\ audited' = audited \union {Current}
        /\ UNCHANGED <<spill, completed, runs, loaded, vars>>
    BY <1>8 DEF PartitionAudited
  <2>2. audited' \subseteq Partitions
    BY <1>c, <2>1 DEF OfflineTypeOK
  <2>3. CASE todo = {Current}
    BY <1>8, <1>e, <1>v, <2>1, <2>2, <2>3 DEF PartitionAudited, OfflineTypeOK
  <2>4. CASE todo # {Current}
    <3>1. /\ op' = "verify" /\ todo' = todo \ {Current}
          /\ UNCHANGED <<pos, stop, from, puts, buffered, source, missing>>
      BY <1>8, <2>4 DEF PartitionAudited
    <3>2. OfflineTypeOK'
      BY <2>1, <2>2, <3>1 DEF OfflineTypeOK, Ops
    <3>3. todo' # {}
      BY <1>c, <2>1, <2>4, <3>1
    <3> QED
      BY <1>c, <1>v, <2>1, <3>1, <3>2, <3>3 DEF CommandsApart
  <2> QED
    BY <2>3, <2>4
<1>9. ASSUME NEW p \in Partitions, NEW tree \in KnownRoots(p), set_root(p, tree)
      PROVE  BaseInv'
  <2>a. runs' = runs + 1
    BY <1>9 DEF set_root, Free
  <2>b. loaded' = FALSE
    BY <1>9 DEF set_root
  <2>0. runs' \in Nat /\ loaded' \in BOOLEAN
    <3>1. runs' \in Nat
      BY <1>t, <2>a
    <3>2. loaded' \in BOOLEAN
      BY <2>b
    <3> QED
      BY <3>1, <3>2
  <2>1. /\ op' = "set_local" /\ source' = tree /\ todo' = {p}
        /\ audited' = audited \ {p} /\ phase = "down"
        /\ set_partition_root(p, tree)
        /\ UNCHANGED <<pos, stop, from, puts, buffered, spill, missing, completed,
                       indexVars, denylist, taskVars, apiVars, phase, calm>>
    BY <1>9 DEF set_root, Free
  <2>2. tree \in Tree
    BY <1>t, KnownRootsType
  <2>3. DocTypeOK'
    BY <2>1, <2>2 DEF set_partition_root, TypeOK, DocTypeOK
  <2>4. OfflineTypeOK'
    BY <2>0, <2>1, <2>2 DEF OfflineTypeOK, Ops
  <2> QED
    BY <1>d, <2>1, <2>3, <2>4 DEF CommandsApart
<1>10. CASE SetRootLocal
  <2>1. /\ NoCommand /\ set_local_root(Current, source)
        /\ UNCHANGED <<spill, completed, runs, audited, loaded,
                       docVars, denylist, taskVars, apiVars, phase, calm>>
    BY <1>10 DEF SetRootLocal
  <2>2. IndexTypeOK'
    BY <2>1 DEF set_local_root, TypeOK, IndexTypeOK, OfflineTypeOK
  <2> QED
    BY <1>e, <1>i, <2>1, <2>2 DEF OfflineTypeOK
<1> QED
  BY <1>1, <1>2, <1>3, <1>4, <1>5, <1>6, <1>7, <1>8, <1>9, <1>10

-----------------------------------------------------------------------------
(***************************************************************************)
(* Steps of the daemon, by what they write.                                *)
(***************************************************************************)
\* A step of the daemon claims keys, leaves index, document and cycle alone,
\* leaves a cycle, or is a step of one.
LEMMA DaemonSteps ==
    ASSUME TypeOK, Stopped, [Next]_vars
    PROVE  \/ \E subs \in Positioned : submit_many(subs) /\ UNCHANGED <<docVars, taskVars>>
           \/ UNCHANGED <<indexVars, doc_roots, taskVars>>
           \/ /\ UNCHANGED <<indexVars, doc_roots>> /\ batch' \subseteq batch
              /\ pc' \notin {"set_doc", "set_local", "mark_published"}
           \/ \E f, last \in BOOLEAN : BeginCycle(last, f)
           \/ \E f \in BOOLEAN : seed_local_roots(f) \/ heal_pointer_doc(f) \/ BuildTree(f)
           \/ NothingToBuild \/ SetDocRoot \/ SetLocalRoot \/ mark_published \/ mark_denylisted
<1>f. (~calm) \in BOOLEAN /\ TRUE \in BOOLEAN /\ FALSE \in BOOLEAN
  OBVIOUS
<1>q. ASSUME \/ HealDue \/ SeedFails \/ HealFails \/ CycleFails \/ RootUnreadable \/ StopIdle(~calm)
      PROVE  /\ UNCHANGED <<indexVars, doc_roots>> /\ batch' \subseteq batch
             /\ pc' \notin {"set_doc", "set_local", "mark_published"}
  BY <1>q DEF HealDue, SeedFails, HealFails, CycleFails, RootUnreadable, StopIdle, Leave, Goto,
     CycleEnds, docVars
<1>1. CASE Start \/ Crash
  <2>1. /\ UNCHANGED <<indexVars, doc_roots>> /\ batch' \subseteq batch
        /\ pc' \notin {"set_doc", "set_local", "mark_published"}
    BY <1>1 DEF Start, Crash, TaskStart, TaskOff, docVars
  <2> QED
    BY <2>1
<1>2. CASE \/ Sigterm \/ HandlersDone \/ Exit \/ FaultsCease
           \/ EntryBlobLost \/ EditDenylist \/ UNCHANGED vars
  <2>1. UNCHANGED <<indexVars, doc_roots, taskVars>>
    BY <1>2 DEF Sigterm, HandlersDone, Exit, FaultsCease, EntryBlobLost, LoseEntryBlob,
       EditDenylist, vars, docVars
  <2> QED
    BY <2>1
<1>3. ASSUME NEW c \in Clients, Handle(c)
      PROVE  \/ \E subs \in Positioned : submit_many(subs) /\ UNCHANGED <<docVars, taskVars>>
             \/ UNCHANGED <<indexVars, doc_roots, taskVars>>
  <2>1. UNCHANGED <<docVars, taskVars>>
    BY <1>3 DEF Handle
  <2>2. req[c].subs \in Positioned
    BY DEF TypeOK, ApiTypeOK, Handler
  <2>3. submit_many(req[c].subs) \/ UNCHANGED indexVars
    BY <1>3 DEF Handle, Arrive, put, Submit, SubmitFails, Disconnect
  <2> QED
    BY <2>1, <2>2, <2>3 DEF docVars
<1>4. CASE Detached
  <2>1. PICK subs \in detached : DetachedSubmit(subs) \/ DetachedFails(subs)
    BY <1>4 DEF Detached
  <2>2. subs \in Positioned /\ UNCHANGED <<docVars, taskVars>>
    BY <1>4 DEF TypeOK, ApiTypeOK, Detached
  <2>3. submit_many(subs) \/ UNCHANGED indexVars
    BY <2>1 DEF DetachedSubmit, DetachedFails
  <2> QED
    BY <2>2, <2>3 DEF docVars
<1>5. CASE Publish
  <2>1. PublisherNext(~calm)
    BY <1>5 DEF Publish
  <2> QED
    BY <1>f, <1>q, <2>1 DEF PublisherNext
<1>6. CASE Drain
  <2>1. BeginCycle(TRUE, ~calm) \/ StopIdle(~calm)
    BY <1>6 DEF Drain
  <2> QED
    BY <1>f, <1>q, <2>1
<1>7. CASE PublisherFails
  BY <1>7, <1>q DEF PublisherFails
<1> QED
  BY <1>1, <1>2, <1>3, <1>4, <1>5, <1>6, <1>7 DEF Next

\* The daemon and the commands keep the types, and never run together.
LEMMA StepBase == BaseInv /\ [OfflineNext]_allVars => BaseInv'
<1> SUFFICES ASSUME BaseInv, [OfflineNext]_allVars PROVE BaseInv'
  OBVIOUS
<1>1. CASE Daemon(Next) \/ UNCHANGED allVars
  <2>1. [Next]_vars /\ UNCHANGED offVars /\ (op = "none" \/ UNCHANGED vars)
    BY <1>1 DEF Daemon, allVars
  <2>2. TypeOK' /\ Stopped'
    BY <2>1, StepType, StepStopped DEF BaseInv, CommandsApart
  <2>3. OfflineTypeOK'
    BY <2>1 DEF offVars, cmdVars, OfflineTypeOK, BaseInv
  <2>4. op' # "none" => phase' = phase
    BY <2>1 DEF offVars, cmdVars, vars
  <2> QED
    BY <2>1, <2>2, <2>3, <2>4 DEF BaseInv, CommandsApart, offVars, cmdVars
<1>2. CASE CommandStarts \/ CommandStep \/ IngestCut \/ CommandCut
  BY <1>2, IngestType, PartitionsType DEF CommandStarts, CommandStep
<1> QED
  BY <1>1, <1>2 DEF OfflineNext

\* A data directory before the first command.
LEMMA InitBase == OfflineInit => BaseInv
<1> SUFFICES ASSUME OfflineInit PROVE BaseInv
  OBVIOUS
<1>1. TypeOK
  BY InitType DEF OfflineInit
<1>2. 1 \in 1 .. Len(Dump) + 1 /\ 1 <= 1
  BY OfflineAssumption
<1>3. OfflineTypeOK
  BY <1>2, EmptyTreeType DEF OfflineInit, OfflineTypeOK, Ops
<1> QED
  BY <1>1, <1>3 DEF BaseInv, CommandsApart, Stopped, OfflineInit, Init

\* Every variable of the commands keeps its shape, whatever --skip an ingest is
\* given up to the length of the dump and wherever a command stops.
THEOREM OfflineTypeCorrect == OfflineSpec => []OfflineTypeOK
<1>1. BaseInv => OfflineTypeOK
  BY DEF BaseInv
<1> QED
  BY <1>1, InitBase, StepBase, PTL DEF OfflineSpec

-----------------------------------------------------------------------------
(***************************************************************************)
(* Bindings.                                                               *)
(***************************************************************************)
\* A daemon step keeps every binding; what it adds is pending.
LEMMA DaemonBinds ==
    ASSUME TypeOK, Stopped, [Next]_vars, NEW k \in Keys
    PROVE  /\ records[k] # None => records'[k] # None /\ records'[k].hash = records[k].hash
           /\ records[k] = None /\ records'[k] # None => records'[k].status = "pending"
<1>t. IndexTypeOK
  BY DEF TypeOK
<1>1. ASSUME NEW subs \in Positioned, submit_many(subs)
      PROVE  /\ records[k] # None => records'[k] # None /\ records'[k].hash = records[k].hash
             /\ records[k] = None /\ records'[k] # None => records'[k].status = "pending"
  <2>1. /\ records[k] # None => records'[k] = records[k]
        /\ records[k] = None /\ records'[k] # None =>
              \E i \in DOMAIN subs : /\ subs[i].key = k
                                     /\ records'[k] = [hash |-> subs[i].hash,
                                                       status |-> "pending"]
    BY <1>t, <1>1, SubmitClaims
  <2>2. ASSUME records[k] = None, records'[k] # None PROVE records'[k].status = "pending"
    <3>1. PICK i \in DOMAIN subs : records'[k] = [hash |-> subs[i].hash, status |-> "pending"]
      BY <2>1, <2>2
    <3> QED
      BY <3>1
  <2>3. ASSUME records[k] # None
        PROVE  records'[k] # None /\ records'[k].hash = records[k].hash
    BY <2>1, <2>3
  <2> QED
    BY <2>2, <2>3
<1>2. ASSUME NEW items, NEW status \in Status, finish(items, status)
      PROVE  /\ records[k] # None => records'[k] # None /\ records'[k].hash = records[k].hash
             /\ records[k] = None /\ records'[k] # None => records'[k].status = "pending"
  BY <1>t, <1>2, FinishType
<1>3. CASE records' = records
  BY <1>3
<1>4. \/ \E subs \in Positioned : submit_many(subs)
      \/ records' = records
      \/ finish(Publishable, "published") \/ finish(Denylisted, "denylisted")
  BY DaemonSteps DEF indexVars, BeginCycle, seed_local_roots, heal_pointer_doc, BuildTree,
     NothingToBuild, SetDocRoot, SetLocalRoot, set_local_root, mark_published, mark_denylisted
<1>5. "published" \in Status /\ "denylisted" \in Status
  BY DEF Status
<1> QED
  BY <1>1, <1>2, <1>3, <1>4, <1>5

\* Of the commands only an ingest writes records, and only a batch of it.
LEMMA CommandRecords ==
    ASSUME CommandStarts \/ CommandStep \/ IngestCut \/ CommandCut
    PROVE  records' = records \/ FlushBatch
<1>1. ASSUME CommandStarts PROVE records' = records
  BY <1>1 DEF CommandStarts, IngestStart, BuildStart, retimestamp, VerifyStart, set_root,
     vars, indexVars
<1>2. ASSUME CommandStep, ~FlushBatch PROVE records' = records
  BY <1>2 DEF CommandStep, PutDone, IngestEnd, BuildPartition, BuildLocal, VerifyPartition,
     VerifyError, RequeueOne, requeue, PartitionAudited, SetRootLocal, set_local_root,
     vars, indexVars
<1>3. ASSUME IngestCut \/ CommandCut PROVE records' = records
  BY <1>3 DEF IngestCut, CommandCut, vars, indexVars
<1> QED
  BY <1>1, <1>2, <1>3

\* The content a key is bound to never changes.
BindingKept(k) ==
    records[k] # None => records'[k] # None /\ records'[k].hash = records[k].hash

\* A step of the daemon or of a command changes no binding.
LEMMA StepBinds ==
    ASSUME BaseInv, [OfflineNext]_allVars, NEW k \in Keys
    PROVE  BindingKept(k)
<1>1. CASE Daemon(Next) \/ UNCHANGED allVars
  <2>1. [Next]_vars
    BY <1>1 DEF Daemon, allVars
  <2> QED
    BY <2>1, DaemonBinds DEF BaseInv, CommandsApart, BindingKept
<1>2. CASE FlushBatch
  <2>1. bulk_mark_published(ToInsert)
    BY <1>2 DEF FlushBatch
  <2> QED
    BY <2>1, IngestClaims DEF BaseInv, BindingKept
<1>3. CASE records' = records
  BY <1>3 DEF BindingKept
<1> QED
  BY <1>1, <1>2, <1>3, CommandRecords DEF OfflineNext

(***************************************************************************)
(* Immutability, dumps against clients: whichever of a client's submission *)
(* and a line of a dump binds a key first, no later submission, ingest,    *)
(* repeated or cut off, publish cycle, build or audit rebinds or unbinds   *)
(* it.                                                                     *)
(***************************************************************************)
THEOREM BindingsNeverChangeHolds == OfflineSpec => BindingsNeverChange
<1>1. BaseInv /\ [OfflineNext]_allVars =>
        [\A k \in Keys : records[k] # None =>
            records'[k] # None /\ records'[k].hash = records[k].hash]_allVars
  BY StepBinds DEF BindingKept
<1> QED
  BY <1>1, InitBase, StepBase, PTL DEF OfflineSpec, BindingsNeverChange

-----------------------------------------------------------------------------
(***************************************************************************)
(* Bytes.                                                                  *)
(***************************************************************************)
\* A handler that reaches its transaction has stored its bytes.
HandlersStored ==
    /\ \A c \in Clients : req[c].at = "submit" =>
          \A i \in DOMAIN req[c].subs : req[c].subs[i].hash \in blobs
    /\ \A subs \in detached : \A i \in DOMAIN subs : subs[i].hash \in blobs

\* A record without bytes is that of a line whose ingest never ended.
BytesOrLine ==
    \A k \in Keys : records[k] # None =>
        \/ records[k].hash \in blobs
        \/ \E i \in Lines \ completed : Dump[i].key = k /\ Dump[i].hash = records[k].hash

\* What an ingest that ended has left, and what a running one has in hand.
IngestedSoFar ==
    /\ \A i \in completed : records[Dump[i].key] # None
    /\ op = "ingest" => \A i \in from .. pos - 1 :
          /\ records[Dump[i].key] # None
          /\ records[Dump[i].key].hash = Dump[i].hash => Dump[i].hash \in blobs \union puts

BytesInv == HandlersStored /\ BytesOrLine /\ IngestedSoFar

\* A step of the daemon stores bytes before it claims keys (api.rs).
LEMMA DaemonBytes ==
    ASSUME TypeOK, Stopped, HandlersStored, [Next]_vars
    PROVE  /\ HandlersStored' /\ blobs \subseteq blobs'
           /\ \A k \in Keys : records[k] = None /\ records'[k] # None =>
                 records'[k].hash \in blobs'
<1>t. IndexTypeOK /\ req \in [Clients -> Handler]
  BY DEF TypeOK, ApiTypeOK
<1>s. ASSUME NEW subs \in Positioned, submit_many(subs), UNCHANGED blobs,
             \A i \in DOMAIN subs : subs[i].hash \in blobs
      PROVE  \A k \in Keys : records[k] = None /\ records'[k] # None =>
                 records'[k].hash \in blobs'
  <2>1. ASSUME NEW k \in Keys, records[k] = None, records'[k] # None
        PROVE  \E i \in DOMAIN subs : /\ subs[i].key = k
                                      /\ records'[k] = [hash |-> subs[i].hash,
                                                        status |-> "pending"]
    BY <1>t, <1>s, <2>1, SubmitClaims
  <2>2. ASSUME NEW k \in Keys, records[k] = None, records'[k] # None
        PROVE  records'[k].hash \in blobs'
    <3>1. PICK i \in DOMAIN subs : records'[k] = [hash |-> subs[i].hash, status |-> "pending"]
      BY <2>1, <2>2
    <3>2. records'[k].hash = subs[i].hash
      BY <3>1
    <3> QED
      BY <1>s, <3>2
  <2> QED
    BY <2>2
<1>n. NoRequest.at # "submit"
  BY DEF NoRequest
<1>1. ASSUME NEW c \in Clients, Handle(c)
      PROVE  /\ HandlersStored' /\ blobs \subseteq blobs'
             /\ \A k \in Keys : records[k] = None /\ records'[k] # None =>
                 records'[k].hash \in blobs'
  <2>0. req[c] \in Handler /\ req[c].subs \in Positioned
    BY <1>t DEF Handler
  <2>1. ASSUME NEW r \in Requests, Arrive(c, r)
        PROVE  HandlersStored' /\ blobs \subseteq blobs' /\ records' = records
    <3>1. /\ UNCHANGED <<records, blobs, detached>>
          /\ req'[c].at = "put" /\ \A d \in Clients \ {c} : req'[d] = req[d]
      BY <1>t, <2>1 DEF Arrive, indexVars
    <3> QED
      BY <3>1 DEF HandlersStored
  <2>2. ASSUME NEW ok \in SUBSET DOMAIN req[c].subs, put(c, ok)
        PROVE  HandlersStored' /\ blobs \subseteq blobs' /\ records' = records
    <3>1. /\ UNCHANGED <<records, detached>>
          /\ blobs' = blobs \union {req[c].subs[i].hash : i \in ok}
          /\ req'[c].subs = Only(req[c].subs, ok)
          /\ \A d \in Clients \ {c} : req'[d] = req[d]
      BY <1>t, <2>0, <2>2 DEF put, indexVars, Handler
    <3>2. \A i \in DOMAIN req'[c].subs : req'[c].subs[i].hash \in blobs'
      <4>1. DOMAIN Only(req[c].subs, ok) = ok
            /\ \A i \in ok : Only(req[c].subs, ok)[i] = req[c].subs[i]
        BY DEF Only
      <4> QED
        BY <3>1, <4>1
    <3> QED
      BY <3>1, <3>2 DEF HandlersStored
  <2>3. CASE Submit(c)
    <3>1. /\ submit_many(req[c].subs) /\ req[c].at = "submit" /\ UNCHANGED <<blobs, detached>>
          /\ \A d \in Clients : req'[d] = IF d = c THEN NoRequest ELSE req[d]
      BY <1>t, <2>3 DEF Submit
    <3>2. \A i \in DOMAIN req[c].subs : req[c].subs[i].hash \in blobs
      BY <3>1 DEF HandlersStored
    <3>3. HandlersStored'
      BY <1>n, <3>1 DEF HandlersStored
    <3> QED
      BY <1>s, <2>0, <3>1, <3>2, <3>3
  <2>4. ASSUME SubmitFails(c) \/ Disconnect(c)
        PROVE  HandlersStored' /\ blobs \subseteq blobs' /\ records' = records
    <3>1. UNCHANGED records /\ blobs \subseteq blobs'
      BY <2>4 DEF SubmitFails, Disconnect, indexVars
    <3>2. \A d \in Clients : req'[d] = IF d = c THEN NoRequest ELSE req[d]
      BY <1>t, <2>4 DEF SubmitFails, Disconnect
    <3>3. \/ detached' = detached
          \/ detached' = detached \union {req[c].subs} /\ req[c].at = "submit"
      BY <2>4 DEF SubmitFails, Disconnect
    <3> QED
      BY <1>n, <3>1, <3>2, <3>3 DEF HandlersStored
  <2> QED
    BY <1>1, <2>1, <2>2, <2>3, <2>4 DEF Handle
<1>2. CASE Detached
  <2>1. PICK subs \in detached : DetachedSubmit(subs) \/ DetachedFails(subs)
    BY <1>2 DEF Detached
  <2>2. /\ UNCHANGED <<blobs, req>> /\ detached' \subseteq detached
        /\ submit_many(subs) \/ records' = records
    BY <2>1 DEF DetachedSubmit, DetachedFails, indexVars
  <2>3. subs \in Positioned /\ \A i \in DOMAIN subs : subs[i].hash \in blobs
    BY DEF TypeOK, ApiTypeOK, HandlersStored
  <2>4. HandlersStored'
    BY <2>2 DEF HandlersStored
  <2> QED
    BY <1>s, <2>2, <2>3, <2>4
<1>3. ASSUME \/ Start \/ Sigterm \/ HandlersDone \/ Exit \/ FaultsCease \/ Crash
             \/ EntryBlobLost \/ EditDenylist \/ UNCHANGED vars
      PROVE  HandlersStored' /\ blobs' = blobs /\ records' = records
  <2>1. blobs' = blobs /\ records' = records
    BY <1>3 DEF Start, Sigterm, HandlersDone, Exit, FaultsCease, Crash, EntryBlobLost,
       EditDenylist, vars, indexVars, apiVars
  <2>2. UNCHANGED <<req, detached>> \/ (UNCHANGED req /\ detached' = {})
        \/ (req' = [c \in Clients |-> NoRequest] /\ detached' = {})
    BY <1>3 DEF Start, Sigterm, HandlersDone, Exit, FaultsCease, Crash, EntryBlobLost,
       EditDenylist, vars, apiVars
  <2> QED
    BY <1>n, <2>1, <2>2 DEF HandlersStored
<1>4. CASE Publish \/ Drain \/ PublisherFails
  <2>1. UNCHANGED apiVars
    BY <1>4 DEF Publish, Drain, PublisherFails
  <2>2. HandlersStored' /\ blobs' = blobs
    BY <2>1 DEF HandlersStored, apiVars
  <2>3. ASSUME NEW k \in Keys, records[k] = None PROVE records'[k] = None
    <3>1. ASSUME NEW items, NEW status \in Status, finish(items, status)
          PROVE  records'[k] = None
      BY <1>t, <2>3, <3>1, FinishType
    <3>2. \/ records' = records
          \/ finish(Publishable, "published") \/ finish(Denylisted, "denylisted")
      BY <1>4 DEF Publish, Drain, PublisherFails, PublisherNext, indexVars, BeginCycle,
         seed_local_roots, heal_pointer_doc, BuildTree, NothingToBuild, SetDocRoot, SetLocalRoot,
         set_local_root, mark_published, mark_denylisted, HealDue, RootUnreadable, StopIdle,
         SeedFails, HealFails, CycleFails
    <3> QED
      BY <2>3, <3>1, <3>2 DEF Status
  <2> QED
    BY <2>2, <2>3
<1> QED
  BY <1>1, <1>2, <1>3, <1>4 DEF Next

\* Every step keeps the account of the bytes.
LEMMA StepBytes == BaseInv /\ BytesInv /\ [OfflineNext]_allVars => BytesInv'
<1> SUFFICES ASSUME BaseInv, BytesInv, [OfflineNext]_allVars PROVE BytesInv'
  OBVIOUS
<1>t. /\ TypeOK /\ OfflineTypeOK /\ Stopped /\ completed \subseteq Lines
      /\ from \in Nat /\ from >= 1 /\ pos \in Nat /\ stop \in Nat /\ stop <= Len(Dump) + 1
      /\ pos <= stop /\ Len(Dump) \in Nat
  BY OfflineAssumption DEF BaseInv, CommandsApart, OfflineTypeOK
<1>l. \A i \in Lines : Dump[i].key \in Keys
  BY LineType
<1>f. \A i \in from .. pos - 1 : i \in Lines
  BY <1>t DEF Lines
<1>b. \A k \in Keys : records[k] # None =>
          records'[k] # None /\ records'[k].hash = records[k].hash
  BY StepBinds DEF BindingKept
<1>h. ASSUME UNCHANGED <<blobs, req, detached>> PROVE HandlersStored'
  BY <1>h DEF BytesInv, HandlersStored
<1>1. CASE Daemon(Next) \/ UNCHANGED allVars
  <2>1. [Next]_vars /\ UNCHANGED <<op, from, pos, puts, completed>>
    BY <1>1 DEF Daemon, allVars, offVars, cmdVars
  <2>2. /\ HandlersStored' /\ blobs \subseteq blobs'
        /\ \A k \in Keys : records[k] = None /\ records'[k] # None =>
                 records'[k].hash \in blobs'
    BY <1>t, <2>1, DaemonBytes DEF BytesInv
  <2>3. BytesOrLine'
    BY <1>b, <2>1, <2>2 DEF BytesInv, BytesOrLine
  <2>4. IngestedSoFar'
    BY <1>t, <1>b, <1>l, <1>f, <2>1, <2>2 DEF BytesInv, IngestedSoFar
  <2> QED
    BY <2>2, <2>3, <2>4 DEF BytesInv
<1>2. CASE FlushBatch
  <2>1. /\ bulk_mark_published(ToInsert) /\ op = "ingest" /\ pos' = BatchEnd
        /\ puts' = puts \union {Dump[i].hash : i \in ToPut}
        /\ UNCHANGED <<op, from, completed, blobs, req, detached>>
    BY <1>2 DEF FlushBatch, apiVars
  <2>2. /\ \A k \in Keys : records[k] = None /\ records'[k] # None =>
              \E i \in ToInsert : /\ Dump[i].key = k
                                  /\ records'[k] = [hash   |-> Dump[i].hash,
                                                    status |-> "published"]
        /\ \A i \in Batch : records'[Dump[i].key] # None
    BY <1>t, <2>1, IngestClaims
  <2>3. /\ Batch \subseteq Lines /\ ToInsert \subseteq Batch
        /\ BatchEnd \in Nat /\ pos <= BatchEnd
    BY <1>t, BatchLinesType
  <2>4. ASSUME NEW k \in Keys, records'[k] # None
        PROVE  \/ records'[k].hash \in blobs'
               \/ \E i \in Lines \ completed : Dump[i].key = k /\ Dump[i].hash = records'[k].hash
    <3>1. CASE records[k] # None
      BY <1>b, <2>1, <3>1 DEF BytesInv, BytesOrLine
    <3>2. CASE records[k] = None
      <4>1. PICK i \in ToInsert : /\ Dump[i].key = k
                                  /\ records'[k] = [hash   |-> Dump[i].hash,
                                                    status |-> "published"]
        BY <2>2, <2>4, <3>2
      <4>2. i \in Lines \ completed
        BY <2>3, <3>2, <4>1 DEF BytesInv, IngestedSoFar
      <4>3. records'[k].hash = Dump[i].hash
        BY <4>1
      <4> QED
        BY <4>1, <4>2, <4>3
    <3> QED
      BY <3>1, <3>2
  <2>5. BytesOrLine'
    BY <2>1, <2>4 DEF BytesOrLine
  <2>6. ASSUME NEW i \in from' .. pos' - 1
        PROVE  /\ records'[Dump[i].key] # None
               /\ records'[Dump[i].key].hash = Dump[i].hash => Dump[i].hash \in blobs' \union puts'
    <3>1. CASE i \in from .. pos - 1
      BY <1>b, <1>l, <1>f, <2>1, <3>1 DEF BytesInv, IngestedSoFar
    <3>2. CASE i \notin from .. pos - 1
      <4>1. i \in Batch
        BY <1>t, <2>1, <2>3, <2>6, <3>2 DEF Batch
      <4>2. Dump[i].key \in Keys
        BY <1>l, <2>3, <4>1
      <4>3. CASE i \in ToPut
        BY <2>1, <2>2, <4>1, <4>3
      <4>4. CASE i \notin ToPut
        <5>1. records[Dump[i].key] # None /\ records[Dump[i].key].hash # Dump[i].hash
          BY <4>1, <4>4 DEF ToPut, ToInsert
        <5> QED
          BY <1>b, <4>2, <5>1
      <4> QED
        BY <4>3, <4>4
    <3> QED
      BY <3>1, <3>2
  <2>7. \A i \in completed' : records'[Dump[i].key] # None
    BY <1>t, <1>b, <1>l, <2>1 DEF BytesInv, IngestedSoFar
  <2>8. IngestedSoFar'
    BY <2>6, <2>7 DEF IngestedSoFar
  <2> QED
    BY <1>h, <2>1, <2>5, <2>8 DEF BytesInv
<1>3. CASE PutDone
  <2>1. /\ records' = records /\ UNCHANGED <<op, from, pos, completed, req, detached>>
        /\ \E h \in puts : blobs' = blobs \union {h} /\ puts' = puts \ {h}
    BY <1>3 DEF PutDone, indexVars
  <2>2. blobs \subseteq blobs' /\ blobs' \union puts' = blobs \union puts
    BY <2>1
  <2>3. HandlersStored' /\ BytesOrLine'
    BY <2>1, <2>2 DEF BytesInv, HandlersStored, BytesOrLine
  <2>4. IngestedSoFar'
    BY <2>1, <2>2 DEF BytesInv, IngestedSoFar
  <2> QED
    BY <2>3, <2>4 DEF BytesInv
<1>4. CASE IngestEnd
  <2>1. /\ UNCHANGED <<records, blobs, req, detached>> /\ op' = "none"
        /\ op = "ingest" /\ pos = stop /\ puts = {}
        /\ completed' = completed \union (from .. stop - 1)
    BY <1>4 DEF IngestEnd, NoCommand, vars, indexVars, apiVars
  <2>2. \A i \in from .. stop - 1 :
          /\ records[Dump[i].key] # None
          /\ records[Dump[i].key].hash = Dump[i].hash => Dump[i].hash \in blobs
    BY <2>1 DEF BytesInv, IngestedSoFar
  <2>3. BytesOrLine'
    BY <2>1, <2>2 DEF BytesInv, BytesOrLine
  <2>4. IngestedSoFar'
    BY <2>1, <2>2 DEF BytesInv, IngestedSoFar
  <2> QED
    BY <1>h, <2>1, <2>3, <2>4 DEF BytesInv
<1>5. ASSUME UNCHANGED <<records, completed, blobs, req, detached>>,
             op' # "ingest" \/ pos' = from'
      PROVE  BytesInv'
  <2>1. BytesOrLine'
    BY <1>5 DEF BytesInv, BytesOrLine
  <2>2. pos' = from' => from' .. pos' - 1 = {}
    <3>1. pos' \in Nat
      BY <1>t, StepBase DEF BaseInv, OfflineTypeOK
    <3>2. \A a \in Nat : a .. a - 1 = {}
      OBVIOUS
    <3> QED
      BY <3>1, <3>2, Zenon
  <2>3. IngestedSoFar'
    BY <1>5, <2>2 DEF BytesInv, IngestedSoFar
  <2> QED
    BY <1>h, <1>5, <2>1, <2>3 DEF BytesInv
<1>6. ASSUME NEW skip \in 0 .. Len(Dump), IngestStart(skip) PROVE BytesInv'
  BY <1>5, <1>6 DEF IngestStart, vars, indexVars, apiVars
<1>7. CASE CommandStarts
  <2>1. CASE BuildStart \/ retimestamp \/
             \E parts \in {Partitions} \union {{p} : p \in Partitions} : VerifyStart(parts)
    BY <1>5, <2>1 DEF BuildStart, retimestamp, VerifyStart, vars, indexVars, apiVars
  <2>2. CASE \E p \in Partitions : \E tree \in KnownRoots(p) : set_root(p, tree)
    BY <1>5, <2>2 DEF set_root, indexVars, apiVars
  <2> QED
    BY <1>6, <1>7, <2>1, <2>2 DEF CommandStarts
<1>8. CASE \/ BuildPartition \/ BuildLocal \/ VerifyPartition \/ VerifyError \/ RequeueOne
           \/ PartitionAudited \/ SetRootLocal \/ IngestCut \/ CommandCut
  <2>1. UNCHANGED <<records, completed, blobs, req, detached>>
    BY <1>8 DEF BuildPartition, BuildLocal, VerifyPartition, VerifyError, RequeueOne, requeue,
       PartitionAudited, SetRootLocal, set_local_root, IngestCut, CommandCut, vars, indexVars,
       apiVars
  <2>2. op' # "ingest"
    BY <1>8 DEF BuildPartition, BuildLocal, VerifyPartition, VerifyError, RequeueOne,
       PartitionAudited, SetRootLocal, IngestCut, CommandCut, NoCommand
  <2> QED
    BY <1>5, <2>1, <2>2
<1> QED
  BY <1>1, <1>2, <1>3, <1>4, <1>7, <1>8 DEF OfflineNext, CommandStep

\* Nothing has been ingested, and what an older version published has bytes.
LEMMA InitBytes == OfflineInit => BytesInv
<1> SUFFICES ASSUME OfflineInit PROVE BytesInv
  OBVIOUS
<1>1. Inv /\ completed = {} /\ op = "none"
  BY InitInv DEF OfflineInit
<1>2. BytesFirst
  BY <1>1 DEF Inv
<1> QED
  BY <1>1, <1>2 DEF BytesFirst, BytesInv, HandlersStored, BytesOrLine, IngestedSoFar

(***************************************************************************)
(* A record whose bytes nobody has stored is that of a dump line whose     *)
(* ingest never ended well: running that chunk again stores them.  This    *)
(* holds however ingest runs overlap, repeat or are cut off between the    *)
(* index transaction and the puts, and whatever clients claim meanwhile.   *)
(***************************************************************************)
THEOREM BytesAccountedForHolds == OfflineSpec => []BytesAccountedFor
<1>1. BytesInv => BytesAccountedFor
  BY DEF BytesInv, BytesOrLine, BytesAccountedFor
<1> QED
  BY <1>1, InitBase, InitBytes, StepBase, StepBytes, PTL DEF OfflineSpec

-----------------------------------------------------------------------------
(***************************************************************************)
(* Publish cycles over a queue that may hold several rows of one key.      *)
(***************************************************************************)
\* No two rows share a number, a batch item never shares one with the row of
\* another key, and both are below the counter.
RowsDistinct ==
    /\ RowsBelowCounter
    /\ \A r, s \in queue : r.seq = s.seq => r = s
    /\ \A it \in batch : it.seq < next_seq
    /\ \A it \in batch : \A r \in queue : it.seq = r.seq => it.key = r.key

\* The tree that replaces a root holds what the writer's root holds and what
\* the cycle publishes.
NewRootGrows ==
    pc \in {"set_doc", "set_local"} =>
        /\ new_root # None /\ CurrentPartition \in Partitions
        /\ \A k \in Keys : InTree(WriterRoot(CurrentPartition), k) => InTree(new_root, k)
        /\ \A it \in Publishable : InTree(new_root, it.key)

\* What is about to be called published is in the writer's tree.
MarkedIsListed ==
    pc = "mark_published" =>
        \A it \in Publishable : InTree(WriterRoot(CurrentPartition), it.key)

CycleInv == RowsDistinct /\ NewRootGrows /\ MarkedIsListed

\* Rows go, none comes.
LEMMA RowsShrink ==
    ASSUME RowsDistinct, queue' \subseteq queue, next_seq' = next_seq, batch' \subseteq batch
    PROVE  RowsDistinct'
  BY DEF RowsDistinct, RowsBelowCounter

\* The daemon never numbers two rows alike.
LEMMA DaemonRows ==
    ASSUME TypeOK, Stopped, RowsDistinct, [Next]_vars
    PROVE  RowsDistinct'
<1>t. next_seq \in Nat /\ queue \subseteq Row /\ batch \subseteq BatchItem
  BY DEF TypeOK, IndexTypeOK, PublisherTypeOK
<1>1. ASSUME NEW subs \in Positioned, submit_many(subs), UNCHANGED taskVars
      PROVE  RowsDistinct'
  <2> DEFINE n == Cardinality(Fresh(subs))
  <2>1. n \in Nat /\ \A r \in NewRows(subs) : r.seq \in Nat /\ next_seq <= r.seq
                                              /\ r.seq < next_seq + n
    BY RowsNumbered
  <2>2. \A r, s \in NewRows(subs) : r.seq = s.seq => r = s
    BY RowsNumbered
  <2>3. queue' = queue \union NewRows(subs) /\ next_seq' = next_seq + n /\ batch' = batch
    BY <1>1 DEF submit_many, taskVars
  <2> HIDE DEF n
  <2>4. ASSUME NEW r \in queue \union batch
        PROVE  r.seq < next_seq + n /\ \A s \in NewRows(subs) : r.seq # s.seq
    <3>1. r.seq \in Nat /\ r.seq < next_seq
      BY <1>t DEF RowsDistinct, RowsBelowCounter, Row, BatchItem
    <3> QED
      BY <1>t, <2>1, <3>1
  <2>5. RowsBelowCounter'
    BY <2>1, <2>3, <2>4 DEF RowsBelowCounter
  <2>6. \A r, s \in queue' : r.seq = s.seq => r = s
    BY <2>2, <2>3, <2>4 DEF RowsDistinct
  <2>7. \A it \in batch' : it.seq < next_seq'
    BY <2>3, <2>4
  <2>8. \A it \in batch' : \A r \in queue' : it.seq = r.seq => it.key = r.key
    BY <2>3, <2>4 DEF RowsDistinct
  <2> QED
    BY <2>5, <2>6, <2>7, <2>8 DEF RowsDistinct
<1>2. ASSUME NEW f \in BOOLEAN, NEW last \in BOOLEAN, BeginCycle(last, f) PROVE RowsDistinct'
  <2>1. UNCHANGED <<queue, next_seq>> /\ batch' = pending_batch(MaxPending)
    BY <1>2 DEF BeginCycle, indexVars
  <2>2. \A it \in batch' : \E r \in queue : r.seq = it.seq /\ r.key = it.key
    <3> DEFINE Oldest == {q \in Joined : Cardinality({o \in Joined : o.seq < q.seq}) < MaxPending}
    <3>1. batch' = {[seq |-> r.seq, key |-> r.key, hash |-> records[r.key].hash] : r \in Oldest}
      BY <2>1 DEF pending_batch
    <3>2. Oldest \subseteq queue
      BY DEF Joined
    <3> HIDE DEF Oldest
    <3> QED
      BY <3>1, <3>2
  <2>3. \A it \in batch' : it.seq < next_seq
    BY <2>2 DEF RowsDistinct, RowsBelowCounter
  <2>4. \A it \in batch' : \A r \in queue : it.seq = r.seq => it.key = r.key
    BY <2>2 DEF RowsDistinct
  <2> QED
    BY <2>1, <2>3, <2>4 DEF RowsDistinct, RowsBelowCounter
<1>3. CASE UNCHANGED indexVars /\ batch' \subseteq batch
  BY <1>3, RowsShrink DEF indexVars
<1>4. CASE \E f \in BOOLEAN : seed_local_roots(f) \/ heal_pointer_doc(f) \/ BuildTree(f)
  BY <1>4, RowsShrink DEF seed_local_roots, heal_pointer_doc, BuildTree, set_local_root,
     Advance, indexVars
<1>5. CASE \/ NothingToBuild \/ SetDocRoot \/ SetLocalRoot
  BY <1>5, RowsShrink DEF NothingToBuild, SetDocRoot, SetLocalRoot, set_local_root, Goto, indexVars
<1>6. CASE mark_published \/ mark_denylisted
  <2>1. queue' \subseteq queue /\ next_seq' = next_seq
    BY <1>6 DEF mark_published, mark_denylisted, finish
  <2>2. batch' \subseteq batch
    BY <1>6 DEF mark_published, mark_denylisted, Goto, CycleEnds
  <2> QED
    BY <2>1, <2>2, RowsShrink
<1>7. UNCHANGED taskVars => batch' \subseteq batch
  BY DEF taskVars
<1> QED
  BY <1>1, <1>2, <1>3, <1>4, <1>5, <1>6, <1>7, DaemonSteps

\* What a step of the daemon leaves of the roots of partition p.
RootsGrow(p, k) ==
    /\ InTree(WriterRoot(p), k) => InTree(WriterRoot(p), k)'
    /\ InTree(local_roots[p], k) => InTree(local_roots[p], k)'
    /\ InTree(local_roots[p], k) /\ InTree(doc_roots[p], k) => InTree(doc_roots[p], k)'

\* Steps that write no root.
LEMMA RootsKept ==
    ASSUME NewRootGrows, MarkedIsListed, UNCHANGED <<local_roots, doc_roots>>,
           \/ UNCHANGED taskVars
           \/ pc' \notin {"set_doc", "set_local", "mark_published"}
           \/ Publishable = {} /\ UNCHANGED <<batch, denied>> /\ pc' = "mark_published"
    PROVE  /\ NewRootGrows' /\ MarkedIsListed'
           /\ \A p \in Partitions, k \in Keys : RootsGrow(p, k)
<1>1. UNCHANGED <<batch, denied>> =>
          CurrentPartition' = CurrentPartition /\ Publishable' = Publishable
  BY DEF CurrentPartition, Publishable, Items
<1>2. \A p : WriterRoot(p)' = WriterRoot(p)
  BY DEF WriterRoot
<1>3. \A p \in Partitions, k \in Keys : RootsGrow(p, k)
  BY <1>2 DEF RootsGrow, InTree
<1> QED
  BY <1>1, <1>2, <1>3 DEF NewRootGrows, MarkedIsListed, InTree, taskVars

\* Seeding and healing copy a root where there is none (seed_local_roots) or
\* over one that is older (heal_pointer_doc).
LEMMA CopiesGrow ==
    ASSUME TypeOK, NEW f \in BOOLEAN, seed_local_roots(f) \/ heal_pointer_doc(f)
    PROVE  /\ NewRootGrows' /\ MarkedIsListed'
           /\ \A p \in Partitions, k \in Keys : RootsGrow(p, k)
<1>t. cursor \in Partitions
  BY DEF TypeOK, PublisherTypeOK
<1>1. pc' \notin {"set_doc", "set_local", "mark_published"}
  BY DEF seed_local_roots, heal_pointer_doc, Advance
<1>2. CASE seed_local_roots(f)
  <2>1. \/ UNCHANGED <<local_roots, doc_roots>>
        \/ /\ local_roots[cursor] = None /\ doc_roots[cursor] # None
           /\ local_roots' = [local_roots EXCEPT ![cursor] = doc_roots[cursor]]
           /\ doc_roots' = doc_roots
    BY <1>t, <1>2, ReadType, DocAssumption, IndexAssumption
       DEF seed_local_roots, set_local_root, indexVars, docVars, TypeOK
  <2> QED
    BY <1>t, <1>1, <2>1 DEF RootsGrow, InTree, WriterRoot, TypeOK, IndexTypeOK,
       NewRootGrows, MarkedIsListed
<1>3. CASE heal_pointer_doc(f)
  <2>1. \/ UNCHANGED <<local_roots, doc_roots>>
        \/ /\ local_roots[cursor] # None
           /\ doc_roots' = [doc_roots EXCEPT ![cursor] = local_roots[cursor]]
           /\ local_roots' = local_roots
    BY <1>3 DEF heal_pointer_doc, set_partition_root, indexVars, docVars
  <2> QED
    BY <1>t, <1>1, <2>1 DEF RootsGrow, InTree, WriterRoot, TypeOK, DocTypeOK,
       NewRootGrows, MarkedIsListed
<1> QED
  BY <1>2, <1>3

\* The keys of what a cycle publishes.
LEMMA PublishableKeys ==
    ASSUME TypeOK, NEW it \in Publishable
    PROVE  /\ it \in BatchItem /\ it.key \in Keys
           /\ PartitionOf[it.key] = CurrentPartition /\ CurrentPartition \in Partitions
<1>1. it \in batch /\ PartitionOf[it.key] = CurrentPartition
  BY DEF Publishable, Items
<1>2. it \in BatchItem /\ it.key \in Keys
  BY <1>1 DEF TypeOK, PublisherTypeOK, BatchItem
<1> QED
  BY <1>1, <1>2, IndexAssumption

\* The new tree extends the root it is built on (current_root, insert_batch).
LEMMA BuildGrows ==
    ASSUME TypeOK, NEW f \in BOOLEAN, BuildTree(f)
    PROVE  /\ NewRootGrows' /\ MarkedIsListed'
           /\ \A p \in Partitions, k \in Keys : RootsGrow(p, k)
<1>1. /\ UNCHANGED <<local_roots, doc_roots, batch, denied>>
      /\ pc' = "set_doc" /\ Publishable # {}
  BY DEF BuildTree, indexVars, docVars
<1>2. CurrentPartition \in Partitions /\ Publishable \in SUBSET BatchItem
      /\ \A it \in Publishable : it.key \in Keys
  BY <1>1, PublishableKeys
<1> DEFINE p == CurrentPartition
<1>3. PICK root \in current_root(p, f) \ {Unreadable} :
        new_root' = insert_batch(root, Publishable)
  BY DEF BuildTree
<1>4. root = WriterRoot(p) /\ root \in Tree \union {None}
  BY <1>2, <1>3, ReadType DEF current_root, WriterRoot, TypeOK, IndexTypeOK, DocTypeOK
<1>5. /\ new_root' \in Tree
      /\ \A k \in Keys : root # None /\ root[k] # None => new_root'[k] = root[k]
      /\ \A k \in Keys : (root = None \/ root[k] = None) =>
            IF k \in KeysOf(Publishable)
            THEN \E e \in Publishable : e.key = k /\ new_root'[k] = e.hash
            ELSE new_root'[k] = None
  BY <1>2, <1>3, <1>4, InsertTree
<1>6. new_root' # None
  BY <1>5, IndexAssumption
<1>7. ASSUME NEW it \in Publishable PROVE new_root'[it.key] # None
  <2>1. it.key \in Keys /\ it.key \in KeysOf(Publishable)
    BY <1>2 DEF KeysOf
  <2>2. CASE root # None /\ root[it.key] # None
    BY <1>5, <2>1, <2>2
  <2>3. CASE root = None \/ root[it.key] = None
    <3>1. PICK e \in Publishable : new_root'[it.key] = e.hash
      BY <1>5, <2>1, <2>3
    <3>2. e.hash \in Hashes
      BY <1>2 DEF BatchItem
    <3> QED
      BY <3>1, <3>2, IndexAssumption
  <2> QED
    BY <2>2, <2>3
<1>8. Publishable' = Publishable /\ CurrentPartition' = p
  BY <1>1 DEF Publishable, Items, CurrentPartition
<1>9. \A q : WriterRoot(q)' = WriterRoot(q)
  BY <1>1 DEF WriterRoot
<1> HIDE DEF p
<1>10. p \in Partitions /\ \A k \in Keys : InTree(WriterRoot(p), k) => InTree(new_root, k)'
  BY <1>2, <1>4, <1>5, <1>6 DEF InTree, p
<1>11. NewRootGrows'
  <2>1. \A it \in Publishable' : InTree(new_root, it.key)'
    BY <1>6, <1>7, <1>8 DEF InTree
  <2> QED
    BY <1>6, <1>8, <1>9, <1>10, <2>1 DEF NewRootGrows
<1>12. \A q \in Partitions, k \in Keys : RootsGrow(q, k)
  BY <1>1, <1>9 DEF RootsGrow, InTree
<1> QED
  BY <1>1, <1>11, <1>12 DEF MarkedIsListed

\* Writing the new tree to the document, then to the index.
LEMMA WritesGrow ==
    ASSUME TypeOK, NewRootGrows, SetDocRoot \/ SetLocalRoot
    PROVE  /\ NewRootGrows' /\ MarkedIsListed'
           /\ \A p \in Partitions, k \in Keys : RootsGrow(p, k)
<1>0. PICK p : p = CurrentPartition
  OBVIOUS
<1>1. /\ UNCHANGED <<batch, denied>> /\ new_root # None /\ p \in Partitions
      /\ \A k \in Keys : InTree(WriterRoot(p), k) => InTree(new_root, k)
      /\ \A it \in Publishable : InTree(new_root, it.key)
      /\ local_roots \in [Partitions -> Tree \union {None}]
      /\ doc_roots \in [Partitions -> Tree \union {None}]
  BY <1>0 DEF NewRootGrows, SetDocRoot, SetLocalRoot, Goto, TypeOK, IndexTypeOK, DocTypeOK
<1>2. CurrentPartition' = p /\ Publishable' = Publishable
  BY <1>0, <1>1 DEF CurrentPartition, Publishable, Items
<1>3. CASE SetDocRoot
  <2>1. /\ doc_roots' = [doc_roots EXCEPT ![p] = new_root] /\ local_roots' = local_roots
        /\ pc' = "set_local" /\ new_root' = new_root
    BY <1>0, <1>3 DEF SetDocRoot, set_partition_root, Goto, indexVars
  <2>2. ASSUME NEW q \in Partitions
        PROVE  /\ q # p => doc_roots'[q] = doc_roots[q] /\ WriterRoot(q)' = WriterRoot(q)
               /\ doc_roots'[p] = new_root
               /\ WriterRoot(p)' \in {WriterRoot(p), new_root}
               /\ local_roots[p] # None => WriterRoot(p) = local_roots[p]
    BY <1>1, <2>1 DEF WriterRoot
  <2>3. \A q \in Partitions, k \in Keys : RootsGrow(q, k)
    <3> SUFFICES ASSUME NEW q \in Partitions, NEW k \in Keys PROVE RootsGrow(q, k)
      OBVIOUS
    <3>1. InTree(local_roots[p], k) => InTree(new_root, k)
      BY <1>1, <2>2 DEF InTree
    <3>2. CASE q = p
      BY <1>1, <2>1, <2>2, <3>1, <3>2 DEF RootsGrow, InTree
    <3>3. CASE q # p
      BY <2>1, <2>2, <3>3 DEF RootsGrow, InTree
    <3> QED
      BY <3>2, <3>3
  <2>4. \A k \in Keys : InTree(WriterRoot(p), k)' => InTree(new_root, k)
    BY <1>1, <2>2 DEF InTree
  <2>5. NewRootGrows'
    BY <1>1, <1>2, <2>1, <2>4 DEF NewRootGrows, InTree
  <2> QED
    BY <2>1, <2>3, <2>5 DEF MarkedIsListed
<1>4. CASE SetLocalRoot
  <2>1. /\ local_roots' = [local_roots EXCEPT ![p] = new_root] /\ doc_roots' = doc_roots
        /\ pc' = "mark_published"
    BY <1>0, <1>4 DEF SetLocalRoot, set_local_root, docVars
  <2>2. ASSUME NEW q \in Partitions
        PROVE  /\ q # p => local_roots'[q] = local_roots[q] /\ WriterRoot(q)' = WriterRoot(q)
               /\ local_roots'[p] = new_root
               /\ WriterRoot(p)' = new_root
               /\ local_roots[p] # None => WriterRoot(p) = local_roots[p]
    BY <1>1, <2>1 DEF WriterRoot
  <2>3. \A q \in Partitions, k \in Keys : RootsGrow(q, k)
    <3> SUFFICES ASSUME NEW q \in Partitions, NEW k \in Keys PROVE RootsGrow(q, k)
      OBVIOUS
    <3>1. InTree(local_roots[p], k) => InTree(new_root, k)
      BY <1>1, <2>2 DEF InTree
    <3>2. CASE q = p
      BY <1>1, <2>1, <2>2, <3>1, <3>2 DEF RootsGrow, InTree
    <3>3. CASE q # p
      BY <2>1, <2>2, <3>3 DEF RootsGrow, InTree
    <3> QED
      BY <3>2, <3>3
  <2>4. MarkedIsListed'
    BY <1>1, <1>2, <2>2 DEF MarkedIsListed, InTree
  <2> QED
    BY <2>1, <2>3, <2>4 DEF NewRootGrows
<1> QED
  BY <1>3, <1>4

\* No step of the daemon takes a key out of a root (publisher.rs).
LEMMA DaemonRoots ==
    ASSUME TypeOK, Stopped, NewRootGrows, MarkedIsListed, [Next]_vars
    PROVE  /\ NewRootGrows' /\ MarkedIsListed'
           /\ \A p \in Partitions, k \in Keys : RootsGrow(p, k)
<1>1. CASE \E subs \in Positioned : submit_many(subs) /\ UNCHANGED <<docVars, taskVars>>
  <2>1. UNCHANGED <<local_roots, doc_roots, taskVars>>
    BY <1>1 DEF submit_many, docVars
  <2> QED
    BY <2>1, RootsKept
<1>2. CASE \/ UNCHANGED <<indexVars, doc_roots, taskVars>>
           \/ /\ UNCHANGED <<indexVars, doc_roots>> /\ batch' \subseteq batch
              /\ pc' \notin {"set_doc", "set_local", "mark_published"}
  BY <1>2, RootsKept DEF indexVars
<1>3. CASE \E f, last \in BOOLEAN : BeginCycle(last, f)
  <2>1. UNCHANGED <<local_roots, doc_roots>> /\ pc' \in {"build", "off", "idle"}
    BY <1>3 DEF BeginCycle, indexVars, docVars
  <2> QED
    BY <2>1, RootsKept
<1>4. CASE NothingToBuild
  <2>1. /\ UNCHANGED <<local_roots, doc_roots, batch, denied>> /\ Publishable = {}
        /\ pc' = "mark_published"
    BY <1>4 DEF NothingToBuild, Goto, indexVars, docVars
  <2> QED
    BY <2>1, RootsKept
<1>5. CASE mark_published \/ mark_denylisted
  <2>1. UNCHANGED <<local_roots, doc_roots>> /\ pc' \notin {"set_doc", "set_local", "mark_published"}
    BY <1>5 DEF mark_published, mark_denylisted, finish, Goto, CycleEnds, docVars
  <2> QED
    BY <2>1, RootsKept
<1> QED
  BY <1>1, <1>2, <1>3, <1>4, <1>5, DaemonSteps, CopiesGrow, BuildGrows, WritesGrow

-----------------------------------------------------------------------------
(***************************************************************************)
(* Audits.                                                                 *)
(***************************************************************************)
\* What an audit of k's partition promises of k.
Covered(k) == IsPublished(k) => InTree(WriterRoot(PartitionOf[k]), k) \/ Queued(k)

\* While gaps are re-queued: a published record of the partition that its tree
\* lacks is still listed as missing, or has its row.
GapsFound ==
    op = "requeue" => \A k \in Keys :
        PartitionOf[k] = Current => Covered(k) \/ k \in missing

\* A root that is being replaced belongs to no audited partition.
FluxUnaudited == op \in {"build_local", "set_local"} => Current \notin audited

AuditInv == AuditHolds /\ GapsFound /\ FluxUnaudited

\* A cycle keeps what an audit promised: it drops a row only with its key in
\* the tree or with its record denylisted (publisher.rs, index.rs finish).
LEMMA DaemonCovers ==
    ASSUME TypeOK, Stopped, CycleInv, [Next]_vars, NEW k \in Keys, Covered(k)
    PROVE  Covered(k)'
<1>t. IndexTypeOK /\ PartitionOf[k] \in Partitions
  BY IndexAssumption DEF TypeOK
<1>1. InTree(WriterRoot(PartitionOf[k]), k) => InTree(WriterRoot(PartitionOf[k]), k)'
  BY <1>t, DaemonRoots DEF CycleInv, RootsGrow
<1>2. ASSUME NEW subs \in Positioned, submit_many(subs) PROVE Covered(k)'
  <2>1. IsPublished(k)' => IsPublished(k)
    <3>1. /\ records[k] # None => records'[k] # None
          /\ records[k] = None /\ records'[k] # None => records'[k].status = "pending"
      BY DaemonBinds
    <3>2. records[k] # None => records'[k] = records[k]
      BY <1>t, <1>2, SubmitClaims
    <3> QED
      BY <3>1, <3>2 DEF IsPublished
  <2>2. Queued(k) => Queued(k)'
    BY <1>2 DEF Queued, submit_many
  <2> QED
    BY <1>1, <2>1, <2>2 DEF Covered
<1>3. ASSUME UNCHANGED <<records, queue>> PROVE Covered(k)'
  BY <1>1, <1>3 DEF Covered, IsPublished, Queued
<1>4. ASSUME NEW items \in SUBSET batch, NEW status \in {"published", "denylisted"},
             finish(items, status),
             status = "published" /\ k \in KeysOf(items) => InTree(WriterRoot(PartitionOf[k]), k)
      PROVE  Covered(k)'
  <2>1. /\ records[k] = None <=> records'[k] = None
        /\ records[k] # None =>
              records'[k].status = IF k \in KeysOf(items) THEN status ELSE records[k].status
    BY <1>t, <1>4, FinishType DEF Status
  <2>2. CASE k \in KeysOf(items)
    BY <1>1, <1>4, <2>1, <2>2 DEF Covered, IsPublished
  <2>3. CASE k \notin KeysOf(items)
    <3>1. IsPublished(k)' => IsPublished(k)
      BY <2>1, <2>3 DEF IsPublished
    <3>2. ASSUME NEW r \in queue, r.key = k PROVE r \in queue'
      <4>1. r.seq \notin SeqsOf(items)
        BY <2>3, <3>2 DEF SeqsOf, KeysOf, CycleInv, RowsDistinct
      <4> QED
        BY <1>4, <4>1 DEF finish
    <3>3. Queued(k) => Queued(k)'
      BY <3>2 DEF Queued
    <3> QED
      BY <1>1, <3>1, <3>3 DEF Covered
  <2> QED
    BY <2>2, <2>3
<1>5. Publishable \subseteq batch /\ Denylisted \subseteq batch
  BY DEF Publishable, Denylisted, Items
<1>6. CASE mark_published
  <2>1. finish(Publishable, "published") /\ pc = "mark_published"
    BY <1>6 DEF mark_published
  <2>2. ASSUME k \in KeysOf(Publishable) PROVE InTree(WriterRoot(PartitionOf[k]), k)
    <3>1. PICK it \in Publishable : it.key = k
      BY <2>2 DEF KeysOf
    <3>2. PartitionOf[k] = CurrentPartition
      BY <3>1, PublishableKeys
    <3> QED
      BY <2>1, <3>1, <3>2 DEF CycleInv, MarkedIsListed
  <2> QED
    BY <1>4, <1>5, <2>1, <2>2
<1>7. CASE mark_denylisted
  <2>1. finish(Denylisted, "denylisted")
    BY <1>7 DEF mark_denylisted
  <2> QED
    BY <1>4, <1>5, <2>1
<1>8. \/ \E subs \in Positioned : submit_many(subs)
      \/ UNCHANGED <<records, queue>> \/ mark_published \/ mark_denylisted
  BY DaemonSteps DEF indexVars, BeginCycle, seed_local_roots, heal_pointer_doc, BuildTree,
     NothingToBuild, SetDocRoot, SetLocalRoot, set_local_root
<1> QED
  BY <1>2, <1>3, <1>6, <1>7, <1>8

\* While a command runs the publisher is off, and stays off.
LEMMA CommandTask ==
    ASSUME BaseInv, CommandStarts \/ CommandStep \/ IngestCut \/ CommandCut
    PROVE  pc = "off" /\ UNCHANGED taskVars
<1>1. CASE CommandStarts
  BY <1>1 DEF CommandStarts, IngestStart, BuildStart, retimestamp, VerifyStart, set_root, Free,
     vars, BaseInv, CommandsApart, Stopped
<1>2. CASE CommandStep \/ IngestCut \/ CommandCut
  <2>1. op # "none"
    BY <1>2 DEF CommandStep, FlushBatch, PutDone, IngestEnd, BuildPartition, BuildLocal,
       VerifyPartition, VerifyError, RequeueOne, PartitionAudited, SetRootLocal, IngestCut, CommandCut
  <2>2. UNCHANGED taskVars
    BY <1>2 DEF CommandStep, FlushBatch, PutDone, IngestEnd, BuildPartition, BuildLocal,
       VerifyPartition, VerifyError, RequeueOne, PartitionAudited, SetRootLocal, IngestCut,
       CommandCut, vars
  <2> QED
    BY <2>1, <2>2 DEF BaseInv, CommandsApart, Stopped
<1> QED
  BY <1>1, <1>2

\* Of the commands only verify queues a row, and with a fresh number.
LEMMA CommandRows ==
    ASSUME BaseInv, CommandStarts \/ CommandStep \/ IngestCut \/ CommandCut
    PROVE  UNCHANGED <<queue, next_seq>> \/ RequeueOne
<1>1. ASSUME CommandStarts PROVE UNCHANGED <<queue, next_seq>>
  BY <1>1 DEF CommandStarts, IngestStart, BuildStart, retimestamp, VerifyStart, set_root,
     vars, indexVars
<1>2. ASSUME CommandStep, ~RequeueOne PROVE UNCHANGED <<queue, next_seq>>
  BY <1>2 DEF CommandStep, FlushBatch, bulk_mark_published, PutDone, IngestEnd, BuildPartition,
     BuildLocal, VerifyPartition, VerifyError, PartitionAudited, SetRootLocal, set_local_root,
     vars, indexVars
<1>3. ASSUME IngestCut \/ CommandCut PROVE UNCHANGED <<queue, next_seq>>
  BY <1>3 DEF IngestCut, CommandCut, vars, indexVars
<1> QED
  BY <1>1, <1>2, <1>3

\* Every step keeps the invariant of the cycles.
LEMMA StepCycle == BaseInv /\ CycleInv /\ [OfflineNext]_allVars => CycleInv'
<1> SUFFICES ASSUME BaseInv, CycleInv, [OfflineNext]_allVars PROVE CycleInv'
  OBVIOUS
<1>1. CASE Daemon(Next) \/ UNCHANGED allVars
  <2>1. [Next]_vars
    BY <1>1 DEF Daemon, allVars
  <2> QED
    BY <2>1, DaemonRows, DaemonRoots DEF BaseInv, CommandsApart, CycleInv
<1>2. CASE CommandStarts \/ CommandStep \/ IngestCut \/ CommandCut
  <2>1. pc' = "off" /\ batch' = batch
    BY <1>2, CommandTask DEF taskVars
  <2>2. NewRootGrows' /\ MarkedIsListed'
    BY <2>1 DEF NewRootGrows, MarkedIsListed
  <2>3. CASE UNCHANGED <<queue, next_seq>>
    BY <2>1, <2>2, <2>3, RowsShrink DEF CycleInv
  <2>4. CASE RequeueOne
    <3>1. PICK k \in missing : requeue(k)
      BY <2>4 DEF RequeueOne
    <3> DEFINE new == [seq |-> next_seq, key |-> k]
    <3>2. queue' = queue \union {new} /\ next_seq' = next_seq + 1 /\ new.seq = next_seq
      BY <3>1 DEF requeue
    <3> HIDE DEF new
    <3>3. next_seq \in Nat /\ \A r \in queue \union batch : r.seq \in Nat /\ r.seq < next_seq
      BY DEF BaseInv, TypeOK, IndexTypeOK, PublisherTypeOK, Row, BatchItem, CycleInv, RowsDistinct,
         RowsBelowCounter
    <3>4. RowsBelowCounter' /\ \A it \in batch' : it.seq < next_seq'
      BY <2>1, <3>2, <3>3 DEF RowsBelowCounter
    <3>5. \A r \in queue \union batch : r.seq # new.seq
      BY <3>2, <3>3
    <3>6. \A r, s \in queue' : r.seq = s.seq => r = s
      BY <3>2, <3>5 DEF CycleInv, RowsDistinct
    <3>7. \A it \in batch' : \A r \in queue' : it.seq = r.seq => it.key = r.key
      BY <2>1, <3>2, <3>5 DEF CycleInv, RowsDistinct
    <3>8. RowsDistinct'
      BY <3>4, <3>6, <3>7 DEF RowsDistinct
    <3> QED
      BY <2>2, <3>8 DEF CycleInv
  <2> QED
    BY <1>2, <2>3, <2>4, CommandRows
<1> QED
  BY <1>1, <1>2 DEF OfflineNext

\* A batch holds rows of records, and no record is ever unbound.
ItemsClaimed == \A it \in batch : records[it.key] # None

\* Only the start of a cycle puts items into a batch (publish_cycle).
LEMMA StepBatch ==
    ASSUME BaseInv, [OfflineNext]_allVars
    PROVE  \/ batch' \subseteq batch
           \/ records' = records /\ batch' = pending_batch(MaxPending)
<1>1. CASE Daemon(Next) \/ UNCHANGED allVars
  <2>1. [Next]_vars
    BY <1>1 DEF Daemon, allVars
  <2>2. TypeOK /\ Stopped
    BY DEF BaseInv, CommandsApart
  <2>3. ASSUME NEW f \in BOOLEAN, NEW last \in BOOLEAN, BeginCycle(last, f)
        PROVE  records' = records /\ batch' = pending_batch(MaxPending)
    BY <2>3 DEF BeginCycle, indexVars
  <2>4. ASSUME \/ \E f \in BOOLEAN : seed_local_roots(f) \/ heal_pointer_doc(f) \/ BuildTree(f)
               \/ NothingToBuild \/ SetDocRoot \/ SetLocalRoot \/ mark_published \/ mark_denylisted
        PROVE  batch' \subseteq batch
    BY <2>4 DEF seed_local_roots, heal_pointer_doc, BuildTree, Advance, NothingToBuild, SetDocRoot,
       SetLocalRoot, mark_published, mark_denylisted, Goto, CycleEnds
  <2>5. UNCHANGED taskVars => batch' \subseteq batch
    BY DEF taskVars
  <2> QED
    BY <2>1, <2>2, <2>3, <2>4, <2>5, DaemonSteps
<1>2. CASE CommandStarts \/ CommandStep \/ IngestCut \/ CommandCut
  BY <1>2, CommandTask DEF taskVars
<1> QED
  BY <1>1, <1>2 DEF OfflineNext

\* Every step keeps the records of the items in a batch.
LEMMA StepClaimed == BaseInv /\ ItemsClaimed /\ [OfflineNext]_allVars => ItemsClaimed'
<1> SUFFICES ASSUME BaseInv, ItemsClaimed, [OfflineNext]_allVars PROVE ItemsClaimed'
  OBVIOUS
<1>1. CASE batch' \subseteq batch
  <2>1. \A it \in batch : it.key \in Keys
    BY DEF BaseInv, TypeOK, PublisherTypeOK, BatchItem
  <2>2. \A it \in batch : records'[it.key] # None
    BY <2>1, StepBinds DEF BindingKept, ItemsClaimed
  <2> QED
    BY <1>1, <2>2 DEF ItemsClaimed
<1>2. CASE records' = records /\ batch' = pending_batch(MaxPending)
  <2> DEFINE Oldest == {q \in Joined : Cardinality({o \in Joined : o.seq < q.seq}) < MaxPending}
  <2>1. batch' = {[seq |-> r.seq, key |-> r.key, hash |-> records[r.key].hash] : r \in Oldest}
    BY <1>2 DEF pending_batch
  <2>2. \A r \in Oldest : records[r.key] # None
    BY DEF Joined
  <2> HIDE DEF Oldest
  <2>3. \A it \in batch' : \E r \in Oldest : it.key = r.key
    BY <2>1
  <2> QED
    BY <1>2, <2>2, <2>3 DEF ItemsClaimed
<1> QED
  BY <1>1, <1>2, StepBatch

\* A key whose row has gone is in the writer's tree, or its record is denylisted.
Settled(k) ==
    \/ InTree(WriterRoot(PartitionOf[k]), k)
    \/ records[k] # None /\ records[k].status = "denylisted"

\* finish drops the rows of the batch's numbers and no others; a number is the
\* row's own, so the row's key is the one that was written or denied.
LEMMA StepSettles ==
    ASSUME BaseInv, CycleInv, ItemsClaimed, [OfflineNext]_allVars, NEW r \in queue \ queue'
    PROVE  Settled(r.key)'
<1>t. /\ TypeOK /\ Stopped /\ IndexTypeOK /\ r.key \in Keys
      /\ PartitionOf[r.key] \in Partitions
  BY IndexAssumption DEF BaseInv, CommandsApart, TypeOK, IndexTypeOK, Row
<1>1. ASSUME NEW items \in SUBSET batch, NEW status \in Status, finish(items, status)
      PROVE  r.key \in KeysOf(items)
  <2>1. r.seq \in SeqsOf(items)
    BY <1>1 DEF finish
  <2>2. PICK it \in items : it.seq = r.seq
    BY <2>1 DEF SeqsOf
  <2>3. it.key = r.key
    BY <1>1, <2>2 DEF CycleInv, RowsDistinct
  <2> QED
    BY <2>2, <2>3 DEF KeysOf
<1>2. Publishable \subseteq batch /\ Denylisted \subseteq batch
      /\ "published" \in Status /\ "denylisted" \in Status
  BY DEF Publishable, Denylisted, Items, Status
<1>3. CASE Daemon(Next) \/ UNCHANGED allVars
  <2>1. [Next]_vars
    BY <1>3 DEF Daemon, allVars
  <2>2. CASE mark_published
    <3>1. finish(Publishable, "published") /\ pc = "mark_published"
      BY <2>2 DEF mark_published
    <3>2. PICK it \in Publishable : it.key = r.key
      BY <1>1, <1>2, <3>1 DEF KeysOf
    <3>3. PartitionOf[r.key] = CurrentPartition
      BY <1>t, <3>2, PublishableKeys
    <3>4. InTree(WriterRoot(PartitionOf[r.key]), r.key)
      BY <3>1, <3>2, <3>3 DEF CycleInv, MarkedIsListed
    <3>5. InTree(WriterRoot(PartitionOf[r.key]), r.key)'
      BY <1>t, <2>1, <3>4, DaemonRoots DEF CycleInv, RootsGrow
    <3> QED
      BY <3>5 DEF Settled
  <2>3. CASE mark_denylisted
    <3>1. finish(Denylisted, "denylisted")
      BY <2>3 DEF mark_denylisted
    <3>2. r.key \in KeysOf(Denylisted)
      BY <1>1, <1>2, <3>1
    <3>3. records[r.key] # None
      BY <1>2, <3>2 DEF KeysOf, ItemsClaimed
    <3>4. records'[r.key] # None /\ records'[r.key].status = "denylisted"
      BY <1>t, <1>2, <3>1, <3>2, <3>3, FinishType
    <3> QED
      BY <3>4 DEF Settled
  <2>4. \/ \E subs \in Positioned : submit_many(subs)
        \/ queue' = queue \/ mark_published \/ mark_denylisted
    BY <1>t, <2>1, DaemonSteps DEF indexVars, BeginCycle, seed_local_roots, heal_pointer_doc,
       BuildTree, NothingToBuild, SetDocRoot, SetLocalRoot, set_local_root
  <2>5. (\E subs \in Positioned : submit_many(subs)) => queue \subseteq queue'
    BY DEF submit_many
  <2> QED
    BY <2>2, <2>3, <2>4, <2>5
<1>4. CASE CommandStarts \/ CommandStep \/ IngestCut \/ CommandCut
  <2>1. queue \subseteq queue'
    BY <1>4, CommandRows DEF RequeueOne, requeue
  <2> QED
    BY <2>1
<1> QED
  BY <1>3, <1>4 DEF OfflineNext

\* A published record that was covered stays so while its partition's root
\* and the queue's rows stay.
LEMMA CoveredKept ==
    ASSUME NEW k \in Keys, Covered(k), IsPublished(k)' => IsPublished(k), queue \subseteq queue',
           PartitionOf[k] \in Partitions =>
               /\ local_roots'[PartitionOf[k]] = local_roots[PartitionOf[k]]
               /\ doc_roots'[PartitionOf[k]] = doc_roots[PartitionOf[k]]
    PROVE  Covered(k)'
<1>1. PartitionOf[k] \in Partitions
  BY IndexAssumption
<1>2. WriterRoot(PartitionOf[k])' = WriterRoot(PartitionOf[k])
  BY <1>1 DEF WriterRoot
<1>3. InTree(WriterRoot(PartitionOf[k]), k) => InTree(WriterRoot(PartitionOf[k]), k)'
  BY <1>2 DEF InTree
<1>4. Queued(k) => Queued(k)'
  BY DEF Queued
<1> QED
  BY <1>3, <1>4 DEF Covered

\* Only a build and set-root replace a root, only a batch of an ingest makes a
\* record published, only an audit lists gaps.
LEMMA QuietCommands ==
    ASSUME \/ CommandStarts /\ ~(\E p \in Partitions : \E tree \in KnownRoots(p) : set_root(p, tree))
           \/ PutDone \/ IngestEnd \/ VerifyError \/ IngestCut \/ CommandCut
    PROVE  /\ UNCHANGED <<records, queue, local_roots, doc_roots, audited>>
           /\ op' \in {"none", "ingest", "build", "verify"}
<1>1. CASE CommandStarts /\ ~(\E p \in Partitions : \E tree \in KnownRoots(p) : set_root(p, tree))
  BY <1>1 DEF CommandStarts, IngestStart, BuildStart, retimestamp, VerifyStart, vars, indexVars, docVars
<1>2. CASE PutDone \/ IngestEnd \/ VerifyError \/ IngestCut \/ CommandCut
  BY <1>2 DEF PutDone, IngestEnd, VerifyError, IngestCut, CommandCut, NoCommand, vars, indexVars, docVars
<1> QED
  BY <1>1, <1>2

\* Every step keeps what the audits found.
LEMMA StepAudit == BaseInv /\ CycleInv /\ AuditInv /\ [OfflineNext]_allVars => AuditInv'
<1> SUFFICES ASSUME BaseInv, CycleInv, AuditInv, [OfflineNext]_allVars PROVE AuditInv'
  OBVIOUS
<1>t. /\ TypeOK /\ OfflineTypeOK /\ Stopped
      /\ op \notin {"none", "ingest"} => Current \in todo /\ Current \in Partitions
  BY CurrentType DEF BaseInv, CommandsApart, OfflineTypeOK
<1>p. \A k \in Keys : PartitionOf[k] \in Partitions
  BY IndexAssumption
<1>a. AuditHolds <=> \A k \in Keys : PartitionOf[k] \in audited => Covered(k)
  BY DEF AuditHolds, Covered
<1>z. AuditHolds' <=> \A k \in Keys : PartitionOf[k] \in audited' => Covered(k)'
  BY DEF AuditHolds, Covered
<1>1. CASE Daemon(Next) \/ UNCHANGED allVars
  <2>1. [Next]_vars /\ UNCHANGED <<op, audited, todo, missing>>
    BY <1>1 DEF Daemon, allVars, offVars, cmdVars
  <2>2. \A k \in Keys : Covered(k) => Covered(k)'
    BY <1>t, <2>1, DaemonCovers
  <2>3. Current' = Current
    BY <2>1 DEF Current
  <2>4. GapsFound'
    BY <2>1, <2>2, <2>3 DEF AuditInv, GapsFound
  <2> QED
    BY <1>a, <1>z, <2>1, <2>2, <2>3, <2>4 DEF AuditInv, FluxUnaudited
<1>2. CASE \/ CommandStarts /\ ~(\E p \in Partitions : \E tree \in KnownRoots(p) : set_root(p, tree))
           \/ PutDone \/ IngestEnd \/ VerifyError \/ IngestCut \/ CommandCut
  <2>1. /\ UNCHANGED <<records, queue, local_roots, doc_roots, audited>>
        /\ op' \in {"none", "ingest", "build", "verify"}
    BY <1>2, QuietCommands
  <2>2. \A k \in Keys : Covered(k) => Covered(k)'
    BY <2>1, CoveredKept DEF IsPublished
  <2> QED
    BY <1>a, <1>z, <2>1, <2>2 DEF AuditInv, GapsFound, FluxUnaudited
<1>3. CASE FlushBatch
  <2>1. /\ bulk_mark_published(ToInsert) /\ op' = "ingest" /\ UNCHANGED <<queue, local_roots, doc_roots>>
        /\ audited' = audited \ {PartitionOf[Dump[i].key] : i \in ToInsert}
    BY <1>3 DEF FlushBatch, bulk_mark_published, docVars
  <2>2. ASSUME NEW k \in Keys, PartitionOf[k] \in audited' PROVE Covered(k)'
    <3>1. Covered(k)
      BY <1>a, <2>1, <2>2 DEF AuditInv
    <3>2. ~(\E i \in ToInsert : Dump[i].key = k)
      BY <2>1, <2>2
    <3>3. records'[k] = records[k]
      BY <1>t, <2>1, <3>2, IngestClaims
    <3> QED
      BY <2>1, <3>1, <3>3, CoveredKept DEF IsPublished
  <2> QED
    BY <1>z, <2>1, <2>2 DEF AuditInv, GapsFound, FluxUnaudited
<1>4. CASE BuildPartition
  <2> PICK p \in Partitions : p = Current
    BY <1>t, <1>4 DEF BuildPartition
  <2>1. /\ op' = "build_local" /\ audited' = audited \ {p} /\ Current' = p
        /\ UNCHANGED <<records, queue, local_roots, todo>>
        /\ doc_roots' = [doc_roots EXCEPT ![p] = PartFrom(source, p)]
    BY <1>4 DEF BuildPartition, set_partition_root, indexVars, Current
  <2>2. ASSUME NEW k \in Keys, PartitionOf[k] \in audited' PROVE Covered(k)'
    <3>1. Covered(k) /\ PartitionOf[k] # p
      BY <1>a, <2>1, <2>2 DEF AuditInv
    <3>2. doc_roots'[PartitionOf[k]] = doc_roots[PartitionOf[k]]
      BY <1>t, <1>p, <2>1, <3>1 DEF TypeOK, DocTypeOK
    <3> QED
      BY <2>1, <3>1, <3>2, CoveredKept DEF IsPublished
  <2> QED
    BY <1>z, <2>1, <2>2 DEF AuditInv, GapsFound, FluxUnaudited
<1>5. CASE BuildLocal \/ SetRootLocal
  <2> PICK p \in Partitions : p = Current
    BY <1>t, <1>5 DEF BuildLocal, SetRootLocal
  <2>1. /\ op \in {"build_local", "set_local"} /\ UNCHANGED <<records, queue, doc_roots, audited>>
        /\ \E tree : local_roots' = [local_roots EXCEPT ![p] = tree]
    BY <1>5 DEF BuildLocal, SetRootLocal, set_local_root, docVars
  <2>2. op' \in {"none", "build"}
    BY <1>5 DEF BuildLocal, SetRootLocal, NoCommand
  <2>3. ASSUME NEW k \in Keys, PartitionOf[k] \in audited' PROVE Covered(k)'
    <3>1. Covered(k) /\ PartitionOf[k] # p
      BY <1>a, <2>1, <2>3 DEF AuditInv, FluxUnaudited
    <3>2. local_roots'[PartitionOf[k]] = local_roots[PartitionOf[k]]
      BY <1>t, <1>p, <2>1, <3>1 DEF TypeOK, IndexTypeOK
    <3> QED
      BY <2>1, <3>1, <3>2, CoveredKept DEF IsPublished
  <2> QED
    BY <1>z, <2>2, <2>3 DEF AuditInv, GapsFound, FluxUnaudited
<1>6. ASSUME NEW p \in Partitions, NEW tree \in KnownRoots(p), set_root(p, tree) PROVE AuditInv'
  <2>1. /\ op' = "set_local" /\ audited' = audited \ {p} /\ todo' = {p}
        /\ UNCHANGED <<records, queue, local_roots>>
        /\ doc_roots' = [doc_roots EXCEPT ![p] = tree]
    BY <1>6 DEF set_root, set_partition_root, indexVars
  <2>2. ASSUME NEW k \in Keys, PartitionOf[k] \in audited' PROVE Covered(k)'
    <3>1. Covered(k) /\ PartitionOf[k] # p
      BY <1>a, <2>1, <2>2 DEF AuditInv
    <3>2. doc_roots'[PartitionOf[k]] = doc_roots[PartitionOf[k]]
      BY <1>t, <1>p, <2>1, <3>1 DEF TypeOK, DocTypeOK
    <3> QED
      BY <2>1, <3>1, <3>2, CoveredKept DEF IsPublished
  <2>3. Current' = p
    <3>1. p <= p
      BY IndexAssumption DEF Partitions
    <3> QED
      BY <2>1, <3>1 DEF Current
  <2> QED
    BY <1>z, <2>1, <2>2, <2>3 DEF AuditInv, GapsFound, FluxUnaudited
<1>7. CASE VerifyPartition
  <2> PICK p \in Partitions : p = Current
    BY <1>t, <1>7 DEF VerifyPartition
  <2>1. /\ op' = "requeue" /\ Current' = p /\ UNCHANGED <<records, queue, local_roots, doc_roots, audited>>
    BY <1>7 DEF VerifyPartition, vars, indexVars, docVars, Current
  <2>2. \A k \in Keys : Covered(k) => Covered(k)'
    BY <2>1, CoveredKept DEF IsPublished
  <2>3. PICK root \in current_root(p, ~calm) \ {Unreadable} : missing' = Gaps(p, root)
    BY <1>7 DEF VerifyPartition
  <2>4. root = WriterRoot(p)
    BY <2>3 DEF current_root, get_partition_root, WriterRoot
  <2>5. \A k \in Keys : PartitionOf[k] = p => Covered(k) \/ k \in missing'
    BY <2>3, <2>4 DEF Gaps, Covered, InTree
  <2> QED
    BY <1>a, <1>z, <2>1, <2>2, <2>5 DEF AuditInv, GapsFound, FluxUnaudited
<1>8. CASE RequeueOne
  <2>1. PICK x \in missing : requeue(x) /\ missing' = missing \ {x}
    BY <1>8 DEF RequeueOne
  <2>2. /\ op = "requeue" /\ op' = "requeue" /\ Current' = Current
        /\ UNCHANGED <<records, local_roots, doc_roots, audited>>
        /\ queue' = queue \union {[seq |-> next_seq, key |-> x]}
    BY <1>8, <2>1 DEF RequeueOne, requeue, docVars, Current
  <2>3. \A k \in Keys : Covered(k) => Covered(k)'
    BY <2>2, CoveredKept DEF IsPublished
  <2>4. Covered(x)'
    <3> DEFINE new == [seq |-> next_seq, key |-> x]
    <3>1. new.key = x /\ new \in queue'
      BY <2>2
    <3> HIDE DEF new
    <3> QED
      BY <3>1 DEF Covered, Queued
  <2>5. \A k \in Keys : PartitionOf[k] = Current => Covered(k)' \/ k \in missing'
    BY <2>1, <2>2, <2>3, <2>4 DEF AuditInv, GapsFound
  <2>6. GapsFound'
    BY <2>2, <2>5 DEF GapsFound
  <2> QED
    BY <1>a, <1>z, <2>2, <2>3, <2>6 DEF AuditInv, FluxUnaudited
<1>9. CASE PartitionAudited
  <2>1. /\ op = "requeue" /\ missing = {} /\ audited' = audited \union {Current}
        /\ UNCHANGED <<records, queue, local_roots, doc_roots>>
    BY <1>9 DEF PartitionAudited, vars, indexVars, docVars
  <2>2. op' \in {"none", "verify"}
    BY <1>9 DEF PartitionAudited, NoCommand
  <2>3. \A k \in Keys : Covered(k) => Covered(k)'
    BY <2>1, CoveredKept DEF IsPublished
  <2>4. \A k \in Keys : PartitionOf[k] \in audited' => Covered(k)
    BY <1>a, <2>1 DEF AuditInv, GapsFound
  <2> QED
    BY <1>z, <2>2, <2>3, <2>4 DEF AuditInv, GapsFound, FluxUnaudited
<1> QED
  BY <1>1, <1>2, <1>3, <1>4, <1>5, <1>6, <1>7, <1>8, <1>9 DEF OfflineNext, CommandStep, CommandStarts

\* It holds before anything has run.
LEMMA InitAudit == OfflineInit => CycleInv /\ AuditInv
<1> SUFFICES ASSUME OfflineInit PROVE CycleInv /\ AuditInv
  OBVIOUS
<1>1. queue = {} /\ batch = {} /\ pc = "off" /\ audited = {} /\ op = "none"
  BY DEF OfflineInit, Init
<1>2. CycleInv
  BY <1>1 DEF CycleInv, RowsDistinct, RowsBelowCounter, NewRootGrows, MarkedIsListed
<1> QED
  BY <1>1, <1>2 DEF AuditInv, AuditHolds, GapsFound, FluxUnaudited

(***************************************************************************)
(* verify --fix can be relied on: once a partition has been audited, and   *)
(* until an ingest or a replaced root changes what was audited, each of    *)
(* its published records is in the writer's tree or has a queue row,       *)
(* however the cycles, crashes, denylistings and further commands          *)
(* interleave.                                                             *)
(***************************************************************************)
THEOREM AuditHoldsAlways == OfflineSpec => []AuditHolds
<1>1. AuditInv => AuditHolds
  BY DEF AuditInv
<1> QED
  BY <1>1, InitBase, StepBase, InitAudit, StepCycle, StepAudit, PTL DEF OfflineSpec

(***************************************************************************)
(* No row is lost: whatever queue a client or an audit has filled, with    *)
(* several rows of one key in it, of records that are published already,   *)
(* or left over from a cycle that crashed, a row goes only when its key is *)
(* in the writer's tree or its record is denylisted.                       *)
(***************************************************************************)
THEOREM RowsLeaveSettledHolds == OfflineSpec => RowsLeaveSettled
<1>1. BaseInv /\ CycleInv /\ ItemsClaimed /\ [OfflineNext]_allVars =>
        [\A r \in queue \ queue' :
            \/ InTree(WriterRoot(PartitionOf[r.key]), r.key)'
            \/ records'[r.key] # None /\ records'[r.key].status = "denylisted"]_allVars
  BY StepSettles DEF Settled
<1>2. OfflineInit => ItemsClaimed
  BY DEF OfflineInit, Init, ItemsClaimed
<1> QED
  BY <1>1, <1>2, InitBase, InitAudit, StepBase, StepCycle, StepClaimed, PTL
     DEF OfflineSpec, RowsLeaveSettled

-----------------------------------------------------------------------------
(***************************************************************************)
(* Loading a dump.                                                         *)
(***************************************************************************)
\* The lines of every ingest that ended are in the spill files.
SpillHolds == \A i \in completed : InTree(spill, Dump[i].key)

\* The lines the running ingest is past are in its buffers.
BufferHolds == op = "ingest" => \A i \in from .. pos - 1 : buffered[Dump[i].key] # None

\* A build has replaced both roots of the partitions it is past.
BuiltSoFar ==
    /\ op \in {"build", "build_local"} => \A p \in Partitions \ todo :
          doc_roots[p] = PartFrom(source, p) /\ local_roots[p] = PartFrom(source, p)
    /\ op = "build_local" => doc_roots[Current] = PartFrom(source, Current)

\* Roots that are being replaced are not called loaded.
FluxUnloaded == op \in {"build", "build_local", "set_local"} => ~loaded

LoadInv == SpillHolds /\ BufferHolds /\ BuiltSoFar /\ FluxUnloaded /\ DumpIsCovered

\* A step that writes no root and keeps the spill files.
LEMMA LoadKept ==
    ASSUME LoadInv, UNCHANGED <<completed, spill, loaded, doc_roots, local_roots>>,
           op' \in {"none", "verify", "requeue"}
    PROVE  LoadInv'
<1>1. SpillHolds' /\ BufferHolds' /\ BuiltSoFar' /\ FluxUnloaded'
  BY DEF LoadInv, SpillHolds, BufferHolds, BuiltSoFar, FluxUnloaded, InTree
<1>2. DumpIsCovered'
  BY DEF LoadInv, DumpIsCovered, InTree
<1> QED
  BY <1>1, <1>2 DEF LoadInv

\* The steps of an ingest: what is past is buffered, what is done is spilled.
LEMMA IngestLoads ==
    ASSUME BaseInv, LoadInv,
           \/ \E skip \in 0 .. Len(Dump) : IngestStart(skip)
           \/ FlushBatch \/ PutDone \/ IngestEnd \/ IngestCut
    PROVE  LoadInv'
<1>t. /\ TypeOK /\ OfflineTypeOK /\ completed \subseteq Lines
      /\ pos \in Nat /\ stop \in Nat /\ from \in Nat /\ from >= 1 /\ pos <= stop
      /\ stop <= Len(Dump) + 1 /\ Len(Dump) \in Nat
      /\ buffered \in Tree /\ spill \in Tree \union {None} /\ (op = "ingest" => spill \in Tree)
  BY OfflineAssumption DEF BaseInv, CommandsApart, OfflineTypeOK
<1>l. \A i \in Lines : Dump[i].key \in Keys
  BY LineType
<1>n. \A t \in Tree : t # None
  BY IndexAssumption
<1>u. UNCHANGED <<doc_roots, local_roots, loaded>> /\ op' \in {"none", "ingest"}
  BY DEF IngestStart, FlushBatch, bulk_mark_published, PutDone, IngestEnd, IngestCut, NoCommand,
     vars, indexVars, docVars
<1>d. BuiltSoFar' /\ FluxUnloaded'
  BY <1>u DEF BuiltSoFar, FluxUnloaded
<1>c. DumpIsCovered'
  BY <1>u DEF LoadInv, DumpIsCovered, InTree
<1>s. ASSUME NEW lines \in Tree, op = "ingest", spill' = Append1st(spill, lines)
      PROVE  /\ \A i \in completed : InTree(spill', Dump[i].key)
             /\ \A k \in Keys : lines[k] # None => InTree(spill', k)
  <2>1. spill' \in Tree /\ \A k \in Keys : spill[k] # None \/ lines[k] # None => spill'[k] # None
    BY <1>t, <1>s, AppendType
  <2>2. \A i \in completed : spill[Dump[i].key] # None
    BY DEF LoadInv, SpillHolds, InTree
  <2> QED
    BY <1>t, <1>l, <1>n, <2>1, <2>2 DEF InTree
<1>1. ASSUME NEW skip \in 0 .. Len(Dump), IngestStart(skip) PROVE LoadInv'
  <2>1. /\ op' = "ingest" /\ from' = skip + 1 /\ pos' = skip + 1 /\ completed' = completed
        /\ spill' = IF spill = None THEN EmptyTree ELSE spill
    BY <1>1 DEF IngestStart
  <2>2. from' \in Nat /\ pos' = from'
    BY <1>t, <2>1
  <2>3. \A a \in Nat : a .. a - 1 = {}
    OBVIOUS
  <2>4. from' .. pos' - 1 = {}
    BY <2>2, <2>3
  <2>5. BufferHolds'
    BY <2>4 DEF BufferHolds
  <2>6. SpillHolds'
    BY <2>1 DEF LoadInv, SpillHolds, InTree
  <2> QED
    BY <1>c, <1>d, <2>5, <2>6 DEF LoadInv
<1>2. CASE FlushBatch
  <2> DEFINE leaves == [k \in Keys |-> SpillLeaf(k)]
  <2>1. /\ op = "ingest" /\ UNCHANGED <<from, spill, completed>> /\ pos' = BatchEnd
        /\ buffered' = Append1st(buffered, leaves)
    BY <1>2 DEF FlushBatch
  <2>2. leaves \in Tree /\ \A i \in Batch : SpillLeaf(Dump[i].key) # None
    BY <1>t, SpillLeafType
  <2>3. Batch \subseteq Lines /\ BatchEnd \in Nat /\ pos <= BatchEnd
    BY <1>t, BatchLinesType
  <2>4. \A i \in Batch : leaves[Dump[i].key] # None
    BY <1>l, <2>2, <2>3
  <2> HIDE DEF leaves
  <2>5. \A k \in Keys : buffered[k] # None \/ leaves[k] # None => buffered'[k] # None
    BY <1>t, <2>1, <2>2, AppendType
  <2>6. ASSUME NEW i \in from .. BatchEnd - 1 PROVE buffered'[Dump[i].key] # None
    <3>1. i \in from .. pos - 1 \/ i \in Batch
      BY <1>t, <2>3 DEF Batch
    <3>2. i \in Lines
      BY <1>t, <2>3, <3>1 DEF Lines
    <3>3. buffered[Dump[i].key] # None \/ leaves[Dump[i].key] # None
      BY <2>1, <2>4, <3>1 DEF LoadInv, BufferHolds
    <3> QED
      BY <1>l, <2>5, <3>2, <3>3
  <2>7. BufferHolds' /\ SpillHolds'
    BY <2>1, <2>6 DEF LoadInv, BufferHolds, SpillHolds, InTree
  <2> QED
    BY <1>c, <1>d, <2>7 DEF LoadInv
<1>3. CASE PutDone
  <2>1. UNCHANGED <<op, from, pos, buffered, spill, completed>>
    BY <1>3 DEF PutDone
  <2>2. BufferHolds' /\ SpillHolds'
    BY <2>1 DEF LoadInv, BufferHolds, SpillHolds, InTree
  <2> QED
    BY <1>c, <1>d, <2>2 DEF LoadInv
<1>4. CASE IngestEnd
  <2>1. /\ op = "ingest" /\ pos = stop /\ op' = "none" /\ spill' = Append1st(spill, buffered)
        /\ completed' = completed \union (from .. stop - 1)
    BY <1>4 DEF IngestEnd, NoCommand
  <2>2. ASSUME NEW i \in from .. stop - 1 PROVE InTree(spill', Dump[i].key)
    <3>1. i \in Lines /\ buffered[Dump[i].key] # None
      BY <1>t, <2>1 DEF LoadInv, BufferHolds, Lines
    <3> QED
      BY <1>t, <1>l, <1>s, <2>1, <3>1
  <2>3. \A i \in completed : InTree(spill', Dump[i].key)
    BY <1>t, <1>s, <2>1
  <2>4. \A i \in completed' : InTree(spill', Dump[i].key)
    BY <2>1, <2>2, <2>3
  <2>5. BufferHolds' /\ SpillHolds'
    BY <2>1, <2>4 DEF BufferHolds, SpillHolds, InTree
  <2> QED
    BY <1>c, <1>d, <2>5 DEF LoadInv
<1>5. CASE IngestCut
  <2>1. PICK lines \in {buffered, Append1st(buffered, [k \in Keys |-> SpillLeaf(k)])},
             kept \in SUBSET Keys :
             spill' = Append1st(spill, [k \in Keys |-> IF k \in kept THEN lines[k] ELSE None])
    BY <1>5 DEF IngestCut
  <2>2. op = "ingest" /\ op' = "none" /\ completed' = completed
    BY <1>5 DEF IngestCut, NoCommand
  <2>3. lines \in Tree
    <3>1. [k \in Keys |-> SpillLeaf(k)] \in Tree
      BY <1>t, SpillLeafType
    <3> QED
      BY <1>t, <2>1, <3>1, AppendType
  <2>4. [k \in Keys |-> IF k \in kept THEN lines[k] ELSE None] \in Tree
    BY <2>3 DEF Tree
  <2>5. \A i \in completed : InTree(spill', Dump[i].key)
    BY <1>s, <2>1, <2>2, <2>4
  <2>6. BufferHolds' /\ SpillHolds'
    BY <2>2, <2>5 DEF BufferHolds, SpillHolds, InTree
  <2> QED
    BY <1>c, <1>d, <2>6 DEF LoadInv
<1> QED
  BY <1>1, <1>2, <1>3, <1>4, <1>5

\* A build that has gone through every partition over a complete spill has
\* every line of the dump in both roots of its partition.
LEMMA BuildLoads ==
    ASSUME BaseInv, LoadInv, BuildStart \/ retimestamp \/ BuildPartition \/ BuildLocal
    PROVE  LoadInv'
<1>t. /\ TypeOK /\ OfflineTypeOK /\ source \in Tree /\ loaded \in BOOLEAN
      /\ doc_roots \in [Partitions -> Tree \union {None}]
      /\ local_roots \in [Partitions -> Tree \union {None}]
      /\ op \notin {"none", "ingest"} => Current \in todo /\ Current \in Partitions
  BY CurrentType DEF BaseInv, CommandsApart, OfflineTypeOK, TypeOK, IndexTypeOK, DocTypeOK
<1>l. \A i \in Lines : Dump[i].key \in Keys /\ PartitionOf[Dump[i].key] \in Partitions
  BY LineType, IndexAssumption
<1>s. completed' = completed /\ spill' = spill /\ op' # "ingest"
  BY DEF BuildStart, retimestamp, BuildPartition, BuildLocal, NoCommand
<1>b. SpillHolds' /\ BufferHolds'
  BY <1>s DEF LoadInv, SpillHolds, BufferHolds, InTree
<1>1. CASE BuildStart \/ retimestamp
  <2>1. op' = "build" /\ todo' = Partitions /\ loaded' = FALSE
    BY <1>1 DEF BuildStart, retimestamp
  <2>2. BuiltSoFar' /\ FluxUnloaded' /\ DumpIsCovered'
    BY <2>1 DEF BuiltSoFar, FluxUnloaded, DumpIsCovered
  <2> QED
    BY <1>b, <2>2 DEF LoadInv
<1>2. CASE BuildPartition
  <2> PICK p \in Partitions : p = Current
    BY <1>t, <1>2 DEF BuildPartition
  <2>1. /\ op = "build" /\ op' = "build_local" /\ UNCHANGED <<todo, source, local_roots, loaded>>
        /\ doc_roots' = [doc_roots EXCEPT ![p] = PartFrom(source, p)] /\ Current' = p
    BY <1>2 DEF BuildPartition, set_partition_root, indexVars, Current
  <2>2. ~loaded /\ p \in todo
    BY <1>t, <2>1 DEF LoadInv, FluxUnloaded
  <2>3. \A q \in Partitions \ todo :
           doc_roots'[q] = PartFrom(source, q) /\ local_roots'[q] = PartFrom(source, q)
    BY <1>t, <2>1, <2>2 DEF LoadInv, BuiltSoFar
  <2>4. doc_roots'[p] = PartFrom(source, p)
    BY <1>t, <2>1
  <2>5. BuiltSoFar'
    BY <2>1, <2>3, <2>4 DEF BuiltSoFar, PartFrom
  <2>6. FluxUnloaded' /\ DumpIsCovered'
    BY <2>1, <2>2 DEF FluxUnloaded, DumpIsCovered
  <2> QED
    BY <1>b, <2>5, <2>6 DEF LoadInv
<1>3. CASE BuildLocal
  <2> PICK p \in Partitions : p = Current
    BY <1>t, <1>3 DEF BuildLocal
  <2>1. /\ op = "build_local" /\ doc_roots' = doc_roots
        /\ local_roots' = [local_roots EXCEPT ![p] = PartFrom(source, p)]
    BY <1>3 DEF BuildLocal, set_local_root, docVars
  <2>2. ~loaded /\ doc_roots[p] = PartFrom(source, p)
    BY <2>1 DEF LoadInv, FluxUnloaded, BuiltSoFar
  <2>3. \A q \in Partitions : q \notin todo \/ q = p =>
           doc_roots'[q] = PartFrom(source, q) /\ local_roots'[q] = PartFrom(source, q)
    BY <1>t, <2>1, <2>2 DEF LoadInv, BuiltSoFar
  <2>4. CASE todo = {p}
    <3>1. op' = "none" /\ loaded' = (source = spill /\ Lines \subseteq completed)
      BY <1>3, <2>4 DEF BuildLocal, NoCommand
    <3>2. BuiltSoFar' /\ FluxUnloaded'
      BY <3>1 DEF BuiltSoFar, FluxUnloaded
    <3>3. ASSUME loaded', NEW i \in Lines
          PROVE  /\ InTree(local_roots'[PartitionOf[Dump[i].key]], Dump[i].key)
                 /\ InTree(doc_roots'[PartitionOf[Dump[i].key]], Dump[i].key)
      <4> DEFINE k == Dump[i].key
                 q == PartitionOf[k]
      <4>0. k \in Keys /\ q \in Partitions
        BY <1>l
      <4>1. source = spill /\ i \in completed
        BY <3>1, <3>3
      <4>2. source[k] # None
        BY <4>1 DEF LoadInv, SpillHolds, InTree
      <4>3. doc_roots'[q] = PartFrom(source, q) /\ local_roots'[q] = PartFrom(source, q)
        BY <2>3, <2>4, <4>0
      <4>4. PartFrom(source, q) # None
        BY <1>t, PartFromType, IndexAssumption
      <4>5. PartFrom(source, q)[k] # None
        BY <4>0, <4>2 DEF PartFrom
      <4> QED
        BY <4>3, <4>4, <4>5 DEF InTree
    <3>4. DumpIsCovered'
      BY <3>3 DEF DumpIsCovered, InTree
    <3> QED
      BY <1>b, <3>2, <3>4 DEF LoadInv
  <2>5. CASE todo # {p}
    <3>1. op' = "build" /\ todo' = todo \ {p} /\ UNCHANGED <<source, loaded>>
      BY <1>3, <2>5 DEF BuildLocal
    <3>2. BuiltSoFar'
      BY <2>3, <3>1 DEF BuiltSoFar, PartFrom
    <3>3. FluxUnloaded' /\ DumpIsCovered'
      BY <2>2, <3>1 DEF FluxUnloaded, DumpIsCovered
    <3> QED
      BY <1>b, <3>2, <3>3 DEF LoadInv
  <2> QED
    BY <2>4, <2>5
<1> QED
  BY <1>1, <1>2, <1>3

\* Every step keeps what has been loaded.
LEMMA StepLoad == BaseInv /\ CycleInv /\ LoadInv /\ [OfflineNext]_allVars => LoadInv'
<1> SUFFICES ASSUME BaseInv, CycleInv, LoadInv, [OfflineNext]_allVars PROVE LoadInv'
  OBVIOUS
<1>l. \A i \in Lines : Dump[i].key \in Keys /\ PartitionOf[Dump[i].key] \in Partitions
  BY LineType, IndexAssumption
<1>1. CASE Daemon(Next)
  <2>1. op = "none" /\ Next /\ UNCHANGED <<op, completed, spill, loaded>>
    BY <1>1 DEF Daemon, offVars, cmdVars
  <2>2. \A p \in Partitions, k \in Keys : RootsGrow(p, k)
    BY <2>1, DaemonRoots DEF BaseInv, CommandsApart, CycleInv
  <2>3. DumpIsCovered'
    BY <1>l, <2>1, <2>2 DEF LoadInv, DumpIsCovered, RootsGrow
  <2>4. SpillHolds' /\ BufferHolds' /\ BuiltSoFar' /\ FluxUnloaded'
    BY <2>1 DEF LoadInv, SpillHolds, BufferHolds, BuiltSoFar, FluxUnloaded, InTree
  <2> QED
    BY <2>3, <2>4 DEF LoadInv
<1>2. CASE UNCHANGED allVars
  <2>1. /\ UNCHANGED <<op, pos, from, buffered, spill, source, todo, completed, loaded>>
        /\ UNCHANGED <<doc_roots, local_roots>>
    BY <1>2 DEF allVars, vars, indexVars, docVars, offVars, cmdVars
  <2>2. SpillHolds' /\ BufferHolds' /\ FluxUnloaded'
    BY <2>1 DEF LoadInv, SpillHolds, BufferHolds, FluxUnloaded, InTree
  <2>3. BuiltSoFar' /\ DumpIsCovered'
    BY <2>1 DEF LoadInv, BuiltSoFar, DumpIsCovered, PartFrom, Current, InTree
  <2> QED
    BY <2>2, <2>3 DEF LoadInv
<1>3. CASE VerifyPartition \/ VerifyError \/ RequeueOne \/ PartitionAudited \/ CommandCut
  <2>1. /\ UNCHANGED <<completed, spill, loaded, doc_roots, local_roots>>
        /\ op' \in {"none", "verify", "requeue"}
    BY <1>3 DEF VerifyPartition, VerifyError, RequeueOne, requeue, PartitionAudited,
       CommandCut, NoCommand, vars, indexVars, docVars
  <2> QED
    BY <2>1, LoadKept
<1>4. CASE \E parts \in {Partitions} \union {{p} : p \in Partitions} : VerifyStart(parts)
  <2>1. UNCHANGED <<completed, spill, loaded, doc_roots, local_roots>> /\ op' = "verify"
    BY <1>4 DEF VerifyStart, vars, indexVars, docVars
  <2> QED
    BY <2>1, LoadKept
<1>5. CASE \/ \E p \in Partitions : \E tree \in KnownRoots(p) : set_root(p, tree)
           \/ SetRootLocal
  <2>1. UNCHANGED <<completed, spill>> /\ op' \in {"none", "set_local"}
    BY <1>5 DEF set_root, SetRootLocal, NoCommand
  <2>2. ~loaded'
    BY <1>5 DEF set_root, SetRootLocal, LoadInv, FluxUnloaded
  <2>3. SpillHolds' /\ BufferHolds' /\ BuiltSoFar'
    BY <2>1 DEF LoadInv, SpillHolds, BufferHolds, BuiltSoFar, InTree
  <2>4. FluxUnloaded' /\ DumpIsCovered'
    BY <2>2 DEF FluxUnloaded, DumpIsCovered
  <2> QED
    BY <2>3, <2>4 DEF LoadInv
<1> QED
  BY <1>1, <1>2, <1>3, <1>4, <1>5, IngestLoads, BuildLoads
     DEF OfflineNext, CommandStarts, CommandStep

\* It holds before anything has run.
LEMMA InitLoad == OfflineInit => LoadInv
<1> SUFFICES ASSUME OfflineInit PROVE LoadInv
  OBVIOUS
<1>1. completed = {} /\ op = "none" /\ loaded = FALSE
  BY DEF OfflineInit
<1> QED
  BY <1>1 DEF LoadInv, SpillHolds, BufferHolds, BuiltSoFar, FluxUnloaded, DumpIsCovered

(***************************************************************************)
(* A load is complete and stays so: a build over the spill of a dump whose *)
(* chunks have all been ingested to their end, in any order, some of them  *)
(* cut off and repeated, leaves every line's key in the writer's and the   *)
(* document's tree, and no daemon run, audit or further ingest removes one.*)
(***************************************************************************)
THEOREM DumpIsCoveredHolds == OfflineSpec => []DumpIsCovered
<1>1. LoadInv => DumpIsCovered
  BY DEF LoadInv
<1> QED
  BY <1>1, InitBase, StepBase, InitAudit, StepCycle, InitLoad, StepLoad, PTL DEF OfflineSpec

=============================================================================
