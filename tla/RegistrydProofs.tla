--------------------------- MODULE RegistrydProofs ---------------------------
(***************************************************************************)
(* Proofs about module Registryd, for every value of its constants.        *)
(***************************************************************************)
EXTENDS Registryd, FiniteSetTheorems, WellFoundedInduction, TLAPS

(***************************************************************************)
(* The operators of the record index.                                      *)
(***************************************************************************)

\* A nonempty set of naturals has a least element.
LEMMA Least ==
    ASSUME NEW T \in SUBSET Nat, T # {}
    PROVE  \E x \in T : \A y \in T : ~(y < x)
<1> DEFINE R == OpToRel(<, Nat)
<1>1. IsWellFoundedOn(R, Nat)
  BY NatLessThanWellFounded
<1> HIDE DEF R
<1>2. \E x \in T : \A y \in T : ~(<<y, x>> \in R)
  BY <1>1, WFMin
<1>3. \A x, y \in T : y < x => <<y, x>> \in R
  BY DEF R, OpToRel
<1> QED
  BY <1>2, <1>3

\* The positions of a call are finitely many, so rows get natural numbers.
LEMMA PositionsFinite ==
    ASSUME NEW subs \in Positioned, NEW S \in SUBSET DOMAIN subs
    PROVE  Cardinality(S) \in Nat
<1>1. PICK D \in SUBSET (1 .. BatchMax) : subs \in [D -> Submission]
  BY DEF Positioned
<1>2. IsFiniteSet(1 .. BatchMax)
  BY FS_Interval, ApiAssumption
<1>3. S \subseteq 1 .. BatchMax
  BY <1>1
<1>4. IsFiniteSet(S)
  BY <1>2, <1>3, FS_Subset
<1> QED
  BY <1>4, FS_CardinalityType

\* Positions are natural numbers, so they are ordered as the request lists them.
LEMMA PositionsNatural ==
    ASSUME NEW subs \in Positioned
    PROVE  DOMAIN subs \subseteq Nat
<1>1. PICK D \in SUBSET (1 .. BatchMax) : subs \in [D -> Submission]
  BY DEF Positioned
<1> QED
  BY <1>1, ApiAssumption

\* What a position of a request holds.
LEMMA PositionedType ==
    ASSUME NEW subs \in Positioned, NEW i \in DOMAIN subs
    PROVE  subs[i] \in Submission /\ subs[i].key \in Keys /\ subs[i].hash \in Hashes
<1>1. PICK D \in SUBSET (1 .. BatchMax) : subs \in [D -> Submission]
  BY DEF Positioned
<1> QED
  BY <1>1 DEF Submission

\* submit_many never changes a record there is, and a record it adds has the
\* content of one of the submissions (index.rs, submit_many).
LEMMA SubmitClaims ==
    ASSUME IndexTypeOK, NEW subs \in Positioned, submit_many(subs), NEW k \in Keys
    PROVE  /\ records[k] # None => records'[k] = records[k]
           /\ records[k] = None /\ records'[k] # None =>
                \E i \in DOMAIN subs : /\ subs[i].key = k
                                       /\ records'[k] = [hash |-> subs[i].hash,
                                                         status |-> "pending"]
<1>1. records'[k] = Claimed(subs, k)
  BY DEF submit_many
<1>2. CASE \E i \in Fresh(subs) : subs[i].key = k
  <2> DEFINE j == CHOOSE i \in Fresh(subs) : subs[i].key = k
  <2>1. j \in Fresh(subs) /\ subs[j].key = k
    BY <1>2
  <2>2. records'[k] = [hash |-> subs[j].hash, status |-> "pending"]
    BY <1>1, <1>2 DEF Claimed
  <2> QED
    BY <2>1, <2>2 DEF Fresh
<1>3. CASE ~ \E i \in Fresh(subs) : subs[i].key = k
  BY <1>1, <1>3 DEF Claimed
<1> QED
  BY <1>2, <1>3

\* Every submission that is reported as accepted is bound as submitted.
LEMMA SubmitBinds ==
    ASSUME IndexTypeOK, NEW subs \in Positioned, submit_many(subs),
           NEW i \in DOMAIN subs, SubmitOutcome(subs, i) # "Conflict"
    PROVE  records'[subs[i].key] # None /\ records'[subs[i].key].hash = subs[i].hash
<1> DEFINE k == subs[i].key
<1>k. k \in Keys
  BY PositionedType
<1>d. DOMAIN subs \subseteq Nat
  BY PositionsNatural
<1>1. records'[k] = Claimed(subs, k)
  BY <1>k DEF submit_many
<1>2. CASE i \in Fresh(subs)
  <2> DEFINE j == CHOOSE l \in Fresh(subs) : subs[l].key = k
  <2>1. j \in Fresh(subs) /\ subs[j].key = k
    BY <1>2
  <2>3. ~(i < j) /\ ~(j < i)
    BY <1>2, <2>1 DEF Fresh
  <2>4. j = i
    BY <1>d, <2>1, <2>3 DEF Fresh
  <2>5. records'[k] = [hash |-> subs[i].hash, status |-> "pending"]
    BY <1>1, <1>2, <2>4 DEF Claimed
  <2>6. records'[k] \in IndexRecord
    BY <2>5, PositionedType DEF IndexRecord, Status
  <2> QED
    BY <2>5, <2>6, IndexAssumption
<1>3. CASE i \notin Fresh(subs)
  <2>1. Claimed(subs, k).hash = subs[i].hash
    BY <1>3 DEF SubmitOutcome
  <2>2. records'[k] # None
    <3>1. CASE records[k] # None
      BY <3>1, SubmitClaims, <1>k
    <3>2. CASE records[k] = None
      <4> DEFINE T == {j \in DOMAIN subs : subs[j].key = k}
      <4>1. PICK j \in T : \A l \in T : ~(l < j)
        BY <1>d, Least
      <4>2. j \in Fresh(subs)
        BY <3>2, <4>1 DEF Fresh
      <4>3. i \in DOMAIN subs /\ \E m \in Fresh(subs) : subs[m].key = k
        BY <4>1, <4>2
      <4> DEFINE m == CHOOSE l \in Fresh(subs) : subs[l].key = k
      <4>4. m \in DOMAIN subs
        BY <4>3 DEF Fresh
      <4>5. records'[k] = [hash |-> subs[m].hash, status |-> "pending"]
        BY <1>1, <4>3 DEF Claimed
      <4>6. records'[k] \in IndexRecord
        BY <4>4, <4>5, PositionedType DEF IndexRecord, Status
      <4> QED
        BY <4>6, IndexAssumption
    <3> QED
      BY <3>1, <3>2
  <2> QED
    BY <1>1, <2>1, <2>2
<1> QED
  BY <1>2, <1>3

-----------------------------------------------------------------------------
(***************************************************************************)
(* Type correctness.                                                       *)
(***************************************************************************)

\* The index operations keep the tables well-typed (index.rs).
LEMMA SubmitType ==
    ASSUME IndexTypeOK, NEW subs \in Positioned, submit_many(subs)
    PROVE  IndexTypeOK'
<1>1. ASSUME NEW k \in Keys PROVE Claimed(subs, k) \in IndexRecord \union {None}
  <2>1. CASE \E i \in Fresh(subs) : subs[i].key = k
    <3> DEFINE j == CHOOSE i \in Fresh(subs) : subs[i].key = k
    <3>1. j \in DOMAIN subs
      BY <2>1 DEF Fresh
    <3>2. Claimed(subs, k) = [hash |-> subs[j].hash, status |-> "pending"]
      BY <2>1 DEF Claimed
    <3> QED
      BY <3>1, <3>2, PositionedType DEF IndexRecord, Status
  <2>2. CASE ~ \E i \in Fresh(subs) : subs[i].key = k
    BY <2>2 DEF Claimed, IndexTypeOK
  <2> QED
    BY <2>1, <2>2
<1>2. Fresh(subs) \in SUBSET DOMAIN subs
  BY DEF Fresh
<1>3. NewRows(subs) \subseteq Row
  <2> SUFFICES ASSUME NEW i \in Fresh(subs)
               PROVE  [seq |-> next_seq + Cardinality({j \in Fresh(subs) : j < i}),
                       key |-> subs[i].key] \in Row
    BY DEF NewRows
  <2>1. Cardinality({j \in Fresh(subs) : j < i}) \in Nat
    BY <1>2, PositionsFinite
  <2>2. subs[i].key \in Keys
    BY <1>2, PositionedType
  <2> QED
    BY <2>1, <2>2 DEF Row, IndexTypeOK
<1>4. Cardinality(Fresh(subs)) \in Nat
  BY <1>2, PositionsFinite
<1> QED
  BY <1>1, <1>3, <1>4 DEF IndexTypeOK, submit_many

\* The batch of a cycle is made of rows joined with their records.
LEMMA BatchType ==
    ASSUME IndexTypeOK, NEW max \in Nat
    PROVE  /\ pending_batch(max) \subseteq BatchItem
           /\ \A it \in pending_batch(max) :
                 records[it.key] # None /\ it.hash = records[it.key].hash
<1> DEFINE Oldest == {q \in Joined : Cardinality({o \in Joined : o.seq < q.seq}) < max}
<1>1. \A r \in Oldest : /\ r.seq \in Nat /\ r.key \in Keys
                        /\ records[r.key] \in IndexRecord /\ records[r.key] # None
  BY DEF Joined, IndexTypeOK, Row
<1>2. pending_batch(max) =
        {[seq |-> r.seq, key |-> r.key, hash |-> records[r.key].hash] : r \in Oldest}
  BY DEF pending_batch
<1> HIDE DEF Oldest
<1> QED
  BY <1>1, <1>2 DEF BatchItem, IndexRecord

\* finish changes nothing of a record but its status.
LEMMA FinishType ==
    ASSUME IndexTypeOK, NEW items, NEW status \in Status, finish(items, status)
    PROVE  /\ IndexTypeOK'
           /\ \A k \in Keys : records[k] = None <=> records'[k] = None
           /\ \A k \in Keys : records[k] # None => records'[k].hash = records[k].hash
           /\ \A k \in Keys : records[k] # None =>
                 records'[k].status = IF k \in KeysOf(items) THEN status
                                                             ELSE records[k].status
<1>1. ASSUME NEW k \in Keys, records[k] # None
      PROVE  /\ [records[k] EXCEPT !.status = status] \in IndexRecord
             /\ [records[k] EXCEPT !.status = status].hash = records[k].hash
             /\ [records[k] EXCEPT !.status = status].status = status
  BY <1>1 DEF IndexTypeOK, IndexRecord
<1>2. IndexTypeOK'
  BY <1>1 DEF IndexTypeOK, finish
<1>3. ASSUME NEW k \in Keys
      PROVE  records[k] = None <=> records'[k] = None
  BY <1>1, IndexAssumption DEF finish
<1>4. ASSUME NEW k \in Keys, records[k] # None
      PROVE  /\ records'[k].hash = records[k].hash
             /\ records'[k].status = IF k \in KeysOf(items) THEN status
                                                            ELSE records[k].status
  BY <1>1, <1>4 DEF finish
<1> QED
  BY <1>2, <1>3, <1>4

\* An insert yields a tree that keeps what the old one had and adds entries.
LEMMA InsertTree ==
    ASSUME NEW root \in Tree \union {None}, NEW entries \in SUBSET BatchItem
    PROVE  /\ insert_batch(root, entries) \in Tree
           /\ \A k \in Keys : root # None /\ root[k] # None =>
                 insert_batch(root, entries)[k] = root[k]
           /\ \A k \in Keys : (root = None \/ root[k] = None) =>
                 IF k \in KeysOf(entries)
                 THEN \E e \in entries : e.key = k /\ insert_batch(root, entries)[k] = e.hash
                 ELSE insert_batch(root, entries)[k] = None
<1> DEFINE base == IF root = None THEN EmptyTree ELSE root
           pick(k) == CHOOSE e \in entries : e.key = k
<1>1. base \in Tree
  BY DEF EmptyTree, Tree
<1>2. ASSUME NEW k \in Keys, k \in KeysOf(entries)
      PROVE  pick(k) \in entries /\ pick(k).key = k /\ pick(k).hash \in Hashes
  BY <1>2 DEF KeysOf, BatchItem
<1>3. insert_batch(root, entries) =
        [k \in Keys |-> IF base[k] = None /\ k \in KeysOf(entries) THEN pick(k).hash
                                                                 ELSE base[k]]
  BY DEF insert_batch, FirstWins
<1>4. \A k \in Keys : base[k] = IF root = None THEN None ELSE root[k]
  BY DEF EmptyTree
<1> HIDE DEF base, pick
<1>5. insert_batch(root, entries) \in Tree
  BY <1>1, <1>2, <1>3 DEF Tree
<1> QED
  BY <1>2, <1>3, <1>4, <1>5

\* The read of a root gives a tree, None or an error (pointer_doc.rs).
LEMMA ReadType ==
    ASSUME DocTypeOK, NEW p \in Partitions, NEW faults \in BOOLEAN,
           NEW root \in get_partition_root(p, faults)
    PROVE  \/ root = Unreadable
           \/ root = doc_roots[p] /\ root \in Tree \union {None}
  BY DEF get_partition_root, DocTypeOK

\* There is at least one partition, so a pass has somewhere to start.
LEMMA FirstPartition == 0 \in Partitions
  BY IndexAssumption DEF Partitions

\* Moving the cursor stays inside the partitions.
LEMMA AdvanceType ==
    ASSUME PublisherTypeOK, NEW after \in PcValues, denylist' = denylist,
           Advance(after) \/ Leave(after) \/ Goto(after)
    PROVE  PublisherTypeOK'
  BY FirstPartition DEF Advance, Leave, Goto, PublisherTypeOK

\* The end of a cycle.
LEMMA CycleEndsType ==
    ASSUME PublisherTypeOK, denylist' = denylist, CycleEnds
    PROVE  PublisherTypeOK'
  BY DEF CycleEnds, PublisherTypeOK, PcValues

\* Every step of the publisher keeps the types (publisher.rs).
LEMMA PublisherType ==
    ASSUME IndexTypeOK, DocTypeOK, PublisherTypeOK, denylist' = denylist,
           \/ \E f \in BOOLEAN : PublisherNext(f)
           \/ \E f \in BOOLEAN : BeginCycle(TRUE, f)
           \/ \E f \in BOOLEAN : StopIdle(f)
           \/ SeedFails \/ HealFails \/ CycleFails
    PROVE  IndexTypeOK' /\ DocTypeOK' /\ PublisherTypeOK'
<1> USE DEF PcValues, InCycle
<1>c. cursor \in Partitions
  BY DEF PublisherTypeOK
<1>1. ASSUME NEW f \in BOOLEAN, seed_local_roots(f)
      PROVE  IndexTypeOK' /\ DocTypeOK' /\ PublisherTypeOK'
  <2>1. PublisherTypeOK'
    BY <1>1, AdvanceType DEF seed_local_roots
  <2>2. IndexTypeOK'
    BY <1>1, <1>c, ReadType, DocAssumption
       DEF seed_local_roots, set_local_root, IndexTypeOK, indexVars
  <2> QED
    BY <1>1, <2>1, <2>2 DEF seed_local_roots, docVars, DocTypeOK
<1>2. ASSUME NEW f \in BOOLEAN, heal_pointer_doc(f)
      PROVE  IndexTypeOK' /\ DocTypeOK' /\ PublisherTypeOK'
  <2>1. PublisherTypeOK'
    BY <1>2, AdvanceType DEF heal_pointer_doc
  <2>2. DocTypeOK'
    BY <1>2, <1>c DEF heal_pointer_doc, set_partition_root, IndexTypeOK, DocTypeOK, docVars
  <2> QED
    BY <1>2, <2>1, <2>2 DEF heal_pointer_doc, indexVars, IndexTypeOK
<1>3. CASE HealDue \/ (\E f \in BOOLEAN : StopIdle(f)) \/ SeedFails \/ HealFails \/ NothingToBuild
  <2>1. PublisherTypeOK'
    BY <1>3, AdvanceType DEF HealDue, StopIdle, SeedFails, HealFails, NothingToBuild
  <2> QED
    BY <1>3, <2>1 DEF HealDue, StopIdle, SeedFails, HealFails, NothingToBuild,
                      indexVars, docVars, IndexTypeOK, DocTypeOK
<1>4. ASSUME NEW f \in BOOLEAN, NEW last \in BOOLEAN, BeginCycle(last, f)
      PROVE  IndexTypeOK' /\ DocTypeOK' /\ PublisherTypeOK'
  <2>1. batch' \subseteq BatchItem
    BY <1>4, BatchType, PublisherAssumption DEF BeginCycle
  <2>2. denied' \subseteq Deniable
    BY <1>4 DEF BeginCycle, load_denylist, PublisherTypeOK
  <2>3. pc' \in PcValues /\ final' \in BOOLEAN
    BY <1>4 DEF BeginCycle
  <2>4. UNCHANGED <<cursor, new_root, indexVars, docVars>>
    BY <1>4 DEF BeginCycle
  <2> QED
    BY <2>1, <2>2, <2>3, <2>4
       DEF PublisherTypeOK, indexVars, docVars, IndexTypeOK, DocTypeOK
<1>5. ASSUME NEW f \in BOOLEAN, BuildTree(f)
      PROVE  IndexTypeOK' /\ DocTypeOK' /\ PublisherTypeOK'
  <2>1. CurrentPartition \in Partitions /\ Publishable \in SUBSET BatchItem
    BY <1>5, IndexAssumption DEF BuildTree, Publishable, Items, PublisherTypeOK, BatchItem
  <2>2. PICK root \in current_root(CurrentPartition, f) \ {Unreadable} :
            new_root' = insert_batch(root, Publishable)
    BY <1>5 DEF BuildTree
  <2>3. root \in Tree \union {None}
    BY <2>1, <2>2, ReadType DEF current_root, IndexTypeOK
  <2>4. new_root' \in Tree
    BY <2>1, <2>2, <2>3, InsertTree
  <2> QED
    BY <1>5, <2>4 DEF BuildTree, PublisherTypeOK, indexVars, docVars, IndexTypeOK, DocTypeOK
<1>6. CASE SetDocRoot
  <2>1. PublisherTypeOK'
    BY <1>6, AdvanceType DEF SetDocRoot
  <2> QED
    BY <1>6, <2>1 DEF SetDocRoot, set_partition_root, PublisherTypeOK, DocTypeOK,
                      indexVars, IndexTypeOK
<1>7. CASE SetLocalRoot
  BY <1>7 DEF SetLocalRoot, set_local_root, PublisherTypeOK, IndexTypeOK, docVars, DocTypeOK
<1>8. CASE mark_published
  <2>1. PublisherTypeOK'
    BY <1>8, AdvanceType DEF mark_published
  <2> QED
    BY <1>8, <2>1, FinishType DEF mark_published, docVars, DocTypeOK, Status
<1>9. CASE mark_denylisted
  <2>1. PublisherTypeOK'
    <3>1. CASE batch = Items
      BY <1>9, <3>1, CycleEndsType DEF mark_denylisted
    <3>2. CASE batch # Items
      BY <1>9, <3>2 DEF mark_denylisted, PublisherTypeOK
    <3> QED
      BY <3>1, <3>2
  <2> QED
    BY <1>9, <2>1, FinishType DEF mark_denylisted, docVars, DocTypeOK, Status
<1>10. CASE CycleFails \/ RootUnreadable
  <2>1. PublisherTypeOK'
    BY <1>10, CycleEndsType DEF CycleFails, RootUnreadable
  <2> QED
    BY <1>10, <2>1 DEF CycleFails, RootUnreadable, indexVars, docVars, IndexTypeOK, DocTypeOK
<1> QED
  BY <1>1, <1>2, <1>3, <1>4, <1>5, <1>6, <1>7, <1>8, <1>9, <1>10 DEF PublisherNext

\* Dropping submissions of a request leaves submissions by position.
LEMMA OnlyType ==
    ASSUME NEW subs \in Positioned, NEW keep \in SUBSET DOMAIN subs
    PROVE  Only(subs, keep) \in Positioned
<1>1. PICK D \in SUBSET (1 .. BatchMax) : subs \in [D -> Submission]
  BY DEF Positioned
<1>2. keep \in SUBSET (1 .. BatchMax) /\ Only(subs, keep) \in [keep -> Submission]
  BY <1>1 DEF Only
<1> QED
  BY <1>2 DEF Positioned

\* No submissions at all are submissions by position.
LEMMA NoRequestType == NoRequest \in Handler
<1>1. NoSubs \in [{} -> Submission]
  BY DEF NoSubs
<1>2. NoSubs \in Positioned
  BY <1>1 DEF Positioned
<1> QED
  BY <1>2 DEF NoRequest, Handler

\* Every step of a handler keeps the types (api.rs).
LEMMA HandlerType ==
    ASSUME IndexTypeOK, ApiTypeOK, NEW c \in Clients,
           \/ \E r \in Requests : Arrive(c, r)
           \/ \E ok \in SUBSET DOMAIN req[c].subs : put(c, ok)
           \/ Submit(c) \/ SubmitFails(c) \/ Disconnect(c)
    PROVE  IndexTypeOK' /\ ApiTypeOK'
<1>r. /\ req \in [Clients -> Handler]
      /\ req[c] \in Handler /\ req[c].subs \in Positioned /\ req[c].dups \subseteq Submission
  BY DEF ApiTypeOK, Handler
<1>1. ASSUME NEW r \in Requests, Arrive(c, r) PROVE IndexTypeOK' /\ ApiTypeOK'
  <2>1. r.subs \in Positioned
    BY ApiAssumption
  <2>2. Unknown(r.subs) \in SUBSET DOMAIN r.subs /\ Identical(r.subs) \subseteq DOMAIN r.subs
    BY DEF Unknown, Identical
  <2>3. Only(r.subs, Unknown(r.subs)) \in Positioned
    BY <2>1, <2>2, OnlyType
  <2>4. {r.subs[i] : i \in Identical(r.subs)} \subseteq Submission
    BY <2>1, <2>2, PositionedType
  <2> DEFINE h == IF r.kind = "record"
                  THEN [at |-> "put", subs |-> r.subs, dups |-> {}]
                  ELSE [at |-> "put", subs |-> Only(r.subs, Unknown(r.subs)),
                        dups |-> {r.subs[i] : i \in Identical(r.subs)}]
  <2>5. h \in Handler
    BY <2>1, <2>3, <2>4 DEF Handler
  <2>6. req' = [req EXCEPT ![c] = h]
    BY <1>1 DEF Arrive
  <2> HIDE DEF h
  <2> QED
    BY <1>1, <1>r, <2>5, <2>6 DEF Arrive, ApiTypeOK, indexVars, IndexTypeOK
<1>2. ASSUME NEW ok \in SUBSET DOMAIN req[c].subs, put(c, ok) PROVE IndexTypeOK' /\ ApiTypeOK'
  <2>1. Only(req[c].subs, ok) \in Positioned
    BY <1>r, OnlyType
  <2>2. {req[c].subs[i].hash : i \in ok} \subseteq Hashes
    BY <1>r, PositionedType
  <2>3. req' \in [Clients -> Handler]
    BY <1>2, <1>r, <2>1 DEF put, Handler
  <2> QED
    BY <1>2, <2>2, <2>3 DEF put, ApiTypeOK, indexVars, IndexTypeOK
<1>3. CASE Submit(c)
  <2>1. Accepted(c) \subseteq Submission
    BY <1>r, PositionedType DEF Accepted
  <2>2. IndexTypeOK'
    BY <1>3, <1>r, SubmitType DEF Submit
  <2> QED
    BY <1>3, <1>r, <2>1, <2>2, NoRequestType DEF Submit, ApiTypeOK
<1>4. CASE SubmitFails(c)
  BY <1>4, <1>r, NoRequestType DEF SubmitFails, ApiTypeOK, indexVars, IndexTypeOK
<1>5. CASE Disconnect(c)
  <2>1. req' \in [Clients -> Handler] /\ acked' = acked /\ detached' \subseteq Positioned
    BY <1>5, <1>r, NoRequestType DEF Disconnect, ApiTypeOK
  <2>2. \A i \in DOMAIN req[c].subs : req[c].subs[i].hash \in Hashes
    BY <1>r, PositionedType
  <2>3. blobs' \subseteq Hashes
    BY <1>5, <2>2 DEF Disconnect, ApiTypeOK
  <2>4. IndexTypeOK'
    BY <1>5 DEF Disconnect, indexVars, IndexTypeOK
  <2> QED
    BY <2>1, <2>3, <2>4 DEF ApiTypeOK
<1> QED
  BY <1>1, <1>2, <1>3, <1>4, <1>5

\* So does a transaction that has lost its handler.
LEMMA DetachedType ==
    ASSUME IndexTypeOK, ApiTypeOK, NEW subs \in detached,
           DetachedSubmit(subs) \/ DetachedFails(subs)
    PROVE  IndexTypeOK' /\ ApiTypeOK'
<1>1. subs \in Positioned
  BY DEF ApiTypeOK
<1>2. IndexTypeOK'
  BY <1>1, SubmitType DEF DetachedSubmit, DetachedFails, indexVars, IndexTypeOK
<1> QED
  BY <1>2 DEF DetachedSubmit, DetachedFails, ApiTypeOK

\* A data directory of an older version, or an empty one, is well-typed.
LEMMA InitType == Init => TypeOK
<1> SUFFICES ASSUME Init PROVE TypeOK
  OBVIOUS
<1>1. Cardinality({k \in Keys : Legacy[k] # None}) \in Nat
  <2>1. IsFiniteSet({k \in Keys : Legacy[k] # None})
    BY IndexAssumption, FS_Subset
  <2> QED
    BY <2>1, FS_CardinalityType
<1>2. ASSUME NEW p \in Partitions PROVE PartOf(Legacy, p) \in Tree \union {None}
  <2> DEFINE mine == [k \in Keys |-> IF PartitionOf[k] = p THEN Legacy[k] ELSE None]
  <2>1. mine \in Tree
    BY LegacyAssumption DEF Tree
  <2> QED
    BY <2>1 DEF PartOf
<1>3. IndexTypeOK
  BY <1>1, LegacyAssumption DEF Init, IndexTypeOK, IndexRecord, Status, Tree
<1>4. DocTypeOK
  BY <1>2 DEF Init, DocTypeOK
<1>5. PublisherTypeOK
  BY FirstPartition DEF Init, PublisherTypeOK, PcValues
<1>6. ApiTypeOK
  BY NoRequestType, LegacyAssumption DEF Init, ApiTypeOK, Tree
<1> QED
  BY <1>3, <1>4, <1>5, <1>6 DEF TypeOK, Init

\* Every step of the daemon keeps the types.
LEMMA StepType == TypeOK /\ [Next]_vars => TypeOK'
<1> SUFFICES ASSUME TypeOK, [Next]_vars PROVE TypeOK'
  OBVIOUS
<1> USE DEF TypeOK
<1>1. CASE Start
  BY <1>1, FirstPartition DEF Start, TaskStart, indexVars, docVars, apiVars, IndexTypeOK,
     DocTypeOK, ApiTypeOK, PublisherTypeOK, PcValues
<1>2. CASE Sigterm \/ HandlersDone \/ Exit \/ FaultsCease
  BY <1>2 DEF Sigterm, HandlersDone, Exit, FaultsCease, indexVars, docVars, apiVars, taskVars,
     IndexTypeOK, DocTypeOK, ApiTypeOK, PublisherTypeOK
<1>3. CASE Crash
  <2>1. PublisherTypeOK'
    BY <1>3, FirstPartition DEF Crash, TaskOff, PublisherTypeOK, PcValues
  <2>2. ApiTypeOK'
    BY <1>3, NoRequestType DEF Crash, ApiTypeOK
  <2> QED
    BY <1>3, <2>1, <2>2 DEF Crash, indexVars, docVars, IndexTypeOK, DocTypeOK
<1>4. ASSUME NEW c \in Clients, Handle(c) PROVE TypeOK'
  <2>1. IndexTypeOK' /\ ApiTypeOK'
    BY <1>4, HandlerType DEF Handle
  <2> QED
    BY <1>4, <2>1 DEF Handle, docVars, taskVars, DocTypeOK, PublisherTypeOK
<1>9. CASE Detached
  <2>1. IndexTypeOK' /\ ApiTypeOK'
    BY <1>9, DetachedType DEF Detached
  <2> QED
    BY <1>9, <2>1 DEF Detached, docVars, taskVars, DocTypeOK, PublisherTypeOK
<1>5. CASE Publish \/ Drain \/ PublisherFails
  <2>1. calm \in BOOLEAN /\ (~calm) \in BOOLEAN
    OBVIOUS
  <2>2. IndexTypeOK' /\ DocTypeOK' /\ PublisherTypeOK'
    BY <1>5, <2>1, PublisherType DEF Publish, Drain, PublisherFails
  <2> QED
    BY <1>5, <2>2 DEF Publish, Drain, PublisherFails, apiVars, ApiTypeOK
<1>6. CASE EntryBlobLost
  BY <1>6 DEF EntryBlobLost, LoseEntryBlob, indexVars, apiVars, taskVars,
     IndexTypeOK, DocTypeOK, ApiTypeOK, PublisherTypeOK
<1>7. CASE EditDenylist
  BY <1>7 DEF EditDenylist, indexVars, docVars, apiVars, taskVars,
     IndexTypeOK, DocTypeOK, ApiTypeOK, PublisherTypeOK
<1>8. CASE UNCHANGED vars
  BY <1>8 DEF vars, indexVars, docVars, apiVars, taskVars,
     IndexTypeOK, DocTypeOK, ApiTypeOK, PublisherTypeOK
<1> QED
  BY <1>1, <1>2, <1>3, <1>4, <1>5, <1>6, <1>7, <1>8, <1>9 DEF Next

\* Type correctness of the daemon.
THEOREM TypeCorrect == Spec => []TypeOK
  BY InitType, StepType, PTL DEF Spec

-----------------------------------------------------------------------------
(***************************************************************************)
(* No silent loss, and accepted submissions are kept: Inv is inductive.    *)
(***************************************************************************)

\* The part of Inv about the index, the roots and the publisher's task.
PublishInv ==
    TreesSound /\ BatchSound /\ NewRootComplete /\ WritesInOrder /\ NoSilentLoss

\* The part of Inv about handlers and their clients.
AcceptInv == BytesFirst /\ AcceptedIsKept

\* A data directory of an older version satisfies the invariant.
LEMMA InitInv == Init => Inv
<1> SUFFICES ASSUME Init PROVE Inv
  OBVIOUS
<1>t. TypeOK
  BY InitType
<1>1. ASSUME NEW k \in Keys
      PROVE  /\ records[k] = None <=> Legacy[k] = None
             /\ records[k] # None => records[k].hash = Legacy[k]
  BY <1>t, LegacyAssumption, IndexAssumption
     DEF Init, Tree, IndexRecord, Status, TypeOK, IndexTypeOK
<1>2. ASSUME NEW p \in Partitions, doc_roots[p] # None, NEW k \in Keys
      PROVE  doc_roots[p][k] = IF PartitionOf[k] = p THEN Legacy[k] ELSE None
  BY <1>2 DEF Init, PartOf
<1>3. ASSUME NEW k \in Keys, Legacy[k] # None
      PROVE  doc_roots[PartitionOf[k]] # None
  <2> DEFINE p == PartitionOf[k]
             mine == [x \in Keys |-> IF PartitionOf[x] = p THEN Legacy[x] ELSE None]
  <2>1. mine \in Tree /\ mine # EmptyTree
    <3>1. mine[k] # None /\ EmptyTree[k] = None
      BY <1>3 DEF EmptyTree
    <3> QED
      BY <3>1, LegacyAssumption DEF Tree
  <2>2. doc_roots[p] = mine
    BY <2>1, IndexAssumption DEF Init, PartOf
  <2> QED
    BY <2>1, <2>2, IndexAssumption
<1>4. TreesSound
  BY <1>1, <1>2 DEF TreesSound, Sound, Init
<1>5. NoSilentLoss
  BY <1>1, <1>2, <1>3, IndexAssumption DEF NoSilentLoss, Lists, WriterRoot, Init
<1>6. BatchSound /\ NewRootComplete /\ WritesInOrder
  BY DEF Init, BatchSound, NewRootComplete, WritesInOrder
<1>7. BytesFirst /\ AcceptedIsKept
  BY <1>1 DEF Init, BytesFirst, AcceptedIsKept, NoRequest
<1> QED
  BY <1>t, <1>4, <1>5, <1>6, <1>7 DEF Inv

\* New pending records and settled ones change nothing the publisher relies
\* on, as long as bindings stay and nothing new is called published.
LEMMA BindingsKept ==
    ASSUME TypeOK, PublishInv, UNCHANGED <<local_roots, doc_roots, taskVars>>,
           \A k \in Keys : records[k] # None =>
               records'[k] # None /\ records'[k].hash = records[k].hash,
           \A k \in Keys : IsPublished(k)' => IsPublished(k)
    PROVE  PublishInv'
<1> USE DEF taskVars
<1>0. CurrentPartition' = CurrentPartition /\ Publishable' = Publishable
  BY DEF CurrentPartition, Publishable, Items
<1>1. ASSUME NEW root, Sound(root) PROVE Sound(root)'
  BY <1>1 DEF Sound
<1>b. ASSUME NEW it \in batch PROVE it.key \in Keys /\ it \in BatchItem
  BY DEF TypeOK, PublisherTypeOK, BatchItem
<1>2. TreesSound'
  BY <1>1 DEF TreesSound, PublishInv
<1>3. BatchSound'
  BY <1>b DEF BatchSound, PublishInv
<1>4. ASSUME NEW root, NEW k \in Keys, records[k] # None, Lists(root, k)
      PROVE  Lists(root, k)'
  BY <1>4 DEF Lists
<1>5. NoSilentLoss'
  BY <1>4 DEF NoSilentLoss, PublishInv, WriterRoot, IsPublished
<1>6. NewRootComplete'
  <2>1. \A it \in Publishable : it.key \in Keys /\ records[it.key] # None
    BY <1>b DEF PublishInv, BatchSound, Publishable, Items
  <2> QED
    BY <1>0, <1>4, <2>1 DEF NewRootComplete, PublishInv, IsPublished
<1>7. WritesInOrder'
  <2>1. \A it \in Publishable : it.key \in Keys /\ records[it.key] # None
    BY <1>b DEF PublishInv, BatchSound, Publishable, Items
  <2> QED
    BY <1>0, <1>4, <2>1 DEF WritesInOrder, PublishInv
<1> QED
  BY <1>2, <1>3, <1>5, <1>6, <1>7 DEF PublishInv

\* Nothing but a handler and a crash touches requests and responses, and the
\* bindings they rely on stay.
LEMMA AcceptKept ==
    ASSUME TypeOK, AcceptInv, UNCHANGED apiVars,
           \A k \in Keys : records[k] = None <=> records'[k] = None,
           \A k \in Keys : records[k] # None => records'[k].hash = records[k].hash
    PROVE  AcceptInv'
<1> USE DEF apiVars
<1>1. \A s \in acked : s.key \in Keys
  BY DEF TypeOK, ApiTypeOK, Submission
<1>2. \A c \in Clients : \A s \in req[c].dups : s.key \in Keys
  BY DEF TypeOK, ApiTypeOK, Handler, Submission
<1>3. BytesFirst'
  BY <1>2 DEF AcceptInv, BytesFirst
<1>4. AcceptedIsKept'
  BY <1>1 DEF AcceptInv, AcceptedIsKept
<1> QED
  BY <1>3, <1>4 DEF AcceptInv

\* What submit_many does to the invariant, whoever runs it, when the bytes of
\* its submissions are in the store: nothing the publisher relies on changes,
\* no binding changes, and every record has its bytes.
LEMMA ClaimKeeps ==
    ASSUME TypeOK, PublishInv, AcceptInv, UNCHANGED <<docVars, taskVars, blobs>>,
           NEW subs \in Positioned, submit_many(subs),
           \A i \in DOMAIN subs : subs[i].hash \in blobs
    PROVE  /\ PublishInv'
           /\ \A k \in Keys : records[k] # None => records'[k] = records[k]
           /\ \A k \in Keys : records'[k] # None => records'[k].hash \in blobs
<1>1. IndexTypeOK /\ UNCHANGED local_roots
  BY DEF TypeOK, submit_many
<1>2. ASSUME NEW k \in Keys
      PROVE  /\ records[k] # None => records'[k] = records[k]
             /\ records[k] = None /\ records'[k] # None =>
                  \E i \in DOMAIN subs : /\ subs[i].key = k
                                         /\ records'[k] = [hash |-> subs[i].hash,
                                                           status |-> "pending"]
  BY <1>1, SubmitClaims
<1>3. ASSUME NEW k \in Keys, records[k] # None
      PROVE  records'[k] # None /\ records'[k].hash = records[k].hash
  BY <1>2, <1>3
<1>4. ASSUME NEW k \in Keys, IsPublished(k)' PROVE IsPublished(k)
  <2>1. CASE records[k] # None
    BY <1>2, <1>4, <2>1 DEF IsPublished
  <2>2. CASE records[k] = None
    <3>1. PICK i \in DOMAIN subs : records'[k] = [hash |-> subs[i].hash,
                                                 status |-> "pending"]
      BY <1>2, <1>4, <2>2 DEF IsPublished
    <3>2. records'[k].status = "pending"
      BY <3>1
    <3> QED
      BY <1>4, <3>2 DEF IsPublished
  <2> QED
    BY <2>1, <2>2
<1>5. PublishInv'
  BY <1>1, <1>3, <1>4, BindingsKept DEF docVars
<1>6. ASSUME NEW k \in Keys, records'[k] # None PROVE records'[k].hash \in blobs
  <2>1. CASE records[k] # None
    BY <1>2, <2>1 DEF AcceptInv, BytesFirst
  <2>2. CASE records[k] = None
    <3>1. PICK i \in DOMAIN subs : records'[k] = [hash |-> subs[i].hash,
                                                 status |-> "pending"]
      BY <1>2, <1>6, <2>2
    <3> QED
      BY <3>1
  <2> QED
    BY <2>1, <2>2
<1> QED
  BY <1>2, <1>5, <1>6

\* Every step of a handler keeps the invariant (api.rs): the blob before the
\* claim, the claim decided inside the transaction.
LEMMA HandlerInv ==
    ASSUME Inv, NEW c \in Clients, UNCHANGED <<docVars, taskVars>>,
           \/ \E r \in Requests : Arrive(c, r)
           \/ \E ok \in SUBSET DOMAIN req[c].subs : put(c, ok)
           \/ Submit(c) \/ SubmitFails(c) \/ Disconnect(c)
    PROVE  PublishInv' /\ AcceptInv'
<1>t. /\ TypeOK /\ IndexTypeOK /\ PublishInv /\ AcceptInv
      /\ req \in [Clients -> Handler] /\ req[c] \in Handler
      /\ req[c].subs \in Positioned /\ req[c].dups \subseteq Submission
  BY DEF Inv, PublishInv, AcceptInv, TypeOK, ApiTypeOK, Handler
<1>d. \A d \in Clients : req[d].subs \in Positioned /\ \A s \in req[d].dups : s.key \in Keys
  BY <1>t DEF Handler, Submission
<1>a. \A s \in acked : s.key \in Keys
  BY <1>t DEF TypeOK, ApiTypeOK, Submission
<1>1. ASSUME NEW r \in Requests, Arrive(c, r) PROVE PublishInv' /\ AcceptInv'
  <2>1. UNCHANGED <<records, local_roots, blobs, detached, acked>>
    BY <1>1 DEF Arrive, indexVars
  <2>2. PublishInv'
    BY <1>t, <2>1, BindingsKept DEF IsPublished, docVars
  <2>3. /\ req'[c].at = "put"
        /\ \A s \in req'[c].dups : records[s.key] # None /\ records[s.key].hash = s.hash
        /\ \A d \in Clients \ {c} : req'[d] = req[d]
    BY <1>1, <1>t DEF Arrive, Identical, Unknown
  <2>4. BytesFirst'
    BY <1>t, <2>1, <2>3 DEF AcceptInv, BytesFirst
  <2> QED
    BY <1>t, <2>1, <2>2, <2>4 DEF AcceptInv, AcceptedIsKept
<1>2. ASSUME NEW ok \in SUBSET DOMAIN req[c].subs, put(c, ok) PROVE PublishInv' /\ AcceptInv'
  <2>1. UNCHANGED <<records, local_roots, detached, acked>> /\ blobs \subseteq blobs'
    BY <1>2 DEF put, indexVars
  <2>2. PublishInv'
    BY <1>t, <2>1, BindingsKept DEF IsPublished, docVars
  <2>3. /\ req'[c].subs = Only(req[c].subs, ok)
        /\ req'[c].dups = req[c].dups
        /\ \A d \in Clients \ {c} : req'[d] = req[d]
    BY <1>2, <1>t DEF put, Handler
  <2>4. \A i \in DOMAIN req'[c].subs : req'[c].subs[i].hash \in blobs'
    <3>1. blobs' = blobs \union {req[c].subs[i].hash : i \in ok}
      BY <1>2 DEF put
    <3>2. DOMAIN Only(req[c].subs, ok) = ok
      BY DEF Only
    <3>3. \A i \in ok : Only(req[c].subs, ok)[i] = req[c].subs[i]
      BY DEF Only
    <3> QED
      BY <2>3, <3>1, <3>2, <3>3
  <2>5. BytesFirst'
    BY <1>t, <2>1, <2>3, <2>4 DEF AcceptInv, BytesFirst
  <2> QED
    BY <1>t, <2>1, <2>2, <2>5 DEF AcceptInv, AcceptedIsKept
<1> DEFINE subs == req[c].subs
<1>3. CASE Submit(c)
  <2>1. submit_many(subs) /\ req[c].at = "submit" /\ UNCHANGED <<blobs, detached>>
    BY <1>3 DEF Submit
  <2>2. \A i \in DOMAIN subs : subs[i].hash \in blobs
    BY <1>t, <2>1 DEF AcceptInv, BytesFirst
  <2>3. /\ PublishInv'
        /\ \A k \in Keys : records[k] # None => records'[k] = records[k]
        /\ \A k \in Keys : records'[k] # None => records'[k].hash \in blobs
    BY <1>t, <2>1, <2>2, ClaimKeeps
  <2>4. \A d \in Clients : req'[d] = IF d = c THEN NoRequest ELSE req[d]
    BY <1>3, <1>t DEF Submit
  <2>7. BytesFirst'
    BY <1>t, <1>d, <2>1, <2>3, <2>4 DEF AcceptInv, BytesFirst, NoRequest, NoSubs
  <2>8. ASSUME NEW s \in acked'
        PROVE  records'[s.key] # None /\ records'[s.key].hash = s.hash /\ s.hash \in blobs'
    <3>1. CASE s \in acked
      BY <1>t, <1>a, <2>1, <2>3, <3>1 DEF AcceptInv, AcceptedIsKept
    <3>2. CASE s \in req[c].dups
      BY <1>t, <1>d, <2>1, <2>3, <3>2 DEF AcceptInv, BytesFirst
    <3>3. ASSUME NEW i \in DOMAIN subs, SubmitOutcome(subs, i) # "Conflict", s = subs[i]
          PROVE  records'[s.key] # None /\ records'[s.key].hash = s.hash /\ s.hash \in blobs'
      BY <1>t, <2>1, <2>2, <3>3, SubmitBinds
    <3>5. \/ s \in acked \/ s \in req[c].dups
          \/ \E i \in DOMAIN subs : SubmitOutcome(subs, i) # "Conflict" /\ s = subs[i]
      BY <1>3 DEF Submit, Accepted
    <3> QED
      BY <3>1, <3>2, <3>3, <3>5
  <2> QED
    BY <2>3, <2>7, <2>8 DEF AcceptInv, AcceptedIsKept
<1>4. CASE SubmitFails(c) \/ Disconnect(c)
  <2>1. UNCHANGED <<records, local_roots, acked>> /\ blobs \subseteq blobs'
    BY <1>4 DEF SubmitFails, Disconnect, indexVars
  <2>2. PublishInv'
    BY <1>t, <2>1, BindingsKept DEF IsPublished, docVars
  <2>3. \A d \in Clients : req'[d] = IF d = c THEN NoRequest ELSE req[d]
    BY <1>4, <1>t DEF SubmitFails, Disconnect
  <2>4. \/ detached' = detached
        \/ detached' = detached \union {req[c].subs} /\ req[c].at = "submit"
    BY <1>4 DEF SubmitFails, Disconnect
  <2>5. BytesFirst'
    BY <1>t, <2>1, <2>3, <2>4 DEF AcceptInv, BytesFirst, NoRequest, NoSubs
  <2> QED
    BY <1>t, <2>1, <2>2, <2>5 DEF AcceptInv, AcceptedIsKept
<1> QED
  BY <1>1, <1>2, <1>3, <1>4

\* A transaction without its handler keeps the invariant: it has its bytes.
LEMMA DetachedInv ==
    ASSUME Inv, UNCHANGED <<docVars, taskVars>>, NEW subs \in detached,
           DetachedSubmit(subs) \/ DetachedFails(subs)
    PROVE  PublishInv' /\ AcceptInv'
<1>t. /\ TypeOK /\ PublishInv /\ AcceptInv
      /\ subs \in Positioned /\ req \in [Clients -> Handler] /\ acked \subseteq Submission
  BY DEF Inv, PublishInv, AcceptInv, TypeOK, ApiTypeOK
<1>d. \A c \in Clients : \A s \in req[c].dups : s.key \in Keys
  BY <1>t DEF Handler, Submission
<1>a. \A s \in acked : s.key \in Keys
  BY <1>t DEF Submission
<1>u. UNCHANGED <<blobs, req, acked>> /\ detached' \subseteq detached
  BY DEF DetachedSubmit, DetachedFails
<1>1. \A i \in DOMAIN subs : subs[i].hash \in blobs
  BY <1>t DEF AcceptInv, BytesFirst
<1>2. /\ PublishInv'
      /\ \A k \in Keys : records[k] # None => records'[k] = records[k]
      /\ \A k \in Keys : records'[k] # None => records'[k].hash \in blobs
  <2>1. CASE DetachedSubmit(subs)
    BY <1>t, <1>u, <1>1, <2>1, ClaimKeeps DEF DetachedSubmit
  <2>2. CASE DetachedFails(subs)
    <3>1. UNCHANGED <<records, local_roots>>
      BY <2>2 DEF DetachedFails, indexVars
    <3> QED
      BY <1>t, <3>1, BindingsKept DEF IsPublished, docVars, AcceptInv, BytesFirst
  <2> QED
    BY <2>1, <2>2
<1>3. BytesFirst'
  BY <1>t, <1>d, <1>u, <1>2 DEF AcceptInv, BytesFirst
<1>4. AcceptedIsKept'
  BY <1>t, <1>a, <1>u, <1>2 DEF AcceptInv, AcceptedIsKept
<1> QED
  BY <1>2, <1>3, <1>4 DEF AcceptInv

\* A step that leaves a cycle, or stays outside the four writes, and neither
\* touches a root nor calls anything new published.
LEMMA OutsideWrites ==
    ASSUME TypeOK, PublishInv, UNCHANGED <<local_roots, doc_roots>>,
           \A k \in Keys : records[k] # None =>
               records'[k] # None /\ records'[k].hash = records[k].hash,
           \A k \in Keys : IsPublished(k)' => IsPublished(k),
           pc' \notin {"set_doc", "set_local", "mark_published"},
           new_root' \in {new_root, None}, batch' \subseteq batch
    PROVE  PublishInv'
<1>1. ASSUME NEW root, Sound(root) PROVE Sound(root)'
  BY <1>1 DEF Sound
<1>2. TreesSound'
  <2>1. \A p \in Partitions : Sound(local_roots[p])' /\ Sound(doc_roots[p])'
    BY <1>1 DEF TreesSound, PublishInv
  <2>2. Sound(new_root)'
    BY <1>1 DEF TreesSound, PublishInv, Sound
  <2> QED
    BY <2>1, <2>2 DEF TreesSound
<1>3. BatchSound'
  BY DEF BatchSound, PublishInv, TypeOK, PublisherTypeOK, BatchItem
<1>4. NoSilentLoss'
  BY DEF NoSilentLoss, PublishInv, WriterRoot, IsPublished, Lists
<1> QED
  BY <1>2, <1>3, <1>4 DEF PublishInv, NewRootComplete, WritesInOrder

\* What the partition at work is, once the batch holds something of it.
LEMMA PublishableType ==
    ASSUME TypeOK, PublishInv, NEW it \in Publishable
    PROVE  /\ it \in BatchItem /\ it.key \in Keys
           /\ PartitionOf[it.key] = CurrentPartition
           /\ CurrentPartition \in Partitions
           /\ records[it.key] # None /\ it.hash = records[it.key].hash
<1>1. it \in batch /\ PartitionOf[it.key] = CurrentPartition
  BY DEF Publishable, Items
<1>2. it \in BatchItem /\ it.key \in Keys
  BY <1>1 DEF TypeOK, PublisherTypeOK, BatchItem
<1> QED
  BY <1>1, <1>2, IndexAssumption DEF PublishInv, BatchSound

\* Copying the document's root to the index, or back, loses nothing.
LEMMA SeedAndHeal ==
    ASSUME TypeOK, PublishInv,
           \E f \in BOOLEAN : seed_local_roots(f) \/ heal_pointer_doc(f)
    PROVE  PublishInv' /\ records' = records
<1>t. cursor \in Partitions
  BY DEF TypeOK, PublisherTypeOK
<1>1. /\ records' = records
      /\ pc' \notin {"set_doc", "set_local", "mark_published"}
      /\ UNCHANGED <<batch, new_root>>
  BY DEF seed_local_roots, heal_pointer_doc, Advance, indexVars, set_local_root
<1>2. \/ UNCHANGED <<local_roots, doc_roots>>
      \/ /\ local_roots[cursor] = None /\ doc_roots[cursor] # None
         /\ local_roots' = [local_roots EXCEPT ![cursor] = doc_roots[cursor]]
         /\ doc_roots' = doc_roots
      \/ /\ local_roots[cursor] # None
         /\ doc_roots' = [doc_roots EXCEPT ![cursor] = local_roots[cursor]]
         /\ local_roots' = local_roots
  <2>1. ASSUME NEW f \in BOOLEAN, seed_local_roots(f)
        PROVE  \/ UNCHANGED <<local_roots, doc_roots>>
               \/ /\ local_roots[cursor] = None /\ doc_roots[cursor] # None
                  /\ local_roots' = [local_roots EXCEPT ![cursor] = doc_roots[cursor]]
                  /\ doc_roots' = doc_roots
    BY <1>t, <2>1, ReadType, DocAssumption, IndexAssumption
       DEF seed_local_roots, set_local_root, indexVars, docVars, TypeOK
  <2>2. ASSUME NEW f \in BOOLEAN, heal_pointer_doc(f)
        PROVE  \/ UNCHANGED <<local_roots, doc_roots>>
               \/ /\ local_roots[cursor] # None
                  /\ doc_roots' = [doc_roots EXCEPT ![cursor] = local_roots[cursor]]
                  /\ local_roots' = local_roots
    BY <2>2 DEF heal_pointer_doc, set_partition_root, indexVars, docVars
  <2> QED
    BY <2>1, <2>2
<1>3. ASSUME NEW p \in Partitions
      PROVE  /\ WriterRoot(p)' = WriterRoot(p)
             /\ local_roots'[p] \in {local_roots[p], doc_roots[p]}
             /\ doc_roots'[p] \in {WriterRoot(p), doc_roots[p]}
             /\ doc_roots'[p] \in {local_roots[p], doc_roots[p]}
  BY <1>2, <1>t DEF WriterRoot, TypeOK, IndexTypeOK, DocTypeOK
<1>4. TreesSound'
  BY <1>1, <1>3 DEF TreesSound, PublishInv, Sound
<1>5. NoSilentLoss'
  BY <1>1, <1>3, IndexAssumption DEF NoSilentLoss, PublishInv, Lists
<1> QED
  BY <1>1, <1>4, <1>5 DEF PublishInv, NewRootComplete, WritesInOrder, BatchSound

\* The new tree keeps every published record of its partition and adds the
\* publishable ones (publish_cycle on current_root).
LEMMA BuildInv ==
    ASSUME TypeOK, PublishInv, NEW f \in BOOLEAN, BuildTree(f)
    PROVE  PublishInv' /\ records' = records
<1>1. /\ UNCHANGED <<records, local_roots, doc_roots, batch, denied>>
      /\ pc' = "set_doc" /\ Publishable # {}
  BY DEF BuildTree, indexVars, docVars
<1>2. CurrentPartition \in Partitions /\ Publishable \in SUBSET BatchItem
  BY <1>1, PublishableType
<1> DEFINE p == CurrentPartition
<1>3. PICK root \in current_root(p, f) \ {Unreadable} :
        new_root' = insert_batch(root, Publishable)
  BY DEF BuildTree
<1>4. root = WriterRoot(p) /\ root \in Tree \union {None}
  BY <1>2, <1>3, ReadType DEF current_root, WriterRoot, TypeOK, IndexTypeOK, DocTypeOK
<1>5. Sound(root)
  BY <1>2, <1>4 DEF WriterRoot, PublishInv, TreesSound
<1>6. /\ new_root' \in Tree
      /\ \A k \in Keys : root # None /\ root[k] # None => new_root'[k] = root[k]
      /\ \A k \in Keys : (root = None \/ root[k] = None) =>
            IF k \in KeysOf(Publishable)
            THEN \E e \in Publishable : e.key = k /\ new_root'[k] = e.hash
            ELSE new_root'[k] = None
  BY <1>2, <1>3, <1>4, InsertTree
<1>7. ASSUME NEW k \in Keys, k \in KeysOf(Publishable) \/ new_root'[k] # None
      PROVE  records[k] # None /\ new_root'[k] = records[k].hash
  <2>1. CASE root # None /\ root[k] # None
    BY <1>5, <1>6, <2>1 DEF Sound
  <2>2. CASE root = None \/ root[k] = None
    <3>1. PICK e \in Publishable : e.key = k /\ new_root'[k] = e.hash
      BY <1>6, <1>7, <2>2
    <3> QED
      BY <3>1, PublishableType
  <2> QED
    BY <2>1, <2>2
<1>8. ASSUME NEW k \in Keys, PartitionOf[k] = p, IsPublished(k)
      PROVE  new_root'[k] = records[k].hash
  <2>1. Lists(root, k)
    BY <1>4, <1>8 DEF PublishInv, NoSilentLoss, IsPublished
  <2>2. root[k] # None
    BY <1>8, <2>1, IndexAssumption DEF Lists, IsPublished, TypeOK, IndexTypeOK, IndexRecord
  <2> QED
    BY <1>6, <2>1, <2>2 DEF Lists
<1>9. Publishable' = Publishable /\ CurrentPartition' = p
  BY <1>1 DEF Publishable, Items, CurrentPartition
<1>10. new_root' # None
  BY <1>6, IndexAssumption
<1>11. TreesSound'
  BY <1>1, <1>7 DEF PublishInv, TreesSound, Sound
<1>12. NewRootComplete'
  <2>1. \A it \in Publishable : new_root'[it.key] = records[it.key].hash
    BY <1>7, PublishableType DEF KeysOf
  <2> QED
    BY <1>1, <1>8, <1>9, <1>10, <2>1 DEF NewRootComplete, Lists, IsPublished
<1> HIDE DEF p
<1>13. NoSilentLoss'
  BY <1>1 DEF PublishInv, NoSilentLoss, Lists, WriterRoot
<1> QED
  BY <1>1, <1>11, <1>12, <1>13 DEF PublishInv, WritesInOrder, BatchSound

\* The document takes the new tree, then the index does (publish_cycle).
LEMMA RootWrites ==
    ASSUME TypeOK, PublishInv, SetDocRoot \/ SetLocalRoot
    PROVE  PublishInv' /\ records' = records
<1> DEFINE p == CurrentPartition
<1>t. /\ local_roots \in [Partitions -> Tree \union {None}]
      /\ doc_roots \in [Partitions -> Tree \union {None}]
      /\ \A it \in Publishable : it.key \in Keys /\ PartitionOf[it.key] = p /\ p \in Partitions
      /\ \A k \in Keys : PartitionOf[k] \in Partitions
  BY PublishableType, IndexAssumption DEF TypeOK, IndexTypeOK, DocTypeOK
<1>n. /\ records' = records /\ batch' = batch /\ denied' = denied
      /\ new_root # None /\ Sound(new_root)
      /\ \A k \in Keys : PartitionOf[k] = p /\ IsPublished(k) => Lists(new_root, k)
      /\ \A it \in Publishable : Lists(new_root, it.key)
  BY DEF SetDocRoot, SetLocalRoot, set_local_root, Goto, indexVars, PublishInv,
         NewRootComplete, TreesSound
<1>c. Publishable' = Publishable /\ CurrentPartition' = p
  BY <1>n DEF Publishable, Items, CurrentPartition
<1> HIDE DEF p
<1>b. BatchSound'
  BY <1>n DEF PublishInv, BatchSound
<1>1. CASE SetDocRoot
  <2>1. /\ doc_roots' = [doc_roots EXCEPT ![p] = new_root] /\ local_roots' = local_roots
        /\ new_root' = new_root /\ pc' = "set_local"
    BY <1>1 DEF SetDocRoot, set_partition_root, Goto, indexVars, p
  <2>2. TreesSound'
    BY <1>t, <1>n, <2>1 DEF PublishInv, TreesSound, Sound
  <2>3. NoSilentLoss'
    BY <1>t, <1>n, <2>1 DEF PublishInv, NoSilentLoss, IsPublished, Lists, WriterRoot
  <2>4. NewRootComplete'
    BY <1>n, <1>c, <2>1 DEF NewRootComplete, Lists, IsPublished
  <2>5. WritesInOrder'
    BY <1>t, <1>c, <2>1 DEF WritesInOrder
  <2> QED
    BY <1>n, <1>b, <2>2, <2>3, <2>4, <2>5 DEF PublishInv
<1>2. CASE SetLocalRoot
  <2>1. /\ local_roots' = [local_roots EXCEPT ![p] = new_root] /\ doc_roots' = doc_roots
        /\ new_root' = None /\ pc' = "mark_published"
        /\ Publishable # {} => doc_roots[p] = new_root
    BY <1>2 DEF SetLocalRoot, set_local_root, docVars, p, PublishInv, WritesInOrder
  <2>2. TreesSound'
    BY <1>t, <1>n, <2>1 DEF PublishInv, TreesSound, Sound
  <2>3. NoSilentLoss'
    BY <1>t, <1>n, <2>1 DEF PublishInv, NoSilentLoss, IsPublished, Lists, WriterRoot
  <2>4. WritesInOrder'
    BY <1>t, <1>n, <1>c, <2>1 DEF WritesInOrder, Lists
  <2> QED
    BY <1>n, <1>b, <2>1, <2>2, <2>3, <2>4 DEF PublishInv, NewRootComplete
<1> QED
  BY <1>1, <1>2

\* Records are called published once both roots list them (mark_published).
LEMMA MarkInv ==
    ASSUME TypeOK, PublishInv, mark_published
    PROVE  PublishInv'
<1>1. finish(Publishable, "published") /\ pc = "mark_published" /\ pc' = "mark_denylisted"
      /\ UNCHANGED <<local_roots, doc_roots, batch, new_root>>
  BY DEF mark_published, finish, docVars, Goto
<1>2. /\ \A k \in Keys : records[k] = None <=> records'[k] = None
      /\ \A k \in Keys : records[k] # None => records'[k].hash = records[k].hash
      /\ \A k \in Keys : records[k] # None =>
            records'[k].status = IF k \in KeysOf(Publishable) THEN "published"
                                                              ELSE records[k].status
  BY <1>1, FinishType DEF TypeOK, Status
<1>3. ASSUME NEW k \in Keys, IsPublished(k)'
      PROVE  /\ records[k] # None
             /\ Lists(WriterRoot(PartitionOf[k]), k) /\ Lists(doc_roots[PartitionOf[k]], k)
  <2>1. records[k] # None
    BY <1>2, <1>3 DEF IsPublished
  <2>2. CASE k \in KeysOf(Publishable)
    <3>1. PICK it \in Publishable : it.key = k
      BY <2>2 DEF KeysOf
    <3>2. /\ Lists(local_roots[PartitionOf[k]], k)
          /\ Lists(doc_roots[PartitionOf[k]], k)
      BY <1>1, <3>1, PublishableType DEF PublishInv, WritesInOrder
    <3> QED
      BY <2>1, <3>2 DEF WriterRoot, Lists
  <2>3. CASE k \notin KeysOf(Publishable)
    BY <1>2, <1>3, <2>1, <2>3 DEF IsPublished, PublishInv, NoSilentLoss
  <2> QED
    BY <2>2, <2>3
<1>4. NoSilentLoss'
  BY <1>1, <1>2, <1>3 DEF NoSilentLoss, IsPublished, Lists, WriterRoot
<1>5. TreesSound'
  BY <1>1, <1>2 DEF PublishInv, TreesSound, Sound
<1>6. BatchSound'
  BY <1>1, <1>2 DEF PublishInv, BatchSound, TypeOK, PublisherTypeOK, BatchItem
<1> QED
  BY <1>1, <1>4, <1>5, <1>6 DEF PublishInv, NewRootComplete, WritesInOrder

\* Every step of the publisher keeps the invariant (publisher.rs).
LEMMA PublisherInv ==
    ASSUME Inv, UNCHANGED apiVars,
           \/ \E f \in BOOLEAN : PublisherNext(f)
           \/ \E f \in BOOLEAN : BeginCycle(TRUE, f)
           \/ \E f \in BOOLEAN : StopIdle(f)
           \/ SeedFails \/ HealFails \/ CycleFails
    PROVE  PublishInv' /\ AcceptInv'
<1>t. TypeOK /\ PublishInv /\ AcceptInv
  BY DEF Inv, PublishInv, AcceptInv
<1>r. ASSUME records' = records PROVE AcceptInv'
  BY <1>t, <1>r, AcceptKept
<1>1. ASSUME NEW f \in BOOLEAN, seed_local_roots(f) \/ heal_pointer_doc(f)
      PROVE  PublishInv' /\ AcceptInv'
  BY <1>t, <1>r, <1>1, SeedAndHeal
<1>2. ASSUME NEW f \in BOOLEAN, BuildTree(f) PROVE PublishInv' /\ AcceptInv'
  BY <1>t, <1>r, <1>2, BuildInv
<1>3. CASE SetDocRoot \/ SetLocalRoot
  BY <1>t, <1>r, <1>3, RootWrites
<1>4. CASE mark_published
  <2>1. AcceptInv'
    BY <1>t, <1>4, FinishType, AcceptKept DEF mark_published, TypeOK, Status
  <2> QED
    BY <1>t, <1>4, <2>1, MarkInv
<1>5. CASE mark_denylisted
  <2>1. /\ \A k \in Keys : records[k] = None <=> records'[k] = None
        /\ \A k \in Keys : records[k] # None => records'[k].hash = records[k].hash
        /\ \A k \in Keys : records[k] # None =>
              records'[k].status = IF k \in KeysOf(Denylisted) THEN "denylisted"
                                                               ELSE records[k].status
    BY <1>t, <1>5, FinishType DEF mark_denylisted, TypeOK, Status
  <2>2. AcceptInv'
    BY <1>t, <2>1, AcceptKept
  <2>3. \A k \in Keys : IsPublished(k)' => IsPublished(k)
    BY <2>1 DEF IsPublished
  <2>4. /\ UNCHANGED <<local_roots, doc_roots>>
        /\ pc' \notin {"set_doc", "set_local", "mark_published"}
        /\ new_root' \in {new_root, None} /\ batch' \subseteq batch
    BY <1>5 DEF mark_denylisted, finish, docVars, CycleEnds
  <2> QED
    BY <1>t, <2>1, <2>2, <2>3, <2>4, OutsideWrites
<1>6. CASE HealDue \/ (\E f \in BOOLEAN : StopIdle(f)) \/ SeedFails \/ HealFails \/ CycleFails \/ RootUnreadable
  <2>1. /\ UNCHANGED <<records, local_roots, doc_roots>>
        /\ pc' \notin {"set_doc", "set_local", "mark_published"}
        /\ new_root' \in {new_root, None} /\ batch' \subseteq batch
    BY <1>6 DEF HealDue, StopIdle, SeedFails, HealFails, CycleFails, RootUnreadable,
       Leave, Goto, CycleEnds, indexVars, docVars
  <2>2. PublishInv'
    BY <1>t, <2>1, OutsideWrites DEF IsPublished
  <2> QED
    BY <1>r, <2>1, <2>2
<1>7. CASE NothingToBuild
  <2>1. /\ UNCHANGED <<records, local_roots, doc_roots, batch, denied, new_root>>
        /\ pc' = "mark_published" /\ Publishable = {}
    BY <1>7 DEF NothingToBuild, Goto, indexVars, docVars
  <2>2. Publishable' = {}
    BY <2>1 DEF Publishable, Items, CurrentPartition
  <2>3. TreesSound' /\ BatchSound'
    BY <1>t, <2>1 DEF PublishInv, TreesSound, BatchSound, Sound
  <2>4. NoSilentLoss'
    BY <1>t, <2>1 DEF PublishInv, NoSilentLoss, Lists, WriterRoot
  <2> QED
    BY <1>r, <2>1, <2>2, <2>3, <2>4 DEF PublishInv, NewRootComplete, WritesInOrder
<1>8. ASSUME NEW f \in BOOLEAN, NEW last \in BOOLEAN, BeginCycle(last, f)
      PROVE  PublishInv' /\ AcceptInv'
  <2>1. /\ UNCHANGED <<records, local_roots, doc_roots, new_root>>
        /\ pc' \notin {"set_doc", "set_local", "mark_published"}
        /\ batch' = pending_batch(MaxPending)
    BY <1>8 DEF BeginCycle, indexVars, docVars
  <2>2. BatchSound'
    BY <1>t, <2>1, BatchType, PublisherAssumption DEF BatchSound, TypeOK
  <2>3. TreesSound'
    BY <1>t, <2>1 DEF PublishInv, TreesSound, Sound
  <2>4. NoSilentLoss'
    BY <1>t, <2>1 DEF PublishInv, NoSilentLoss, Lists, WriterRoot
  <2> QED
    BY <1>r, <2>1, <2>2, <2>3, <2>4 DEF PublishInv, NewRootComplete, WritesInOrder
<1> QED
  BY <1>1, <1>2, <1>3, <1>4, <1>5, <1>6, <1>7, <1>8 DEF PublisherNext

\* Every step of the daemon keeps the invariant.
LEMMA StepInv == Inv /\ [Next]_vars => Inv'
<1> SUFFICES ASSUME Inv, [Next]_vars PROVE Inv'
  OBVIOUS
<1>t. TypeOK /\ PublishInv /\ AcceptInv
  BY DEF Inv, PublishInv, AcceptInv
<1>y. TypeOK'
  BY <1>t, StepType
<1>s. SUFFICES PublishInv' /\ AcceptInv'
  BY <1>y DEF Inv, PublishInv, AcceptInv
<1>1. CASE Start
  <2>1. /\ UNCHANGED <<records, local_roots, doc_roots, new_root, batch, apiVars>>
        /\ pc' = "seed"
    BY <1>1 DEF Start, TaskStart, indexVars, docVars
  <2>2. PublishInv'
    BY <1>t, <2>1, OutsideWrites DEF IsPublished
  <2> QED
    BY <1>t, <2>1, <2>2, AcceptKept
<1>2. CASE \/ Sigterm \/ HandlersDone \/ FaultsCease
           \/ EntryBlobLost \/ EditDenylist \/ UNCHANGED vars
  <2>1. UNCHANGED <<records, local_roots, doc_roots, taskVars, apiVars>>
    BY <1>2 DEF Sigterm, HandlersDone, FaultsCease, EntryBlobLost, LoseEntryBlob,
                EditDenylist, vars, indexVars, docVars
  <2>2. PublishInv'
    BY <1>t, <2>1, BindingsKept DEF IsPublished
  <2> QED
    BY <1>t, <2>1, <2>2, AcceptKept
<1>3. CASE Crash
  <2>1. /\ UNCHANGED <<records, local_roots, doc_roots, blobs, acked>>
        /\ pc' = "off" /\ new_root' = None /\ batch' = {}
        /\ req' = [c \in Clients |-> NoRequest] /\ detached' = {}
    BY <1>3 DEF Crash, TaskOff, indexVars, docVars
  <2>2. PublishInv'
    BY <1>t, <2>1, OutsideWrites DEF IsPublished
  <2>3. AcceptInv'
    BY <1>t, <2>1 DEF AcceptInv, BytesFirst, AcceptedIsKept, NoRequest
  <2> QED
    BY <2>2, <2>3
<1>4. ASSUME NEW c \in Clients, Handle(c) PROVE PublishInv' /\ AcceptInv'
  BY <1>4, HandlerInv DEF Handle
<1>6. CASE Exit
  <2>1. /\ UNCHANGED <<records, local_roots, doc_roots, taskVars, blobs, req, acked>>
        /\ detached' = {}
    BY <1>6 DEF Exit, indexVars, docVars
  <2>2. PublishInv'
    BY <1>t, <2>1, BindingsKept DEF IsPublished
  <2>3. AcceptInv'
    BY <1>t, <2>1 DEF AcceptInv, BytesFirst, AcceptedIsKept
  <2> QED
    BY <2>2, <2>3
<1>7. CASE Detached
  BY <1>7, DetachedInv DEF Detached
<1>5. CASE Publish \/ Drain \/ PublisherFails
  <2>1. (~calm) \in BOOLEAN
    OBVIOUS
  <2> QED
    BY <1>5, <2>1, PublisherInv DEF Publish, Drain, PublisherFails
<1> QED
  BY <1>1, <1>2, <1>3, <1>4, <1>5, <1>6, <1>7 DEF Next

\* Every reachable state of the daemon satisfies the invariant.
THEOREM Invariant == Spec => []Inv
  BY InitInv, StepInv, PTL DEF Spec

\* No record the index calls published is ever missing from the writer's tree
\* or from the tree the pointer document names, whatever crashes, failed
\* writes, lost document entries and replays came before.
THEOREM NoSilentLossHolds == Spec => []NoSilentLoss
<1>1. Inv => NoSilentLoss
  BY DEF Inv
<1> QED
  BY <1>1, Invariant, PTL

\* No accepted submission ever loses its binding or its bytes, whatever other
\* clients send and wherever the daemon crashes.
THEOREM AcceptedIsKeptHolds == Spec => []AcceptedIsKept
<1>1. Inv => AcceptedIsKept
  BY DEF Inv
<1> QED
  BY <1>1, Invariant, PTL

-----------------------------------------------------------------------------
(***************************************************************************)
(* The publish queue holds exactly the pending records.                    *)
(***************************************************************************)

\* The counter is above every row that waits.
RowsBelowCounter == \A r \in queue : r.seq < next_seq

\* A batch item has its row until the transaction that settles it: at
\* mark_denylisted those of the publishable items are gone.
BatchQueued ==
    \A it \in batch : \/ pc = "mark_denylisted" /\ it \in Publishable
                      \/ \E r \in queue : r.seq = it.seq /\ r.key = it.key

QueueInv == QueueMatchesIndex /\ RowsBelowCounter /\ BatchQueued

\* A process that is down has no publisher in the middle of anything.
Stopped == phase = "down" => pc = "off"

\* No record waits in an upgraded data directory, and none has a row.
LEMMA QueueInitInv == Init => QueueInv
<1> SUFFICES ASSUME Init PROVE QueueInv
  OBVIOUS
<1>1. queue = {} /\ batch = {}
  BY DEF Init
<1>2. ASSUME NEW k \in Keys, records[k] # None PROVE records[k].status = "published"
  BY <1>2 DEF Init
<1> QED
  BY <1>1, <1>2 DEF QueueInv, QueueMatchesIndex, RowsBelowCounter, BatchQueued

\* Steps that leave the index alone.
LEMMA QueueKept ==
    ASSUME QueueInv, UNCHANGED <<records, queue, next_seq>>,
           \/ batch' = {}
           \/ batch' = batch /\ pc # "mark_denylisted" /\ pc' # "mark_denylisted"
           \/ UNCHANGED <<pc, batch, denied>>
    PROVE  QueueInv'
<1>1. QueueMatchesIndex' /\ RowsBelowCounter'
  BY DEF QueueInv, QueueMatchesIndex, RowsBelowCounter
<1>2. UNCHANGED <<batch, denied>> => Publishable' = Publishable
  BY DEF Publishable, Items, CurrentPartition
<1>3. BatchQueued'
  BY <1>2 DEF QueueInv, BatchQueued
<1> QED
  BY <1>1, <1>3 DEF QueueInv

\* The rows of a claim take the next numbers, in the order of the request: no
\* number and no key twice, one row per fresh position (index.rs, submit_many).
LEMMA RowsNumbered ==
    ASSUME TypeOK, NEW subs \in Positioned
    PROVE  /\ Cardinality(Fresh(subs)) \in Nat
           /\ \A r \in NewRows(subs) :
                 /\ r.key \in Keys /\ records[r.key] = None
                 /\ r.seq \in Nat /\ next_seq <= r.seq
                 /\ r.seq < next_seq + Cardinality(Fresh(subs))
           /\ \A r, s \in NewRows(subs) : r.key = s.key \/ r.seq = s.seq => r = s
           /\ \A k : (\E r \in NewRows(subs) : r.key = k)
                        <=> \E i \in Fresh(subs) : subs[i].key = k
<1> DEFINE below(i) == {j \in Fresh(subs) : j < i}
           row(i)   == [seq |-> next_seq + Cardinality(below(i)), key |-> subs[i].key]
<1>1. /\ Fresh(subs) \subseteq DOMAIN subs /\ DOMAIN subs \subseteq Nat
      /\ \A S \in SUBSET Fresh(subs) : IsFiniteSet(S) /\ Cardinality(S) \in Nat
      /\ next_seq \in Nat
  <2>1. PICK D \in SUBSET (1 .. BatchMax) : subs \in [D -> Submission]
    BY DEF Positioned
  <2>2. IsFiniteSet(1 .. BatchMax)
    BY FS_Interval, ApiAssumption
  <2>3. Fresh(subs) \subseteq DOMAIN subs
    BY DEF Fresh
  <2>4. \A S \in SUBSET Fresh(subs) : IsFiniteSet(S)
    BY <2>1, <2>2, <2>3, FS_Subset
  <2> QED
    BY <2>3, <2>4, FS_CardinalityType, PositionsNatural DEF TypeOK, IndexTypeOK
<1>2. ASSUME NEW S \in SUBSET Fresh(subs), NEW T \in SUBSET S, T # S
      PROVE  Cardinality(T) < Cardinality(S)
  <2>1. IsFiniteSet(S) /\ Cardinality(S) \in Nat /\ Cardinality(T) \in Nat
    BY <1>1
  <2> QED
    BY <1>2, <2>1, FS_Subset
<1>3. ASSUME NEW i \in Fresh(subs), NEW j \in Fresh(subs), i < j
      PROVE  Cardinality(below(i)) < Cardinality(below(j))
  <2>1. below(j) \in SUBSET Fresh(subs) /\ below(i) \in SUBSET below(j) /\ below(i) # below(j)
    BY <1>1, <1>3
  <2> HIDE DEF below
  <2> QED
    BY <1>2, <2>1
<1>4. ASSUME NEW i \in Fresh(subs)
      PROVE  /\ Cardinality(below(i)) \in Nat /\ Cardinality(below(i)) < Cardinality(Fresh(subs))
  <2>1. below(i) \in SUBSET Fresh(subs) /\ below(i) # Fresh(subs)
    BY <1>1
  <2> HIDE DEF below
  <2> QED
    BY <1>1, <1>2, <2>1
<1>5. NewRows(subs) = {row(i) : i \in Fresh(subs)}
  BY DEF NewRows
<1>6. ASSUME NEW i \in Fresh(subs)
      PROVE  row(i).key = subs[i].key /\ row(i).seq = next_seq + Cardinality(below(i))
  OBVIOUS
<1> HIDE DEF row, below
<1>7. ASSUME NEW i \in Fresh(subs), NEW j \in Fresh(subs),
             row(i).key = row(j).key \/ row(i).seq = row(j).seq
      PROVE  i = j
  <2>1. ~(i < j) /\ ~(j < i)
    <3>1. CASE row(i).key = row(j).key
      BY <1>6, <3>1 DEF Fresh
    <3>2. CASE row(i).seq = row(j).seq
      <4>1. Cardinality(below(i)) = Cardinality(below(j))
        BY <1>1, <1>4, <1>6, <3>2
      <4> QED
        BY <1>3, <1>4, <4>1
    <3> QED
      BY <1>7, <3>1, <3>2
  <2> QED
    BY <1>1, <2>1
<1>8. ASSUME NEW i \in Fresh(subs)
      PROVE  /\ row(i).key \in Keys /\ records[row(i).key] = None
             /\ row(i).seq \in Nat /\ next_seq <= row(i).seq
             /\ row(i).seq < next_seq + Cardinality(Fresh(subs))
  <2>1. records[subs[i].key] = None /\ subs[i].key \in Keys
    BY <1>1, PositionedType DEF Fresh
  <2>2. Cardinality(Fresh(subs)) \in Nat
    BY <1>1
  <2> QED
    BY <1>1, <1>4, <1>6, <2>1, <2>2
<1> QED
  BY <1>1, <1>5, <1>6, <1>7, <1>8

\* A claim queues exactly the records it adds (index.rs, submit_many).
LEMMA SubmitQueues ==
    ASSUME TypeOK, QueueInv, NEW subs \in Positioned, submit_many(subs),
           UNCHANGED <<pc, batch, denied>>
    PROVE  QueueInv'
<1>1. /\ Cardinality(Fresh(subs)) \in Nat /\ next_seq \in Nat
      /\ \A r \in NewRows(subs) :
            /\ r.key \in Keys /\ records[r.key] = None
            /\ r.seq \in Nat /\ next_seq <= r.seq
            /\ r.seq < next_seq + Cardinality(Fresh(subs))
      /\ \A r, s \in NewRows(subs) : r.key = s.key \/ r.seq = s.seq => r = s
  BY RowsNumbered DEF TypeOK, IndexTypeOK
<1>2. \A k : (\E r \in NewRows(subs) : r.key = k) <=> \E i \in Fresh(subs) : subs[i].key = k
  BY RowsNumbered
<1>3. /\ queue' = queue \union NewRows(subs)
      /\ next_seq' = next_seq + Cardinality(Fresh(subs))
  BY DEF submit_many
<1>4. ASSUME NEW r \in queue, NEW s \in NewRows(subs)
      PROVE  r.key # s.key /\ r.seq # s.seq
  <2>1. r.key \in Keys /\ r.seq \in Nat
    BY DEF TypeOK, IndexTypeOK, Row
  <2>2. records[r.key] # None /\ r.seq < next_seq
    BY <2>1 DEF QueueInv, QueueMatchesIndex, RowsBelowCounter
  <2> QED
    BY <1>1, <2>1, <2>2
<1>5. QueueMatchesIndex'
  <2>1. ASSUME NEW k \in Keys
        PROVE  (records'[k] # None /\ records'[k].status = "pending")
                  <=> \E r \in queue' : r.key = k
    <3>1. records'[k] = Claimed(subs, k)
      BY DEF submit_many
    <3>2. CASE \E i \in Fresh(subs) : subs[i].key = k
      <4> DEFINE j == CHOOSE l \in Fresh(subs) : subs[l].key = k
      <4>2. j \in DOMAIN subs
        BY <3>2 DEF Fresh
      <4>3. records'[k] = [hash |-> subs[j].hash, status |-> "pending"]
        BY <3>1, <3>2 DEF Claimed
      <4> HIDE DEF j
      <4>4. records'[k] \in IndexRecord /\ records'[k].status = "pending"
        BY <4>2, <4>3, PositionedType DEF IndexRecord, Status
      <4>5. \E r \in queue' : r.key = k
        BY <1>2, <1>3, <3>2
      <4> QED
        BY <4>4, <4>5, IndexAssumption
    <3>3. CASE ~ \E i \in Fresh(subs) : subs[i].key = k
      <4>1. records'[k] = records[k]
        BY <3>1, <3>3 DEF Claimed
      <4>2. (\E r \in queue' : r.key = k) <=> \E r \in queue : r.key = k
        BY <1>2, <1>3, <3>3
      <4> QED
        BY <4>1, <4>2 DEF QueueInv, QueueMatchesIndex
    <3> QED
      BY <3>2, <3>3
  <2>2. ASSUME NEW r \in queue', NEW s \in queue', r.key = s.key \/ r.seq = s.seq
        PROVE  r = s
    BY <1>1, <1>3, <1>4, <2>2 DEF QueueInv, QueueMatchesIndex
  <2> QED
    BY <2>1, <2>2 DEF QueueMatchesIndex
<1>6. RowsBelowCounter'
  <2>1. ASSUME NEW r \in queue PROVE r.seq < next_seq'
    <3>1. r.seq \in Nat /\ r.seq < next_seq
      BY DEF TypeOK, IndexTypeOK, Row, QueueInv, RowsBelowCounter
    <3> QED
      BY <1>1, <1>3, <3>1
  <2> QED
    BY <1>1, <1>3, <2>1 DEF RowsBelowCounter
<1>7. BatchQueued'
  <2>1. Publishable' = Publishable
    BY DEF Publishable, Items, CurrentPartition
  <2> QED
    BY <1>3, <2>1 DEF QueueInv, BatchQueued
<1> QED
  BY <1>5, <1>6, <1>7 DEF QueueInv

\* Settling items that have their rows drops those rows and no other (finish).
LEMMA FinishUnqueues ==
    ASSUME TypeOK, QueueInv, NEW items \in SUBSET BatchItem, NEW status \in Status \ {"pending"},
           finish(items, status),
           \A it \in items : \E r \in queue : r.seq = it.seq /\ r.key = it.key
    PROVE  /\ QueueMatchesIndex' /\ RowsBelowCounter'
           /\ \A r \in queue : r.key \notin KeysOf(items) => r \in queue'
<1>1. queue' = {r \in queue : r.seq \notin SeqsOf(items)} /\ next_seq' = next_seq
  BY DEF finish
<1>2. ASSUME NEW r \in queue PROVE r.seq \in SeqsOf(items) <=> r.key \in KeysOf(items)
  <2>1. ASSUME NEW it \in items, r.seq = it.seq \/ r.key = it.key
        PROVE  r.seq = it.seq /\ r.key = it.key
    <3>1. PICK s \in queue : s.seq = it.seq /\ s.key = it.key
      OBVIOUS
    <3>2. r = s
      BY <2>1, <3>1 DEF QueueInv, QueueMatchesIndex
    <3> QED
      BY <3>1, <3>2
  <2> QED
    BY <2>1 DEF SeqsOf, KeysOf
<1>3. /\ \A k \in Keys : records[k] = None <=> records'[k] = None
      /\ \A k \in Keys : records[k] # None =>
            records'[k].status = IF k \in KeysOf(items) THEN status ELSE records[k].status
  BY FinishType DEF TypeOK
<1>4. ASSUME NEW k \in Keys
      PROVE  (records'[k] # None /\ records'[k].status = "pending")
                <=> \E r \in queue' : r.key = k
  <2>1. (\E r \in queue' : r.key = k) <=> k \notin KeysOf(items) /\ \E r \in queue : r.key = k
    BY <1>1, <1>2
  <2>2. (records'[k] # None /\ records'[k].status = "pending")
           <=> k \notin KeysOf(items) /\ records[k] # None /\ records[k].status = "pending"
    BY <1>3
  <2> QED
    BY <2>1, <2>2 DEF QueueInv, QueueMatchesIndex
<1>5. \A r, s \in queue' : r.key = s.key \/ r.seq = s.seq => r = s
  BY <1>1 DEF QueueInv, QueueMatchesIndex
<1> QED
  BY <1>1, <1>2, <1>4, <1>5 DEF QueueMatchesIndex, RowsBelowCounter, QueueInv

\* The two marks of a cycle.
LEMMA MarksUnqueue ==
    ASSUME TypeOK, QueueInv, mark_published \/ mark_denylisted
    PROVE  QueueInv'
<1>1. batch \subseteq BatchItem /\ Publishable \subseteq batch /\ Denylisted \subseteq batch
      /\ Items \subseteq batch
  BY DEF TypeOK, PublisherTypeOK, Publishable, Denylisted, Items
<1>2. CASE mark_published
  <2>1. /\ pc = "mark_published" /\ pc' = "mark_denylisted" /\ UNCHANGED <<batch, denied>>
        /\ finish(Publishable, "published")
    BY <1>2 DEF mark_published, Goto
  <2>2. \A it \in batch : \E r \in queue : r.seq = it.seq /\ r.key = it.key
    BY <2>1 DEF QueueInv, BatchQueued
  <2>3. /\ QueueMatchesIndex' /\ RowsBelowCounter'
        /\ \A r \in queue : r.key \notin KeysOf(Publishable) => r \in queue'
    BY <1>1, <2>1, <2>2, FinishUnqueues DEF Status
  <2>4. Publishable' = Publishable
    BY <2>1 DEF Publishable, Items, CurrentPartition
  <2>5. ASSUME NEW it \in batch, it \notin Publishable PROVE it.key \notin KeysOf(Publishable)
    BY <2>5 DEF KeysOf, Publishable, Items
  <2>6. BatchQueued'
    BY <2>1, <2>2, <2>3, <2>4, <2>5 DEF BatchQueued
  <2> QED
    BY <2>3, <2>6 DEF QueueInv
<1>3. CASE mark_denylisted
  <2>1. /\ pc = "mark_denylisted" /\ finish(Denylisted, "denylisted")
        /\ (batch' = {} \/ (batch' = batch \ Items /\ pc' = "build"))
    BY <1>3 DEF mark_denylisted, CycleEnds
  <2>2. \A it \in batch \ Publishable : \E r \in queue : r.seq = it.seq /\ r.key = it.key
    BY <2>1 DEF QueueInv, BatchQueued
  <2>3. Denylisted \subseteq batch \ Publishable
    BY <1>1 DEF Denylisted, Publishable
  <2>4. /\ QueueMatchesIndex' /\ RowsBelowCounter'
        /\ \A r \in queue : r.key \notin KeysOf(Denylisted) => r \in queue'
    BY <1>1, <2>1, <2>2, <2>3, FinishUnqueues DEF Status
  <2>5. ASSUME NEW it \in batch, it \notin Items
        PROVE  it.key \notin KeysOf(Denylisted) /\ it \notin Publishable
    BY <2>5 DEF KeysOf, Denylisted, Publishable, Items
  <2>6. BatchQueued'
    BY <2>1, <2>2, <2>4, <2>5 DEF BatchQueued
  <2> QED
    BY <2>4, <2>6 DEF QueueInv
<1> QED
  BY <1>2, <1>3

\* Every step of the publisher (publisher.rs).
LEMMA PublisherQueue ==
    ASSUME TypeOK, QueueInv,
           \/ \E f \in BOOLEAN : PublisherNext(f)
           \/ \E f \in BOOLEAN : BeginCycle(TRUE, f)
           \/ \E f \in BOOLEAN : StopIdle(f)
           \/ SeedFails \/ HealFails \/ CycleFails
    PROVE  QueueInv'
<1>1. CASE mark_published \/ mark_denylisted
  BY <1>1, MarksUnqueue
<1>2. ASSUME NEW f \in BOOLEAN, NEW last \in BOOLEAN, BeginCycle(last, f) PROVE QueueInv'
  <2>1. /\ UNCHANGED <<records, queue, next_seq>>
        /\ batch' = pending_batch(MaxPending)
    BY <1>2 DEF BeginCycle, indexVars
  <2>2. \A it \in batch' : \E r \in queue : r.seq = it.seq /\ r.key = it.key
    <3> DEFINE Oldest == {q \in Joined : Cardinality({o \in Joined : o.seq < q.seq}) < MaxPending}
    <3>1. batch' = {[seq |-> r.seq, key |-> r.key, hash |-> records[r.key].hash] : r \in Oldest}
      BY <2>1 DEF pending_batch
    <3>2. Oldest \subseteq queue
      BY DEF Joined
    <3> HIDE DEF Oldest
    <3> QED
      BY <3>1, <3>2
  <2>3. QueueMatchesIndex' /\ RowsBelowCounter'
    BY <2>1 DEF QueueInv, QueueMatchesIndex, RowsBelowCounter
  <2> QED
    BY <2>1, <2>2, <2>3 DEF QueueInv, BatchQueued
<1>3. ASSUME NEW f \in BOOLEAN,
             \/ seed_local_roots(f) \/ heal_pointer_doc(f) \/ StopIdle(f) \/ BuildTree(f)
             \/ HealDue \/ SeedFails \/ HealFails \/ NothingToBuild \/ SetDocRoot \/ SetLocalRoot
      PROVE  QueueInv'
  <2>1. UNCHANGED <<records, queue, next_seq>>
    BY <1>3 DEF seed_local_roots, heal_pointer_doc, StopIdle, BuildTree, HealDue, SeedFails,
                HealFails, NothingToBuild, SetDocRoot, SetLocalRoot, set_local_root, indexVars
  <2>2. batch' = batch /\ pc # "mark_denylisted" /\ pc' # "mark_denylisted"
    BY <1>3 DEF seed_local_roots, heal_pointer_doc, StopIdle, BuildTree, HealDue, SeedFails,
                HealFails, NothingToBuild, SetDocRoot, SetLocalRoot, Advance, Leave, Goto
  <2> QED
    BY <2>1, <2>2, QueueKept
<1>4. CASE CycleFails \/ RootUnreadable
  BY <1>4, QueueKept DEF CycleFails, RootUnreadable, CycleEnds, indexVars
<1> QED
  BY <1>1, <1>2, <1>3, <1>4 DEF PublisherNext

\* Every step of the daemon.
LEMMA StepQueue == TypeOK /\ QueueInv /\ Stopped /\ [Next]_vars => QueueInv'
<1> SUFFICES ASSUME TypeOK, QueueInv, Stopped, [Next]_vars PROVE QueueInv'
  OBVIOUS
<1>1. ASSUME NEW c \in Clients, Handle(c) PROVE QueueInv'
  <2>1. UNCHANGED <<pc, batch, denied>>
    BY <1>1 DEF Handle, taskVars
  <2>2. CASE Submit(c)
    <3>1. req[c].subs \in Positioned
      BY DEF TypeOK, ApiTypeOK, Handler
    <3> QED
      BY <2>1, <2>2, <3>1, SubmitQueues DEF Submit
  <2>3. CASE UNCHANGED indexVars
    BY <2>1, <2>3, QueueKept DEF indexVars
  <2> QED
    BY <1>1, <2>2, <2>3 DEF Handle, Arrive, put, SubmitFails, Disconnect
<1>2. CASE Detached
  <2>1. UNCHANGED <<pc, batch, denied>>
    BY <1>2 DEF Detached, taskVars
  <2>2. PICK subs \in detached : DetachedSubmit(subs) \/ DetachedFails(subs)
    BY <1>2 DEF Detached
  <2>3. CASE DetachedSubmit(subs)
    <3>1. subs \in Positioned
      BY DEF TypeOK, ApiTypeOK
    <3> QED
      BY <2>1, <2>3, <3>1, SubmitQueues DEF DetachedSubmit
  <2>4. CASE DetachedFails(subs)
    BY <2>1, <2>4, QueueKept DEF DetachedFails, indexVars
  <2> QED
    BY <2>2, <2>3, <2>4
<1>3. CASE Publish \/ Drain \/ PublisherFails
  <2>1. (~calm) \in BOOLEAN
    OBVIOUS
  <2> QED
    BY <1>3, <2>1, PublisherQueue DEF Publish, Drain, PublisherFails
<1>4. CASE \/ Sigterm \/ HandlersDone \/ Exit \/ FaultsCease
           \/ EntryBlobLost \/ EditDenylist \/ UNCHANGED vars
  BY <1>4, QueueKept DEF Sigterm, HandlersDone, Exit, FaultsCease, EntryBlobLost,
     EditDenylist, vars, indexVars, taskVars
<1>5. CASE Crash
  BY <1>5, QueueKept DEF Crash, TaskOff, indexVars
<1>6. CASE Start
  <2>1. /\ UNCHANGED <<records, queue, next_seq, batch, denied>>
        /\ pc = "off" /\ pc' = "seed"
    BY <1>6 DEF Start, TaskStart, indexVars, Stopped
  <2> QED
    BY <2>1, QueueKept
<1> QED
  BY <1>1, <1>2, <1>3, <1>4, <1>5, <1>6 DEF Next

\* Only a running process has a publisher (Start, Crash, Exit).
LEMMA StepStopped == Stopped /\ [Next]_vars => Stopped'
<1> SUFFICES ASSUME Stopped, [Next]_vars PROVE Stopped'
  OBVIOUS
<1>1. CASE Start \/ Sigterm \/ HandlersDone \/ Exit \/ Crash
  BY <1>1 DEF Start, Sigterm, HandlersDone, Exit, Crash, TaskOff, taskVars, Stopped
<1>2. CASE (\E c \in Clients : Handle(c)) \/ Detached \/ EntryBlobLost \/ EditDenylist \/ FaultsCease
           \/ UNCHANGED vars
  BY <1>2 DEF Handle, Detached, EntryBlobLost, EditDenylist, FaultsCease, taskVars, vars, Stopped
<1>3. CASE Publish \/ Drain \/ PublisherFails
  <2>1. phase' = phase /\ pc # "off"
    BY <1>3 DEF Publish, Drain, PublisherFails, PublisherNext, seed_local_roots, heal_pointer_doc,
       HealDue, BeginCycle, BuildTree, NothingToBuild, SetDocRoot, SetLocalRoot, mark_published,
       mark_denylisted, RootUnreadable, StopIdle, SeedFails, HealFails, CycleFails, InCycle
  <2> QED
    BY <2>1 DEF Stopped
<1> QED
  BY <1>1, <1>2, <1>3 DEF Next

(***************************************************************************)
(* Exactly the pending records have a row, one row each and no number      *)
(* twice, whatever is submitted at the same time and wherever a cycle or   *)
(* the process stops.                                                      *)
(***************************************************************************)
THEOREM QueueMatchesIndexHolds == Spec => []QueueMatchesIndex
<1>1. QueueInv => QueueMatchesIndex
  BY DEF QueueInv
<1>2. Init => Stopped
  BY DEF Init, Stopped
<1> QED
  BY <1>1, <1>2, QueueInitInv, StepQueue, StepStopped, TypeCorrect, PTL DEF Spec

-----------------------------------------------------------------------------
(***************************************************************************)
(* The daemon implements the abstract registry.                            *)
(***************************************************************************)

\* The refinement mapping, key by key.
BindingOf(k)   == IF records[k] = None THEN None ELSE records[k].hash
CatalogueOf(k) == IF WriterRoot(PartitionOf[k]) = None THEN None
                  ELSE WriterRoot(PartitionOf[k])[k]

\* The tree under construction is the current root with publishable keys added.
NewRootExtends ==
    pc \in {"set_doc", "set_local"} =>
        \A k \in Keys : PartitionOf[k] = CurrentPartition =>
            \/ new_root[k] = CatalogueOf(k)
            \/ (CatalogueOf(k) = None /\ k \in KeysOf(Publishable))

\* The inductive invariant of the refinement.
RefineInv == Inv /\ QueueInv /\ NewRootExtends

-----------------------------------------------------------------------------
(***************************************************************************)
(* The steps of the abstract registry, given key by key.                   *)
(***************************************************************************)
\* A step that changes neither binding, status nor catalogue is a stutter.
LEMMA IsStutter ==
    ASSUME \A k \in Keys : /\ BindingOf(k)' = BindingOf(k) /\ StatusOf(k)' = StatusOf(k)
                           /\ CatalogueOf(k)' = CatalogueOf(k)
    PROVE  UNCHANGED Abstract!vars
  BY DEF Abstract!vars, BindingOf, StatusOf, CatalogueOf

\* Free keys that become pending records (submit_many).
LEMMA IsAccept ==
    ASSUME TypeOK, TypeOK', NEW new \in SUBSET Keys,
           \A k \in new : records[k] = None /\ records'[k] # None /\ StatusOf(k)' = "pending",
           \A k \in Keys \ new : BindingOf(k)' = BindingOf(k) /\ StatusOf(k)' = StatusOf(k),
           \A k \in Keys : CatalogueOf(k)' = CatalogueOf(k)
    PROVE  Abstract!Next
<1> DEFINE B == [k \in Keys |-> IF records[k] = None THEN None ELSE records[k].hash]
           C == [k \in Keys |-> IF WriterRoot(PartitionOf[k]) = None THEN None
                                ELSE WriterRoot(PartitionOf[k])[k]]
           S == [k \in Keys |-> IF records[k] = None THEN "free" ELSE records[k].status]
<1>1. new \in SUBSET {k \in Keys : S[k] = "free"}
  OBVIOUS
<1>2. /\ B' \in [Keys -> Hashes \union {None}]
      /\ \A k \in Keys : IF k \in new THEN B'[k] # None ELSE B'[k] = B[k]
  <2>1. \A k \in Keys : BindingOf(k)' \in Hashes \union {None}
    BY IndexAssumption DEF TypeOK, IndexTypeOK, IndexRecord, BindingOf
  <2>2. \A k \in new : BindingOf(k)' # None
    BY IndexAssumption DEF TypeOK, IndexTypeOK, IndexRecord, BindingOf
  <2> QED
    BY <2>1, <2>2 DEF BindingOf
<1>3. S' = [k \in Keys |-> IF k \in new THEN "pending" ELSE S[k]]
  BY DEF StatusOf
<1>4. UNCHANGED C
  BY DEF CatalogueOf
<1>5. Abstract!Accept
  BY <1>1, <1>2, <1>3, <1>4, Zenon DEF Abstract!Accept
<1> QED
  BY <1>5 DEF Abstract!Next

\* Pending records that a new root lists (set_local_root, set_partition_root).
LEMMA IsList ==
    ASSUME NEW new \in SUBSET Keys, records' = records,
           \A k \in new : StatusOf(k) = "pending" /\ CatalogueOf(k)' = BindingOf(k),
           \A k \in Keys \ new : CatalogueOf(k)' = CatalogueOf(k)
    PROVE  Abstract!Next
<1>1. new \in SUBSET {k \in Keys : StatusOf(k) = "pending"}
  OBVIOUS
<1>2. Abstract!List
  BY <1>1 DEF Abstract!List, BindingOf, StatusOf, CatalogueOf
<1> QED
  BY <1>2 DEF Abstract!Next

\* Listed records that are called published (mark_published).
LEMMA IsSettle ==
    ASSUME NEW done \in SUBSET Keys,
           \A k \in done : /\ StatusOf(k) = "pending" /\ StatusOf(k)' = "published"
                           /\ CatalogueOf(k) = BindingOf(k),
           \A k \in Keys \ done : StatusOf(k)' = StatusOf(k),
           \A k \in Keys : BindingOf(k)' = BindingOf(k) /\ CatalogueOf(k)' = CatalogueOf(k)
    PROVE  Abstract!Next
<1> DEFINE B == [k \in Keys |-> IF records[k] = None THEN None ELSE records[k].hash]
           C == [k \in Keys |-> IF WriterRoot(PartitionOf[k]) = None THEN None
                                ELSE WriterRoot(PartitionOf[k])[k]]
           S == [k \in Keys |-> IF records[k] = None THEN "free" ELSE records[k].status]
<1>1. done \in SUBSET {k \in Keys : S[k] = "pending" /\ C[k] = B[k]}
  BY DEF BindingOf, StatusOf, CatalogueOf
<1>2. S' = [k \in Keys |-> IF k \in done THEN "published" ELSE S[k]]
  BY DEF StatusOf
<1>3. UNCHANGED <<B, C>>
  BY DEF BindingOf, CatalogueOf
<1>4. Abstract!Settle
  BY <1>1, <1>2, <1>3, Zenon DEF Abstract!Settle
<1> QED
  BY <1>4 DEF Abstract!Next

\* Pending records that are called denylisted (mark_denylisted).
LEMMA IsTakeDown ==
    ASSUME NEW out \in SUBSET Keys,
           \A k \in out : StatusOf(k) = "pending" /\ StatusOf(k)' = "denylisted",
           \A k \in Keys \ out : StatusOf(k)' = StatusOf(k),
           \A k \in Keys : BindingOf(k)' = BindingOf(k) /\ CatalogueOf(k)' = CatalogueOf(k)
    PROVE  Abstract!Next
<1>1. out \in SUBSET {k \in Keys : StatusOf(k) = "pending"}
  OBVIOUS
<1>2. Abstract!TakeDown
  BY <1>1 DEF Abstract!TakeDown, BindingOf, StatusOf, CatalogueOf
<1> QED
  BY <1>2 DEF Abstract!Next

-----------------------------------------------------------------------------
\* An upgraded data directory is an initial state of the registry.
LEMMA RefineInit == Init => Abstract!Init /\ RefineInv
<1> SUFFICES ASSUME Init PROVE Abstract!Init /\ RefineInv
  OBVIOUS
<1>1. Inv /\ QueueInv /\ NewRootExtends
  BY InitInv, QueueInitInv DEF Init, NewRootExtends
<1>2. ASSUME NEW k \in Keys
      PROVE  /\ records[k] = None <=> Legacy[k] = None
             /\ records[k] # None => records[k].hash = Legacy[k] /\ records[k].status = "published"
  BY <1>1, LegacyAssumption, IndexAssumption
     DEF Init, Tree, Inv, IndexRecord, Status, TypeOK, IndexTypeOK
<1>3. ASSUME NEW k \in Keys PROVE CatalogueOf(k) = BindingOf(k)
  <2>1. WriterRoot(PartitionOf[k]) = doc_roots[PartitionOf[k]]
    BY IndexAssumption DEF Init, WriterRoot
  <2>2. CASE Legacy[k] = None
    <3>1. CASE doc_roots[PartitionOf[k]] = None
      BY <1>2, <2>1, <2>2, <3>1 DEF CatalogueOf, BindingOf
    <3>2. CASE doc_roots[PartitionOf[k]] # None
      <4>1. doc_roots[PartitionOf[k]][k] = None
        BY <2>2, <3>2, IndexAssumption DEF Init, PartOf
      <4> QED
        BY <1>2, <2>1, <2>2, <4>1 DEF CatalogueOf, BindingOf
    <3> QED
      BY <3>1, <3>2
  <2>3. CASE Legacy[k] # None
    <3>1. Lists(WriterRoot(PartitionOf[k]), k)
      BY <1>1, <1>2, <2>3 DEF Inv, NoSilentLoss
    <3> QED
      BY <1>2, <2>3, <3>1 DEF Lists, CatalogueOf, BindingOf
  <2> QED
    BY <2>2, <2>3
<1> DEFINE B == [k \in Keys |-> IF records[k] = None THEN None ELSE records[k].hash]
           C == [k \in Keys |-> IF WriterRoot(PartitionOf[k]) = None THEN None
                                ELSE WriterRoot(PartitionOf[k])[k]]
           S == [k \in Keys |-> IF records[k] = None THEN "free" ELSE records[k].status]
<1>4. B \in [Keys -> Hashes \union {None}]
  BY <1>1, IndexAssumption DEF Inv, TypeOK, IndexTypeOK, IndexRecord
<1>5. C = B
  BY <1>3 DEF CatalogueOf, BindingOf
<1>6. S = [k \in Keys |-> IF B[k] = None THEN "free" ELSE "published"]
  <2>1. \A k \in Keys : B[k] = None <=> records[k] = None
    BY <1>1, IndexAssumption DEF Inv, TypeOK, IndexTypeOK, IndexRecord
  <2> QED
    BY <1>2, <2>1
<1>7. Abstract!Init
  BY <1>4, <1>5, <1>6, Zenon DEF Abstract!Init
<1> QED
  BY <1>1, <1>7 DEF RefineInv

\* Claims are Accept steps.
LEMMA ClaimRefines ==
    ASSUME TypeOK, TypeOK', NEW subs \in Positioned, submit_many(subs),
           UNCHANGED <<local_roots, doc_roots>>
    PROVE  Abstract!Next
<1> DEFINE new == {k \in Keys : records[k] = None /\ records'[k] # None}
<1>1. \A k \in Keys : CatalogueOf(k)' = CatalogueOf(k)
  BY DEF CatalogueOf, WriterRoot
<1>2. ASSUME NEW k \in Keys
      PROVE  /\ records[k] # None => records'[k] = records[k]
             /\ records[k] = None /\ records'[k] # None => records'[k].status = "pending"
  <2>1. /\ records[k] # None => records'[k] = records[k]
        /\ records[k] = None /\ records'[k] # None =>
              \E i \in DOMAIN subs : /\ subs[i].key = k
                                     /\ records'[k] = [hash |-> subs[i].hash, status |-> "pending"]
    BY SubmitClaims DEF TypeOK
  <2>2. ASSUME records[k] = None, records'[k] # None PROVE records'[k].status = "pending"
    <3>1. PICK i \in DOMAIN subs :
             records'[k] = [hash |-> subs[i].hash, status |-> "pending"]
      BY <2>1, <2>2
    <3> QED
      BY <3>1
  <2> QED
    BY <2>1, <2>2
<1>3. \A k \in new : records[k] = None /\ records'[k] # None /\ StatusOf(k)' = "pending"
  BY <1>2 DEF StatusOf
<1>4. \A k \in Keys \ new : records'[k] = records[k]
  BY <1>2
<1>5. \A k \in Keys \ new : BindingOf(k)' = BindingOf(k) /\ StatusOf(k)' = StatusOf(k)
  BY <1>4 DEF BindingOf, StatusOf
<1> HIDE DEF new
<1>6. new \in SUBSET Keys
  BY DEF new
<1> QED
  BY <1>1, <1>3, <1>5, <1>6, IsAccept

\* What is still to be settled is pending, by its queue row.
LEMMA WaitingIsPending ==
    ASSUME TypeOK, QueueInv, NEW it \in batch, pc # "mark_denylisted" \/ it \notin Publishable
    PROVE  it.key \in Keys /\ records[it.key] # None /\ StatusOf(it.key) = "pending"
<1>1. it.key \in Keys
  BY DEF TypeOK, PublisherTypeOK, BatchItem
<1>2. \E r \in queue : r.key = it.key
  BY DEF QueueInv, BatchQueued
<1> QED
  BY <1>1, <1>2 DEF QueueInv, QueueMatchesIndex, StatusOf

\* A root write lists pending records (List), or changes nothing.
LEMMA RootWriteRefines ==
    ASSUME RefineInv, SetDocRoot \/ SetLocalRoot
    PROVE  /\ Abstract!Next
           /\ NewRootExtends'
<1> DEFINE p == CurrentPartition
<1>0. /\ TypeOK /\ TreesSound /\ QueueInv /\ NewRootExtends /\ WritesInOrder
      /\ new_root # None /\ records' = records /\ UNCHANGED <<batch, denied>>
      /\ pc \in {"set_doc", "set_local"}
  BY DEF RefineInv, Inv, NewRootComplete, SetDocRoot, SetLocalRoot, Goto, indexVars, set_local_root
<1>1. CurrentPartition' = p /\ Publishable' = Publishable
  BY <1>0 DEF CurrentPartition, Publishable, Items
<1>2. /\ local_roots \in [Partitions -> Tree \union {None}]
      /\ doc_roots \in [Partitions -> Tree \union {None}]
      /\ \A k \in Keys : PartitionOf[k] \in Partitions
  BY <1>0, IndexAssumption DEF TypeOK, IndexTypeOK, DocTypeOK
<1>w. \/ doc_roots' = [doc_roots EXCEPT ![p] = new_root] /\ local_roots' = local_roots
      \/ local_roots' = [local_roots EXCEPT ![p] = new_root] /\ doc_roots' = doc_roots
  BY DEF SetDocRoot, SetLocalRoot, set_partition_root, set_local_root, indexVars, docVars
<1> HIDE DEF p
<1>3. ASSUME NEW k \in Keys, PartitionOf[k] # p
      PROVE  WriterRoot(PartitionOf[k])' = WriterRoot(PartitionOf[k])
  BY <1>2, <1>3, <1>w DEF WriterRoot
<1>4. ASSUME NEW k \in Keys, PartitionOf[k] = p
      PROVE  \/ WriterRoot(PartitionOf[k])' = WriterRoot(PartitionOf[k])
             \/ WriterRoot(PartitionOf[k])' = new_root
  BY <1>0, <1>2, <1>4, <1>w DEF WriterRoot
<1>5. ASSUME NEW k \in Keys, CatalogueOf(k)' # CatalogueOf(k)
      PROVE  StatusOf(k) = "pending" /\ CatalogueOf(k)' = BindingOf(k)
  <2>1. PartitionOf[k] = p /\ WriterRoot(PartitionOf[k])' = new_root
    BY <1>3, <1>4, <1>5 DEF CatalogueOf
  <2>2. CatalogueOf(k)' = new_root[k]
    BY <1>0, <2>1 DEF CatalogueOf
  <2>3. CatalogueOf(k) = None /\ k \in KeysOf(Publishable)
    BY <1>0, <1>5, <2>1, <2>2 DEF NewRootExtends, p
  <2>4. PICK it \in Publishable : it.key = k
    BY <2>3 DEF KeysOf
  <2>5. records[k] # None /\ StatusOf(k) = "pending"
    BY <1>0, <2>4, WaitingIsPending DEF Publishable, Items
  <2>6. new_root[k] = records[k].hash
    BY <1>0, <1>5, <2>2, <2>3 DEF TreesSound, Sound
  <2> QED
    BY <2>2, <2>5, <2>6 DEF BindingOf
<1>6. Abstract!Next
  <2> DEFINE new == {k \in Keys : CatalogueOf(k)' # CatalogueOf(k)}
  <2>1. /\ new \in SUBSET Keys
        /\ \A k \in new : StatusOf(k) = "pending" /\ CatalogueOf(k)' = BindingOf(k)
        /\ \A k \in Keys \ new : CatalogueOf(k)' = CatalogueOf(k)
    BY <1>5
  <2> HIDE DEF new
  <2> QED
    BY <1>0, <2>1, IsList
<1>7. NewRootExtends'
  <2>1. CASE SetLocalRoot
    BY <2>1 DEF SetLocalRoot, NewRootExtends
  <2>2. CASE SetDocRoot
    <3>1. new_root' = new_root
      BY <2>2 DEF SetDocRoot, Goto
    <3>2. ASSUME NEW k \in Keys, PartitionOf[k] = p
          PROVE  \/ new_root[k] = CatalogueOf(k)'
                 \/ (CatalogueOf(k)' = None /\ k \in KeysOf(Publishable))
      <4>1. CASE WriterRoot(PartitionOf[k])' = WriterRoot(PartitionOf[k])
        BY <1>0, <3>2, <4>1 DEF NewRootExtends, CatalogueOf, p
      <4>2. CASE WriterRoot(PartitionOf[k])' = new_root
        BY <1>0, <3>2, <4>2 DEF CatalogueOf
      <4> QED
        BY <1>4, <3>2, <4>1, <4>2
    <3> QED
      BY <1>1, <3>1, <3>2 DEF NewRootExtends, p
  <2> QED
    BY <2>1, <2>2
<1> QED
  BY <1>6, <1>7

\* A step that writes no root and is not between building a tree and writing
\* it, or leaves the cycle's state alone, changes no catalogue.
LEMMA CatalogueKept ==
    ASSUME NewRootExtends, UNCHANGED <<local_roots, doc_roots>>,
           UNCHANGED <<pc, batch, denied, new_root>> \/ pc' \notin {"set_doc", "set_local"}
    PROVE  /\ NewRootExtends'
           /\ \A k \in Keys : CatalogueOf(k)' = CatalogueOf(k)
<1>1. \A k \in Keys : CatalogueOf(k)' = CatalogueOf(k)
  BY DEF CatalogueOf, WriterRoot
<1>2. UNCHANGED <<batch, denied>> =>
          CurrentPartition' = CurrentPartition /\ Publishable' = Publishable
  BY DEF CurrentPartition, Publishable, Items
<1> QED
  BY <1>1, <1>2 DEF NewRootExtends

\* Such a step that leaves the records alone too is no step of the registry.
LEMMA StutterStep ==
    ASSUME NewRootExtends, UNCHANGED <<records, local_roots, doc_roots>>,
           UNCHANGED <<pc, batch, denied, new_root>> \/ pc' \notin {"set_doc", "set_local"}
    PROVE  NewRootExtends' /\ UNCHANGED Abstract!vars
  BY CatalogueKept, IsStutter DEF BindingOf, StatusOf

\* Seeding and healing copy roots between the two tables (seed_local_roots,
\* heal_pointer_doc): what the writer builds on stays the same.
LEMMA CopyRefines ==
    ASSUME RefineInv, NEW f \in BOOLEAN, seed_local_roots(f) \/ heal_pointer_doc(f)
    PROVE  NewRootExtends' /\ UNCHANGED Abstract!vars
<1>t. TypeOK /\ cursor \in Partitions
  BY DEF RefineInv, Inv, TypeOK, PublisherTypeOK
<1>1. records' = records /\ pc' \notin {"set_doc", "set_local"}
  BY DEF seed_local_roots, heal_pointer_doc, Advance, indexVars, set_local_root
<1>2. \/ UNCHANGED <<local_roots, doc_roots>>
      \/ /\ local_roots[cursor] = None
         /\ local_roots' = [local_roots EXCEPT ![cursor] = doc_roots[cursor]]
         /\ doc_roots' = doc_roots
      \/ /\ local_roots[cursor] # None
         /\ doc_roots' = [doc_roots EXCEPT ![cursor] = local_roots[cursor]]
         /\ local_roots' = local_roots
  <2>1. CASE seed_local_roots(f)
    BY <1>t, <2>1, ReadType, DocAssumption, IndexAssumption
       DEF seed_local_roots, set_local_root, indexVars, docVars, TypeOK
  <2>2. CASE heal_pointer_doc(f)
    BY <2>2 DEF heal_pointer_doc, set_partition_root, indexVars, docVars
  <2> QED
    BY <2>1, <2>2
<1>3. ASSUME NEW p \in Partitions PROVE WriterRoot(p)' = WriterRoot(p)
  BY <1>2, <1>t DEF WriterRoot, TypeOK, IndexTypeOK, DocTypeOK
<1>4. \A k \in Keys : CatalogueOf(k)' = CatalogueOf(k)
  BY <1>3, IndexAssumption DEF CatalogueOf
<1> QED
  BY <1>1, <1>4, IsStutter DEF NewRootExtends, BindingOf, StatusOf

\* The new tree is the writer's root with publishable keys added.
LEMMA BuildRefines ==
    ASSUME RefineInv, NEW f \in BOOLEAN, BuildTree(f)
    PROVE  NewRootExtends' /\ UNCHANGED Abstract!vars
<1>0. TypeOK /\ PublishInv
  BY DEF RefineInv, Inv, PublishInv
<1>1. /\ UNCHANGED <<records, local_roots, doc_roots, batch, denied>>
      /\ pc' = "set_doc" /\ Publishable # {}
  BY DEF BuildTree, indexVars, docVars
<1>2. CurrentPartition \in Partitions /\ Publishable \in SUBSET BatchItem
  BY <1>0, <1>1, PublishableType
<1>3. PICK root \in current_root(CurrentPartition, f) \ {Unreadable} :
        new_root' = insert_batch(root, Publishable)
  BY DEF BuildTree
<1>4. root = WriterRoot(CurrentPartition) /\ root \in Tree \union {None}
  BY <1>0, <1>2, <1>3, ReadType DEF current_root, WriterRoot, TypeOK, IndexTypeOK, DocTypeOK
<1>5. /\ \A k \in Keys : root # None /\ root[k] # None => new_root'[k] = root[k]
      /\ \A k \in Keys : (root = None \/ root[k] = None) /\ k \notin KeysOf(Publishable) =>
            new_root'[k] = None
  BY <1>2, <1>3, <1>4, InsertTree
<1>6. CurrentPartition' = CurrentPartition /\ Publishable' = Publishable
  BY <1>1 DEF CurrentPartition, Publishable, Items
<1>7. \A k \in Keys : CatalogueOf(k)' = CatalogueOf(k)
  BY <1>1 DEF CatalogueOf, WriterRoot
<1>8. ASSUME NEW k \in Keys, PartitionOf[k] = CurrentPartition
      PROVE  \/ new_root'[k] = CatalogueOf(k)
             \/ (CatalogueOf(k) = None /\ k \in KeysOf(Publishable))
  <2>1. CatalogueOf(k) = IF root = None THEN None ELSE root[k]
    BY <1>4, <1>8 DEF CatalogueOf
  <2> QED
    BY <1>5, <2>1
<1>9. NewRootExtends'
  BY <1>6, <1>7, <1>8 DEF NewRootExtends
<1> QED
  BY <1>1, <1>7, <1>9, IsStutter DEF BindingOf, StatusOf

\* Marking settles what is listed, or takes down what was denied (finish).
LEMMA MarkRefines ==
    ASSUME RefineInv, mark_published \/ mark_denylisted
    PROVE  NewRootExtends' /\ Abstract!Next
<1>0. /\ TypeOK /\ PublishInv /\ QueueInv /\ NewRootExtends /\ WritesInOrder
      /\ UNCHANGED <<local_roots, doc_roots>>
      /\ pc' \notin {"set_doc", "set_local"}
  BY DEF RefineInv, Inv, PublishInv, mark_published, mark_denylisted, finish, docVars,
         Goto, CycleEnds
<1>1. NewRootExtends' /\ \A k \in Keys : CatalogueOf(k)' = CatalogueOf(k)
  BY <1>0, CatalogueKept
<1>2. ASSUME NEW items, NEW status \in Status, finish(items, status), NEW k \in Keys
      PROVE  /\ BindingOf(k)' = BindingOf(k)
             /\ StatusOf(k)' = IF k \in KeysOf(items) /\ records[k] # None
                               THEN status ELSE StatusOf(k)
  <2>1. /\ records[k] = None <=> records'[k] = None
        /\ records[k] # None => records'[k].hash = records[k].hash
        /\ records[k] # None =>
             records'[k].status = IF k \in KeysOf(items) THEN status ELSE records[k].status
    BY <1>0, <1>2, FinishType DEF TypeOK
  <2> QED
    BY <2>1 DEF BindingOf, StatusOf
<1>3. CASE mark_published
  <2>1. finish(Publishable, "published") /\ pc = "mark_published"
    BY <1>3 DEF mark_published
  <2>2. ASSUME NEW k \in KeysOf(Publishable)
        PROVE  /\ k \in Keys /\ records[k] # None /\ StatusOf(k) = "pending"
               /\ CatalogueOf(k) = BindingOf(k)
    <3>1. PICK it \in Publishable : it.key = k
      BY DEF KeysOf
    <3>2. k \in Keys /\ records[k] # None /\ StatusOf(k) = "pending"
      BY <1>0, <2>1, <3>1, WaitingIsPending DEF Publishable, Items
    <3>3. Lists(local_roots[PartitionOf[k]], k)
      BY <1>0, <2>1, <3>1, PublishableType DEF WritesInOrder
    <3> QED
      BY <3>2, <3>3 DEF Lists, CatalogueOf, BindingOf, WriterRoot
  <2> DEFINE done == KeysOf(Publishable)
  <2>3. /\ done \in SUBSET Keys
        /\ \A k \in done : /\ StatusOf(k) = "pending" /\ StatusOf(k)' = "published"
                           /\ CatalogueOf(k) = BindingOf(k)
        /\ \A k \in Keys \ done : StatusOf(k)' = StatusOf(k)
        /\ \A k \in Keys : BindingOf(k)' = BindingOf(k)
    BY <1>2, <2>1, <2>2 DEF Status
  <2> HIDE DEF done
  <2> QED
    BY <1>1, <2>3, IsSettle
<1>4. CASE mark_denylisted
  <2>1. finish(Denylisted, "denylisted") /\ pc = "mark_denylisted"
    BY <1>4 DEF mark_denylisted
  <2>2. ASSUME NEW k \in KeysOf(Denylisted)
        PROVE  k \in Keys /\ records[k] # None /\ StatusOf(k) = "pending"
    <3>1. PICK it \in Denylisted : it.key = k
      BY DEF KeysOf
    <3>2. it \in batch /\ it \notin Publishable
      BY DEF Denylisted, Publishable, Items
    <3> QED
      BY <1>0, <3>1, <3>2, WaitingIsPending
  <2> DEFINE out == KeysOf(Denylisted)
  <2>3. /\ out \in SUBSET Keys
        /\ \A k \in out : StatusOf(k) = "pending" /\ StatusOf(k)' = "denylisted"
        /\ \A k \in Keys \ out : StatusOf(k)' = StatusOf(k)
        /\ \A k \in Keys : BindingOf(k)' = BindingOf(k)
    BY <1>2, <2>1, <2>2 DEF Status
  <2> HIDE DEF out
  <2> QED
    BY <1>1, <2>3, IsTakeDown
<1> QED
  BY <1>1, <1>3, <1>4

\* Every step of the publisher (publisher.rs).
LEMMA PublisherRefines ==
    ASSUME RefineInv,
           \/ \E f \in BOOLEAN : PublisherNext(f)
           \/ \E f \in BOOLEAN : BeginCycle(TRUE, f)
           \/ \E f \in BOOLEAN : StopIdle(f)
           \/ SeedFails \/ HealFails \/ CycleFails
    PROVE  NewRootExtends' /\ (Abstract!Next \/ UNCHANGED Abstract!vars)
<1>1. CASE mark_published \/ mark_denylisted
  BY <1>1, MarkRefines
<1>2. CASE SetDocRoot \/ SetLocalRoot
  BY <1>2, RootWriteRefines
<1>3. CASE \E f \in BOOLEAN : BuildTree(f)
  BY <1>3, BuildRefines
<1>4. CASE \E f \in BOOLEAN : seed_local_roots(f) \/ heal_pointer_doc(f)
  BY <1>4, CopyRefines
<1>5. ASSUME NEW f \in BOOLEAN, NEW last \in BOOLEAN,
             \/ BeginCycle(last, f) \/ StopIdle(f) \/ HealDue \/ SeedFails \/ HealFails
             \/ NothingToBuild \/ CycleFails \/ RootUnreadable
      PROVE  NewRootExtends' /\ UNCHANGED Abstract!vars
  <2>1. UNCHANGED <<records, local_roots, doc_roots>> /\ pc' \notin {"set_doc", "set_local"}
    BY <1>5 DEF BeginCycle, StopIdle, HealDue, SeedFails, HealFails, NothingToBuild,
                CycleFails, RootUnreadable, CycleEnds, Leave, Goto, indexVars, docVars
  <2> QED
    BY <2>1, StutterStep DEF RefineInv
<1> QED
  BY <1>1, <1>2, <1>3, <1>4, <1>5 DEF PublisherNext

\* Every step of the daemon is a step of the registry, or none.
LEMMA StepRefines ==
    RefineInv /\ TypeOK' /\ [Next]_vars =>
        NewRootExtends' /\ [Abstract!Next]_(Abstract!vars)
<1> SUFFICES ASSUME RefineInv, TypeOK', [Next]_vars
             PROVE  NewRootExtends' /\ (Abstract!Next \/ UNCHANGED Abstract!vars)
  OBVIOUS
<1>0. NewRootExtends /\ TypeOK
  BY DEF RefineInv, Inv
<1>1. ASSUME NEW subs \in Positioned, submit_many(subs), UNCHANGED <<docVars, taskVars>>
      PROVE  NewRootExtends' /\ Abstract!Next
  <2>1. UNCHANGED <<local_roots, doc_roots, pc, batch, denied, new_root>>
    BY <1>1 DEF submit_many, docVars, taskVars
  <2> QED
    BY <1>0, <1>1, <2>1, CatalogueKept, ClaimRefines
<1>2. ASSUME NEW c \in Clients, Handle(c)
      PROVE  NewRootExtends' /\ (Abstract!Next \/ UNCHANGED Abstract!vars)
  <2>1. UNCHANGED <<docVars, taskVars>>
    BY <1>2 DEF Handle
  <2>2. CASE Submit(c)
    <3>1. req[c].subs \in Positioned
      BY <1>0 DEF TypeOK, ApiTypeOK, Handler
    <3> QED
      BY <1>1, <2>1, <2>2, <3>1 DEF Submit
  <2>3. CASE UNCHANGED indexVars
    BY <1>0, <2>1, <2>3, StutterStep DEF indexVars, docVars, taskVars
  <2> QED
    BY <1>2, <2>2, <2>3 DEF Handle, Arrive, put, SubmitFails, Disconnect
<1>3. CASE Detached
  <2>1. UNCHANGED <<docVars, taskVars>>
    BY <1>3 DEF Detached
  <2>2. PICK subs \in detached : DetachedSubmit(subs) \/ DetachedFails(subs)
    BY <1>3 DEF Detached
  <2>3. CASE DetachedSubmit(subs)
    <3>1. subs \in Positioned
      BY <1>0 DEF TypeOK, ApiTypeOK
    <3> QED
      BY <1>1, <2>1, <2>3, <3>1 DEF DetachedSubmit
  <2>4. CASE DetachedFails(subs)
    BY <1>0, <2>1, <2>4, StutterStep DEF DetachedFails, indexVars, docVars, taskVars
  <2> QED
    BY <2>2, <2>3, <2>4
<1>4. CASE Publish \/ Drain \/ PublisherFails
  <2>1. (~calm) \in BOOLEAN
    OBVIOUS
  <2> QED
    BY <1>4, <2>1, PublisherRefines DEF Publish, Drain, PublisherFails
<1>5. CASE \/ Sigterm \/ HandlersDone \/ Exit \/ FaultsCease
           \/ EntryBlobLost \/ EditDenylist \/ UNCHANGED vars
  BY <1>0, <1>5, StutterStep DEF Sigterm, HandlersDone, Exit, FaultsCease, EntryBlobLost,
     LoseEntryBlob, EditDenylist, vars, indexVars, docVars, taskVars
<1>6. CASE Crash \/ Start
  BY <1>0, <1>6, StutterStep DEF Crash, Start, TaskOff, TaskStart, indexVars, docVars
<1> QED
  BY <1>2, <1>3, <1>4, <1>5, <1>6 DEF Next

(***************************************************************************)
(* The daemon implements the abstract registry: through concurrent claims, *)
(* failed cycles, crashes, replays, seeding and healing, a binding never   *)
(* changes, the catalogue only grows by bound content, and a record is     *)
(* settled only once the catalogue lists it or it is taken down.           *)
(***************************************************************************)
THEOREM RegistryImplemented == Spec => ImplementsRegistry
<1>1. Init => Stopped
  BY DEF Init, Stopped
<1>2. Inv => TypeOK
  BY DEF Inv
<1>3. RefineInv <=> Inv /\ QueueInv /\ NewRootExtends
  BY DEF RefineInv
<1> QED
  BY <1>1, <1>2, <1>3, RefineInit, StepRefines, StepInv, StepQueue, StepStopped, PTL
     DEF Spec, ImplementsRegistry, Abstract!Spec

=============================================================================
