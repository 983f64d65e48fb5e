-------------------------------- MODULE Hamt --------------------------------
(***************************************************************************)
(* The hash array mapped trie of one partition                             *)
(* (crates/registry-core/src/hamt.rs, partition.rs) over a store of        *)
(* content-addressed nodes.                                                *)
(*                                                                         *)
(* Data abstraction.  A node is its own address: the node a hash names is  *)
(* the value of that hash here, because equal bytes have equal hashes.  A  *)
(* leaf is the function from the keys it holds to their content hashes     *)
(* (its entries are sorted by key, so the set determines the bytes).  What *)
(* can go wrong with the store is that a node is not readable: `lost` are  *)
(* the nodes of the current tree in that state.  Writing a node again      *)
(* makes it readable.                                                      *)
(*                                                                         *)
(* The code recurses over depths, one digest byte each; here the recursion *)
(* is over the path to a key, the levels of a tree, or its height.         *)
(***************************************************************************)
EXTENDS Naturals, Sequences, FiniteSets, Functions

CONSTANTS
    Keys, Hashes,
    Bytes,      \* values of a digest byte, the slots of an intermediate node
    DigestLen,  \* bytes of a digest without byte 0
    Digest,     \* key_digest without byte 0
    LeafMax,    \* leaf_max_entries
    Batches,    \* the batches that are inserted, sequences of entries
    None,
    Err         \* MissingNode, DepthExhausted

Entry == [key : Keys, hash : Hashes]

ASSUME HamtAssumption ==
    /\ LeafMax \in Nat \ {0} /\ DigestLen \in Nat
    /\ Digest \in [Keys -> [1 .. DigestLen -> Bytes]]
    /\ \A k, l \in Keys : Digest[k] = Digest[l] => k = l
    /\ Batches \subseteq Seq(Entry)
    /\ None \notin Hashes /\ Err \notin Hashes

VARIABLES
    root,      \* the partition's current root, NoNode: never built
    lost,      \* nodes of the tree that the store cannot read
    inserted   \* history: key -> the content hash first inserted for it

vars == <<root, lost, inserted>>

-----------------------------------------------------------------------------
Leaf(entries)       == [kind |-> "leaf", entries |-> entries]
Intermediate(slots) == [kind |-> "intermediate", slots |-> slots]
NoNode              == [kind |-> "none"]
ErrNode             == [kind |-> "error"]
NoEntries           == [k \in {} |-> None]

Children(node) == IF node.kind = "intermediate" THEN Range(node.slots) \ {NoNode} ELSE {}

ChildrenOf(nodes) == UNION {Children(n) : n \in nodes}

\* The nodes below r, level by level, when those to skip are not entered.
Levels(r, skip) ==
    LET level[d \in 0 .. DigestLen] ==
            IF d = 0 THEN {r} \ {NoNode} ELSE ChildrenOf(level[d - 1] \ skip)
    IN  level

\* Every node of a tree.
Nodes(r) == UNION {Levels(r, {})[d] : d \in 0 .. DigestLen}

\* Depth 0 is the byte after the one that chose the partition; there is none at
\* depth DigestLen.
descent_byte(k, depth) == Digest[k][depth + 1]

KeysAt(S, depth, b) == {k \in S : descent_byte(k, depth) = b}

\* The way down to a key from a node at some depth: it stays where it ends.
Path(node, k, depth) ==
    LET Down(n, d) == IF n.kind = "intermediate" THEN n.slots[descent_byte(k, d)] ELSE n
        at[d \in depth .. DigestLen] == IF d = depth THEN node ELSE Down(at[d - 1], d - 1)
    IN  at

\* What the end of the way says of the key.
Found(node, k) ==
    IF node.kind = "intermediate" THEN Err
    ELSE IF node.kind = "leaf" /\ k \in DOMAIN node.entries THEN node.entries[k] ELSE None

(***************************************************************************)
(* lookup: down the slots, every node on the way has to be readable.       *)
(***************************************************************************)
lookup(node, k) ==
    LET at == Path(node, k, 0)
    IN  IF Range(at) \intersect lost # {} THEN Err ELSE Found(at[DigestLen], k)

-----------------------------------------------------------------------------
(***************************************************************************)
(* insert_at: the new node for this subtree and the nodes that were put.   *)
(***************************************************************************)
Failed          == [root |-> ErrNode, wrote |-> {}]
Kept(node)      == [root |-> node, wrote |-> {}]
Put(node, more) == [root |-> node, wrote |-> {node} \union more]

\* A leaf that is too full becomes an intermediate over one leaf per byte.
\* Its children are not split again, however full they are.
Split(entries, depth) ==
    LET At(b) == KeysAt(DOMAIN entries, depth, b)
        slots == [b \in Bytes |-> IF At(b) = {} THEN NoNode
                                  ELSE Leaf([k \in At(b) |-> entries[k]])]
    IN  IF depth = DigestLen THEN Failed
        ELSE Put(Intermediate(slots), Children(Intermediate(slots)))

EntriesOf(node) == IF node.kind = "leaf" THEN node.entries ELSE NoEntries

InsertIntoLeaf(node, e, depth) ==
    LET entries == EntriesOf(node)
        grown   == [k \in DOMAIN entries \union {e.key} |->
                       IF k = e.key THEN e.hash ELSE entries[k]]
    IN  IF e.key \in DOMAIN entries THEN Kept(node)
        ELSE IF Cardinality(DOMAIN grown) <= LeafMax THEN Put(Leaf(grown), {})
        ELSE Split(grown, depth)

\* An intermediate over the new child.
CopyOver(node, b, sub) ==
    IF sub.root = ErrNode THEN Failed
    ELSE Put(Intermediate([node.slots EXCEPT ![b] = sub.root]), sub.wrote)

\* A missing node taken for an empty one: the subtree starts over.
insert_at_RebuildsMissing(r, e) ==
    LET at == Path(r, e.key, 0)
        new[h \in 0 .. DigestLen] ==
            LET d == DigestLen - h
            IN  IF at[d] \in lost THEN InsertIntoLeaf(NoNode, e, d)
                ELSE IF at[d].kind # "intermediate" THEN InsertIntoLeaf(at[d], e, d)
                ELSE IF h = 0 THEN Failed
                ELSE CopyOver(at[d], descent_byte(e.key, d), new[h - 1])
    IN  new

\* The last write wins: a replay with other content rewrites the leaf.
insert_at_LastWins(r, e) ==
    LET at == Path(r, e.key, 0)
        Without(node) == Leaf([k \in DOMAIN EntriesOf(node) \ {e.key} |-> EntriesOf(node)[k]])
        new[h \in 0 .. DigestLen] ==
            LET d == DigestLen - h
            IN  IF at[d] \in lost THEN Failed
                ELSE IF at[d].kind # "intermediate" THEN InsertIntoLeaf(Without(at[d]), e, d)
                ELSE IF h = 0 THEN Failed
                ELSE CopyOver(at[d], descent_byte(e.key, d), new[h - 1])
    IN  new

\* On the way to the entry's key, by the height that is left: the node where it
\* ends takes the entry, those above are copied on the way back.
insert_at(r, e) ==
    LET at == Path(r, e.key, 0)
        new[h \in 0 .. DigestLen] ==
            LET d == DigestLen - h
            IN  IF at[d] \in lost THEN Failed
                ELSE IF at[d].kind # "intermediate" THEN InsertIntoLeaf(at[d], e, d)
                ELSE IF h = 0 THEN Failed
                ELSE CopyOver(at[d], descent_byte(e.key, d), new[h - 1])
    IN  new

insert_one(r, e) == insert_at(r, e)[DigestLen]

\* An entry that cannot be inserted is passed over and the batch goes on.
InsertEach_SkipsFailed(r, entries) ==
    LET Then(acc, e) ==
            LET res == insert_one(acc.root, e)
            IN  IF res.root = ErrNode THEN acc
                ELSE [root |-> res.root, wrote |-> acc.wrote \union res.wrote]
        after[n \in 0 .. Len(entries)] ==
            IF n = 0 THEN Kept(r) ELSE Then(after[n - 1], entries[n])
    IN  after

\* One entry after the other; the first failure ends it.
InsertEach(r, entries) ==
    LET Then(acc, e) ==
            LET res == insert_one(acc.root, e)
            IN  IF acc.root = ErrNode THEN acc
                ELSE [root |-> res.root, wrote |-> acc.wrote \union res.wrote]
        after[n \in 0 .. Len(entries)] ==
            IF n = 0 THEN Kept(r) ELSE Then(after[n - 1], entries[n])
    IN  after

\* insert_batch's denylist argument is the empty set at every call outside the
\* tests.
insert_batch(r, entries) ==
    LET done == InsertEach(r, entries)[Len(entries)]
    IN  IF done.root = NoNode THEN Put(Leaf(NoEntries), {}) ELSE done

(***************************************************************************)
(* build_from_entries: the tree of a whole entry set, bottom up, for the   *)
(* subsets of its keys by height.                                          *)
(***************************************************************************)
Slots(S, depth, below) ==
    [b \in Bytes |-> IF KeysAt(S, depth, b) = {} THEN NoNode ELSE below[KeysAt(S, depth, b)]]

\* A builder that lets a leaf take one entry too many.
build_subtree_Overfull(entries) ==
    LET sub[h \in 0 .. DigestLen] == [S \in SUBSET DOMAIN entries |->
            IF Cardinality(S) <= LeafMax + 1 THEN Leaf([k \in S |-> entries[k]])
            ELSE IF h = 0 THEN ErrNode
            ELSE LET slots == Slots(S, DigestLen - h, sub[h - 1])
                 IN  IF ErrNode \in Range(slots) THEN ErrNode ELSE Intermediate(slots)]
    IN  sub

build_subtree(entries) ==
    LET sub[h \in 0 .. DigestLen] == [S \in SUBSET DOMAIN entries |->
            IF Cardinality(S) <= LeafMax THEN Leaf([k \in S |-> entries[k]])
            ELSE IF h = 0 THEN ErrNode
            ELSE LET slots == Slots(S, DigestLen - h, sub[h - 1])
                 IN  IF ErrNode \in Range(slots) THEN ErrNode ELSE Intermediate(slots)]
    IN  sub

build_from_entries(entries) == build_subtree(entries)[DigestLen][DOMAIN entries]

-----------------------------------------------------------------------------
(***************************************************************************)
(* The walks.  collect_reachable gathers node addresses and value hashes   *)
(* for the collector's protect set and gives up at the first node it       *)
(* cannot read; the parallel walk goes level by level, keeps what it gets  *)
(* and may be cut off by its deadline inside any level.                    *)
(***************************************************************************)
Values(node) == IF node.kind = "leaf" THEN Range(node.entries) ELSE {}

\* A protect walk that forgets the value blobs.
collect_reachable_NodesOnly(r) ==
    IF Nodes(r) \intersect lost # {} THEN {Err} ELSE Nodes(r)

collect_reachable(r) ==
    IF Nodes(r) \intersect lost # {} THEN {Err}
    ELSE Nodes(r) \union UNION {Values(n) : n \in Nodes(r)}

EntriesIn(nodes) ==
    UNION {{[key |-> k, hash |-> n.entries[k]] : k \in DOMAIN n.entries} :
              n \in {m \in nodes : m.kind = "leaf"}}

\* Read: the nodes of the levels above d that could be read.
ReadAbove(frontier, d) == UNION {frontier[i] \ lost : i \in {j \in 0 .. DigestLen : j < d}}

\* A walk that is cut off inside some level.
CutOff(frontier) ==
    UNION {{[entries |-> EntriesIn(ReadAbove(frontier, d) \union S), complete |-> FALSE] :
               S \in SUBSET (frontier[d] \ lost)} : d \in 0 .. DigestLen}

\* A walk that drops what it cannot fetch and still calls itself complete.
walk_entries_parallel_Silent(r) ==
    LET frontier == Levels(r, lost)
    IN  CutOff(frontier) \union
          {[entries  |-> EntriesIn(ReadAbove(frontier, DigestLen + 1)), complete |-> TRUE]}

\* The outcomes a walk may have: cut off, or through.
walk_entries_parallel(r) ==
    LET frontier == Levels(r, lost)
    IN  CutOff(frontier) \union
          {[entries  |-> EntriesIn(ReadAbove(frontier, DigestLen + 1)),
            complete |-> \A d \in 0 .. DigestLen : frontier[d] \intersect lost = {}]}

-----------------------------------------------------------------------------
Init ==
    /\ root = NoNode
    /\ lost = {}
    /\ inserted = [k \in Keys |-> None]

\* The hash each key has after the entries of a batch: the first ever inserted.
FirstInserted(entries) ==
    LET first[n \in 0 .. Len(entries)] ==
            IF n = 0 THEN inserted
            ELSE IF first[n - 1][entries[n].key] = None
                 THEN [first[n - 1] EXCEPT ![entries[n].key] = entries[n].hash]
            ELSE first[n - 1]
    IN  first

\* A publish cycle inserts a batch; the root moves only when all of it is in.
Insert(entries) ==
    LET res == insert_batch(root, entries)
    IN  /\ root' = (IF res.root = ErrNode THEN root ELSE res.root)
        /\ lost' = (lost \ res.wrote) \intersect Nodes(root')
        /\ inserted' = (IF res.root = ErrNode THEN inserted ELSE FirstInserted(entries)[Len(entries)])

\* External: a node becomes unreadable, or readable again.
LoseNode ==
    /\ \E n \in Nodes(root) \ lost : lost' = lost \union {n}
    /\ UNCHANGED <<root, inserted>>

NodeBack ==
    /\ \E n \in lost : lost' = lost \ {n}
    /\ UNCHANGED <<root, inserted>>

Next ==
    \/ \E entries \in Batches : Insert(entries)
    \/ LoseNode
    \/ NodeBack

Spec == Init /\ [][Next]_vars

-----------------------------------------------------------------------------
(***************************************************************************)
(* A lookup never lies: it finds exactly what was first inserted, or says  *)
(* that it could not read.  Splits, path copies, replays and failed        *)
(* batches on a damaged tree lose no entry, and an unreadable node is      *)
(* never taken for an absent one.                                          *)
(***************************************************************************)
LookupNeverLies ==
    \A k \in Keys :
        /\ lookup(root, k) \in {inserted[k], Err}
        /\ lost = {} => lookup(root, k) = inserted[k]

(***************************************************************************)
(* Re-inserting a key is a structural no-op whatever content it comes      *)
(* with: the replay of a queue row after a crash cannot move the root, and *)
(* it fails only where a node cannot be read.                              *)
(***************************************************************************)
ReplayIsNoop ==
    \A k \in Keys, h \in Hashes : inserted[k] # None =>
        LET again == insert_one(root, [key |-> k, hash |-> h]).root
        IN  again = root \/ (again = ErrNode /\ lost # {})

(***************************************************************************)
(* The trie is the map the publisher takes it for (module PartitionMap):   *)
(* splits, path copies, failed batches and lost nodes do not show in what  *)
(* the tree says, and of a batch either every entry is in the next root or *)
(* none.                                                                   *)
(***************************************************************************)
Held == [k \in Keys |-> Found(Path(root, k, 0)[DigestLen], k)]

Map == INSTANCE PartitionMap WITH map <- Held

ImplementsMap == Map!Spec

(***************************************************************************)
(* The collector's protect set, when the walk succeeds, holds everything a *)
(* reader of this tree will ever fetch: the nodes and the values.          *)
(***************************************************************************)
ProtectSetSuffices ==
    root # NoNode /\ collect_reachable(root) # {Err} =>
        /\ Nodes(root) \subseteq collect_reachable(root)
        /\ \A k \in Keys : inserted[k] # None => inserted[k] \in collect_reachable(root)

(***************************************************************************)
(* The bounded parallel walk is honest: it never returns an entry that was *)
(* not inserted, and when it says complete it returns all of them.         *)
(***************************************************************************)
AllEntries == {[key |-> k, hash |-> inserted[k]] : k \in {l \in Keys : inserted[l] # None}}

WalkIsHonest ==
    root # NoNode => \A o \in walk_entries_parallel(root) :
        /\ o.entries \subseteq AllEntries
        /\ o.complete => o.entries = AllEntries

(***************************************************************************)
(* What the bulk builder makes of the same records answers every lookup    *)
(* alike, within the bound on leaves.                                      *)
(***************************************************************************)
Content == [k \in {l \in Keys : inserted[l] # None} |-> inserted[k]]

BulkBuildIsEquivalent ==
    lost = {} =>
        LET built == build_from_entries(Content)
        IN  /\ built # ErrNode
            /\ \A k \in Keys : lookup(built, k) = inserted[k]
            /\ \A n \in Nodes(built) : n.kind = "leaf" =>
                  Cardinality(DOMAIN n.entries) <= LeafMax

=============================================================================
