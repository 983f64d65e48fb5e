---------------------------- MODULE PartitionMap ----------------------------
(***************************************************************************)
(* What the trie of a partition promises the publisher: it is a map from   *)
(* keys to content hashes, and the entries of a batch come into it all at  *)
(* once or not at all, the first one of each key.  No nodes, no digests,   *)
(* no lost blobs.                                                          *)
(***************************************************************************)
EXTENDS Naturals, Sequences, TreeContent

CONSTANT Batches   \* sequences of entries

VARIABLE map

\* The entries of a batch without those whose key comes again.
FirstOfEach(entries) ==
    {entries[i] : i \in {j \in DOMAIN entries :
                           \A l \in 1 .. j - 1 : entries[l].key # entries[j].key}}

Init == map = EmptyTree

Insert(entries) == map' = FirstWins(map, FirstOfEach(entries))

Next == \E entries \in Batches : Insert(entries)

Spec == Init /\ [][Next]_map

=============================================================================
