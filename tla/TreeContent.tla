---------------------------- MODULE TreeContent ----------------------------
(***************************************************************************)
(* What a partition tree says, apart from how it is stored: the content    *)
(* hash of the entry of every key, None for a key without one.             *)
(***************************************************************************)
CONSTANTS
    Keys,  \* record keys the clients use
    None   \* Rust's None: no record, no root, no leaf entry

EmptyTree == [k \in Keys |-> None]

KeysOf(items) == {it.key : it \in items}

\* A tree with the entries added; no key has two of them.  First write wins:
\* an entry that is there stays as it is.
FirstWins(tree, entries) ==
    [k \in Keys |->
       IF tree[k] = None /\ k \in KeysOf(entries)
       THEN (CHOOSE e \in entries : e.key = k).hash
       ELSE tree[k]]

=============================================================================
