----------------------------- MODULE PointerDoc -----------------------------
(***************************************************************************)
(* The root pointer document as its writer sees it                         *)
(* (crates/registry-node/src/pointer_doc.rs): one entry per partition.  An *)
(* entry's content is a 32-byte root hash in a blob of its own, so an      *)
(* entry can be there while its content is not readable: for good (the     *)
(* blob was swept or torn) or for one read (a store hiccup).               *)
(***************************************************************************)
EXTENDS RecordIndex

CONSTANT Unreadable   \* the Err of get_named_root

ASSUME DocAssumption == Unreadable \notin Tree /\ Unreadable # None

VARIABLES
    doc_roots,    \* the root the entry of each partition names, None: no entry
    doc_readable  \* whether the entry's content blob is in the store

docVars == <<doc_roots, doc_readable>>

DocTypeOK ==
    /\ doc_roots \in [Partitions -> Tree \union {None}]
    /\ doc_readable \in [Partitions -> BOOLEAN]

\* The behaviour the strict read replaced: unreadable content read as "no root".
get_partition_root_Lenient(p, faults) ==
    (IF doc_roots[p] # None /\ doc_readable[p] THEN {doc_roots[p]} ELSE {None})
    \union (IF faults THEN {None} ELSE {})

(***************************************************************************)
(* get_partition_root: the results a read may give.  Only "no entry" is    *)
(* None; a failing query, a content blob that is missing, unreadable or    *)
(* not 32 bytes long is an error.  A read that meets no fault is exact.    *)
(***************************************************************************)
get_partition_root(p, faults) ==
    (IF doc_roots[p] = None THEN {None}
     ELSE IF doc_readable[p] THEN {doc_roots[p]} ELSE {Unreadable})
    \union (IF faults THEN {Unreadable} ELSE {})

set_partition_root(p, tree) ==
    /\ doc_roots' = [doc_roots EXCEPT ![p] = tree]
    /\ doc_readable' = [doc_readable EXCEPT ![p] = TRUE]

\* External: a sweep or a torn write destroys the content blob of an entry.
LoseEntryBlob(p) ==
    /\ doc_roots[p] # None /\ doc_readable[p]
    /\ doc_readable' = [doc_readable EXCEPT ![p] = FALSE]
    /\ UNCHANGED doc_roots

=============================================================================
