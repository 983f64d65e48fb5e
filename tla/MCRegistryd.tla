---------------------------- MODULE MCRegistryd ----------------------------
(***************************************************************************)
(* Small instances of Registryd: keys a1 and a2 in partition 0, b1 in      *)
(* partition 1, contents v and w.                                          *)
(***************************************************************************)
EXTENDS Registryd, TLC

CONSTANTS a1, a2, b1, v, w

ClientSymmetry == Permutations(Clients)

MCPartitionOf == [k \in Keys |-> IF k = b1 THEN 1 ELSE 0]

One(k, h)        == [kind |-> "record", subs |-> <<[key |-> k, hash |-> h]>>]
Two(k, h, l, i)  == [kind |-> "batch",
                     subs |-> <<[key |-> k, hash |-> h], [key |-> l, hash |-> i]>>]

\* A key claimed with two contents, alone and by a batch that names it twice;
\* batches over two partitions; two keys of one partition.
ClashingRequests == {One(a1, v), Two(a1, w, a1, v)}
SpreadRequests   == {One(b1, w), Two(a1, v, b1, w)}
SiblingRequests  == {One(a1, v), One(a2, w)}

LegacyNone == [k \in Keys |-> None]
LegacyA2   == [k \in Keys |-> IF k = a2 THEN v ELSE None]

=============================================================================
