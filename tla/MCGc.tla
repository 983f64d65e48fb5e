-------------------------------- MODULE MCGc --------------------------------
(***************************************************************************)
(* The collector beside a small daemon: one client that submits one record *)
(* and may hang up, on an upgraded data directory.                         *)
(***************************************************************************)
EXTENDS Gc, TLC

CONSTANTS a1, a2, v, w

MCPartitionOf == [k \in Keys |-> IF k = a2 THEN NumPartitions - 1 ELSE 0]

MCRequests == {[kind |-> "record", subs |-> <<[key |-> a1, hash |-> w]>>]}

MCLegacy == [k \in Keys |-> IF k = a2 THEN v ELSE None]

=============================================================================
