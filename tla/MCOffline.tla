----------------------------- MODULE MCOffline -----------------------------
(***************************************************************************)
(* Small instances of Offline: a1 and a2 in partition 0, b1 in 1.          *)
(***************************************************************************)
EXTENDS Offline, TLC

CONSTANTS a1, a2, b1, v, w

MCPartitionOf == [k \in Keys |-> IF k = b1 THEN 1 ELSE 0]

Line(k, h) == [key |-> k, hash |-> h]

\* A new record, then a second line for it with other content.
DumpTwice == <<Line(a1, v), Line(a1, w)>>
\* The same, and a record of the other partition.
DumpThree == DumpTwice \o <<Line(b1, v)>>
DumpOne   == <<Line(a1, v)>>

ClientRecord == {[kind |-> "record", subs |-> <<[key |-> a1, hash |-> w]>>]}

LegacyA2 == [k \in Keys |-> IF k = a2 THEN v ELSE None]
LegacyB1 == [k \in Keys |-> IF k = b1 THEN v ELSE None]

=============================================================================
