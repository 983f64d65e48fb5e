------------------------------ MODULE Registry ------------------------------
(***************************************************************************)
(* What registryd promises, with everything that makes it hard left out:   *)
(* no queue, no partitions, no crashes, no document.  A key is bound to    *)
(* one content hash for ever; the published catalogue only grows, and only *)
(* by bound content; a record is called published after the catalogue      *)
(* lists it and never before, and what is settled stays settled.           *)
(***************************************************************************)
CONSTANTS Keys, Hashes, None

VARIABLES
    binding,    \* key -> content hash, None while the key is free
    catalogue,  \* key -> content hash the current published trees list
    state       \* key -> "free", "pending", "published" or "denylisted"

vars == <<binding, catalogue, state>>

Init ==
    /\ binding \in [Keys -> Hashes \union {None}]
    /\ catalogue = binding
    /\ state = [k \in Keys |-> IF binding[k] = None THEN "free" ELSE "published"]

\* Some free keys are claimed.
Accept ==
    \E new \in SUBSET {k \in Keys : state[k] = "free"} :
        /\ binding' \in [Keys -> Hashes \union {None}]
        /\ \A k \in Keys : IF k \in new THEN binding'[k] # None
                                        ELSE binding'[k] = binding[k]
        /\ state' = [k \in Keys |-> IF k \in new THEN "pending" ELSE state[k]]
        /\ UNCHANGED catalogue

\* New trees appear: some pending records are now listed.
List ==
    \E new \in SUBSET {k \in Keys : state[k] = "pending"} :
        /\ catalogue' = [k \in Keys |-> IF k \in new THEN binding[k] ELSE catalogue[k]]
        /\ UNCHANGED <<binding, state>>

\* Listed records are settled as published.
Settle ==
    \E done \in SUBSET {k \in Keys : state[k] = "pending" /\ catalogue[k] = binding[k]} :
        /\ state' = [k \in Keys |-> IF k \in done THEN "published" ELSE state[k]]
        /\ UNCHANGED <<binding, catalogue>>

\* Pending records are taken down instead.
TakeDown ==
    \E out \in SUBSET {k \in Keys : state[k] = "pending"} :
        /\ state' = [k \in Keys |-> IF k \in out THEN "denylisted" ELSE state[k]]
        /\ UNCHANGED <<binding, catalogue>>

Next == Accept \/ List \/ Settle \/ TakeDown

Spec == Init /\ [][Next]_vars

=============================================================================
