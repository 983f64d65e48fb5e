----------------------------- MODULE MCIsccStore -----------------------------
(***************************************************************************)
(* Small instances of IsccStore: codes of four bits in two bands.          *)
(***************************************************************************)
EXTENDS IsccStore, TLC

CONSTANTS k1, k2, k3

\* k1 and k2 share a band and differ in the other; k3 is far from both; k2
\* is declared again with a second code.
SomeMembers == {[key |-> k1, content_code |-> {0, 3}], [key |-> k2, content_code |-> {1, 3}],
                [key |-> k3, content_code |-> {0, 1, 2}], [key |-> k2, content_code |-> {3}]}

\* The second list is longer than a segment in the bucket its codes share.
SomeLists == {<<[key |-> k1, content_code |-> {0, 3}]>>,
              <<[key |-> k1, content_code |-> {0, 3}], [key |-> k2, content_code |-> {1, 3}],
                [key |-> k2, content_code |-> {3}]>>}

SomeCodes == {{}, {0, 3}, {0, 1, 2, 3}}

=============================================================================
