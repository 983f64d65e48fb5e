------------------------------- MODULE MCHamt -------------------------------
(***************************************************************************)
(* A binary trie over five keys whose digests share prefixes of every      *)
(* length, so that splits cascade; entries come alone or in pairs, and one *)
(* key comes with two contents.                                            *)
(***************************************************************************)
EXTENDS Hamt, TLC

CONSTANTS k1, k2, k3, k4, k5, v, w

MCDigest == (k1 :> <<0, 0, 0>>) @@ (k2 :> <<0, 0, 1>>) @@ (k3 :> <<0, 1, 0>>)
            @@ (k4 :> <<1, 0, 0>>) @@ (k5 :> <<1, 1, 1>>)

Of(k, h) == [key |-> k, hash |-> h]

MCBatches ==
    {<<Of(k, v)>> : k \in Keys}
    \union {<<Of(k1, w)>>, <<Of(k2, w), Of(k1, v)>>, <<Of(k3, v), Of(k3, w)>>,
            <<Of(k5, v), Of(k4, w)>>, <<Of(k3, w), Of(k4, v)>>, <<>>}

=============================================================================
