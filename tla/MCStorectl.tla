----------------------------- MODULE MCStorectl -----------------------------
(***************************************************************************)
(* Small instances of Storectl.                                            *)
(***************************************************************************)
EXTENDS Storectl, TLC

SomeOptions ==
    [partition : {None, 1}, summary : BOOLEAN, values : BOOLEAN,
     no_page : BOOLEAN, max : {None, 0, 1, 2}, free_limit : {1, 2}, page_size : {1, 2}]

=============================================================================
