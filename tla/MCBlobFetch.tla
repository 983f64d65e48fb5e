---------------------------- MODULE MCBlobFetch ----------------------------
(***************************************************************************)
(* Small instances of BlobFetch.                                           *)
(***************************************************************************)
EXTENDS BlobFetch, TLC

CONSTANTS c1, c2, g1

=============================================================================
