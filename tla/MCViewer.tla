------------------------------ MODULE MCViewer ------------------------------
(***************************************************************************)
(* Small instances of Viewer.                                              *)
(***************************************************************************)
EXTENDS Viewer, TLC

CONSTANTS r1, s1

=============================================================================
