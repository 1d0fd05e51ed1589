---------------------------- MODULE MCIterPlugin ----------------------------
(***************************************************************************)
(* IterPlugin for TLC: all signatures of a few short parameters.           *)
(***************************************************************************)
EXTENDS IterPlugin

=============================================================================
