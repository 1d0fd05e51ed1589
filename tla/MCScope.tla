------------------------------ MODULE MCScope -------------------------------
(***************************************************************************)
(* Scope for TLC: all programs over a few wires, far below the top of the  *)
(* wire index type unless the configuration says otherwise.                *)
(***************************************************************************)
EXTENDS Scope
=============================================================================
