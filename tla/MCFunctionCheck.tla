-------------------------- MODULE MCFunctionCheck ---------------------------
(***************************************************************************)
(* FunctionCheck for TLC: all bodies over a few wires.                     *)
(***************************************************************************)
EXTENDS FunctionCheck

=============================================================================
