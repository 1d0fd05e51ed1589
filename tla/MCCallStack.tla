---------------------------- MODULE MCCallStack -----------------------------
(***************************************************************************)
(* CallStack for TLC: all programs over a few wires. No definition tells   *)
(* one value or one type from another, so that these may be permuted; the  *)
(* properties are all safety properties.                                   *)
(***************************************************************************)
EXTENDS CallStack, TLC

Symmetry == Permutations(Value) \cup Permutations(Type)

=============================================================================
