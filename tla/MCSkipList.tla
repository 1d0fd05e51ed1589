----------------------------- MODULE MCSkipList -----------------------------
(***************************************************************************)
(* SkipList for TLC. MaxNumber = 7 stands for the top of the unsigned type *)
(* and callers stay below it, except in the run about the wrap.            *)
(***************************************************************************)
EXTENDS SkipList
=============================================================================
