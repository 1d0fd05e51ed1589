--------------------------------- MODULE MCRAM --------------------------------
(***************************************************************************)
(* Three RAM types: field elements modulo 3, elements of two bits with an  *)
(* index of one bit, and single bits with an index of two.                 *)
(***************************************************************************)
EXTENDS RAM

MCRams ==
  {[boolean |-> FALSE, p |-> 3, indexBits |-> 1, elementBits |-> 1],
   [boolean |-> TRUE, p |-> 2, indexBits |-> 1, elementBits |-> 2],
   [boolean |-> TRUE, p |-> 2, indexBits |-> 2, elementBits |-> 1]}

Symmetry == Permutations(Handles)
===============================================================================
