----------------------------- MODULE NumberSet ------------------------------
(***************************************************************************)
(* What wtk::utils::SkipList promises (SkipList.h): a mutable set of       *)
(* numbers, whose bulk operations apply to a whole interval or not at all. *)
(* A call that cannot apply answers FALSE and leaves the set as it was.    *)
(* SkipList.tla implements this with a descending list of ranges.          *)
(***************************************************************************)
EXTENDS Integers

CONSTANT Number     \* the numbers that callers pass

VARIABLES
  elements,         \* the numbers held
  reply             \* the last call: its name, its arguments and its answer

numberSetVars == <<elements, reply>>

Reply(op, first, last, ok) ==
  [op |-> op, first |-> first, last |-> last, ok |-> ok]

Init ==
  /\ elements = {}
  /\ reply = Reply("none", 0, 0, TRUE)

(***************************************************************************)
(* insert: all of first..last, unless one of them is held already.         *)
(***************************************************************************)
Insert(op, first, last) ==
  LET accepted == first <= last /\ elements \cap (first..last) = {}
  IN  /\ elements' = IF accepted THEN elements \cup (first..last) ELSE elements
      /\ reply' = Reply(op, first, last, accepted)

(***************************************************************************)
(* remove: all of first..last, unless one of them is missing.              *)
(***************************************************************************)
Remove(op, first, last) ==
  LET accepted == first..last \subseteq elements
  IN  /\ elements' = IF accepted THEN elements \ (first..last) ELSE elements
      /\ reply' = Reply(op, first, last, accepted)

Clear ==
  /\ elements' = {}
  /\ reply' = Reply("clear", 0, 0, TRUE)

Next ==
  \/ \E first, last \in Number : Insert("insertRange", first, last)
  \/ \E n \in Number : Insert("insert", n, n)
  \/ \E first, last \in Number : first <= last /\ Remove("removeRange", first, last)
  \/ \E n \in Number : Remove("remove", n, n)
  \/ Clear

Spec == Init /\ [][Next]_numberSetVars
=============================================================================
