------------------------------- MODULE Scope --------------------------------
(***************************************************************************)
(* wtk::nails::Scope (nails/Scope.h, Scope.t.h): the wires of one type in  *)
(* one function, as the gates of LeadTypeInterpreter use it. Every action  *)
(* is one call; a call that is refused sets err, and the interpreter then  *)
(* stops. Outputs of a call or of a copy are found first (FindOutputs),    *)
(* written, and marked as assigned only when the call returns. The lookups *)
(* retrieve and findInputs change nothing: they are the operators of       *)
(* WireRanges, and the invariants below ask them of every state.           *)
(***************************************************************************)
EXTENDS WireRanges

CONSTANTS
  MaxArg,         \* the greatest wire index of the program
  MaxOutputs,     \* the most output intervals of one call
  MaxMapped,      \* the most wires mapped from the calling scope
  AvoidForeign    \* TRUE: no @new or output cuts a range that runs into others

ASSUME ProgramAssumption ==
  /\ MaxArg \in Wire
  /\ MaxMapped \in 0..MaxArg
  /\ MaxOutputs \in Nat
  /\ AvoidForeign \in BOOLEAN

VARIABLES
  ranges,         \* offsets and ranges
  assigned,       \* the wires ever assigned
  active,         \* the assigned wires not deleted
  firstLocal,     \* the wires below are mapped from the caller
  phase,          \* of the set-up: "outputs", "inputs", then "body"
  pending,        \* the intervals of outputs found and not yet returned
  err             \* the ScopeError of the last call

vars == <<ranges, assigned, active, firstLocal, phase, pending, err>>

Arg == 0..MaxArg

(* The codes a call that changes the scope may be refused with.             *)
Error == {"alreadyExists", "cannotDeleteRemap", "unmatchedDelete",
          "notAssigned", "deleted"}

PendingWires == UNION {p.first .. p.last : p \in pending}

Refuse(e) ==
  /\ err' = e
  /\ UNCHANGED <<ranges, assigned, active, firstLocal, phase, pending>>

(* Marking wires in both sets, as each operation that constructs wires does. *)
Mark(S) ==
  /\ active' = active \cup S
  /\ assigned' = assigned \cup S

NotActive(w) == w \notin active              \* mutant: deleted wires count as free

Free(w) == w \notin assigned

(* The program may call the scope: nothing failed, no call is under way.    *)
Ready == phase = "body" /\ err = "success" /\ pending = {}

-----------------------------------------------------------------------------
(***************************************************************************)
(* The set-up of a call (Interpreter.t.h, invoke): mapOutputs, mapInputs,  *)
(* and then the body of the function. The top scope has nothing mapped.    *)
(***************************************************************************)

MapOutputs(n) ==
  /\ phase = "outputs" /\ firstLocal + n <= MaxMapped
  /\ ranges' = Append(ranges, MappedRangeOf(firstLocal, RawCells(n)))
  /\ firstLocal' = firstLocal + n
  /\ UNCHANGED <<assigned, active, phase, pending, err>>

MapInputs(n) ==
  LET inputs == firstLocal .. (firstLocal + n - 1)
  IN  /\ phase \in {"outputs", "inputs"} /\ firstLocal + n <= MaxMapped
      /\ ranges' = Append(ranges, MappedRangeOf(firstLocal,
                            [k \in 1..n |-> firstLocal + k - 1]))
      /\ Mark(inputs)
      /\ firstLocal' = firstLocal + n
      /\ phase' = "inputs"
      /\ UNCHANGED <<pending, err>>

BeginBody ==
  /\ phase \in {"outputs", "inputs"}
  /\ phase' = "body"
  /\ UNCHANGED <<ranges, assigned, active, firstLocal, pending, err>>

-----------------------------------------------------------------------------
(***************************************************************************)
(* assign, for the output wire of a gate, and the write of its value.      *)
(***************************************************************************)
Assign(w) ==
  /\ Ready
  /\ \/ /\ ~Free(w)
        /\ Refuse("alreadyExists")
     \/ /\ Free(w)
        /\ ranges' = AssignCell(ranges, active, w)
        /\ Mark({w})
        /\ UNCHANGED <<firstLocal, phase, pending, err>>

(***************************************************************************)
(* The cut that newRange(f, l) makes reaches wires that another range      *)
(* holds: the cut range runs past the offset of the next one.              *)
(***************************************************************************)
CutsForeign(rs, f, l) ==
  /\ rs # <<>> /\ f >= rs[1].offset
  /\ LET i == FindRange(rs, f)
     IN  /\ i < Len(rs)
         /\ \E w \in active : l < w /\ w <= End(rs[i]) /\ w >= rs[i + 1].offset

NewRange(f, l) ==
  /\ Ready /\ f <= l
  /\ AvoidForeign => ~CutsForeign(ranges, f, l)
  /\ \/ /\ NewRangeClashes(ranges, assigned, firstLocal, f, l)
        /\ Refuse("alreadyExists")
     \/ /\ ~NewRangeClashes(ranges, assigned, firstLocal, f, l)
        /\ ranges' = AddNewRange(ranges, active, f, l)
        /\ UNCHANGED <<assigned, active, firstLocal, phase, pending, err>>

(***************************************************************************)
(* deleteRange. The code asserts that the scope has ranges, then goes on.   *)
(***************************************************************************)
DeleteRange(f, l) ==
  LET e == DeleteError(ranges, assigned, active, firstLocal, f, l)
  IN  /\ Ready /\ f <= l
      /\ \/ /\ e \in {"cannotDeleteRemap", "notAssigned", "deleted"}
            /\ Refuse(e)
         \/ /\ e \in {"success", "unmatchedDelete"}
            /\ ranges' = DeleteCells(ranges, active, f, l)
            /\ active' = active \ (f .. LastDeleted(ranges, f, l))
            /\ err' = e
            /\ UNCHANGED <<assigned, firstLocal, phase, pending>>

-----------------------------------------------------------------------------
(***************************************************************************)
(* findOutputs for one output interval of a call: an existing range that   *)
(* covers it, or a new one. One call maps disjoint intervals.              *)
(***************************************************************************)
FindOutputs(f, l) ==
  /\ phase = "body" /\ err = "success" /\ f <= l
  /\ (f..l) \cap PendingWires = {} /\ Cardinality(pending) < MaxOutputs
  /\ AvoidForeign /\ CutsForeign(ranges, f, l) => CoversOutputs(ranges, f, l)
  /\ \/ /\ assigned \cap (f..l) # {}
        /\ Refuse("alreadyExists")
     \/ /\ assigned \cap (f..l) = {}
        /\ ~CoversOutputs(ranges, f, l)
        /\ NewRangeClashes(ranges, assigned, firstLocal, f, l)
        /\ Refuse("alreadyExists")
     \/ /\ assigned \cap (f..l) = {}
        /\ NewRangeClashes(ranges, assigned, firstLocal, f, l)
             => CoversOutputs(ranges, f, l)
        /\ ranges' = IF CoversOutputs(ranges, f, l) THEN ranges
                     ELSE AddNewRange(ranges, active, f, l)
        /\ pending' = pending \cup {[first |-> f, last |-> l]}
        /\ UNCHANGED <<assigned, active, firstLocal, phase, err>>

(***************************************************************************)
(* The call returns: it has written its outputs through the pointers that  *)
(* findOutputs gave, and they become assigned and active in this scope.    *)
(***************************************************************************)
ReturnOutputs ==
  /\ err = "success" /\ pending # {}
  /\ ranges' = WriteOutputs(ranges, [w \in PendingWires |-> w])
  /\ Mark(PendingWires)
  /\ pending' = {}
  /\ UNCHANGED <<firstLocal, phase, err>>

-----------------------------------------------------------------------------
Init ==
  /\ ranges = <<>>
  /\ assigned = {}
  /\ active = {}
  /\ firstLocal = 0
  /\ phase = "outputs"
  /\ pending = {}
  /\ err = "success"

Next ==
  \/ \E n \in 1..MaxMapped : MapOutputs(n) \/ MapInputs(n)
  \/ BeginBody
  \/ \E w \in Arg : Assign(w)
  \/ \E f, l \in Arg : NewRange(f, l) \/ DeleteRange(f, l) \/ FindOutputs(f, l)
  \/ ReturnOutputs

Spec == Init /\ [][Next]_vars

-----------------------------------------------------------------------------
(* The shapes of the scope's state; every active wire was assigned.         *)
TypeOK ==
  /\ ranges \in Seq(RangeType)
  /\ assigned \subseteq Arg
  /\ active \subseteq assigned
  /\ firstLocal \in 0..MaxMapped
  /\ phase \in {"outputs", "inputs", "body"}
  /\ pending \subseteq [first : Arg, last : Arg]
  /\ err \in Error \cup {"success"}

(* Scope.h: the offsets are "sorted ascending and is binary searched by     *)
(* findRange"; every insertion of a range keeps them so.                    *)
SortedOffsets ==
  \A i \in 1..(Len(ranges) - 1) : ranges[i].offset <= ranges[i + 1].offset

(* The binary search returns the position its assertion demands             *)
(* (Scope.t.h:58-78), whatever insertions and erasures came before.        *)
FindRangeExact ==
  ranges # <<>> =>
    \A w \in Arg : BinarySearch(ranges, w) = FindRange(ranges, w)

(* A gate that retrieves an active wire reads memory within its range that  *)
(* holds that wire's own value, although ranges overlap, grow, are cut, and *)
(* are erased around it (Scope.t.h:365-391).                                *)
RetrieveExact ==
  \A w \in active :
    LET r == ranges[FindRange(ranges, w)]
    IN  r.offset <= w /\ w - r.offset < Len(r.mem) /\ CellOf(r, w) = w

(* Each wire is constructed in one cell only, the one a lookup finds, so    *)
(* that the destructor and deleteRange destroy it once and leak none; and   *)
(* no wire was constructed out of memory that held none.                    *)
ConstructedOnce ==
  \A i \in DOMAIN ranges :
    \A k \in DOMAIN ranges[i].mem :
      LET w == ranges[i].offset + k - 1
      IN  ranges[i].mem[k] # Raw =>
            /\ ranges[i].mem[k] = w
            /\ w \in active
            /\ i = FindRange(ranges, w)

(* The memory of a scope is exact: whatever ranges were made, grown, cut    *)
(* and erased, in whichever order, the binary search finds for each active  *)
(* wire the one cell that holds it, and no cell holds anything else         *)
(* (Scope.t.h:58-363).                                                      *)
LayoutExact ==
  TypeOK /\ SortedOffsets /\ FindRangeExact /\ RetrieveExact /\ ConstructedOnce

(* When findInputs gives an address, all of first..last lies there in       *)
(* order: the callee reads consecutive cells (Scope.t.h:587-627).           *)
FindInputsExact ==
  \A f, l \in Arg :
    f <= l /\ FindInputsError(ranges, assigned, active, f, l) = "success" =>
      /\ InputsInBounds(ranges, f, l)
      /\ \A w \in f..l : CellOf(ranges[FindRange(ranges, f)], w) = w

(* The addresses given for the outputs of a call stay good while its other  *)
(* outputs and inputs are looked up: a fixed range holds the interval, and  *)
(* all its cells are still unconstructed (Scope.t.h:550-585).               *)
OutputsFree ==
  \A p \in pending :
    \E i \in DOMAIN ranges :
      /\ ranges[i].kind \in {"new", "mapped"}
      /\ \A w \in p.first .. p.last :
            /\ Covers(ranges[i], w)
            /\ CellOf(ranges[i], w) = Raw
            /\ FindRange(ranges, w) = i

(* Scope is an assign-once store of wires: no sequence of calls changes a   *)
(* wire it does not name, revives a deleted wire, or assigns one twice.     *)
Store == INSTANCE WireStore WITH
  Wire <- Arg,
  store <- [w \in active |-> Retrieve(ranges, w)]

IsWireStore == Store!Spec
=============================================================================
