--------------------------- MODULE FunctionCheck ----------------------------
(***************************************************************************)
(* GatesFunction (nails/Functions.t.h): a function is type-checked once,   *)
(* when it is created, over tables of its own, and evaluated by each call  *)
(* against the interpreter's scopes. This module runs the two side by      *)
(* side, for one type: every action is a directive of the body, checked by *)
(* typeCheck and then, if it passed, evaluated in the Scope of a call.     *)
(*                                                                         *)
(* A directive that typeCheck refuses is not evaluated, nor is the         *)
(* function. Intervals whose first wire is after the last are left out:    *)
(* both sides refuse them first.                                           *)
(***************************************************************************)
EXTENDS Scope

CONSTANT
  Lenient         \* what typeCheck lets through that the programs here have:
                  \* "mapped" (deletions of parameters), "several" (deletions
                  \* of more than one range), "type" (the type of an interval
                  \* of stream inputs), "self" (conversions within a type)

ASSUME LenientAssumption == Lenient \subseteq {"mapped", "several", "type", "self"}

VARIABLES
  assigns,        \* typeCheck's wires assigned so far
  actives,        \* those not deleted
  allocations,    \* its declared, mapped and output intervals, in order
  accepted        \* it refused nothing so far

checkVars == <<assigns, actives, allocations, accepted>>
allVars == <<vars, checkVars>>

Interval == {p \in [first : Arg, last : Arg] : p.first <= p.last}

WiresOf(p) == p.first .. p.last

MaxIntervals == 2       \* the most parameters of one call

OutputLists == BoundedSeq(Interval, MaxOutputs)
InputLists == BoundedSeq(Interval, 1)

-----------------------------------------------------------------------------
(***************************************************************************)
(* typeCheck's own rules, over a table of allocations as.                  *)
(***************************************************************************)

(* Where an interval that meets no allocation belongs among them.           *)
Slots(as, p) ==
  {k \in 1..(Len(as) + 1) : /\ k > 1 => as[k - 1].last < p.first
                            /\ k <= Len(as) => as[k].first > p.last}

InsertSlot(as, p) == InsertAt(as, CHOOSE k \in Slots(as, p) : TRUE, p)

WithinAllocation(as, p) ==
  \E k \in DOMAIN as : as[k].first <= p.first /\ p.last <= as[k].last

ChecksInput(p) ==
  /\ WiresOf(p) \subseteq actives
  /\ p.first = p.last \/ WithinAllocation(allocations, p)

ChecksOutput(as, taken, p) ==
  /\ WiresOf(p) \cap taken = {}
  /\ WithinAllocation(as, p) \/ Slots(as, p) # {}

AfterOutput(as, p) == IF WithinAllocation(as, p) THEN as ELSE InsertSlot(as, p)

ChecksNew(p) == WiresOf(p) \cap assigns = {} /\ Slots(allocations, p) # {}

Holds(p, a) == p.first <= a.first /\ a.last <= p.last

DividesAllocations(p) == WiresOf(p) \subseteq actives   \* mutant: ranges may be divided

ChecksDelete(p) ==
  /\ WiresOf(p) \subseteq actives
  /\ \A a \in ToSet(allocations) :
       Holds(p, a) \/ WiresOf(p) \cap WiresOf(a) = {}

KeepsDeleted(as, p) == as                   \* mutant: the allocation stays

AfterDeletion(as, p) ==
  LET kept == Ascending({k \in DOMAIN as : ~Holds(p, as[k])})
  IN  [k \in DOMAIN kept |-> as[kept[k]]]

(* The table after each of the outputs was checked.                         *)
Tables(outs) ==
  LET table[k \in 0..Len(outs)] ==
        IF k = 0 THEN allocations ELSE AfterOutput(table[k - 1], outs[k])
  IN  table

WiresUpTo(outs, k) == UNION {WiresOf(outs[j]) : j \in 1..k}

OutputWires(outs) == WiresUpTo(outs, Len(outs))

ChecksOutputs(outs) ==
  \A k \in DOMAIN outs :
    ChecksOutput(Tables(outs)[k - 1], assigns \cup WiresUpTo(outs, k - 1), outs[k])

MarkActives(W) ==                           \* mutant: assigns forgotten
  actives' = actives \cup W /\ UNCHANGED assigns

MarkChecked(W) == assigns' = assigns \cup W /\ actives' = actives \cup W

Reject == accepted' = FALSE /\ UNCHANGED <<vars, assigns, actives, allocations>>

InBody == Ready /\ accepted

-----------------------------------------------------------------------------
(***************************************************************************)
(* The parameters, mapped in the same order by typeCheck and by invoke.    *)
(***************************************************************************)
Parameter(n) == [first |-> firstLocal, last |-> firstLocal + n - 1]

OutputParameter(n) ==
  /\ MapOutputs(n)
  /\ allocations' = Append(allocations, Parameter(n))
  /\ UNCHANGED <<assigns, actives, accepted>>

InputParameter(n) ==
  /\ MapInputs(n)
  /\ allocations' = Append(allocations, Parameter(n))
  /\ MarkChecked(WiresOf(Parameter(n)))
  /\ UNCHANGED accepted

StartBody == BeginBody /\ UNCHANGED checkVars

(***************************************************************************)
(* Gates with one output. The evaluation assigns before it retrieves; what *)
(* a failed retrieve leaves behind is not looked at any more.              *)
(***************************************************************************)
EvaluateGate(out, ins) ==
  IF ins \subseteq active THEN Assign(out) ELSE Refuse("notAssigned")

Gate(out, ins) ==
  /\ InBody
  /\ LET ok == ins \subseteq actives /\ out \notin actives /\ out \notin assigns
     IN  \/ ~ok /\ Reject
         \/ /\ ok
            /\ MarkChecked({out})
            /\ UNCHANGED <<allocations, accepted>>
            /\ EvaluateGate(out, ins)

New(p) ==
  /\ InBody
  /\ \/ ~ChecksNew(p) /\ Reject
     \/ /\ ChecksNew(p)
        /\ allocations' = InsertSlot(allocations, p)
        /\ UNCHANGED <<assigns, actives, accepted>>
        /\ NewRange(p.first, p.last)

(***************************************************************************)
(* typeCheck takes a deletion of any number of allocations, the mapped     *)
(* ones too.                                                               *)
(***************************************************************************)
Delete(p) ==
  /\ InBody
  /\ "mapped" \notin Lenient => p.first >= firstLocal
  /\ "several" \notin Lenient => \A a \in ToSet(allocations) : Holds(p, a) => a = p
  /\ \/ ~ChecksDelete(p) /\ Reject
     \/ /\ ChecksDelete(p)
        /\ actives' = actives \ WiresOf(p)
        /\ allocations' = AfterDeletion(allocations, p)
        /\ UNCHANGED <<assigns, accepted>>
        /\ DeleteRange(p.first, p.last)

-----------------------------------------------------------------------------
(***************************************************************************)
(* Directives with intervals: findOutputs for each output, in order, then  *)
(* findInputs, then the outputs are written and marked.                    *)
(***************************************************************************)
FindsOutput(rs, p) ==
  /\ assigned \cap WiresOf(p) = {}
  /\ \/ CoversOutputs(rs, p.first, p.last)
     \/ ~NewRangeClashes(rs, assigned, firstLocal, p.first, p.last)

AfterFind(rs, p) ==
  IF CoversOutputs(rs, p.first, p.last) THEN rs
  ELSE AddNewRange(rs, active, p.first, p.last)

(* The ranges after each of the outputs was found.                          *)
Found(outs) ==
  LET found[k \in 0..Len(outs)] ==
        IF k = 0 THEN ranges ELSE AfterFind(found[k - 1], outs[k])
  IN  found

FindsInput(rs, p) ==
  FindInputsError(rs, assigned, active, p.first, p.last) = "success"

(* No output cuts a range that runs into others, as in Scope's programs     *)
(* (AvoidForeign).                                                          *)
CutsOwn(outs) ==
  \A k \in DOMAIN outs :
    LET rs == Found(outs)[k - 1]
        p == outs[k]
    IN  CoversOutputs(rs, p.first, p.last) \/ ~CutsForeign(rs, p.first, p.last)

EvaluateIntervals(outs, ins, cells) ==
  IF \E k \in DOMAIN outs : ~FindsOutput(Found(outs)[k - 1], outs[k])
  THEN Refuse("alreadyExists")
  ELSE LET rs == Found(outs)[Len(outs)]
       IN  IF \E p \in ToSet(ins) : ~FindsInput(rs, p) THEN Refuse("discontiguous")
           ELSE /\ ranges' = WriteOutputs(rs, cells)
                /\ Mark(OutputWires(outs))
                /\ UNCHANGED <<firstLocal, phase, pending, err>>

OwnCells(outs) == [w \in OutputWires(outs) |-> w]

(***************************************************************************)
(* A call of another function, and with one output a copy of intervals.    *)
(***************************************************************************)
Call(outs, ins) ==
  /\ InBody
  /\ CutsOwn(outs)
  /\ LET ok == (\A k \in DOMAIN ins : ChecksInput(ins[k])) /\ ChecksOutputs(outs)
     IN  \/ ~ok /\ Reject
         \/ /\ ok
            /\ MarkChecked(OutputWires(outs))
            /\ allocations' = Tables(outs)[Len(outs)]
            /\ UNCHANGED accepted
            /\ EvaluateIntervals(outs, ins, OwnCells(outs))

(***************************************************************************)
(* An interval of stream inputs. typeCheck reads the type out of another   *)
(* member of the union than the one that was written: if it is not that of *)
(* the directive, the check looks at and marks the wires of another type.  *)
(***************************************************************************)
MultiInput(out, type) ==
  /\ InBody
  /\ CutsOwn(<<out>>)
  /\ type = "elsewhere" => "type" \in Lenient
  /\ LET own == type = "its own"
         ok == own => ChecksOutput(allocations, assigns, out)
     IN  \/ ~ok /\ Reject
         \/ /\ ok
            /\ MarkChecked(IF own THEN WiresOf(out) ELSE {})
            /\ allocations' = IF own THEN AfterOutput(allocations, out) ELSE allocations
            /\ UNCHANGED accepted
            /\ EvaluateIntervals(<<out>>, <<>>, OwnCells(<<out>>))

(***************************************************************************)
(* A conversion whose two types are the same (nails/Converter.t.h): the    *)
(* address of the inputs is taken before the output is looked up, which    *)
(* may move them. What was moved from is no wire any more.                 *)
(***************************************************************************)
EvaluateConversion(out, in, cells) ==
  IF ~FindsInput(ranges, in) THEN Refuse("discontiguous")
  ELSE IF ~FindsOutput(ranges, out) THEN Refuse("alreadyExists")
  ELSE /\ ranges' = WriteOutputs(AfterFind(ranges, out), cells)
       /\ Mark(WiresOf(out))
       /\ UNCHANGED <<firstLocal, phase, pending, err>>

Convert(out, in) ==
  /\ "self" \in Lenient /\ InBody
  /\ CutsOwn(<<out>>)
  /\ LET ok == ChecksInput(in) /\ ChecksOutput(allocations, assigns, out)
         i == FindRange(ranges, in.first)
         moved == /\ ~CoversOutputs(ranges, out.first, out.last)
                  /\ i = FindRange(ranges, out.first) /\ ranges[i].offset <= out.first
                  /\ in.first > out.last
         converted == [w \in WiresOf(out) |-> IF moved THEN Garbage ELSE w]
     IN  \/ ~ok /\ Reject
         \/ /\ ok
            /\ MarkChecked(WiresOf(out))
            /\ allocations' = AfterOutput(allocations, out)
            /\ UNCHANGED accepted
            /\ EvaluateConversion(out, in, converted)

-----------------------------------------------------------------------------
CheckInit ==
  /\ Init
  /\ assigns = {}
  /\ actives = {}
  /\ allocations = <<>>
  /\ accepted = TRUE

CheckNext ==
  \/ \E n \in 1..MaxMapped : OutputParameter(n) \/ InputParameter(n)
  \/ StartBody
  \/ \E out \in Arg, in \in Arg : Gate(out, {in})
  \/ \E out \in Arg : Gate(out, {})
  \/ \E p \in Interval : New(p) \/ Delete(p)
  \/ \E outs \in OutputLists, ins \in InputLists :
       Len(outs) + Len(ins) <= MaxIntervals /\ Call(outs, ins)
  \/ \E out \in Interval :
       \E type \in {"its own", "elsewhere"} : MultiInput(out, type)
  \/ \E out, in \in Interval : Convert(out, in)

CheckSpec == CheckInit /\ [][CheckNext]_allVars

-----------------------------------------------------------------------------
(* The intervals of the wires that the declared and mapped ranges hold.     *)
FixedSpans(rs) ==
  {[first |-> rs[i].offset, last |-> End(rs[i])] :
     i \in {j \in DOMAIN rs : rs[j].kind # "grown"}}

(* The shapes of typeCheck's tables.                                        *)
CheckTypeOK ==
  /\ assigns \subseteq Arg
  /\ actives \subseteq assigns
  /\ allocations \in Seq(Interval)
  /\ accepted \in BOOLEAN

(* Functions.h:116: "Type-check the function once when it is created": no   *)
(* directive of a body that typeCheck accepted is refused by the scope when *)
(* the body is evaluated (Functions.t.h:322-940).                           *)
AcceptedEvaluates == accepted => err = "success"

(* typeCheck knows the wires that are assigned, and those that are active,  *)
(* at each directive of the evaluation (Functions.t.h:328-329).             *)
CheckAgrees ==
  accepted /\ err = "success" => assigns = assigned /\ actives = active

(* typeCheck's allocations are, in order, the fixed ranges of the scope: it *)
(* knows which intervals findInputs and findOutputs will give in one piece, *)
(* and which deletions would divide one (Functions.t.h:330-331).            *)
AllocationsAreRanges ==
  /\ CheckTypeOK
  /\ accepted /\ err = "success" =>
       /\ ToSet(allocations) = FixedSpans(ranges)
       /\ \A j, k \in DOMAIN allocations :
            j < k => allocations[j].last < allocations[k].first

(* docs/4_tools/firealarm.adoc: "each wire is assigned before it is used":  *)
(* no wire of the body is computed from memory that holds no wire.          *)
(* The code does not keep it: see "Stated, and false" in the README.        *)
ConvertsWires ==
  \A i \in DOMAIN ranges : Garbage \notin ToSet(ranges[i].mem)
=============================================================================
