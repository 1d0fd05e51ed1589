------------------------------ MODULE CallStack ------------------------------
(***************************************************************************)
(* The interpreter's stack of scopes (nails/Interpreter.t.h, invoke, and   *)
(* nails/TypeInterpreter.t.h): a call pushes a scope for every type, maps  *)
(* its outputs and inputs to memory of the calling scope, evaluates the    *)
(* function, marks the outputs as assigned in the calling scope and pops.  *)
(* A directive that is refused ends the run: evaluate and invoke return    *)
(* false through every call under way, and each of them still checks its   *)
(* outputs and pops.                                                       *)
(*                                                                         *)
(* The layout of a scope's memory is the subject of Scope.tla, which shows *)
(* that a wire has one cell: here it is a location. Whatever a scope       *)
(* refuses because of its layout, such as a discontiguous interval, is     *)
(* refused here by choice (Refuse).                                        *)
(***************************************************************************)
EXTENDS Integers, FiniteSets, SequencesExt

CONSTANTS
  Type,         \* the types of the circuit
  Value,        \* the values that backends compute
  Fresh,        \* the value of a wire that is only constructed
  MaxWire,      \* the greatest wire index of the program
  TopWire,      \* the greatest number of the type wire_idx
  MaxDepth,     \* the most scopes on the stack
  MaxOutputs,   \* the most output parameters of a call
  MaxInputs,    \* the most input parameters of a call
  MaxLength,    \* the most wires of one parameter
  Directives,   \* the directives the program has, apart from plain gates
  Checked       \* TRUE: every directive passed GatesFunction::typeCheck,
                \* as those in functions do and those at the top do not

ASSUME CallAssumption ==
  /\ MaxWire \in Nat /\ TopWire \in Nat /\ MaxWire < TopWire
  /\ MaxDepth \in Nat \ {0} /\ MaxLength \in Nat \ {0}
  /\ MaxOutputs \in Nat /\ MaxInputs \in Nat
  /\ (MaxOutputs + MaxInputs) * MaxLength <= TopWire + 1
  /\ Fresh \notin Value
  /\ Directives \subseteq {"copyMulti", "convert", "delete", "publicInMulti",
                           "privateInMulti", "call", "fail"}
  /\ Checked \in BOOLEAN

VARIABLES
  stack,        \* the scopes: for each depth, one for each type
  memory,       \* the value at each location that holds one
  constructed,  \* the locations where a Wire_T was constructed
  calls,        \* the output parameters of each invoke under way
  failed        \* a directive returned false

vars == <<stack, memory, constructed, calls, failed>>

Arg == 0..MaxWire
Wire == 0..TopWire

Interval ==
  {p \in [type : Type, first : Arg, last : Arg] :
     p.first <= p.last /\ p.last - p.first < MaxLength}

OutputLists == BoundedSeq(Interval, MaxOutputs)
InputLists == BoundedSeq(Interval, MaxInputs)

LengthOf(p) == 1 + p.last - p.first

LengthsOfAll(params, t) ==          \* mutant: one place for all types
  LET sum[n \in 0..Len(params)] ==
        IF n = 0 THEN 0 ELSE sum[n - 1] + LengthOf(params[n])
  IN  sum

(* The wires of type t among the first n parameters, for each n.            *)
Lengths(params, t) ==
  LET sum[n \in 0..Len(params)] ==
        IF n = 0 THEN 0
        ELSE sum[n - 1] + IF params[n].type = t THEN LengthOf(params[n]) ELSE 0
  IN  sum

(* The wire of the owning scope where a local wire's memory is.             *)
Location == [type : Type, depth : 1..MaxDepth, wire : Wire]

(* A mapped parameter: its wires first, first + 1, ... in this scope are    *)
(* the wires base, base + 1, ... of the scope that owns the memory.         *)
Mapping == [first : Wire, length : Nat, owner : 1..MaxDepth, base : Wire]

ScopeType ==
  [assigned : SUBSET Wire, active : SUBSET Wire,
   mapped : SUBSET Mapping, firstLocal : 0..(TopWire + 1)]

EmptyScope ==
  [assigned |-> {}, active |-> {}, mapped |-> {}, firstLocal |-> 0]

CoveredBy(m, f, l) == m.first <= f /\ l < m.first + m.length

MappingAt(scope, w) ==
  CHOOSE m \in scope.mapped : CoveredBy(m, w, w)

WithinFirst(m, w) == m.base         \* mutant: the offset in the range is lost

Within(m, w) == m.base + w - m.first

(* Where wire w is, seen from the scope of type t at depth d.               *)
LocationIn(scope, d, t, w) ==
  LET m == MappingAt(scope, w)
  IN  IF w < scope.firstLocal
      THEN [type |-> t, depth |-> m.owner, wire |-> Within(m, w)]
      ELSE [type |-> t, depth |-> d, wire |-> w]

LocationOf(d, t, w) == LocationIn(stack[d][t], d, t, w)

Locations(d, t, W) == {LocationOf(d, t, w) : w \in W}

(* SkipList::insert adds a whole interval, or nothing.                      *)
InsertInterval(S, f, l) ==
  IF f > l \/ S \cap (f..l) # {} THEN S ELSE S \cup (f..l)

MarkIn(scope, f, l) ==
  [scope EXCEPT !.assigned = InsertInterval(@, f, l),
                !.active = InsertInterval(@, f, l)]

Depth == Len(stack)
Top(t) == stack[Depth][t]

(* findOutputs and findInputs of the scope at depth d, as far as the layout *)
(* of its local wires allows.                                               *)
InOneRange(scope, p) ==
  \/ p.first >= scope.firstLocal
  \/ \E m \in scope.mapped : CoveredBy(m, p.first, p.last)

FindsFixedRange(d, p) ==            \* mutant: wires assigned before are not refused
  InOneRange(stack[d][p.type], p)

FindsOutputs(d, p) ==
  /\ stack[d][p.type].assigned \cap (p.first .. p.last) = {}
  /\ InOneRange(stack[d][p.type], p)

FindsInputs(d, p) ==
  /\ p.first .. p.last \subseteq stack[d][p.type].active
  /\ InOneRange(stack[d][p.type], p) \/ p.first = p.last

Running == ~failed

Refused == failed' = TRUE

Write(d, t, vals) ==        \* vals: a function of wires
  LET at(loc) == CHOOSE w \in DOMAIN vals : LocationOf(d, t, w) = loc
      written == Locations(d, t, DOMAIN vals)
  IN  memory' = [loc \in written \cup DOMAIN memory |->
                   IF loc \in written THEN vals[at(loc)] ELSE memory[loc]]

ConstructFirst(d, t, W) ==          \* mutant: an interval's first wire only
  constructed' = constructed \cup Locations(d, t, {w \in W : w - 1 \notin W})

Construct(d, t, W) == constructed' = constructed \cup Locations(d, t, W)

MarkTop(t, f, l) == stack' = [stack EXCEPT ![Depth][t] = MarkIn(@, f, l)]

-----------------------------------------------------------------------------
(***************************************************************************)
(* A directive refused with no effect on wires: an input that is not       *)
(* active, an output assigned before, a constant or a stream value out of  *)
(* range, an interval the layout refuses, an unknown function, and so on.  *)
(***************************************************************************)
Refuse ==
  /\ "fail" \in Directives /\ Running
  /\ Refused
  /\ UNCHANGED <<stack, memory, constructed, calls>>

(***************************************************************************)
(* One wire is assigned: add, mul, addc, mulc, copy, assign, public and    *)
(* private input. The output is assigned before the inputs are retrieved   *)
(* or the stream is read, so it stays assigned when one of these fails.    *)
(***************************************************************************)
Gate(t, out, ins) ==
  /\ Running
  /\ out \notin ins \cup Top(t).assigned
  /\ MarkTop(t, out, out)
  /\ Construct(Depth, t, {out})
  /\ UNCHANGED calls
  /\ \/ /\ ins \subseteq Top(t).active
        /\ \E v \in Value : Write(Depth, t, [w \in {out} |-> v])
        /\ UNCHANGED failed
     \/ /\ "fail" \in Directives
        /\ Write(Depth, t, [w \in {out} |-> Fresh])
        /\ Refused

(***************************************************************************)
(* copyMulti: the wires of the input intervals, one after the other, to    *)
(* one output interval. Each input interval is looked up, copied and its   *)
(* part of the output marked before the next one is looked up, so that an  *)
(* interval may lie in the part of the output already copied, and a later  *)
(* refusal leaves the earlier parts assigned.                              *)
(***************************************************************************)
Copied(out, ins, k) == Lengths(ins, out.type)[k]    \* the wires of the first k

Source(out, ins, n) ==              \* the input wire of the n-th output, from 0
  LET before(k) == Copied(out, ins, k - 1)
      k == CHOOSE k \in DOMAIN ins : n - before(k) \in 0..(LengthOf(ins[k]) - 1)
  IN  ins[k].first + n - before(k)

(* The values of the first outputs, of which one that is not active yet was *)
(* copied before.                                                           *)
CopiedValues(out, ins, done) ==
  LET read[n \in 0..(done - 1)] ==
        LET s == Source(out, ins, n)
        IN  IF s \in Top(out.type).active THEN memory[LocationOf(Depth, out.type, s)]
            ELSE read[s - out.first]
  IN  read

CopyMulti(out, ins, k) ==
  LET t == out.type
      done == Copied(out, ins, k)
      outputs(n) == out.first .. (out.first + n - 1)
      present(j) == Top(t).active \cup outputs(Copied(out, ins, j - 1))
      read == CopiedValues(out, ins, done)
  IN  /\ "copyMulti" \in Directives /\ Running
      /\ \A j \in DOMAIN ins : ins[j].type = t
      /\ Copied(out, ins, Len(ins)) = LengthOf(out)
      /\ FindsOutputs(Depth, out)
      /\ Checked => \A j \in DOMAIN ins : ins[j].first .. ins[j].last \subseteq Top(t).active
      /\ \A j \in 1..k : /\ ins[j].first .. ins[j].last \subseteq present(j)
                         /\ InOneRange(Top(t), ins[j]) \/ ins[j].first = ins[j].last
      /\ k < Len(ins) => "fail" \in Directives
      /\ Construct(Depth, t, outputs(done))
      /\ Write(Depth, t, [w \in outputs(done) |-> read[w - out.first]])
      /\ MarkTop(t, out.first, out.first + done - 1)
      /\ failed' = (k < Len(ins))
      /\ UNCHANGED calls

(***************************************************************************)
(* An interval of stream inputs, of which n values are good. A public one  *)
(* is written without constructing the wires, and all of them are marked.  *)
(* A private one constructs each wire, stops at the first bad value, and   *)
(* marks the interval that ends before it: at first - 1 if it is at once.  *)
(***************************************************************************)
PublicInMulti(out, n) ==
  /\ "publicInMulti" \in Directives /\ Running
  /\ FindsOutputs(Depth, out)
  /\ n < LengthOf(out) => "fail" \in Directives
  /\ \E vals \in [out.first .. (out.first + n - 1) -> Value] :
       Write(Depth, out.type, vals)
  /\ MarkTop(out.type, out.first, out.last)
  /\ failed' = (n < LengthOf(out))
  /\ UNCHANGED <<constructed, calls>>

PrivateInMulti(out, n) ==
  /\ "privateInMulti" \in Directives /\ Running
  /\ FindsOutputs(Depth, out)
  /\ n < LengthOf(out) => "fail" \in Directives
  /\ \E vals \in [out.first .. (out.first + n - 1) -> Value] :
       Write(Depth, out.type, vals)
  /\ Construct(Depth, out.type, out.first .. (out.first + n - 1))
  /\ MarkTop(out.type, out.first, (out.first + n - 1) % (TopWire + 1))
  /\ failed' = (n < LengthOf(out))
  /\ UNCHANGED calls

(***************************************************************************)
(* A conversion from one type to another (nails/Converter.t.h).            *)
(***************************************************************************)
Convert(out, in) ==
  /\ "convert" \in Directives /\ Running
  /\ FindsInputs(Depth, in)
  /\ FindsOutputs(Depth, out)
  /\ Construct(Depth, out.type, out.first .. out.last)
  /\ \E vals \in [out.first .. out.last -> Value] : Write(Depth, out.type, vals)
  /\ MarkTop(out.type, out.first, out.last)
  /\ UNCHANGED <<calls, failed>>

(***************************************************************************)
(* deleteRange, of which only local wires are deleted. A deletion refused  *)
(* because of an unmatched range has deleted the wires before it.          *)
(***************************************************************************)
MayDelete(scope, f) == f >= scope.firstLocal

Delete(p, last) ==
  LET t == p.type
      gone == Locations(Depth, t, p.first .. last)
  IN  /\ "delete" \in Directives /\ Running
      /\ MayDelete(Top(t), p.first)
      /\ p.first .. p.last \subseteq Top(t).active
      /\ last < p.last => "fail" \in Directives
      /\ stack' = [stack EXCEPT ![Depth][t].active = @ \ (p.first .. last)]
      /\ memory' = [loc \in (DOMAIN memory) \ gone |-> memory[loc]]
      /\ constructed' = constructed \ gone
      /\ failed' = (last < p.last)
      /\ UNCHANGED calls

-----------------------------------------------------------------------------
(***************************************************************************)
(* invoke, up to the evaluation. Parameters are numbered for each type, in *)
(* the callee, in the order of the signature: outputs, then inputs.        *)
(***************************************************************************)
Place(params, k) == Lengths(params, params[k].type)[k - 1]

CalleeWires(params, k) ==
  Place(params, k) .. (Place(params, k) + LengthOf(params[k]) - 1)

MappingOf(params, k) ==
  LET p == params[k]
      loc == LocationOf(Depth, p.type, p.first)
  IN  [first |-> Place(params, k), length |-> LengthOf(p),
       owner |-> loc.depth, base |-> loc.wire]

(* The scope of type t with the first n parameters mapped, of which those   *)
(* after the outputs are inputs.                                            *)
ScopeWith(outs, ins, t, n) ==
  LET params == outs \o ins
      mine == {k \in 1..n : params[k].type = t}
      inputs == UNION {CalleeWires(params, k) : k \in {j \in mine : j > Len(outs)}}
  IN  [assigned |-> inputs, active |-> inputs,
       mapped |-> {MappingOf(params, k) : k \in mine},
       firstLocal |-> Lengths(params, t)[n]]

Maps(outs, ins, k) ==
  IF k <= Len(outs) THEN FindsOutputs(Depth, outs[k])
  ELSE FindsInputs(Depth, ins[k - Len(outs)])

Disjoint(params) ==
  \A i, j \in DOMAIN params :
    i # j /\ params[i].type = params[j].type =>
      (params[i].first .. params[i].last) \cap (params[j].first .. params[j].last) = {}

Push(outs, ins, n) ==
  stack' = Append(stack, [t \in Type |-> ScopeWith(outs, ins, t, n)])

Invoke(outs, ins) ==
  /\ "call" \in Directives /\ Running
  /\ Depth < MaxDepth
  /\ Checked => Disjoint(outs)
  /\ \A k \in 1..(Len(outs) + Len(ins)) : Maps(outs, ins, k)
  /\ Push(outs, ins, Len(outs) + Len(ins))
  /\ calls' = Append(calls, outs)
  /\ UNCHANGED <<memory, constructed, failed>>

(***************************************************************************)
(* A parameter after the first n is refused (its length is not that of the *)
(* signature, or it cannot be mapped): invoke returns false and leaves the *)
(* scopes it pushed.                                                       *)
(***************************************************************************)
InvokeRefused(outs, ins, n) ==
  /\ {"call", "fail"} \subseteq Directives /\ Running
  /\ Depth < MaxDepth
  /\ n < Len(outs) + Len(ins)
  /\ \A k \in 1..n : Maps(outs, ins, k)
  /\ Push(outs, ins, n)
  /\ Refused
  /\ UNCHANGED <<memory, constructed, calls>>

(***************************************************************************)
(* The rest of invoke: checkOutput of each output, against the scope on    *)
(* top, into the scope below it, and pop. Where not all of an output is    *)
(* active in the callee, the parts that are should be marked, but their    *)
(* offset from the start of the output is subtracted, not added.           *)
(***************************************************************************)
MarkParts(scope, active, p, place) ==
  LET held == active \cap (place .. (place + LengthOf(p) - 1))
      firsts == {w \in held : w - 1 \notin held}
      lastOf(w) == CHOOSE x \in held : w <= x /\ w..x \subseteq held /\ x + 1 \notin held
      in(w) == (p.first + place - w) % (TopWire + 1)
      marked[n \in 0..LengthOf(p)] ==
        LET w == place + n - 1
        IN  IF n = 0 THEN scope
            ELSE IF w \in firsts THEN MarkIn(marked[n - 1], in(w), in(lastOf(w)))
            ELSE marked[n - 1]
  IN  marked[LengthOf(p)]

DeliveredFirst(p, callee, place) == place \in callee.active   \* mutant: has for hasAll

Delivered(p, callee, place) ==
  place .. (place + LengthOf(p) - 1) \subseteq callee.active

CheckOutput(scope, p, callee, place) ==
  IF Delivered(p, callee, place) THEN MarkIn(scope, p.first, p.last)
  ELSE MarkParts(scope, callee.active, p, place)

CheckOutputs(outs, t) ==
  LET marked[k \in 0..Len(outs)] ==
        IF k = 0 THEN stack[Depth - 1][t]
        ELSE IF outs[k].type = t
             THEN CheckOutput(marked[k - 1], outs[k], Top(t), Place(outs, k))
        ELSE marked[k - 1]
  IN  marked[Len(outs)]

(* The memory that a scope's destructor frees is its own.                   *)
Popped(loc) == loc.depth = Depth

Return ==
  LET outs == Last(calls)
      popped == {loc \in (DOMAIN memory) \cup constructed : Popped(loc)}
  IN  /\ calls # <<>>
      /\ stack' = Append(SubSeq(stack, 1, Depth - 2),
                         [t \in Type |-> CheckOutputs(outs, t)])
      /\ failed' = (failed \/ \E k \in DOMAIN outs :
                       ~Delivered(outs[k], Top(outs[k].type), Place(outs, k)))
      /\ memory' = [loc \in (DOMAIN memory) \ popped |-> memory[loc]]
      /\ constructed' = constructed \ popped
      /\ calls' = Front(calls)

-----------------------------------------------------------------------------
Init ==
  /\ stack = <<[t \in Type |-> EmptyScope]>>
  /\ memory = <<>>
  /\ constructed = {}
  /\ calls = <<>>
  /\ failed = FALSE

Next ==
  \/ Refuse
  \/ \E t \in Type, out \in Arg, ins \in SUBSET Arg :
       Cardinality(ins) <= 2 /\ Gate(t, out, ins)
  \/ \E out \in Interval, n \in 0..MaxLength :
       n <= LengthOf(out) /\ (PublicInMulti(out, n) \/ PrivateInMulti(out, n))
  \/ \E out \in Interval, ins \in InputLists :
       \E k \in 0..Len(ins) : CopyMulti(out, ins, k)
  \/ \E out, in \in Interval : Convert(out, in)
  \/ \E p \in Interval : \E last \in (p.first - 1) .. p.last : Delete(p, last)
  \/ \E outs \in OutputLists,
        ins \in InputLists :
       \/ Invoke(outs, ins)
       \/ \E n \in 0..(MaxOutputs + MaxInputs) : InvokeRefused(outs, ins, n)
  \/ Return

Spec == Init /\ [][Next]_vars

-----------------------------------------------------------------------------
(* The shapes of the state; a location's depth is that of a scope.          *)
TypeOK ==
  /\ stack \in Seq([Type -> ScopeType]) /\ Depth \in 1..MaxDepth
  /\ DOMAIN memory \subseteq Location
  /\ \A loc \in DOMAIN memory : memory[loc] \in Value \cup {Fresh}
  /\ constructed \subseteq Location
  /\ \A loc \in (DOMAIN memory) \cup constructed : loc.depth <= Depth
  /\ calls \in Seq(Seq(Interval))
  /\ failed \in BOOLEAN

(* docs/4_tools/firealarm.adoc, of a well-formed circuit: a wire "is        *)
(* assigned before it is used, and ... it is never reused": no write        *)
(* changes a location that holds a value, whichever scope it is seen from.  *)
WriteOnce ==
  [][\A loc \in (DOMAIN memory) \cap (DOMAIN memory') :
       memory'[loc] = memory[loc]]_vars

(* As long as nothing was refused, every active wire of every scope on the  *)
(* stack, mapped or local, refers to memory that holds a value: inputs stay *)
(* alive while any callee uses them, however deep, and outputs are there    *)
(* when their call returns (Interpreter.t.h:434-571).                       *)
ActiveHeld ==
  /\ TypeOK
  /\ ~failed =>
       \A d \in DOMAIN stack, t \in Type :
         \A w \in stack[d][t].active : LocationOf(d, t, w) \in DOMAIN memory

(* A constructor ran for each of these wires, so that the destructors of    *)
(* scopes and deleteRange destroy constructed wires only                    *)
(* (Scope.t.h:677-723); not so for intervals of public inputs.              *)
ActiveConstructed ==
  ~failed =>
    \A d \in DOMAIN stack, t \in Type :
      \A w \in stack[d][t].active : LocationOf(d, t, w) \in constructed

(* Scope.h:93: "Set of all wires which were assigned": also after a refusal *)
(* the wires that a scope counts as assigned are wires that were written,   *)
(* unless they were deleted since.                                          *)
(* The code does not keep it: see "Stated, and false" in the README.        *)
AssignedWritten ==
  \A d \in DOMAIN stack, t \in Type :
    \A w \in stack[d][t].active : LocationOf(d, t, w) \in DOMAIN memory

(* What a call by value sees of the scopes at depth d: the values of the    *)
(* active wires, wherever they are.                                         *)
Frame(d) ==
  [values |-> [w \in UNION {{t} \X stack[d][t].active : t \in Type} |->
                 memory[LocationOf(d, w[1], w[2])]],
   used |-> UNION {{t} \X stack[d][t].assigned : t \in Type},
   outputs |-> IF d = 1 THEN <<>> ELSE calls[d - 1]]

Frames == IF failed THEN <<>> ELSE [d \in DOMAIN stack |-> Frame(d)]

(* As long as nothing was refused, wires mapped by reference, at any depth, *)
(* behave as if every call copied its inputs in and its outputs out.        *)
Pure == INSTANCE PureCalls WITH env <- Frames

IsPureCalls == Pure!Spec
=============================================================================
