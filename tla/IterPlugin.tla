----------------------------- MODULE IterPlugin -----------------------------
(***************************************************************************)
(* The iteration plugin (nails/IterPlugin.t.h). A plugin function is       *)
(* entered like any other: its scope has its outputs and inputs mapped.    *)
(* PluginFunction::evaluate marks the outputs as assigned, the map         *)
(* operation takes these marks back and calls a function Count times: each *)
(* iteration pushes a scope, maps a slice of every parameter into it,      *)
(* evaluates the function, marks its outputs here and pops. No result of   *)
(* these calls is looked at.                                               *)
(***************************************************************************)
EXTENDS Integers, SequencesExt

CONSTANTS
  Types,        \* the number of types of the circuit
  MaxOutputs,   \* the most outputs of the iterated function
  MaxInputs,    \* its most inputs, apart from the iteration's number
  MaxParameters, \* the most of all of them
  MaxLength,    \* the most wires of a parameter
  MaxCount,     \* the most iterations
  TopWire,      \* the greatest number of the type wire_idx
  Modulus,      \* of the field of every type
  Aligned       \* TRUE: only signatures for which the places agree

ASSUME IterAssumption ==
  /\ Types \in Nat \ {0} /\ MaxOutputs \in Nat /\ MaxInputs \in Nat /\ MaxParameters \in Nat
  /\ MaxLength \in Nat \ {0} /\ MaxCount \in Nat \ {0}
  /\ TopWire \in Nat /\ Modulus \in Nat \ {0, 1}
  /\ TopWire > MaxCount * MaxLength * (MaxOutputs + MaxInputs + 1)
  /\ Aligned \in BOOLEAN

VARIABLES
  map,          \* the function called, and how often; never changes
  signature,    \* of the plugin function
  phase,        \* the part of evaluate that is next
  j,            \* the iteration
  enumPlace,    \* enum_place
  assigned,     \* of the plugin function's scope, for each type
  active,
  value,        \* the value of each wire of this scope that holds one
  mapped,       \* of the iteration's scope: for each type, the wires mapped
  written,      \* the outputs that the iteration's function assigned
  seen          \* the values of its inputs, for each iteration so far

vars == <<map, signature, phase, j, enumPlace, assigned, active, value, mapped,
          written, seen>>

Type == 0..(Types - 1)
Parameter == [type : Type, length : 1..MaxLength]

(* The plugin function's signature, by that of the iterated function: the   *)
(* iteration's number left out, the closures as they are and the others     *)
(* count times as long. typeCheck refuses any other signature.              *)
Enlarged(p, count) == [p EXCEPT !.length = count * @]

Signature(m) ==
  LET sized == [i \in DOMAIN m.inputs |->
                  IF i <= m.closures THEN m.inputs[i]
                  ELSE Enlarged(m.inputs[i], m.count)]
  IN  [outputs |-> [i \in DOMAIN m.outputs |-> Enlarged(m.outputs[i], m.count)],
       inputs |-> IF m.enumerated THEN RemoveAt(sized, m.closures + 1) ELSE sized]

TypeChecks(m) ==
  m.closures + (IF m.enumerated THEN 1 ELSE 0) <= Len(m.inputs)

(* What the code does with places is right for these signatures: outputs    *)
(* are checked at places[i], which stands for type i only if output i has   *)
(* that type, and slices after the iteration's number are cut by the length *)
(* of the parameter before.                                                 *)
PlacesAgree(m) ==
  /\ Len(m.outputs) <= Types
  /\ \A i \in 1..(Len(m.outputs) - 1) : m.outputs[i].type = i - 1
  /\ m.enumerated =>
       \A i \in (m.closures + 2) .. Len(m.inputs) :
         m.inputs[i].length = m.inputs[i - 1].length

Maps ==
  {m \in [outputs : BoundedSeq(Parameter, MaxOutputs),
          inputs : BoundedSeq(Parameter, MaxInputs + 1),
          closures : 0..MaxInputs, count : 1..MaxCount, enumerated : BOOLEAN] :
     /\ TypeChecks(m)
     /\ Len(Signature(m).inputs) <= MaxInputs
     /\ Len(m.outputs) + Len(m.inputs) <= MaxParameters
     /\ (Aligned => PlacesAgree(m))}

(* The wires of type t of the first parameters, and with them the first     *)
(* wire of parameter k: parameters are numbered for each type.              *)
Lengths(params, t) ==
  LET sum[n \in 0..Len(params)] ==
        IF n = 0 THEN 0
        ELSE sum[n - 1] + (IF params[n].type = t THEN params[n].length ELSE 0)
  IN  sum

Place(params, k) == Lengths(params, params[k].type)[k - 1]

WiresOf(params, k) == Place(params, k) .. (Place(params, k) + params[k].length - 1)

OfType(params, ks, t) == UNION {WiresOf(params, k) : k \in {i \in ks : params[i].type = t}}

PluginParams == signature.outputs \o signature.inputs
FunctionParams == map.outputs \o map.inputs
OutputKs == 1..Len(map.outputs)
InputKs == (Len(map.outputs) + 1) .. Len(PluginParams)

(* An interval of this scope is contiguous within one parameter, or local.  *)
InOneRange(t, W) ==
  \/ \E k \in DOMAIN PluginParams :
       PluginParams[k].type = t /\ W \subseteq WiresOf(PluginParams, k)
  \/ \A w \in W : w > enumPlace

EnumType == map.inputs[map.closures + 1].type
EnumLength == map.inputs[map.closures + 1].length
EnumWires == (enumPlace + 1) .. (enumPlace + EnumLength)

Init ==
  /\ map \in Maps
  /\ signature = Signature(map)
  /\ phase = "enter"
  /\ j = 0
  /\ enumPlace = TopWire
  /\ assigned = [t \in Type |-> OfType(PluginParams, InputKs, t)]
  /\ active = assigned
  /\ value = [w \in UNION {{t} \X active[t] : t \in Type} |->
       LET k == CHOOSE k \in InputKs :
                  PluginParams[k].type = w[1] /\ w[2] \in WiresOf(PluginParams, k)
       IN  [input |-> k - Len(map.outputs), element |-> w[2] - Place(PluginParams, k)]]
  /\ mapped = [t \in Type |-> <<>>]
  /\ written = {}
  /\ seen = <<>>

(***************************************************************************)
(* PluginFunction::evaluate: each output is found, marked and constructed. *)
(***************************************************************************)
Enter ==
  LET outputs(t) == OfType(PluginParams, OutputKs, t)
  IN  /\ phase = "enter"
      /\ assigned' = [t \in Type |-> assigned[t] \cup outputs(t)]
      /\ active' = [t \in Type |-> active[t] \cup outputs(t)]
      /\ phase' = "unassign"
      /\ UNCHANGED <<map, signature, j, enumPlace, value, mapped, written, seen>>

(* iterPluginHack, for each output, at the places of the outputs alone.     *)
UnmarkedFirst(W, t) ==              \* mutant: only the first wire of a type
  IF 0 \in W THEN W \ {0} ELSE W

Unmarked(W, t) == W \ OfType(signature.outputs, OutputKs, t)

Deactivated(W, t) == Unmarked(W, t)

Unassign ==
  /\ phase = "unassign"
  /\ assigned' = [t \in Type |-> Unmarked(assigned[t], t)]
  /\ active' = [t \in Type |-> Deactivated(active[t], t)]
  /\ phase' = "enumerate"
  /\ UNCHANGED <<map, signature, j, enumPlace, value, mapped, written, seen>>

(***************************************************************************)
(* The loop starts: the number of the iteration is assigned to wires taken *)
(* from the top of the index type downwards, reduced by the modulus or, if *)
(* there are several, bit by bit from the last.                            *)
(***************************************************************************)
BitAtFirst(first, last, w) == w - first     \* mutant: least significant first

BitAt(first, last, w) == last - w

Over(new, old) ==                   \* values put over those that are there
  [w \in DOMAIN new \cup DOMAIN old |-> IF w \in DOMAIN new THEN new[w] ELSE old[w]]

Enumerate ==
  LET last == enumPlace
      first == enumPlace + 1 - EnumLength
  IN  /\ phase = "enumerate"
      /\ phase' = "remap"
      /\ UNCHANGED <<map, signature, j, mapped, written, seen>>
      /\ IF ~map.enumerated THEN UNCHANGED <<enumPlace, assigned, active, value>>
         ELSE /\ enumPlace' = enumPlace - EnumLength
              /\ assigned' = [assigned EXCEPT ![EnumType] = @ \cup (first..last)]
              /\ active' = [active EXCEPT ![EnumType] = @ \cup (first..last)]
              /\ value' = Over(
                   [w \in {EnumType} \X (first..last) |->
                      [digit |-> IF EnumLength = 1 THEN j % Modulus
                                 ELSE (j \div 2^BitAt(first, last, w[2])) % 2]], value)

(***************************************************************************)
(* A scope is pushed and a slice of each parameter mapped into it, one     *)
(* after the other; a slice that is refused is left out. The slice of an   *)
(* input after the iteration's number is cut by the length of the function *)
(* input that has the plugin's number of it, and the place is advanced by  *)
(* the length of the plugin input that has the function's number.          *)
(***************************************************************************)
EnumInput(i) == map.enumerated /\ i = map.closures + 1

SliceLengthLast(i) ==               \* mutant: the length of the last input
  Last(map.inputs).length

SliceLength(i) ==
  LET plugin == IF map.enumerated THEN i - 1 ELSE i
  IN  map.inputs[plugin].length

OutputFirst(i) == Place(signature.outputs, i) + j * map.outputs[i].length

(* By how much each parameter advances the place of its type: an input by   *)
(* the plugin input of its number, the iteration's number not at all.       *)
Advances ==
  signature.outputs \o
    [n \in 1..(Len(map.inputs) - 1) |->
       [type |-> map.inputs[n].type,
        length |-> IF EnumInput(n) THEN 0 ELSE signature.inputs[n].length]]

InputStart(i) == Lengths(Advances, map.inputs[i].type)[Len(map.outputs) + i - 1]

InputFirst(i) ==
  LET start == InputStart(i)
  IN  CASE i <= map.closures -> start
        [] EnumInput(i) -> enumPlace + 1
        [] OTHER -> start + j * SliceLength(i)

InputLength(i) ==
  IF i <= map.closures \/ EnumInput(i) THEN map.inputs[i].length ELSE SliceLength(i)

SliceOf(k) ==                       \* in order; empty if it is refused
  LET p == FunctionParams[k]
      i == k - Len(map.outputs)
      first == IF k \in OutputKs THEN OutputFirst(k) ELSE InputFirst(i)
      length == IF k \in OutputKs THEN p.length ELSE InputLength(i)
      wires == first .. (first + length - 1)
      found == IF k \in OutputKs THEN wires \cap assigned[p.type] = {}
               ELSE wires \subseteq active[p.type]
  IN  IF found /\ InOneRange(p.type, wires) THEN [n \in 1..length |-> first + n - 1] ELSE <<>>

Remap ==
  /\ phase = "remap"
  /\ mapped' = [t \in Type |->
       FlattenSeq([k \in DOMAIN FunctionParams |->
                     IF FunctionParams[k].type = t THEN SliceOf(k) ELSE <<>>])]
  /\ phase' = "evaluate"
  /\ UNCHANGED <<map, signature, j, enumPlace, assigned, active, value, written, seen>>

(***************************************************************************)
(* The function is evaluated. Its wires are those mapped, in their order.  *)
(* When it fails it has assigned some of its outputs, possibly all; here   *)
(* each is assigned as a whole or not at all.                              *)
(***************************************************************************)
NoWire == -1

Seen(k, n) ==                       \* the wire behind element n of parameter k,
  LET wires == mapped[FunctionParams[k].type]     \* if a slice was mapped there
      place == Place(FunctionParams, k) + n + 1
  IN  IF place \in DOMAIN wires THEN wires[place] ELSE NoWire

Read(t, w) == IF <<t, w>> \in DOMAIN value THEN value[<<t, w>>] ELSE [unassigned |-> w]

Given(o) ==                         \* what it assigns to its output o
  LET elements == 0..(map.outputs[o].length - 1)
      wire(n) == <<map.outputs[o].type, Seen(o, n)>>
  IN  [w \in {wire(n) : n \in elements} \ {<<map.outputs[o].type, NoWire>>} |->
         [output |-> o, element |-> CHOOSE n \in elements : wire(n) = w, iteration |-> j]]

Results(kept) ==                    \* and to all of some outputs
  [w \in UNION {DOMAIN Given(o) : o \in kept} |->
     LET o == CHOOSE o \in kept : w \in DOMAIN Given(o) IN Given(o)[w]]

Evaluate ==
  /\ phase = "evaluate"
  /\ seen' = Append(SubSeq(seen, 1, j),
       [i \in DOMAIN map.inputs |->
          [n \in 0..(map.inputs[i].length - 1) |->
             Read(map.inputs[i].type, Seen(Len(map.outputs) + i, n))]])
  /\ \E kept \in SUBSET OutputKs :
       /\ written' = kept
       /\ value' = Over(Results(kept), value)
  /\ phase' = "check"
  /\ UNCHANGED <<map, signature, j, enumPlace, assigned, active, mapped>>

(***************************************************************************)
(* The outputs are checked: those that the function assigned are marked    *)
(* here. places[i] is advanced and not places[type], which is past the     *)
(* end of the vector for an output whose number is that of no type: only   *)
(* the output with the number of the type counts. The scope is popped and  *)
(* the iteration's number deleted.                                         *)
(***************************************************************************)
Retried(lost) == IF lost THEN j ELSE j + 1  \* mutant: a failed iteration again

Following(lost) == j + 1

CheckPlace(i) ==
  LET t == map.outputs[i].type
  IN  IF t + 1 < i THEN signature.outputs[t + 1].length ELSE 0

Slice(i) ==
  LET p == map.outputs[i]
  IN  (CheckPlace(i) + j * p.length) .. (CheckPlace(i) + (j + 1) * p.length - 1)

Check ==
  LET marks(t) == UNION {Slice(i) : i \in {k \in written : map.outputs[k].type = t}}
      deleted(t) == IF map.enumerated /\ t = EnumType THEN EnumWires ELSE {}
  IN  /\ phase = "check"
      /\ assigned' = [t \in Type |-> assigned[t] \cup marks(t)]
      /\ active' = [t \in Type |-> (active[t] \cup marks(t)) \ deleted(t)]
      /\ value' = [w \in {x \in DOMAIN value : x[2] \notin deleted(x[1])} |-> value[w]]
      /\ mapped' = [t \in Type |-> <<>>]
      /\ written' = {}
      /\ j' = Following(written # OutputKs)
      /\ phase' = IF j' = map.count THEN "done" ELSE "enumerate"
      /\ UNCHANGED <<map, signature, enumPlace, seen>>

Done == phase = "done" /\ UNCHANGED vars

Next == Enter \/ Unassign \/ Enumerate \/ Remap \/ Evaluate \/ Check \/ Done

(* A single thread runs to the end of evaluate.                             *)
Spec == Init /\ [][Next]_vars /\ WF_vars(Next)

-----------------------------------------------------------------------------
(* The shapes of the state; the iteration's scope maps wires of this scope. *)
TypeOK ==
  /\ phase \in {"enter", "unassign", "enumerate", "remap", "evaluate", "check", "done"}
  /\ j \in 0..map.count
  /\ enumPlace \in 0..TopWire
  /\ assigned \in [Type -> SUBSET (0..TopWire)]
  /\ \A t \in Type : active[t] \subseteq assigned[t] /\ mapped[t] \in Seq(0..TopWire)
  /\ written \subseteq OutputKs

(* The outputs are forgotten again before they are mapped, the numbers of   *)
(* earlier iterations deleted, and the places of all parameters within the  *)
(* parameters of the plugin: no iteration's mapping is refused, although    *)
(* earlier iterations failed.                                               *)
SlicesFound ==
  /\ TypeOK
  /\ phase \in {"evaluate", "check"} =>
       \A k \in DOMAIN FunctionParams :
         \A n \in 0..(FunctionParams[k].length - 1) : Seen(k, n) # NoWire

(* 1_iter_v0.adoc: "A incrementing chunk of each input and output parameter *)
(* will be passed to the function on each invocation": whatever the         *)
(* iterations before did, each one reads and assigns its own chunks, and an *)
(* output is marked only where the function assigned it.                    *)
OutputWire(e) ==
  [type |-> map.outputs[e[1]].type, wire |-> Place(signature.outputs, e[1]) + e[2]]

Elements == UNION {{o} \X (0..(signature.outputs[o].length - 1)) : o \in OutputKs}

Chunks == INSTANCE MapCalls WITH
  call <- [outputs |-> [i \in DOMAIN map.outputs |-> map.outputs[i].length],
           inputs |-> [i \in DOMAIN map.inputs |-> map.inputs[i].length],
           closures |-> map.closures, count |-> map.count,
           enumerated |-> map.enumerated],
  seen <- SubSeq(seen, 1, j),
  result <- IF phase \in {"enter", "unassign"} THEN <<>>
            ELSE [e \in {x \in Elements :
                           OutputWire(x).wire \in active[OutputWire(x).type]} |->
                    Read(OutputWire(e).type, OutputWire(e).wire)]

IsMapCalls == Chunks!Spec

(* Every call of the plugin comes to its end, also if iterations fail.      *)
Terminates == <>(phase = "done")
=============================================================================
