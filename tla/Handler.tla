------------------------------- MODULE Handler --------------------------------
(***************************************************************************)
(* nails/Handler.t.h between a parser and the interpreter: directives are  *)
(* performed at once at the top level and recorded inside a function,      *)
(* which joins the table of functions once it ended and its check passed.  *)
(* Calls push a scope, map wires, evaluate the recorded directives         *)
(* (GatesFunction::evaluate) or a plugin's operation, check the outputs    *)
(* and pop. Wires are left to CallStack and FunctionCheck: here checks of  *)
(* wires succeed or fail. Types count from 0, as in the code.              *)
(***************************************************************************)
EXTENDS Integers, Sequences, SequencesExt

CONSTANTS
  Types,        \* the number of the circuit's types
  Conversions,  \* pairs of an output's and an input's type
  Directives,   \* the directives a circuit may hold
  Signatures,   \* the signatures its functions may have
  MaxRead       \* how much the parser reads at most

ASSUME HandlerAssumption ==
  /\ Types \in Nat /\ MaxRead \in Nat /\ Conversions \subseteq (0..Types - 1) \X (0..Types - 1)
  /\ \A sig \in Signatures : {sig.outputs, sig.inputs} \subseteq Seq([type : Nat, length : Nat])

VARIABLES
  functions,   \* interpreter.functions: the records of the functions by name
  signature,   \* sigConstruction
  building,    \* whether there is a funcConstruction
  gates,       \* its directives
  stack,       \* the calls in evaluation: the function and its next directive
  failing,     \* evaluation returns false
  pushed,      \* the scopes that calls pushed
  performed,   \* the operations that were performed
  read,        \* how much was read
  status

construction == <<signature, building, gates>>
evaluation == <<stack, failing, pushed, performed>>
vars == <<functions, construction, evaluation, read, status>>

NoSignature == [name |-> "", outputs |-> <<>>, inputs |-> <<>>]

(* ----- directives --------------------------------------------------------- *)

(* All of these are treated alike.                                          *)
GateOps == {"addGate", "mulGate", "addcGate", "mulcGate", "copy", "copyMulti", "assign", "assertZero"}
InputOps == {"publicIn", "publicInMulti", "privateIn", "privateInMulti"}
MemoryOps == {"newRange", "deleteRange"}
OneTypeOps == GateOps \cup InputOps \cup MemoryOps

IsCall(d) == d.op = "invoke"

Defined(d) == ~ IsCall(d) => \A k \in DOMAIN d.types : d.types[k] < Types

Convertible(d) == d.op = "convert" => d.types \in Conversions

(* The numbers and the lengths of a call's ranges against the signature.    *)
Counts(d, sig) == Len(d.outputs) = Len(sig.outputs) /\ Len(d.inputs) = Len(sig.inputs)
Lengths(ranges, parameters) == \A k \in DOMAIN ranges : ranges[k] = parameters[k].length

Parameters(sig) == sig.outputs \o sig.inputs

(* ----- steps of the parser and the outcome of each ------------------------ *)

Running == status = "running"
Ready == Running /\ stack = <<>> /\ ~ failing

Refuse == status' = "refused" /\ UNCHANGED <<functions, construction, evaluation>>

(* The next directive, if the parser has one.                               *)
Next1 == Ready /\ read < MaxRead /\ read' = read + 1

RefuseDirective ==
  /\ Next1 /\ (building \/ signature = NoSignature)
  /\ \E d \in Directives : ~ Defined(d)
  /\ Refuse

Record(d) == gates' = Append(gates, d)

RecordDirective ==
  /\ Next1 /\ building
  /\ \E d \in Directives : Defined(d) /\ Record(d)
  /\ UNCHANGED <<functions, signature, building, evaluation, status>>

(* What follows when the interpreter returns false.                         *)
Fail == failing' = TRUE /\ UNCHANGED <<functions, construction, performed, status>>

(* A mutant: the outer call goes on.                                        *)
AdvanceOuter == IF stack = <<>> THEN <<>> ELSE [stack EXCEPT ![1].next = @ + 1]

Advance ==
  IF stack = <<>> THEN <<>>
  ELSE [stack EXCEPT ![Len(stack)] = [name |-> @.name, next |-> @.next + 1]]

(* Interpreter: an unknown conversion is reported and then used all the     *)
(* same.                                                                    *)
Interpret(d) ==
  IF ~ Convertible(d)
  THEN /\ status' = "undefined"
       /\ UNCHANGED <<functions, construction, evaluation>>
  ELSE \/ /\ performed' = Append(performed, d) /\ stack' = Advance
          /\ UNCHANGED <<functions, construction, failing, pushed, status>>
       \/ Fail /\ UNCHANGED <<stack, pushed>>

InterpretDirective ==
  /\ Next1 /\ ~ building /\ signature = NoSignature
  /\ \E d \in Directives : ~ IsCall(d) /\ Defined(d) /\ Interpret(d)

(* Interpreter::invoke until the function's evaluation. A scope that was    *)
(* pushed stays when wires cannot be mapped.                                *)
Invoke(d) ==
  IF d.name \notin DOMAIN functions
  THEN Fail /\ UNCHANGED <<stack, pushed>>
  ELSE LET sig == functions[d.name].signature
       IN  IF ~ Counts(d, sig)
           THEN Fail /\ UNCHANGED <<stack, pushed>>
           ELSE /\ pushed' = pushed + 1
                /\ \/ Fail /\ UNCHANGED stack
                   \/ /\ Lengths(d.outputs, sig.outputs) /\ Lengths(d.inputs, sig.inputs)
                      /\ stack' = Append(Advance, [name |-> d.name, next |-> 1])
                      /\ UNCHANGED <<functions, construction, failing, performed, status>>

InvokeDirective ==
  /\ Next1 /\ ~ building /\ signature = NoSignature
  /\ \E d \in Directives : IsCall(d) /\ Invoke(d)

(* ----- evaluation --------------------------------------------------------- *)

Evaluating == Running /\ stack /= <<>> /\ ~ failing

Frame == Last(stack)
Function == functions[Frame.name]

(* A plugin's function is one operation, which returns nothing.             *)
PluginOperation(name) == [op |-> "plugin", name |-> name]

AtDirective == Function.kind = "gates" /\ Frame.next \in DOMAIN Function.gates

(* A mutant: one directive too many.                                        *)
AtEndLate ==
  Frame.next > 1 + IF Function.kind = "plugin" THEN 1 ELSE Len(Function.gates)

AtEnd == Frame.next > IF Function.kind = "plugin" THEN 1 ELSE Len(Function.gates)

EvaluateGate ==
  /\ Evaluating /\ AtDirective
  /\ ~ IsCall(Function.gates[Frame.next]) /\ Interpret(Function.gates[Frame.next])
  /\ UNCHANGED read

EvaluateCall ==
  /\ Evaluating /\ AtDirective
  /\ IsCall(Function.gates[Frame.next]) /\ Invoke(Function.gates[Frame.next])
  /\ UNCHANGED read

EvaluatePlugin ==
  /\ Evaluating /\ Function.kind = "plugin" /\ ~ AtEnd
  /\ performed' = Append(performed, PluginOperation(Frame.name)) /\ stack' = Advance
  /\ UNCHANGED <<functions, construction, failing, pushed, read, status>>

(* A mutant: the scope is popped only after a success.                      *)
PopOnSuccess ==
  /\ stack' = Front(stack)
  /\ IF failing THEN UNCHANGED pushed ELSE pushed' = pushed - 1

Pop == stack' = Front(stack) /\ pushed' = pushed - 1

(* The outputs are checked, after a failure too, and the scope is popped.   *)
Return ==
  /\ Evaluating /\ AtEnd
  /\ Pop /\ failing' \in BOOLEAN
  /\ UNCHANGED <<functions, construction, performed, read, status>>

Unwind ==
  /\ Running /\ failing /\ stack /= <<>>
  /\ Pop
  /\ UNCHANGED <<functions, construction, failing, performed, read, status>>

GiveUp ==
  /\ Running /\ failing /\ stack = <<>>
  /\ status' = "refused"
  /\ UNCHANGED <<functions, construction, evaluation, read>>

(* ----- functions ---------------------------------------------------------- *)

(* A mutant: a name may be used again.                                      *)
TakenNever(name) == FALSE

Taken(name) == name \in DOMAIN functions

(* The first index past the types passes.                                   *)
StartFunction ==
  /\ Next1 /\ ~ building /\ signature = NoSignature
  /\ \E sig \in Signatures :
       IF Taken(sig.name) \/ \E k \in DOMAIN Parameters(sig) : Parameters(sig)[k].type > Types
       THEN Refuse
       ELSE /\ signature' = sig
            /\ UNCHANGED <<functions, building, gates, evaluation, status>>

RegularFunction ==
  /\ Ready /\ ~ building /\ signature /= NoSignature
  /\ building' = TRUE /\ gates' = <<>>
  /\ UNCHANGED <<functions, signature, evaluation, read, status>>

Register(function) ==
  functions' = [n \in DOMAIN functions \cup {signature.name} |->
                  IF n = signature.name THEN function ELSE functions[n]]

(* The plugin accepts the signature or not; the types it compares are its   *)
(* own and so of the circuit.                                               *)
PluginFunction ==
  /\ Ready /\ ~ building /\ signature /= NoSignature
  /\ \/ Refuse
     \/ /\ \A k \in DOMAIN Parameters(signature) : Parameters(signature)[k].type < Types
        /\ Register([kind |-> "plugin", signature |-> signature, gates |-> <<>>])
        /\ signature' = NoSignature
        /\ UNCHANGED <<building, gates, evaluation, status>>
  /\ UNCHANGED read

(* A mutant: conversions are left to the interpreter.                       *)
BodyFitsCalls ==
  \A k \in DOMAIN gates :
    IsCall(gates[k]) =>
      /\ gates[k].name \in DOMAIN functions
      /\ Counts(gates[k], functions[gates[k].name].signature)

(* typeCheck, but for the wires.                                            *)
BodyFits ==
  \A k \in DOMAIN gates :
    LET d == gates[k]
    IN  /\ Convertible(d)
        /\ IsCall(d) =>
             /\ d.name \in DOMAIN functions
             /\ LET sig == functions[d.name].signature
                IN  /\ Counts(d, sig)
                    /\ Lengths(d.outputs, sig.outputs) /\ Lengths(d.inputs, sig.inputs)

(* The parameters that typeCheck stops at: an undefined type fails an       *)
(* assert, a length of zero is refused.                                     *)
Odd(parameter) == parameter.type >= Types \/ parameter.length = 0

StopsAt(k) ==
  LET parameters == Parameters(signature)
  IN  /\ parameters[k].type >= Types
      /\ \A l \in 1..(k - 1) : ~ Odd(parameters[l])

Stops == \E k \in DOMAIN Parameters(signature) : StopsAt(k)

EndFunction ==
  /\ Ready /\ building
  /\ \/ Stops /\ status' = "assert"
        /\ UNCHANGED <<functions, construction, evaluation>>
     \/ BodyFits /\ (\A k \in DOMAIN Parameters(signature) : ~ Odd(Parameters(signature)[k]))
        /\ Register([kind |-> "gates", signature |-> signature, gates |-> gates])
        /\ signature' = NoSignature /\ building' = FALSE /\ gates' = <<>>
        /\ UNCHANGED <<evaluation, status>>
     \/ ~ Stops /\ Refuse
  /\ UNCHANGED read

(* The parser is at the end: of the circuit, or too early.                  *)
EndOfInput ==
  /\ Ready
  /\ status' = IF building \/ signature /= NoSignature THEN "refused" ELSE "done"
  /\ UNCHANGED <<functions, construction, evaluation, read>>

-------------------------------------------------------------------------------
Init ==
  /\ functions = [n \in {} |-> NoSignature]
  /\ signature = NoSignature /\ building = FALSE /\ gates = <<>>
  /\ stack = <<>> /\ failing = FALSE /\ pushed = 0 /\ performed = <<>>
  /\ read = 0 /\ status = "running"

Next ==
  \/ RefuseDirective \/ RecordDirective \/ InterpretDirective \/ InvokeDirective
  \/ EvaluateGate \/ EvaluateCall \/ EvaluatePlugin \/ Return \/ Unwind \/ GiveUp
  \/ StartFunction \/ RegularFunction \/ EndFunction \/ PluginFunction \/ EndOfInput

Spec == Init /\ [][Next]_vars

(* One thread parses and evaluates.                                         *)
FairSpec == Spec /\ WF_vars(Next)
-------------------------------------------------------------------------------
TypeOK ==
  /\ \A n \in DOMAIN functions : functions[n].signature.name = n
  /\ signature \in Signatures \cup {NoSignature}
  /\ gates \in Seq(Directives) /\ (building => signature /= NoSignature)
  /\ \A k \in DOMAIN stack : stack[k].name \in DOMAIN functions
  /\ pushed \in Nat /\ read \in 0..MaxRead
  /\ status \in {"running", "done", "refused", "undefined", "assert"}

(* Calls do not recur: no function is evaluated while it is being           *)
(* evaluated, through others either. Nothing in invoke would stop it.       *)
NoRecursion ==
  \A k, l \in DOMAIN stack : k /= l => stack[k].name /= stack[l].name

(* What typeCheck found in the table is there when the function is          *)
(* evaluated: only at the top level is a conversion looked up in vain and   *)
(* used, and only a function whose signature names the first undefined type *)
(* stops the program.                                                       *)
UndefinedOnly ==
  /\ status = "undefined" => stack = <<>>
  /\ status = "assert" => building /\ \E k \in DOMAIN Parameters(signature) :
                                         Parameters(signature)[k].type = Types

(* A function that was accepted calls what it meant to: at each call the    *)
(* function is there and has the call's parameters.                         *)
CallsResolve ==
  (Evaluating /\ AtDirective /\ IsCall(Function.gates[Frame.next])) =>
     LET d == Function.gates[Frame.next]
     IN  d.name \in DOMAIN functions /\ Counts(d, functions[d.name].signature)
         /\ Lengths(d.outputs, functions[d.name].signature.outputs)
         /\ Lengths(d.inputs, functions[d.name].signature.inputs)

(* Every call pops the scope that it pushed, whether it succeeds or not,    *)
(* except for the one call that fails to map its wires; the circuit ends    *)
(* with none but its own scope.                                             *)
ScopesBalanced ==
  /\ pushed >= Len(stack)
  /\ pushed <= Len(stack) + IF failing THEN 1 ELSE 0
  /\ status = "done" => pushed = 0

(* The program ends: evaluation does, and so does a failing one.            *)
Terminates == <>(status /= "running")

(* The operations that a directive stands for, given a table of functions.  *)
Expansion(table) ==
  LET expanded[d \in Directives] ==
        IF ~ IsCall(d) \/ d.name \notin DOMAIN table THEN <<d>>
        ELSE IF table[d.name].kind = "plugin" THEN <<PluginOperation(d.name)>>
        ELSE FlattenSeq([k \in DOMAIN table[d.name].gates |-> expanded[table[d.name].gates[k]]])
  IN  expanded

ExpandedAll(table, ds) == FlattenSeq([k \in DOMAIN ds |-> Expansion(table)[ds[k]]])

(* What is left of a call in evaluation.                                    *)
Rest(table, frame) ==
  LET function == table[frame.name]
  IN  IF function.kind = "plugin"
      THEN IF frame.next = 1 THEN <<PluginOperation(frame.name)>> ELSE <<>>
      ELSE ExpandedAll(table, SubSeq(function.gates, frame.next, Len(function.gates)))

(* The same of each of a stack of calls, the innermost first.               *)
Pending(table, calls) == [k \in DOMAIN calls |-> Rest(table, calls[Len(calls) + 1 - k])]

Todo == IF failing \/ status /= "running" THEN <<>> ELSE FlattenSeq(Pending(functions, stack))

Inlined == INSTANCE InlinedCircuit WITH
  Operations <- Directives \cup {PluginOperation(sig.name) : sig \in Signatures},
  todo <- Todo, done <- performed, stopped <- failing \/ status /= "running"

(* A circuit with functions does what it would do with every call replaced  *)
(* by the recorded directives, in order, and nothing after a failure.       *)
IsInlined == Inlined!Spec
===============================================================================
