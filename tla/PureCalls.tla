------------------------------ MODULE PureCalls ------------------------------
(***************************************************************************)
(* What a function call of the Circuit-IR means (nails/Interpreter.h): the *)
(* callee has wires of its own, numbered from 0 for each type, first those *)
(* of its outputs, then its inputs, which hold copies of the caller's      *)
(* values. When it returns, its outputs' values are copied to wires that   *)
(* the caller has not assigned yet. A wire is assigned once. Nothing is    *)
(* shared between callers and callees. CallStack.tla implements this with  *)
(* wires mapped by reference.                                              *)
(***************************************************************************)
EXTENDS Integers, SequencesExt

CONSTANTS
  Type,         \* the types (fields) of the circuit
  Value,        \* the values a wire may hold
  Interval,     \* the intervals of wires of one type
  OutputLists,  \* the sequences of intervals that are a call's outputs
  InputLists    \* and its inputs

VARIABLES
  env,          \* for each function under way, the value of its active wires
  failed        \* a directive was refused: the run is over

pureVars == <<env, failed>>

WiresOf(p) == {p.type} \X (p.first .. p.last)

(* The wire of the callee that parameter k of params starts at.             *)
Start(params, k) ==
  LET before[n \in 0..Len(params)] ==
        IF n = 0 THEN 0
        ELSE before[n - 1] + IF params[n].type = params[k].type
                             THEN 1 + params[n].last - params[n].first ELSE 0
  IN  before[k - 1]

(* The caller's wires of the parameters in the set ks, each with the wire   *)
(* that the callee knows it by.                                             *)
Renaming(params, ks) ==
  UNION {{<<<<params[k].type, params[k].first + i>>,
            <<params[k].type, Start(params, k) + i>>>> :
            i \in 0..(params[k].last - params[k].first)} : k \in ks}

Current == env[Len(env)]

-----------------------------------------------------------------------------
Init ==
  /\ env = <<[values |-> <<>>, used |-> {}, outputs |-> <<>>]>>
  /\ failed = FALSE

With(values, more) ==               \* more takes precedence
  [w \in (DOMAIN values) \cup DOMAIN more |->
     IF w \in DOMAIN more THEN more[w] ELSE values[w]]

(* A directive gives values to an interval of wires never assigned before.  *)
Assign(p, vals) ==
  /\ WiresOf(p) \cap Current.used = {}
  /\ env' = [env EXCEPT ![Len(env)] =
               [values |-> With(@.values, vals), used |-> @.used \cup WiresOf(p),
                outputs |-> @.outputs]]
  /\ UNCHANGED failed

Delete(p) ==
  /\ WiresOf(p) \subseteq DOMAIN Current.values
  /\ env' = [env EXCEPT ![Len(env)] =
               [values |-> [w \in (DOMAIN @.values) \ WiresOf(p) |-> @.values[w]],
                used |-> @.used, outputs |-> @.outputs]]
  /\ UNCHANGED failed

(* The function is entered with the values of the inputs.                   *)
Call(outs, ins) ==
  LET params == outs \o ins
      renamed == Renaming(params, (Len(outs) + 1) .. Len(params))
      inputs == {r[2] : r \in renamed}
      callerWire(w) == (CHOOSE r \in renamed : r[2] = w)[1]
  IN  /\ \A r \in renamed : r[1] \in DOMAIN Current.values
      /\ env' = Append(env,
           [values |-> [w \in inputs |-> Current.values[callerWire(w)]],
            used |-> inputs, outputs |-> outs])
      /\ UNCHANGED failed

(* It returns when it has assigned all its outputs.                         *)
Return ==
  LET outs == Current.outputs
      renamed == Renaming(outs, DOMAIN outs)
      results == {r[1] : r \in renamed}
      calleeWire(w) == (CHOOSE r \in renamed : r[1] = w)[2]
      caller == env[Len(env) - 1]
  IN  /\ Len(env) > 1
      /\ \A r \in renamed : r[2] \in DOMAIN Current.values
      /\ results \cap caller.used = {}
      /\ \A r, s \in renamed : r[1] = s[1] => r = s
      /\ env' = Append(SubSeq(env, 1, Len(env) - 2),
           [values |-> With(caller.values,
                            [w \in results |-> Current.values[calleeWire(w)]]),
            used |-> caller.used \cup results, outputs |-> caller.outputs])
      /\ UNCHANGED failed

Fail ==
  /\ failed' = TRUE
  /\ env' = <<>>

Next ==
  /\ ~failed
  /\ \/ Fail
     \/ Return
     \/ \E p \in Interval :
          Delete(p) \/ \E vals \in [WiresOf(p) -> Value] : Assign(p, vals)
     \/ \E outs \in OutputLists, ins \in InputLists : Call(outs, ins)

Spec == Init /\ [][Next]_pureVars
=============================================================================
