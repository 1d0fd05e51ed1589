------------------------------ MODULE MapCalls ------------------------------
(***************************************************************************)
(* What the operations map and map_enumerated of the plugin iter_v0        *)
(* promise (src/docs/3_plugins/1_iter_v0.adoc): a function is called Count *)
(* times, on the same closure inputs, on the number of the iteration if it *)
(* is enumerated, and on the next chunk of every other input, and gives    *)
(* the next chunk of every output. An iteration that fails may lose some   *)
(* of its outputs, and no others.                                          *)
(***************************************************************************)
EXTENDS Integers, SequencesExt

CONSTANT
  Modulus       \* of the type of the iteration's number

VARIABLES
  call,         \* the lengths of the function's outputs and inputs, the number
                \* of its closures, that of the iterations, and whether the
                \* input after the closures is the iteration; never changes
  seen,         \* the arguments of each iteration completed
  result        \* the values of the outputs: of output o, element n

mapVars == <<call, seen, result>>

(* The number of the iteration as one value or, most significant bit first, *)
(* as bits.                                                                 *)
Digit(j, length, n) ==
  IF length = 1 THEN j % Modulus ELSE (j \div 2^(length - 1 - n)) % 2

(* Element n of the function's input i in iteration j; an input of the      *)
(* plugin is known by its number, the iteration's left out.                 *)
Argument(j, i, n) ==
  CASE i <= call.closures -> [input |-> i, element |-> n]
    [] call.enumerated /\ i = call.closures + 1 -> [digit |-> Digit(j, call.inputs[i], n)]
    [] OTHER -> [input |-> IF call.enumerated THEN i - 1 ELSE i,
                 element |-> j * call.inputs[i] + n]

Arguments(j) ==
  [i \in DOMAIN call.inputs |-> [n \in 0..(call.inputs[i] - 1) |-> Argument(j, i, n)]]

Init ==
  /\ seen = <<>>
  /\ result = <<>>

(* The function gives element n of its output o in the iteration j.         *)
Iterate ==
  LET j == Len(seen)
      chunk(o) == {o} \X (j * call.outputs[o] .. (j + 1) * call.outputs[o] - 1)
  IN  /\ j < call.count
      /\ seen' = Append(seen, Arguments(j))
      /\ UNCHANGED call
      /\ \E kept \in SUBSET DOMAIN call.outputs :
           result' = [e \in DOMAIN result \cup UNION {chunk(o) : o \in kept} |->
             IF e \in DOMAIN result THEN result[e]
             ELSE [output |-> e[1], element |-> e[2] - j * call.outputs[e[1]], iteration |-> j]]

Spec == Init /\ [][Iterate]_mapVars
=============================================================================
