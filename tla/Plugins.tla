-------------------------------- MODULE Plugins -------------------------------
(***************************************************************************)
(* The plugins without memory, from a backend to results: SimplePlugin     *)
(* builds the operations of a type (plugins/SimplePlugin.t.h), a plugin    *)
(* function's signature is checked against the operation it names, and the *)
(* operation is evaluated on wires. Evaluation must not fail, except by    *)
(* @assert_zero, once the signature was accepted (plugins/SimplePlugin.h). *)
(***************************************************************************)
EXTENDS Multiplexer

CONSTANTS
  Backends,        \* the types: whether a field, and the modulus
  MaxOutputs,      \* the most output ranges of a signature
  MaxInputs,       \* the most input ranges
  MaxLength,       \* the most wires of a range
  MaxWires,        \* the most wires of all ranges
  MaxAssignments   \* the most values tried for the inputs; wider inputs only
                   \* hold 0, 1 and p - 1

ASSUME PluginsAssumption ==
  /\ \A b \in Backends : b.field \in BOOLEAN /\ b.modulus \in Nat \ {0, 1}
  /\ {MaxOutputs, MaxInputs, MaxLength, MaxWires, MaxAssignments} \subseteq Nat

VARIABLES
  backend,     \* the type of the operations
  prover,      \* the setting; any other suppresses asserts
  plugin,      \* the plugin that was given the backend
  phase,       \* "building", "built", "rejected", "created", "refused", ...
  operation,   \* the operation a plugin function names
  signature,   \* that function's ranges
  wires,       \* the values of its input ranges
  result,      \* of evaluate
  fail         \* FieldBackend's fail: some assert has failed

vars == <<backend, prover, plugin, phase, operation, signature, wires, result, fail>>

p == backend.modulus

PluginNames == {"wizkit_vectors", "extended_arithmetic_v1", "mux_v0"}

Operations(name) ==
  CASE name = "wizkit_vectors" -> {"add", "mul", "sum", "product", "dotproduct"}
    [] name = "extended_arithmetic_v1" ->
         {"less_than", "less_than_equal", "division", "bit_decompose"}
    [] name = "mux_v0" -> {"strict", "permissive"}

(* Only vectors work on rings.                                              *)
Builds(name) ==
  CASE name = "wizkit_vectors" -> TRUE
    [] name = "extended_arithmetic_v1" -> backend.field /\ BuildsArithmetic(p)
    [] name = "mux_v0" -> backend.field

(* The type of the backend is 0; a signature may name another type once.    *)
RangesOf(lengths, wrong) ==
  [i \in DOMAIN lengths |-> [type |-> IF i = wrong THEN 1 ELSE 0, length |-> lengths[i]]]

LengthsUpTo(n) == UNION {[1..k -> 1..MaxLength] : k \in 0..n}
Total(lengths) == FoldLeft(LAMBDA a, b : a + b, 0, lengths)

Signatures ==
  UNION {{[outs |-> RangesOf(outs, w), ins |-> RangesOf(ins, w - Len(outs))] :
            w \in 0..(Len(outs) + Len(ins))} :
         <<outs, ins>> \in {pair \in LengthsUpTo(MaxOutputs) \X LengthsUpTo(MaxInputs) :
                              Total(pair[1]) + Total(pair[2]) <= MaxWires}}

checkSignature(outs, ins) ==
  CASE plugin = "wizkit_vectors" -> VectorSignature(operation', 0, outs, ins)
    [] plugin = "extended_arithmetic_v1" -> ArithmeticSignature(operation', 0, p, outs, ins)
    [] plugin = "mux_v0" -> MuxSignature(0, p, outs, ins)

evaluate(outs, ins) ==
  CASE plugin = "wizkit_vectors" -> EvaluateVector(operation, p, ins)
    [] plugin = "extended_arithmetic_v1" -> EvaluateArithmetic(operation, prover, p, ins)
    [] plugin = "mux_v0" -> EvaluateMux(operation, p, outs, ins)

None == [outs |-> <<>>, ins |-> <<>>]

Init ==
  /\ backend \in Backends /\ prover \in BOOLEAN /\ plugin \in PluginNames
  /\ phase = "building" /\ operation = "none" /\ signature = None
  /\ wires = <<>> /\ result = Undefined /\ fail = FALSE

(* SimplePlugin::addBackend: one operation refused refuses the backend.     *)
AddBackend ==
  /\ phase = "building"
  /\ phase' = IF Builds(plugin) THEN "built" ELSE "rejected"
  /\ UNCHANGED <<backend, prover, plugin, operation, signature, wires, result, fail>>

(* SimplePlugin::create, for a function of the circuit.                     *)
Create ==
  /\ phase = "built"
  /\ operation' \in Operations(plugin)
  /\ \E s \in Signatures :
       IF plugin = "mux_v0" /\ MissingSelectorRead(0, s.outs, s.ins)
       THEN phase' = "undefined" /\ signature' = s
       ELSE IF checkSignature(s.outs, s.ins)
       THEN phase' = "created" /\ signature' = s
       ELSE phase' = "refused" /\ UNCHANGED signature
  /\ UNCHANGED <<backend, prover, plugin, wires, result, fail>>

InputWires == Total(Lengths(signature.ins))

(* Where the input range i starts among all input wires.                    *)
InputStart(i) == Total(SubSeq(Lengths(signature.ins), 1, i - 1))

Values == IF p ^ InputWires <= MaxAssignments THEN 0..(p - 1) ELSE {0, 1, p - 1}

(* SimpleOperation::evaluate on wires of any value.                         *)
Evaluate ==
  /\ phase = "created"
  /\ \E v \in [1..InputWires -> Values] :
       wires' = [i \in DOMAIN signature.ins |->
                   [j \in 1..signature.ins[i].length |-> v[InputStart(i) + j]]]
  /\ result' = evaluate(signature.outs, wires')
  /\ fail' = (\E value \in result'.asserted : ~ assertZero(~ prover, value))
  /\ phase' = IF result'.defined THEN "evaluated" ELSE "undefined"
  /\ UNCHANGED <<backend, prover, plugin, operation, signature>>

Next == AddBackend \/ Create \/ Evaluate

Spec == Init /\ [][Next]_vars

-------------------------------------------------------------------------------
(* Outputs have the lengths of the signature and hold field elements.       *)
TypeOK ==
  phase = "evaluated" =>
    /\ DOMAIN result.outs = DOMAIN signature.outs
    /\ \A i \in DOMAIN result.outs :
         result.outs[i] \in [1..signature.outs[i].length -> 0..(p - 1)]

(* ----- what the operations promise -------------------------------------- *)

Bit(condition) == << <<IF condition THEN 1 ELSE 0>> >>

(* The number that a range of bits holds.                                   *)
Number(range) == FoldLeft(LAMBDA a, b : 2 * a + b, 0, range)

Selector == Number(wires[1])

(* Case k of the input ranges, the selector left out.                       *)
CaseOf(k) == SubSeq(Tail(wires), k * Len(signature.outs) + 1, (k + 1) * Len(signature.outs))

CaseCount == (Len(wires) - 1) \div Len(signature.outs)

Zeros == [i \in DOMAIN signature.outs |-> [j \in 1..signature.outs[i].length |-> 0]]

Product(a, b) == (a * b) % p

Promised ==
  LET l == wires[1]  r == wires[2]
  IN  CASE operation = "add" -> << [i \in DOMAIN l |-> (l[i] + r[i]) % p] >>
        [] operation = "mul" -> << [i \in DOMAIN l |-> (l[i] * r[i]) % p] >>
        [] operation = "sum" -> << <<Total(l) % p>> >>
        [] operation = "product" -> << <<FoldRight(LAMBDA a, b : a * b, l, 1) % p>> >>
        [] operation = "dotproduct" -> << <<Total([i \in DOMAIN l |-> l[i] * r[i]]) % p>> >>
        [] operation = "less_than" -> Bit(l[1] < r[1])
        [] operation = "less_than_equal" -> Bit(l[1] <= r[1])
        [] operation = "division" -> << <<l[1] \div r[1]>>, <<l[1] % r[1]>> >>
        [] operation = "bit_decompose" -> << [i \in 1..signature.outs[1].length |->
                 (l[1] \div 2 ^ (signature.outs[1].length - i)) % 2] >>
        [] operation \in {"strict", "permissive"} ->
             IF Selector < CaseCount THEN CaseOf(Selector) ELSE Zeros

(* More cases than the prime are reported and accepted all the same: their  *)
(* numbers are equal in the field.                                          *)
TooManyCases == plugin = "mux_v0" /\ ~ IsBooleanField(p) /\ CaseCount > p

(* Every operation of the prover computes what its name says, for every     *)
(* value of its inputs: in particular the comparison of bits from the       *)
(* greatest on, the powers, and the tree of a multiplexer with any number   *)
(* of cases. A result is zero if the selector is beyond the cases. A prover *)
(* with right values never fails an assert of a plugin, but for a strict    *)
(* multiplexer whose selector is beyond the cases, which always fails; no   *)
(* other setting fails.                                                     *)
ResultsExact ==
  /\ TypeOK
  /\ phase = "evaluated" /\ ~ TooManyCases =>
       /\ prover => result.outs = Promised
       /\ fail <=> prover /\ operation = "strict" /\ Selector >= CaseCount

(* What checkSignature accepts is evaluated, as SimplePlugin.h asks, but    *)
(* for: a division by zero, a multiplexer of several output ranges, whose   *)
(* cases are grouped wrongly, one with cases beyond the prime, and one      *)
(* without any input, whose signature is not even checked.                  *)
UndefinedOnly ==
  phase = "undefined" =>
    \/ operation = "division" /\ wires[2] = <<0>>
    \/ plugin = "mux_v0" /\ Len(signature.outs) >= 2
    \/ plugin = "mux_v0" /\ TooManyCases
    \/ plugin = "mux_v0" /\ signature.ins = <<>>

(* The digits that the assertions of a decomposition of x let pass.         *)
Accepted(x) ==
  {d \in [1..Width(p) -> 0..(p - 1)] : bit_decomp(p, x, d) = {0}}

Decomposing == phase = "evaluated" /\ operation = "bit_decompose"

(* The assertions of a decomposition let the binary digits of a number pass *)
(* and no others, but for the digits of the prime itself as those of zero.  *)
DecompositionsExact ==
  Decomposing =>
    Accepted(wires[1][1]) =
      {Bits(wires[1][1], Width(p))}
      \union IF wires[1][1] = 0 THEN {pub_decomp(p)} ELSE {}

(* The digits are unique. "So, like assert_zero(prime_bits <= dcmp)" says   *)
(* ExtendedArithmetic.t.h, and compares with less than.                     *)
(* The code does not keep it: see "Stated, and false" in the README.        *)
DecompositionUnique ==
  Decomposing => Accepted(wires[1][1]) = {Bits(wires[1][1], Width(p))}

(* The documented example of a multiplexer has two output ranges            *)
(* (docs/3_plugins/1_mux_v0.adoc): what is accepted is evaluated.           *)
(* The code does not keep it: see "Stated, and false" in the README.        *)
GroupsDefined ==
  ~ (phase = "undefined" /\ plugin = "mux_v0" /\ signature.ins /= <<>> /\ ~ TooManyCases)
===============================================================================
