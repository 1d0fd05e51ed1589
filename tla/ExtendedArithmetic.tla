-------------------------- MODULE ExtendedArithmetic --------------------------
(***************************************************************************)
(* The fallback of the extended arithmetic plugin                          *)
(* (plugins/ExtendedArithmetic.t.h): comparisons, division and bit         *)
(* decomposition of field elements, from gates alone. An operation accepts *)
(* or refuses a signature, and an accepted one is evaluated to its output  *)
(* ranges and the values it asserts to be zero. Bits run from the greatest *)
(* to the least.                                                           *)
(***************************************************************************)
EXTENDS FieldGates, SequencesExt

Result(outs, asserted) == [outs |-> outs, asserted |-> asserted, defined |-> TRUE]

(* The code's behaviour is undefined: nothing is said of its results.       *)
Undefined == [outs |-> <<>>, asserted |-> {}, defined |-> FALSE]

Lengths(ranges) == [i \in DOMAIN ranges |-> ranges[i].length]
AllOf(type, ranges) == \A i \in DOMAIN ranges : ranges[i].type = type

(* ----- signatures ------------------------------------------------------- *)

(* No bit decomposition without a prime of two bits: the whole backend is   *)
(* refused then.                                                            *)
Width(number) == CHOOSE w \in 1..number : 2 ^ (w - 1) <= number /\ number < 2 ^ w
Bits(number, w) == [i \in 1..w |-> (number \div 2 ^ (w - i)) % 2]
pub_decomp(number) == Bits(number, Width(number))

BuildsArithmetic(p) == Len(pub_decomp(p)) >= 2

ComparisonSignature(type, outs, ins) ==
  AllOf(type, outs \o ins) /\ Lengths(outs) = <<1>> /\ Lengths(ins) = <<1, 1>>

DivisionSignature(type, outs, ins) ==
  AllOf(type, outs \o ins) /\ Lengths(outs) = <<1, 1>> /\ Lengths(ins) = <<1, 1>>

DecomposeSignature(type, p, outs, ins) ==
  AllOf(type, outs \o ins) /\ Lengths(outs) = <<Width(p)>> /\ Lengths(ins) = <<1>>

ArithmeticSignature(operation, type, p, outs, ins) ==
  CASE operation \in {"less_than", "less_than_equal"} -> ComparisonSignature(type, outs, ins)
    [] operation = "division" -> DivisionSignature(type, outs, ins)
    [] operation = "bit_decompose" -> DecomposeSignature(type, p, outs, ins)

(* ----- comparisons of decompositions ------------------------------------ *)

(* One bit further: less, and equal so far.                                 *)
CompareBit(p, state, l, r) ==
  [lt |-> addGate(p, bit_and(p, bit_and(p, bit_not(p, l), r), state.eq), state.lt),
   eq |-> bit_and(p, state.eq, bit_not(p, bit_xor(p, l, r)))]

(* The same with a constant on the left.                                    *)
CompareBitConstant(p, state, c, r) ==
  [lt |-> addGate(p, bit_and(p, bit_andc(p, r, bit_notc(c)), state.eq), state.lt),
   eq |-> bit_and(p, state.eq, bit_not(p, bit_xorc(p, r, c)))]

NothingCompared == [lt |-> 0, eq |-> 1]

Compared(p, l, r) ==
  FoldLeftDomain(LAMBDA state, i : CompareBit(p, state, l[i], r[i]), NothingCompared, l)

bits_lt_comparator(p, l, r) == Compared(p, l, r).lt

bits_ltc_comparator(p, constant, r) ==
  FoldLeftDomain(LAMBDA state, i : CompareBitConstant(p, state, constant[i], r[i]),
                 NothingCompared, constant).lt

bits_lte_comparator(p, l, r) == addGate(p, Compared(p, l, r).lt, Compared(p, l, r).eq)

(* ----- bit decomposition ------------------------------------------------ *)

(* The prover's private inputs are the bits of the number, any other        *)
(* setting's are zeros.                                                     *)
Witness(prover, p, number) == Bits(IF prover THEN number ELSE 0, Width(p))

Recompose(p, digits) ==
  FoldLeft(LAMBDA recomp, d : addGate(p, mulcGate(p, recomp, 2), d), 0, digits)

(* The values asserted to be zero: every digit is a bit, together they are  *)
(* the input, and they are not beyond the prime.                            *)
BitChecks(p, digits) ==
  {mulGate(p, addcGate(p, digits[i], p - 1), digits[i]) : i \in DOMAIN digits}

RecompositionCheck(p, input, digits) ==
  addGate(p, mulcGate(p, Recompose(p, digits), p - 1), input)

(* A mutant: the digits may exceed the prime.                               *)
OverflowUnchecked(p, digits) == 0

OverflowCheck(p, digits) == bits_ltc_comparator(p, pub_decomp(p), digits)

bit_decomp(p, input, digits) ==
  BitChecks(p, digits) \union {RecompositionCheck(p, input, digits), OverflowCheck(p, digits)}

(* ----- evaluation ------------------------------------------------------- *)

EvaluateComparison(operation, prover, p, left, right) ==
  LET l_dcmp == Witness(prover, p, left)
      r_dcmp == Witness(prover, p, right)
      cmp == IF operation = "less_than" THEN bits_lt_comparator(p, l_dcmp, r_dcmp)
             ELSE bits_lte_comparator(p, l_dcmp, r_dcmp)
  IN  Result(<< <<cmp>> >>,
             bit_decomp(p, left, l_dcmp) \union bit_decomp(p, right, r_dcmp))

(* The prover divides its numbers without looking at the divisor.           *)
DivisionTraps(prover, right) == prover /\ right = 0

EvaluateDivision(prover, p, left, right) ==
  IF DivisionTraps(prover, right) THEN Undefined
  ELSE LET quotient == IF prover THEN left \div right ELSE 0
           remainder == IF prover THEN left % right ELSE 0
           product == addGate(p, mulGate(p, quotient, right), remainder)
           r_dcmp == Witness(prover, p, right)
           m_dcmp == Witness(prover, p, remainder)
       IN  Result(<< <<quotient>>, <<remainder>> >>,
                  {addGate(p, mulcGate(p, product, p - 1), left),
                   bits_lte_comparator(p, r_dcmp, m_dcmp)}
                  \union bit_decomp(p, right, r_dcmp)
                  \union bit_decomp(p, remainder, m_dcmp))

EvaluateArithmetic(operation, prover, p, ins) ==
  CASE operation \in {"less_than", "less_than_equal"} ->
         EvaluateComparison(operation, prover, p, ins[1][1], ins[2][1])
    [] operation = "division" -> EvaluateDivision(prover, p, ins[1][1], ins[2][1])
    [] operation = "bit_decompose" ->
         LET digits == Witness(prover, p, ins[1][1])
         IN  Result(<<digits>>, bit_decomp(p, ins[1][1], digits))
===============================================================================
