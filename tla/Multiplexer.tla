------------------------------ MODULE Multiplexer -----------------------------
(***************************************************************************)
(* The fallback of the multiplexer plugin (plugins/Multiplexer.t.h): the   *)
(* outputs are those of the input case whose number the selector holds.    *)
(* Cases are compared with the selector by Fermat's little theorem, and in *)
(* the Boolean field by a tree over the selector's bits.                   *)
(***************************************************************************)
EXTENDS Vectors

IsBooleanField(p) == p = 2

(* ----- signatures ------------------------------------------------------- *)

Cases(ins) == Len(ins) - 1

(* size_t: without inputs the number of cases is the greatest size, a       *)
(* multiple of one or of three outputs; the missing selector is then read.  *)
MissingSelectorRead(type, outs, ins) ==
  ins = <<>> /\ Len(outs) \in {1, 3} /\ AllOf(type, outs)

(* A mutant: one case is enough.                                            *)
MuxShapeOne(outs, ins) ==
  /\ outs /= <<>>
  /\ Cases(ins) >= Len(outs)
  /\ Cases(ins) % Len(outs) = 0

MuxShape(outs, ins) ==
  /\ outs /= <<>>
  /\ Cases(ins) >= 2 * Len(outs)
  /\ Cases(ins) % Len(outs) = 0

CongruentCases(outs, ins) ==
  \A i \in 2..Len(ins) : ins[i].length = outs[((i - 2) % Len(outs)) + 1].length

(* Every input range but the selector is counted as a case. Outside the     *)
(* Boolean field too many of them are only reported.                        *)
EnoughSelector(p, ins) == IsBooleanField(p) => Cases(ins) <= 2 ^ ins[1].length

MuxSignature(type, p, outs, ins) ==
  /\ MuxShape(outs, ins)
  /\ AllOf(type, outs \o ins)
  /\ ins[1].length = 1 \/ IsBooleanField(p)
  /\ CongruentCases(outs, ins)
  /\ EnoughSelector(p, ins)

(* ----- grouping of the inputs ------------------------------------------- *)

(* inputs.size() - 1 / outputs.size(): the division comes first.            *)
Groups(outs, ins) == Len(ins) - (1 \div Len(outs))

(* A group for each case; the groups beyond the inputs stay empty.          *)
MuxIns(outs, ins) ==
  [k \in 1..Groups(outs, ins) |->
     IF k * Len(outs) <= Cases(ins)
     THEN SubSeq(ins, 2 + (k - 1) * Len(outs), 1 + k * Len(outs)) ELSE <<>>]

(* ----- by Fermat's little theorem --------------------------------------- *)

(* A mutant: the odd rounds are squared only.                               *)
exponentiateEven(p, base, exponent) ==
  LET power[e \in 1..exponent, b \in 0..(p - 1)] ==
        IF e = 1 THEN b ELSE power[e \div 2, mulGate(p, b, b)]
  IN  power[exponent, base]

(* Square and multiply; exponents are at least 1.                           *)
exponentiate(p, base, exponent) ==
  LET power[e \in 1..exponent, b \in 0..(p - 1), aux \in 0..(p - 1)] ==
        IF e = 1 THEN mulGate(p, b, aux)
        ELSE power[e \div 2, mulGate(p, b, b), IF e % 2 = 0 THEN aux ELSE mulGate(p, b, aux)]
  IN  power[exponent, base, 1]

(* 1 when the wire is the constant, else 0.                                 *)
FLT_equality_const(p, in, c) ==
  addcGate(p, mulcGate(p, exponentiate(p, addcGate(p, in, p - c), p - 1), p - 1), 1)

SelectorBits(p, selector, n) == [k \in 1..n |-> FLT_equality_const(p, selector, k - 1)]

(* Wire j of output range i: every case's wire times its selector bit.      *)
WeightedSum(p, sel_bits, groups, i, j) ==
  FoldLeftDomain(LAMBDA sum, k : addGate(p, sum, mulGate(p, groups[k][i][j], sel_bits[k])),
                 0, groups)

FLTMux(p, outs, groups, sel_bits) ==
  [i \in DOMAIN outs |->
     [j \in 1..outs[i].length |-> WeightedSum(p, sel_bits, groups, i, j)]]

(* The strict one asserts that one bit is set.                              *)
SelectedOnce(p, sel_bits) ==
  FoldLeft(LAMBDA sum, bit : addGate(p, sum, bit), p - 1, sel_bits)

EvaluateFLT(strict, p, outs, selector, groups) ==
  LET sel_bits == SelectorBits(p, selector, Len(groups))
  IN  Result(FLTMux(p, outs, groups, sel_bits),
             IF strict THEN {SelectedOnce(p, sel_bits)} ELSE {})

(* ----- by a tree over the selector's bits ------------------------------- *)

oneMux(case0, bit) == mulGate(2, case0, addcGate(2, bit, 1))

twoMux(case0, case1, bit) ==
  addGate(2, mulGate(2, case0, addcGate(2, bit, 1)), mulGate(2, case1, bit))

(* The powers of two, by recursion, as the provers know nothing of ^.       *)
Pow2(n) ==
  LET power[k \in 0..n] == IF k = 0 THEN 1 ELSE 2 * power[k - 1]
  IN  power[n]

(* The cases of one wire, selected by the bits from the greatest on: a      *)
(* subtree has n cases starting with number first. By the last bit:         *)
Subtrees(size) == {tree \in (1..size) \X (1..size) : tree[1] + tree[2] - 1 <= size}

FirstLevel(bits, cases, tree) ==
  LET first == tree[1]
      bit == bits[Len(bits)]
  IN  IF tree[2] = 1 THEN oneMux(cases[first], bit)
      ELSE twoMux(cases[first], cases[first + 1], bit)

(* By the last b bits, when the subtrees below are by the last b - 1.       *)
Level(bits, b, below, tree) ==
  LET first == tree[1]
      n == tree[2]
      bit == bits[Len(bits) - b + 1]
      half == Pow2(b - 1)
  IN  IF n <= half THEN twoMux(below[<<first, n>>], 0, bit)
      ELSE twoMux(below[<<first, half>>], below[<<first + half, n - half>>], bit)

treeMux(bits, cases) ==
  LET mux[b \in 1..Len(bits)] ==
        [tree \in Subtrees(Len(cases)) |->
           IF b = 1 THEN FirstLevel(bits, cases, tree)
           ELSE Level(bits, b, mux[b - 1], tree)]
  IN  mux[Len(bits)][<<1, Len(cases)>>]

(* The strict one sends a 1 through the same tree and asserts that it       *)
(* comes out.                                                               *)
TreeCheck(bits, n) == addcGate(2, treeMux(bits, [k \in 1..n |-> 1]), 1)

EvaluateTree(strict, outs, selector, groups) ==
  Result([i \in DOMAIN outs |->
            [j \in 1..outs[i].length |->
               treeMux(selector, [k \in DOMAIN groups |-> groups[k][i][j]])]],
         IF strict THEN {TreeCheck(selector, Len(groups))} ELSE {})

(* ----- evaluation ------------------------------------------------------- *)

(* A group without a range for every output is read out of bounds. Without  *)
(* a tree two groups are read in any case, and a case number beyond the     *)
(* prime is subtracted from it.                                             *)
MuxUndefined(p, outs, groups) ==
  \/ \E k \in DOMAIN groups : Len(groups[k]) < Len(outs)
  \/ ~ IsBooleanField(p) /\ (Len(groups) < 2 \/ Len(groups) - 1 > p)

EvaluateMux(operation, p, outs, ins) ==
  LET groups == MuxIns(outs, ins)
      strict == operation = "strict"
  IN  IF MuxUndefined(p, outs, groups) THEN Undefined
      ELSE IF IsBooleanField(p) THEN EvaluateTree(strict, outs, ins[1], groups)
      ELSE EvaluateFLT(strict, p, outs, ins[1][1], groups)
===============================================================================
