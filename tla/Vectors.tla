-------------------------------- MODULE Vectors -------------------------------
(***************************************************************************)
(* The fallback of the vector plugin (plugins/Vectors.t.h): wire by wire   *)
(* sums and products of two ranges, and folds of one or two ranges, built  *)
(* from gates in two temporaries that alternate.                           *)
(***************************************************************************)
EXTENDS ExtendedArithmetic

PairwiseSignature(type, outs, ins) ==
  /\ AllOf(type, outs \o ins) /\ Len(outs) = 1 /\ Len(ins) = 2
  /\ Lengths(ins) = <<outs[1].length, outs[1].length>>

UniFoldSignature(type, outs, ins) ==
  /\ AllOf(type, outs \o ins) /\ Lengths(outs) = <<1>> /\ Len(ins) = 1
  /\ ins[1].length > 1

BiFoldSignature(type, outs, ins) ==
  /\ AllOf(type, outs \o ins) /\ Lengths(outs) = <<1>> /\ Len(ins) = 2
  /\ ins[1].length > 1 /\ ins[1].length = ins[2].length

VectorSignature(operation, type, outs, ins) ==
  CASE operation \in {"add", "mul"} -> PairwiseSignature(type, outs, ins)
    [] operation \in {"sum", "product"} -> UniFoldSignature(type, outs, ins)
    [] operation = "dotproduct" -> BiFoldSignature(type, outs, ins)

Gate(operation, p, left, right) ==
  IF operation \in {"add", "sum"} THEN addGate(p, left, right) ELSE mulGate(p, left, right)

evaluatePairwise(operation, p, lefts, rights) ==
  [i \in DOMAIN lefts |-> Gate(operation, p, lefts[i], rights[i])]

(* The first gate joins the first two wires, every later one the temporary  *)
(* written last and the next wire.                                          *)
evaluateUniFold(operation, p, ins) ==
  FoldLeft(LAMBDA left, right : Gate(operation, p, left, right), ins[1], Tail(ins))

evaluateBiFold(p, lefts, rights) ==
  evaluateUniFold("sum", p, evaluatePairwise("mul", p, lefts, rights))

EvaluateVector(operation, p, ins) ==
  LET out == CASE operation \in {"add", "mul"} -> evaluatePairwise(operation, p, ins[1], ins[2])
               [] operation \in {"sum", "product"} -> <<evaluateUniFold(operation, p, ins[1])>>
               [] operation = "dotproduct" -> <<evaluateBiFold(p, ins[1], ins[2])>>
  IN  Result(<<out>>, {})
===============================================================================
