------------------------------- MODULE Resource -------------------------------
(***************************************************************************)
(* What a parser of either format hands to its reader: the calls of        *)
(* circuit::Handler for a circuit, or the values of a stream. Wires are    *)
(* ranges; the identity of operands that the formats carry through         *)
(* unchanged is left out.                                                  *)
(***************************************************************************)
EXTENDS Integers, Sequences, SequencesExt, FiniteSetsExt

CONSTANTS
  Types,    \* the type indices that are used, from 0
  Wires,    \* the wires
  Counts    \* the numbers of inputs a plugin may ask for, 0 for none

ASSUME ResourceAssumption ==
  /\ Types = 0..(Cardinality(Types) - 1)
  /\ Wires \subseteq Nat
  /\ Counts \subseteq Nat /\ 0 \in Counts

Ranges == {[first |-> r[1], last |-> r[2]] : r \in {s \in Wires \X Wires : s[1] <= s[2]}}
Wire(w) == [first |-> w, last |-> w]
IsWire(r) == r.first = r.last

(* The operations that both formats print as they are given: gates on       *)
(* single wires, and allocations and deletions.                            *)
PlainOps == {"addGate", "mulGate", "addcGate", "mulcGate", "assign", "assertZero", "newRange", "deleteRange"}

CopyOps == {"copy", "copyMulti"}
InputOps == {"publicIn", "publicInMulti", "privateIn", "privateInMulti"}

Plain(op, type) == [op |-> op, type |-> type]
Copy(op, out, ins, type) == [op |-> op, type |-> type, outputs |-> <<out>>, inputs |-> ins]
Input(op, out, type) == [op |-> op, type |-> type, outputs |-> <<out>>]
Convert(out, outType, in, inType, modulus) ==
  [op |-> "convert", type |-> outType, inType |-> inType,
   outputs |-> <<out>>, inputs |-> <<in>>, modulus |-> modulus]
Invoke(name, outs, ins) == [op |-> "invoke", name |-> name, outputs |-> outs, inputs |-> ins]

StartOf(name) == [op |-> "startFunction", name |-> name]
Regular == [op |-> "regularFunction"]
EndOf == [op |-> "endFunction"]
PluginOf(publics, privates) == [op |-> "pluginFunction", publics |-> publics, privates |-> privates]

Value(v) == [op |-> "next", value |-> v]

NoCounts == [t \in Types |-> 0]

(* The entries of a binding's counts: the types that have any, in order.    *)
Entries(counts) ==
  LET asked == {t \in Types : counts[t] # 0}
      nth(k) == CHOOSE t \in asked : Cardinality({u \in asked : u < t}) = k - 1
  IN  [k \in 1..Cardinality(asked) |-> <<nth(k), counts[nth(k)]>>]

(* Two ways to say the same: Interpreter and GatesFunction do for a range   *)
(* of one wire what they do for the wire.                                  *)
Meaning(c) ==
  CASE c.op = "copyMulti" /\ IsWire(c.outputs[1]) /\ Len(c.inputs) = 1 /\ IsWire(c.inputs[1]) -> [c EXCEPT !.op = "copy"]
    [] c.op = "publicInMulti" /\ IsWire(c.outputs[1]) -> [c EXCEPT !.op = "publicIn"]
    [] c.op = "privateInMulti" /\ IsWire(c.outputs[1]) -> [c EXCEPT !.op = "privateIn"]
    [] OTHER -> c
===============================================================================
