---------------------------- MODULE FlatbufferFile ----------------------------
(***************************************************************************)
(* press/FlatbufferPrinter.h and flatbuffer/Parser.t.h: a file is a         *)
(* sequence of buffers. A buffer that comes too close to the largest size   *)
(* that flatbuffers permit is written, and the next one begun; only the     *)
(* first one holds the header. Sizes count the objects of a buffer and the  *)
(* entries of its vectors. Writing to the file succeeds.                   *)
(***************************************************************************)
EXTENDS Resource

CONSTANTS
  MaxSize,   \* FLATBUFFERS_MAX_BUFFER_SIZE
  Slack      \* what is kept free for the last gate and the vectors

ASSUME FlatbufferFileAssumption == MaxSize \in Nat /\ Slack \in 1..(MaxSize - 1)

SimpleRewriteThreshold == MaxSize - Slack
FunctionRewriteThresholdFull == MaxSize      \* mutant: a function may begin in a full buffer
FunctionRewriteThreshold == MaxSize \div 2

(* ----- FlatbufferPrinter --------------------------------------------------- *)

EmptyPrinter == [header |-> FALSE, items |-> <<>>, size |-> 0, inFunction |-> FALSE, name |-> "", body |-> <<>>]

(* printFieldType and the others: the header's objects.                     *)
WithHeader == [EmptyPrinter EXCEPT !.header = TRUE, !.size = 1]

Filled(p, threshold) == p.size + Len(p.items) > threshold

(* Mutant: directives stay.                                                  *)
RewrittenKept(p) == [p EXCEPT !.header = FALSE, !.size = 0]

(* writeCircuit, writePublicStream and writePrivateStream.                  *)
BufferOf(p, kind) == [kind |-> kind, header |-> p.header, items |-> p.items, size |-> p.size + Len(p.items)]
Rewritten(p) == [p EXCEPT !.header = FALSE, !.items = <<>>, !.size = 0]

(* What a gate's table keeps. A copy of one wire is a copy of ranges, an     *)
(* input of one wire is one of a range, and the conversion in a function is  *)
(* made without the last argument, whose default is no modulus.             *)
PackedCopy(c) == [c EXCEPT !.op = "GateCopy"]
PackedInput(c) == [c EXCEPT !.op = IF @ \in {"publicIn", "publicInMulti"} THEN "GatePublic" ELSE "GatePrivate"]

(* Mutant: a conversion's modulus is never passed on.                        *)
PackedConvertPlain(c, inFunction) == [c EXCEPT !.modulus = FALSE]
PackedConvert(c, inFunction) == [c EXCEPT !.modulus = @ /\ ~ inFunction]

Packed(c, inFunction) ==
  CASE c.op \in CopyOps -> PackedCopy(c)
    [] c.op \in InputOps -> PackedInput(c)
    [] c.op = "convert" -> PackedConvert(c, inFunction)
    [] OTHER -> c

AddGate(p, gate) ==
  IF p.inFunction THEN [p EXCEPT !.size = @ + 1, !.body = Append(@, gate)]
  ELSE [p EXCEPT !.size = @ + 1, !.items = Append(@, [form |-> "gate", gate |-> gate])]

(* endFunction: the vector of the body's gates is made now.                 *)
AddFunction(p) ==
  [p EXCEPT !.size = @ + 1 + Len(p.body), !.inFunction = FALSE, !.name = "", !.body = <<>>,
            !.items = Append(@, [form |-> "gates", name |-> p.name, body |-> p.body])]

(* pluginFunction: the private counts are added to the public ones.          *)
AddPlugin(p, binding) ==
  [p EXCEPT !.size = @ + 1, !.name = "",
            !.items = Append(@, [form |-> "plugin", name |-> p.name,
                                 public |-> Entries(binding.publics) \o Entries(binding.privates),
                                 private |-> <<>>])]

AddValue(p, value) == [p EXCEPT !.size = @ + 1, !.items = Append(@, value)]

(* ----- Parser ---------------------------------------------------------------- *)

(* parseHeader looks at the first segment, for all segments.                *)
HeaderKind(file) == file[1].kind
HeaderGiven(file) == file # <<>> /\ file[1].header

(* parseGate                                                               *)
UnpackedCopy(gate) ==
  [gate EXCEPT !.op = IF IsWire(gate.outputs[1]) /\ Len(gate.inputs) = 1 /\ IsWire(gate.inputs[1])
                      THEN "copy" ELSE "copyMulti"]
UnpackedInput(gate) ==
  [gate EXCEPT !.op = CASE @ = "GatePublic" -> IF IsWire(gate.outputs[1]) THEN "publicIn" ELSE "publicInMulti"
                        [] @ = "GatePrivate" -> IF IsWire(gate.outputs[1]) THEN "privateIn" ELSE "privateInMulti"]

Unpacked(gate) ==
  CASE gate.op = "GateCopy" -> UnpackedCopy(gate)
    [] gate.op \in {"GatePublic", "GatePrivate"} -> UnpackedInput(gate)
    [] OTHER -> gate

(* The vector publicInputCount, by its length and its counts, after an       *)
(* entry: it grows when it is shorter than the type's index, so that an      *)
(* index equal to the length is beyond its end.                             *)
CountRead(vector, entry) ==
  LET length == IF vector.length < entry[1] THEN entry[1] + 1 ELSE vector.length
  IN  IF entry[1] < length
      THEN [vector EXCEPT !.length = length, !.counts[entry[1]] = entry[2]]
      ELSE [vector EXCEPT !.beyond = TRUE]

CountsRead(entries) ==
  FoldLeft(CountRead, [length |-> 0, counts |-> NoCounts, beyond |-> FALSE], entries)

(* parse: a directive's calls.                                              *)
GatesCalls(d) == <<StartOf(d.name), Regular>> \o [k \in DOMAIN d.body |-> Unpacked(d.body[k])] \o <<EndOf>>
PluginCalls(d) == <<StartOf(d.name), PluginOf(CountsRead(d.public).counts, CountsRead(d.private).counts)>>

CallsOf(d) ==
  CASE d.form = "gate" -> <<Unpacked(d.gate)>>
    [] d.form = "gates" -> GatesCalls(d)
    [] d.form = "plugin" -> PluginCalls(d)

(* Whether reading it writes beyond the end of a vector.                    *)
ReadsBeyond(d) == d.form = "plugin" /\ (CountsRead(d.public).beyond \/ CountsRead(d.private).beyond)
===============================================================================
