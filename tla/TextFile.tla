------------------------------- MODULE TextFile -------------------------------
(***************************************************************************)
(* press/TextPrinter.h and the text parser, irregular/CircuitIR.i.h: a       *)
(* statement of the text format is what of a call the printer writes, and   *)
(* what the parser makes of it. A range of one wire is written as the wire,  *)
(* and type 0 is left out. Characters and white space are left out.         *)
(***************************************************************************)
EXTENDS Resource

(* ----- TextPrinter ----------------------------------------------------------- *)

WrittenRange(r) == IF IsWire(r) THEN <<r.first>> ELSE <<r.first, r.last>>
WrittenRanges(rs) == [k \in DOMAIN rs |-> WrittenRange(rs[k])]
WrittenType(t) == IF t = 0 THEN <<>> ELSE <<t>>

Prints(c) == c.op # "regularFunction"

GateStatement(c) == [keyword |-> c.op, type |-> WrittenType(c.type)]
CopyStatement(c) ==
  [keyword |-> "<-", outputs |-> WrittenRanges(c.outputs), type |-> WrittenType(c.type),
   inputs |-> WrittenRanges(c.inputs)]
InputStatement(c) ==
  [keyword |-> IF c.op \in {"publicIn", "publicInMulti"} THEN "@public" ELSE "@private",
   outputs |-> WrittenRanges(c.outputs), type |-> WrittenType(c.type)]
ConvertStatement(c) ==
  [keyword |-> "@convert", outputs |-> WrittenRanges(c.outputs), inputs |-> WrittenRanges(c.inputs),
   type |-> <<c.type>>, inType |-> c.inType, modulus |-> c.modulus]
CallStatement(c) ==
  [keyword |-> "@call", name |-> c.name, outputs |-> WrittenRanges(c.outputs), inputs |-> WrittenRanges(c.inputs)]
PluginStatement(c) ==
  [keyword |-> "@plugin", private |-> Entries(c.privates), public |-> Entries(c.publics)]

Statement(c) ==
  CASE c.op \in PlainOps -> GateStatement(c)
    [] c.op \in CopyOps -> CopyStatement(c)
    [] c.op \in InputOps -> InputStatement(c)
    [] c.op = "convert" -> ConvertStatement(c)
    [] c.op = "invoke" -> CallStatement(c)
    [] c.op = "startFunction" -> [keyword |-> "@function", name |-> c.name]
    [] c.op = "endFunction" -> [keyword |-> "@end"]
    [] c.op = "pluginFunction" -> PluginStatement(c)
    [] c.op = "next" -> [keyword |-> "<>", value |-> c.value]

(* ----- the parser --------------------------------------------------------------- *)

ReadRange(s) == [first |-> s[1], last |-> s[Len(s)]]
ReadRanges(ss) == [k \in DOMAIN ss |-> ReadRange(ss[k])]
ReadType(s) == IF s = <<>> THEN 0 ELSE s[1]
IsList(ss) == Len(ss) > 1

(* After the copy of one wire comes a semicolon. After one input of a        *)
(* conversion comes a dot of its range or a parenthesis, and @modulus only   *)
(* after a range.                                                          *)
Accepted(s) ==
  CASE s.keyword = "<-" -> (Len(s.outputs[1]) = 1 => ~ IsList(s.inputs) /\ Len(s.inputs[1]) = 1)
    [] s.keyword = "@convert" -> (s.modulus => Len(s.inputs[1]) = 2)
    [] s.keyword = "@plugin" -> s.private = <<>> \/ s.public = <<>>
    [] OTHER -> TRUE

ReadCounts(written) ==
  [t \in Types |-> LET at == {k \in DOMAIN written : written[k][1] = t}
                   IN  IF at = {} THEN 0 ELSE written[Max(at)][2]]

(* A range of outputs is followed by a copy of ranges, inputs or a call, a    *)
(* wire by a gate of one wire; a list of outputs belongs to a call.          *)
CopyCall(s) ==
  Copy(IF Len(s.outputs[1]) = 1 THEN "copy" ELSE "copyMulti",
       ReadRange(s.outputs[1]), ReadRanges(s.inputs), ReadType(s.type))
InputCall(s, one, several) ==
  Input(IF Len(s.outputs[1]) = 1 THEN one ELSE several, ReadRange(s.outputs[1]), ReadType(s.type))
ConvertCall(s) ==
  Convert(ReadRange(s.outputs[1]), s.type[1], ReadRange(s.inputs[1]), s.inType, s.modulus)

CallOf(s) ==
  CASE s.keyword \in PlainOps -> Plain(s.keyword, ReadType(s.type))
    [] s.keyword = "<-" -> CopyCall(s)
    [] s.keyword = "@public" -> InputCall(s, "publicIn", "publicInMulti")
    [] s.keyword = "@private" -> InputCall(s, "privateIn", "privateInMulti")
    [] s.keyword = "@convert" -> ConvertCall(s)
    [] s.keyword = "@call" -> Invoke(s.name, ReadRanges(s.outputs), ReadRanges(s.inputs))
    [] s.keyword = "@function" -> StartOf(s.name)
    [] s.keyword = "@end" -> EndOf
    [] s.keyword = "@plugin" -> PluginOf(ReadCounts(s.public), ReadCounts(s.private))
    [] s.keyword = "<>" -> Value(s.value)
===============================================================================
