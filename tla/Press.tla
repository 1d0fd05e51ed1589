-------------------------------- MODULE Press ---------------------------------
(***************************************************************************)
(* wtk-press converts a resource from text to flatbuffer (t2f), the         *)
(* flatbuffer is converted back to text (f2t), and the text is read again,   *)
(* as in the regression tests. Each program reads with the parser of one     *)
(* format, which calls the printer of the other: press/main.cpp.            *)
(***************************************************************************)
EXTENDS FlatbufferFile, TextFile

CONSTANTS
  Gates,      \* the calls on wires that the first text's parser makes
  Bindings,   \* the plugin bindings it reads
  Values,     \* the values of streams
  MaxCalls    \* how many calls the resource has at most

(* The calls that the text's parser makes: those on one wire are of ranges   *)
(* of one wire.                                                             *)
GivenGate(c) ==
  \/ c.op \in PlainOps /\ c = Plain(c.op, c.type)
  \/ /\ c.op \in CopyOps /\ c = Copy(c.op, c.outputs[1], c.inputs, c.type)
     /\ c.outputs[1] \in Ranges /\ c.inputs \in Seq(Ranges) \ {<<>>}
     /\ c.op = "copy" => IsWire(c.outputs[1]) /\ Len(c.inputs) = 1 /\ IsWire(c.inputs[1])
  \/ /\ c.op \in InputOps /\ c = Input(c.op, c.outputs[1], c.type)
     /\ c.outputs[1] \in Ranges /\ (c.op \in {"publicIn", "privateIn"} => IsWire(c.outputs[1]))
  \/ /\ c.op = "convert" /\ c = Convert(c.outputs[1], c.type, c.inputs[1], c.inType, c.modulus)
     /\ {c.outputs[1], c.inputs[1]} \subseteq Ranges /\ c.modulus \in BOOLEAN
  \/ /\ c.op = "invoke" /\ c = Invoke(c.name, c.outputs, c.inputs)
     /\ {c.outputs, c.inputs} \subseteq Seq(Ranges)

GivenBinding(b) ==
  b = PluginOf(b.publics, b.privates) /\ {b.publics, b.privates} \subseteq [Types -> Counts]

ASSUME PressAssumption ==
  /\ MaxCalls \in Nat
  /\ \A c \in Gates : GivenGate(c)
  /\ \A b \in Bindings : GivenBinding(b)

VARIABLES
  kind,      \* the type of the resource
  given,     \* the calls that the first text's parser made
  printer,   \* FlatbufferPrinter
  file,      \* the flatbuffer's buffers
  at,        \* the flatbuffer parser's place: buffer and item
  parsed,    \* the calls it made
  text,      \* what TextPrinter printed after the header
  line,      \* the statement that is read next
  received,  \* the calls that the second text's parser made
  stage,     \* the program that runs: "t2f", "f2t", "read", or "done"
  outcome    \* "running", "converted", or why a program stopped

first == <<given, printer, file>>
second == <<at, parsed, text>>
third == <<line, received>>
vars == <<kind, first, second, third, stage, outcome>>

Begin(k) ==
  /\ kind = k
  /\ given = <<>> /\ printer = WithHeader /\ file = <<>>
  /\ at = [buffer |-> 1, item |-> 1] /\ parsed = <<>> /\ text = <<>>
  /\ line = 1 /\ received = <<>>
  /\ stage = "t2f" /\ outcome = "running"

Init == \E k \in {"circuit", "public_in", "private_in"} : Begin(k)

Running(s) == stage = s /\ outcome = "running"

Stop(why) ==
  /\ outcome' = why
  /\ UNCHANGED <<kind, first, second, third, stage>>

(* ----- t2f ------------------------------------------------------------------- *)

Reading(n) == Running("t2f") /\ Len(given) + n <= MaxCalls

(* The check before an addition: the buffer is written when it is full.      *)
Flushed(threshold) == IF Filled(printer, threshold) THEN Rewritten(printer) ELSE printer
FileFlushed(threshold) == IF Filled(printer, threshold) THEN Append(file, BufferOf(printer, kind)) ELSE file

TooBig == printer.inFunction /\ Filled(printer, SimpleRewriteThreshold)

PrintGate(c) ==
  /\ Reading(1)
  /\ kind = "circuit"
  /\ IF TooBig
     THEN Stop("function too big")
     ELSE /\ given' = Append(given, c)
          /\ printer' = AddGate(Flushed(SimpleRewriteThreshold), Packed(c, printer.inFunction))
          /\ file' = FileFlushed(SimpleRewriteThreshold)
          /\ UNCHANGED <<kind, second, third, stage, outcome>>

(* startFunction, and what the parser calls at once after it.               *)
StartFunction(name) ==
  /\ Reading(2)
  /\ kind = "circuit" /\ ~ printer.inFunction
  /\ given' = given \o <<StartOf(name), Regular>>
  /\ printer' = [Flushed(FunctionRewriteThreshold) EXCEPT !.name = name, !.inFunction = TRUE]
  /\ file' = FileFlushed(FunctionRewriteThreshold)
  /\ UNCHANGED <<kind, second, third, stage, outcome>>

EndFunction ==
  /\ Running("t2f") /\ printer.inFunction
  /\ given' = Append(given, EndOf)
  /\ printer' = AddFunction(printer)
  /\ UNCHANGED <<kind, file, second, third, stage, outcome>>

PluginFunction(name, binding) ==
  /\ Reading(2)
  /\ kind = "circuit" /\ ~ printer.inFunction
  /\ given' = given \o <<StartOf(name), binding>>
  /\ printer' = AddPlugin([Flushed(FunctionRewriteThreshold) EXCEPT !.name = name], binding)
  /\ file' = FileFlushed(FunctionRewriteThreshold)
  /\ UNCHANGED <<kind, second, third, stage, outcome>>

PrintStreamValue(v) ==
  /\ Reading(1)
  /\ kind # "circuit"
  /\ given' = Append(given, Value(v))
  /\ printer' = AddValue(Flushed(SimpleRewriteThreshold), Value(v))
  /\ file' = FileFlushed(SimpleRewriteThreshold)
  /\ UNCHANGED <<kind, second, third, stage, outcome>>

(* The text's last @end: what is left is written, and f2t opens the file.   *)
PrintEndKw ==
  /\ Running("t2f") /\ ~ printer.inFunction
  /\ file' = Append(file, BufferOf(printer, kind))
  /\ printer' = Rewritten(printer)
  /\ stage' = "f2t"
  /\ outcome' = IF HeaderGiven(file') /\ HeaderKind(file') = kind THEN "running" ELSE "no header"
  /\ UNCHANGED <<kind, given, second, third>>

(* ----- f2t ------------------------------------------------------------------- *)

Items == file[at.buffer].items
Item == Items[at.item]
AtEnd == at.item > Len(Items)

(* regularFunction, which follows startFunction, prints nothing.            *)
Printed(calls) == IF Len(calls) > 1 /\ ~ Prints(calls[2]) THEN RemoveAt(calls, 2) ELSE calls

PrintText(calls) ==
  /\ parsed' = parsed \o calls
  /\ text' = text \o [k \in DOMAIN Printed(calls) |-> Statement(Printed(calls)[k])]

FinishText ==
  /\ stage' = "read"
  /\ UNCHANGED <<kind, first, second, third, outcome>>

(* parse: reading beyond the end of a vector of counts may end the program,  *)
(* or do nothing that the program sees.                                     *)
ParseDirective ==
  /\ Running("f2t") /\ kind = "circuit" /\ ~ AtEnd
  /\ \/ /\ PrintText(CallsOf(Item))
        /\ at' = [at EXCEPT !.item = @ + 1]
        /\ UNCHANGED <<kind, first, third, stage, outcome>>
     \/ ReadsBeyond(Item) /\ Stop("undefined")

ParseNextBuffer ==
  /\ Running("f2t") /\ kind = "circuit" /\ AtEnd
  /\ IF at.buffer < Len(file)
     THEN /\ at' = [buffer |-> at.buffer + 1, item |-> 1]
          /\ UNCHANGED <<kind, first, parsed, text, third, stage, outcome>>
     ELSE FinishText

(* InputStream::next: an empty buffer ends the stream.                      *)
NextValue ==
  LET last == AtEnd /\ at.buffer = Len(file)
      place == IF AtEnd THEN [buffer |-> at.buffer + 1, item |-> 1] ELSE at
  IN  /\ Running("f2t") /\ kind # "circuit"
      /\ IF last \/ file[place.buffer].items = <<>>
         THEN FinishText
         ELSE /\ PrintText(<<file[place.buffer].items[place.item]>>)
              /\ at' = [place EXCEPT !.item = @ + 1]
              /\ UNCHANGED <<kind, first, third, stage, outcome>>

(* ----- the text is read again -------------------------------------------------- *)

(* The first item of a function decides what it is.                         *)
InOpening == line > 1 /\ text[line - 1].keyword = "@function"
CallsRead(s) == (IF InOpening /\ s.keyword # "@plugin" THEN <<Regular>> ELSE <<>>) \o <<CallOf(s)>>

(* Mutant: a statement that is refused is read again.                        *)
ReadStatementAgain ==
  /\ Running("read") /\ line <= Len(text)
  /\ IF Accepted(text[line])
     THEN /\ received' = received \o CallsRead(text[line])
          /\ line' = line + 1
          /\ UNCHANGED <<kind, first, second, stage, outcome>>
     ELSE UNCHANGED vars

ReadStatement ==
  /\ Running("read") /\ line <= Len(text)
  /\ IF Accepted(text[line])
     THEN /\ received' = received \o CallsRead(text[line])
          /\ line' = line + 1
          /\ UNCHANGED <<kind, first, second, stage, outcome>>
     ELSE Stop("text refused")

ReadEnd ==
  /\ Running("read") /\ line > Len(text)
  /\ stage' = "done" /\ outcome' = "converted"
  /\ UNCHANGED <<kind, first, second, third>>

Print2Flatbuffer ==
  \/ \E c \in Gates : PrintGate(c)
  \/ StartFunction("f")
  \/ EndFunction
  \/ \E b \in Bindings : PluginFunction("f", b)
  \/ \E v \in Values : PrintStreamValue(v)
  \/ PrintEndKw

Proceed == ParseDirective \/ ParseNextBuffer \/ NextValue \/ ReadStatement \/ ReadEnd

Next == Print2Flatbuffer \/ Proceed

(* Each program is one thread that does not wait, once its input is there.    *)
Spec == Init /\ [][Next]_vars

FairSpec == Spec /\ WF_vars(Proceed)

(* ----- properties -------------------------------------------------------------- *)

Outcomes == {"running", "converted", "function too big", "no header", "undefined", "text refused"}

(* The state is built of calls, buffers and places, and buffers are never    *)
(* ahead of what was given.                                                 *)
TypeOK ==
  /\ kind \in {"circuit", "public_in", "private_in"}
  /\ stage \in {"t2f", "f2t", "read", "done"} /\ outcome \in Outcomes
  /\ Len(given) <= MaxCalls + 1
  /\ at.buffer \in 1..(Len(file) + 1) /\ at.item \in Nat \ {0}
  /\ line \in 1..(Len(text) + 1)
  /\ printer.inFunction \/ printer.body = <<>>

(* What the formats and the printers are known to lose: a conversion's      *)
(* modulus in a function, and which inputs of a plugin are private.         *)
Stripped(c) ==
  CASE c.op = "convert" -> [c EXCEPT !.modulus = FALSE]
    [] c.op = "pluginFunction" -> PluginOf(NoCounts, NoCounts)
    [] OTHER -> Meaning(c)
Rest(cs) == [k \in DOMAIN cs |-> Stripped(cs[k])]
Meanings(cs) == [k \in DOMAIN cs |-> Meaning(cs[k])]

(* Whatever the buffers' sizes, the flatbuffer's parser makes the calls of   *)
(* the first text in their order, without omission or repetition, and so    *)
(* does the parser of the second text; a flag or a count apart.             *)
NothingMoved ==
  /\ TypeOK
  /\ IsPrefix(Rest(parsed), Rest(given))
  /\ IsPrefix(Rest(received), Rest(given))
  /\ stage \in {"read", "done"} => Len(parsed) = Len(given)
  /\ outcome = "converted" => Len(received) = Len(given)

(* A circuit without plugins that ask for inputs and without conversions     *)
(* modulo in functions means the same after both conversions.               *)
InBody(k) == Cardinality({j \in 1..k : given[j] = Regular}) > Cardinality({j \in 1..k : given[j] = EndOf})
Kept(k) ==
  /\ given[k].op = "convert" => ~ given[k].modulus \/ ~ InBody(k)
  /\ given[k].op = "pluginFunction" => given[k] = PluginOf(NoCounts, NoCounts)
MeaningKept ==
  outcome = "converted" /\ (\A k \in DOMAIN given : Kept(k)) => Meanings(received) = Meanings(given)

(* A program stops only for a function whose gates do not fit into half a    *)
(* buffer less the slack, wherever it begins and whatever was written before *)
(* (FlatbufferPrinter.h:36-40, "Function is too big"), for a conversion of   *)
(* one wire with a modulus, or for a plugin that counts inputs.              *)
StopsForReason ==
  /\ outcome = "function too big" =>
       Len(printer.body) > (MaxSize - Slack) - (MaxSize \div 2)
  /\ outcome = "text refused" =>
       \E k \in DOMAIN given : given[k].op = "convert" /\ given[k].modulus /\ IsWire(given[k].inputs[1])
  /\ outcome = "undefined" =>
       \E k \in DOMAIN given : given[k].op = "pluginFunction" /\ given[k] # PluginOf(NoCounts, NoCounts)
  /\ outcome # "no header"

(* Once the first text has ended, the two conversions and the reading end.   *)
Terminates == stage = "f2t" ~> outcome # "running"

(* regression_tests.py:82-89 converts each test to flatbuffer and back, and   *)
(* expects of the result what it expects of the original.                   *)
RoundTrip == outcome = "converted" => Meanings(received) = Meanings(given)
===============================================================================
