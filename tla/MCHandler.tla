------------------------------ MODULE MCHandler -------------------------------
(***************************************************************************)
(* Two types with one conversion, two functions, calls that fit and calls  *)
(* that do not.                                                            *)
(***************************************************************************)
EXTENDS Handler

MCOne(op, type) == [op |-> op, types |-> <<type>>]
MCConvert(out, in) == [op |-> "convert", types |-> <<out, in>>]
MCCall(name, outs, ins) == [op |-> "invoke", name |-> name, outputs |-> outs, inputs |-> ins]

MCDirectives ==
  {MCOne("addGate", 0), MCOne("publicIn", 1), MCOne("newRange", 2)} \cup
  {MCConvert(0, 1), MCConvert(1, 0)} \cup
  {MCCall("f", <<1>>, <<>>), MCCall("g", <<1>>, <<>>), MCCall("f", <<2>>, <<>>), MCCall("g", <<>>, <<1>>)}

MCParameter(type, length) == [type |-> type, length |-> length]
MCSignature(name, outs, ins) == [name |-> name, outputs |-> outs, inputs |-> ins]

MCSignatures ==
  {MCSignature(n, <<MCParameter(0, 1)>>, <<>>) : n \in {"f", "g"}} \cup
  {MCSignature("g", <<>>, <<MCParameter(1, 1)>>), MCSignature("f", <<MCParameter(2, 1)>>, <<>>)} \cup
  {MCSignature("f", <<MCParameter(0, 0)>>, <<MCParameter(2, 1)>>), MCSignature("f", <<MCParameter(3, 1)>>, <<>>)}

MCConversions == {<<0, 1>>}
===============================================================================
