----------------------------- MODULE MCFirealarm ------------------------------
(***************************************************************************)
(* Scenarios for the organizer (short circuits with all kinds of streams)  *)
(* and for the backends (all kinds of types, with all or no streams).      *)
(***************************************************************************)
EXTENDS Firealarm, SequencesExt

MCField(prime) ==
  [variety |-> "field", prime |-> prime, name |-> "", parameters |-> 0, index |-> 0]
MCRing == [MCField("none") EXCEPT !.variety = "ring"]
MCPlugin(name, parameters, index) ==
  [variety |-> "plugin", prime |-> "none", name |-> name, parameters |-> parameters, index |-> index]

MCStream(kind, type) == [kind |-> kind, type |-> type, fault |-> "none"]
MCCircuit == MCStream("circuit", MCField("none"))

MCStreams == {MCStream(k, MCField(pr)) : k \in {"public_in", "private_in"}, pr \in {"two", "medium"}}

MCOdd ==
  MCStreams \cup {MCCircuit, MCStream("translation", MCRing), MCStream("configuration", MCRing)}
  \cup {MCStream("public_in", MCPlugin("ram_arith_v0", 4, 2))}
  \cup {[r EXCEPT !.fault = f] : r \in {MCCircuit, MCStream("private_in", MCRing)}, f \in {"open", "body"}}

MCScenario(rs, ts, ps, cs, fb) ==
  [resources |-> rs, types |-> ts, plugins |-> ps, conversions |-> cs, fallback |-> fb]

MCOrganizerTypes == {MCField("two"), MCField("medium"), MCRing, MCPlugin("ram_arith_v0", 4, 1)}

(* Four streams are enough for a prover only when they all differ.          *)
MCInputs ==
  BoundedSeq(MCStreams, 3) \cup {s \in [1..4 -> MCStreams] : Range(s) = MCStreams}

MCOrganizer ==
  {MCScenario(<<MCCircuit>> \o s, ts, <<>>, <<>>, FALSE) :
     s \in MCInputs, ts \in BoundedSeq(MCOrganizerTypes, 2)}
  \cup {MCScenario(<<MCCircuit>> \o s, ts, <<>>, <<>>, FALSE) :
          s \in BoundedSeq(MCStreams, 2), ts \in SeqOf(MCOrganizerTypes, 3)}
  \cup {MCScenario(s, ts, <<>>, <<>>, FALSE) :
          s \in BoundedSeq(MCOdd, 2), ts \in BoundedSeq(MCOrganizerTypes, 1)}

MCTypes ==
  {MCField(pr) : pr \in {"two", "small", "medium", "large"}} \cup
  {MCPlugin("ram_arith_v0", 4, j) : j \in 1..2} \cup {MCPlugin("ram_bool_v0", 6, j) : j \in 1..2} \cup
  {MCPlugin("ram_arith_v1", 1, 2), MCPlugin("ram_arith_v0", 1, 1), MCPlugin("other", 0, 0)}

MCConversion(o, i2) == [out |-> o, in |-> i2]

(* A circuit, alone or with the two streams of each field.                  *)
MCFull(ts) ==
  LET fields == SelectSeq(ts, LAMBDA t : t.variety = "field")
  IN  <<MCCircuit>> \o
      FlattenSeq([j \in DOMAIN fields |->
                    <<MCStream("public_in", fields[j]), MCStream("private_in", fields[j])>>])

MCConversions(ts) ==
  IF Len(ts) < 2 THEN {<<>>}
  ELSE {<<>>, <<MCConversion(1, 2), MCConversion(2, 1)>>, <<MCConversion(1, 3)>>}

MCPlugins ==
  {<<"ram_arith_v0", "ram_bool_v0">>, <<"ram_bool_v0", "iter_v0">>,
   <<"ram_arith_v0", "ram_arith_v1", "mux_v0", "mux_v0">>, <<"mux_v0", "unknown">>}

MCShort ==
  UNION {{MCScenario(<<MCCircuit>>, ts, ps, cs, fb) :
            ps \in MCPlugins, cs \in MCConversions(ts), fb \in BOOLEAN} \cup
         {MCScenario(MCFull(ts), ts, <<"mux_v0">>, cs, FALSE) : cs \in MCConversions(ts)} :
         ts \in BoundedSeq(MCTypes, 2)}

MCLongTypes ==
  {MCField("two"), MCField("medium"), MCPlugin("ram_arith_v0", 4, 1), MCPlugin("ram_bool_v0", 6, 1),
   MCPlugin("ram_arith_v0", 4, 2), MCPlugin("ram_bool_v0", 6, 3)}

MCLong ==
  {MCScenario(rs, ts, <<"ram_bool_v0", "ram_arith_v0", "iter_v0">>, cs, fb) :
     rs \in {<<MCCircuit>>, MCFull(<<MCField("two"), MCField("medium")>>)},
     ts \in [1..3 -> MCLongTypes], cs \in {<<>>, <<MCConversion(3, 1)>>}, fb \in BOOLEAN}

MCMany ==
  {MCScenario(<<MCCircuit>>, <<MCField("two"), MCField("small"), MCField("medium"), MCField("large")>>,
              <<"mux_v0">>, <<>>, FALSE)}

MCScenarios == MCOrganizer \cup MCShort \cup MCLong \cup MCMany
===============================================================================
