------------------------------ MODULE Firealarm -------------------------------
(***************************************************************************)
(* The program firealarm (firealarm/main.cpp): organizes the resources,    *)
(* loads the plugins, builds a backend for each type and a converter for   *)
(* each conversion, has the circuit parsed, during which functions ask the *)
(* plugins manager (plugins/Plugin.t.h) for operations, and asks the       *)
(* backends whether all is well. What evaluation does to the backends is   *)
(* left to the other modules; here it is any failure they can report.      *)
(***************************************************************************)
EXTENDS ParserOrganizer, Functions

CONSTANT TypeLimit   \* UINT8_MAX

RAMNames == {"ram_arith_v0", "ram_arith_v1", "ram_bool_v0"}

ASSUME FirealarmAssumption ==
  \A s \in Scenarios :
    /\ s.plugins \in Seq(STRING) /\ s.fallback \in BOOLEAN
    /\ s.conversions \in Seq([out : Nat \ {0}, in : Nat \ {0}])
    /\ \A j \in DOMAIN s.types :
         /\ s.types[j].variety = "field" => s.types[j].prime /= "none"
         /\ s.types[j].name \in RAMNames => s.types[j].index /= 0

VARIABLES
  fallback,     \* --fallback-ram
  loaded,       \* the plugins' implementations: pairs of a name and a wire
  refs,         \* manager.typeRefs: precision, type and the type of the wires
  counters,     \* the type of each counter
  given,        \* the backends the plugins have: name, wire and type
  converters,   \* the converters: types and the type whose counter they use
  created,      \* the operation that the plugins manager returned last
  failing       \* the types whose wires failed an assert, RAMs that failed an
                \* index and conversions that overflowed

setup == <<fallback, loaded, refs, counters, given, converters>>
vars == <<organizer, setup, created, failing>>

NoOperation == [name |-> "none", type |-> 0, wire |-> "none"]

(* ----- wires and plugins ------------------------------------------------ *)

Precisions == {"unlimited", "uint64", "uint8"}

(* The wire types of the manager's tuple.                                   *)
Plain == {<<"wire", pr>> : pr \in Precisions}
RAMBuffers == {<<"ram", pr>> : pr \in Precisions}
FallbackBuffers == {<<"fallback_ram", pr>> : pr \in Precisions}
FallbackBool == <<"fallback_bool_ram", "uint8">>

(* A mutant: Boolean RAMs over every precision.                             *)
ImplementationsAll(name) ==
  CASE name \in {"wizkit_vectors", "mux_v0", "extended_arithmetic_v1"} -> Plain
    [] name \in {"ram_arith_v0", "ram_arith_v1", "ram_bool_v0"} ->
         IF fallback THEN FallbackBuffers \cup {FallbackBool} ELSE RAMBuffers
    [] name = "iter_v0" -> Plain \cup RAMBuffers \cup FallbackBuffers \cup {FallbackBool}

(* A Boolean RAM of firealarm has the buffers of an arithmetic one.         *)
Implementations(name) ==
  CASE name \in {"wizkit_vectors", "mux_v0", "extended_arithmetic_v1"} -> Plain
    [] name \in {"ram_arith_v0", "ram_arith_v1"} ->
         IF fallback THEN FallbackBuffers ELSE RAMBuffers
    [] name = "ram_bool_v0" -> IF fallback THEN {FallbackBool} ELSE {<<"ram", "uint8">>}
    [] name = "iter_v0" -> Plain \cup RAMBuffers \cup FallbackBuffers \cup {FallbackBool}

KnownPlugins ==
  {"wizkit_vectors", "mux_v0", "extended_arithmetic_v1", "iter_v0"} \cup RAMNames

(* PluginsManager::addPlugin: a second implementation is ignored.           *)
addPlugin(name) == loaded' = loaded \cup ({name} \X Implementations(name))

LoadPlugin ==
  /\ At("plugins") /\ i <= Len(scenario.plugins)
  /\ IF scenario.plugins[i] \in KnownPlugins
     THEN addPlugin(scenario.plugins[i]) /\ i' = i + 1 /\ UNCHANGED <<stage, exit>>
     ELSE Exit("1") /\ UNCHANGED loaded
  /\ UNCHANGED <<scenario, circuit, used, streams, setting>>
  /\ UNCHANGED <<fallback, refs, counters, given, converters, created, failing>>

CheckTypes ==
  /\ At("plugins") /\ i = Len(scenario.plugins) + 1
  /\ IF Len(types) >= TypeLimit THEN Exit("1") ELSE Goto("types")
  /\ UNCHANGED <<scenario, circuit, used, streams, setting, setup, created, failing>>

(* ----- backends --------------------------------------------------------- *)

(* Products of two numbers below the prime fit the precision.               *)
PrecisionOf(prime) ==
  CASE prime \in {"two", "small"} -> "uint8" [] prime = "medium" -> "uint64"
    [] prime = "large" -> "unlimited"

(* PluginsManager::addBackend: to every plugin with an implementation for   *)
(* the wire, whatever the type is.                                          *)
addBackend(type, wire) ==
  given' = given \cup {<<name, wire, type>> : name \in {n \in KnownPlugins : <<n, wire>> \in loaded}}

Build(precision, wire, wireType) ==
  /\ refs' = Append(refs, [precision |-> precision, type |-> i, wireType |-> wireType])
  /\ counters' = Append(counters, i)
  /\ addBackend(i, wire)

Built == scenario.types[i]

BuildField ==
  /\ At("types") /\ i <= Len(types) /\ Built.variety = "field"
  /\ LET precision == PrecisionOf(Built.prime)
     IN  Build(precision, <<"wire", precision>>, i)
  /\ i' = i + 1
  /\ UNCHANGED <<scenario, stage, circuit, used, streams, setting, exit>>
  /\ UNCHANGED <<fallback, loaded, converters, created, failing>>

IsArithmetic(type) == type.name \in {"ram_arith_v0", "ram_arith_v1"}

(* checkRAMv0Type; the parameters of v1 are not looked at, and its index    *)
(* type is the first type.                                                  *)
ArithmeticAccepted == Built.name = "ram_arith_v0" => Built.parameters = 4

(* A mutant: the index counts from 1.                                       *)
IndexTypeOne == IF Built.name = "ram_arith_v1" THEN 1 ELSE Built.index + 1

IndexType == IF Built.name = "ram_arith_v1" THEN 1 ELSE Built.index

RAMWire(precision) == <<IF fallback THEN "fallback_ram" ELSE "ram", precision>>

(* A type after this one has no reference yet. Types count from 1 here.     *)
BuildArithmeticRAM ==
  /\ At("types") /\ i <= Len(types)
  /\ Built.variety = "plugin" /\ IsArithmetic(Built)
  /\ IF ArithmeticAccepted /\ IndexType \in DOMAIN refs /\ refs[IndexType].precision \in Precisions
     THEN LET wire == RAMWire(refs[IndexType].precision)
          IN  Build(wire[1], wire, IndexType) /\ i' = i + 1 /\ UNCHANGED <<stage, exit>>
     ELSE /\ Exit(IF ArithmeticAccepted /\ IndexType \notin DOMAIN refs THEN "undefined" ELSE "1")
          /\ UNCHANGED <<refs, counters, given>>
  /\ UNCHANGED <<scenario, circuit, used, streams, setting>>
  /\ UNCHANGED <<fallback, loaded, converters, created, failing>>

BoolAccepted == Built.parameters = 6

IsBoolean(type) == type.variety = "field" /\ type.prime = "two"

BoolWire == IF fallback THEN FallbackBool ELSE <<"ram", "uint8">>

(* The break that ends the case ends the loop over the types.               *)
BuildBooleanRAM ==
  /\ At("types") /\ i <= Len(types)
  /\ Built.variety = "plugin" /\ Built.name = "ram_bool_v0"
  /\ IF BoolAccepted /\ Built.index \in DOMAIN refs /\ IsBoolean(types[refs[Built.index].type])
     THEN Build(IF fallback THEN BoolWire[1] ELSE "bool_ram", BoolWire, Built.index) /\ Goto("converters")
     ELSE /\ Exit(IF BoolAccepted /\ Built.index \notin DOMAIN refs THEN "undefined" ELSE "1")
          /\ UNCHANGED <<refs, counters, given>>
  /\ UNCHANGED <<scenario, circuit, used, streams, setting>>
  /\ UNCHANGED <<fallback, loaded, converters, created, failing>>

RefuseType ==
  /\ At("types") /\ i <= Len(types)
  /\ Built.variety /= "field" /\ ~ IsArithmetic(Built) /\ Built.name /= "ram_bool_v0"
  /\ Exit("1")
  /\ UNCHANGED <<scenario, circuit, used, streams, setting, setup, created, failing>>

TypesBuilt ==
  /\ At("types") /\ i = Len(types) + 1 /\ Goto("converters")
  /\ UNCHANGED <<scenario, circuit, used, streams, setting, setup, created, failing>>

(* ----- converters ------------------------------------------------------- *)

Conversion == scenario.conversions[i]

(* A mutant: the counter is that of the input.                              *)
addConverterIn(spec) ==
  converters' = Append(converters, [out |-> spec.out, in |-> spec.in, counter |-> counters[spec.in]])

addConverter(spec) ==
  converters' = Append(converters, [out |-> spec.out, in |-> spec.in, counter |-> counters[spec.out]])

Convertible(k) == k \in DOMAIN refs /\ refs[k].precision \in Precisions

(* The output's precision is looked at first, then the input's; that of a   *)
(* type without a backend is read past the end.                             *)
BuildConverter ==
  /\ At("converters") /\ i <= Len(scenario.conversions)
  /\ IF Convertible(Conversion.out) /\ Convertible(Conversion.in)
     THEN addConverter(Conversion) /\ i' = i + 1 /\ UNCHANGED <<stage, exit>>
     ELSE LET refused == IF Convertible(Conversion.out) THEN Conversion.in ELSE Conversion.out
          IN  /\ Exit(IF refused \in DOMAIN refs THEN "1" ELSE "undefined")
              /\ UNCHANGED converters
  /\ UNCHANGED <<scenario, circuit, used, streams, setting>>
  /\ UNCHANGED <<fallback, loaded, refs, counters, given, created, failing>>

ConvertersBuilt ==
  /\ At("converters") /\ i = Len(scenario.conversions) + 1 /\ Goto("parse")
  /\ UNCHANGED <<scenario, circuit, used, streams, setting, setup, created, failing>>

(* ----- evaluation ------------------------------------------------------- *)

(* reverseTypeIdxs: the wire of each type that a plugin has a backend of.   *)
WiresOf(name, type) == {g[2] : g \in {h \in given : h[1] = name /\ h[3] = type}}

(* The first type of the inputs, else of the outputs, that the plugin has.  *)
DominantType(name, outs, ins) ==
  LET known(seq) == {k \in DOMAIN seq : WiresOf(name, seq[k]) /= {}}
  IN  IF known(ins) /= {} THEN ins[Min(known(ins))]
      ELSE IF known(outs) /= {} THEN outs[Min(known(outs))]
      ELSE 0

(* PluginsManager::create, for a function with a binding to a plugin.       *)
Create ==
  /\ At("parse")
  /\ \E name \in {scenario.plugins[k] : k \in DOMAIN scenario.plugins} :
     \E out, in, in2 \in DOMAIN types :
       LET type == DominantType(name, <<out>>, <<in, in2>>)
       IN  created' = IF type = 0 THEN NoOperation
                      ELSE [name |-> name, type |-> type, wire |-> CHOOSE w \in WiresOf(name, type) : TRUE]
  /\ UNCHANGED <<organizer, setup, failing>>

(* What evaluation can report, one thing at most: an assert of a field,     *)
(* which other settings than the prover's suppress, an index beyond one of  *)
(* firealarm's RAMs, never suppressed, and an overflow without modulus.     *)
suppress_asserts == setting /= "prover"

CanFail ==
  {<<"field", k>> : k \in {k \in DOMAIN refs : refs[k].precision \in Precisions /\ ~ suppress_asserts}}
  \cup {<<"ram", k>> : k \in {k \in DOMAIN refs : refs[k].precision \in {"ram", "bool_ram"}}}
  \cup {<<"converter", k>> : k \in DOMAIN converters}

Parse ==
  /\ At("parse")
  /\ \E parsed \in BOOLEAN, failures \in {{}} \cup {{f} : f \in CanFail} :
       /\ failing' = failures
       /\ IF parsed THEN Goto("report") ELSE Exit("1")
  /\ created' = NoOperation
  /\ UNCHANGED <<scenario, circuit, used, streams, setting, setup>>

(* The backends are asked; the converters are not.                          *)
Wins == \A f \in failing : f[1] = "converter"

Report ==
  /\ At("report") /\ Exit(IF Wins THEN "0" ELSE "1")
  /\ UNCHANGED <<scenario, circuit, used, streams, setting, setup, created, failing>>

-------------------------------------------------------------------------------
Init ==
  /\ OrganizerInit
  /\ fallback = scenario.fallback
  /\ loaded = {} /\ refs = <<>> /\ counters = <<>> /\ given = {} /\ converters = <<>>
  /\ created = NoOperation /\ failing = {}

Organize == OrganizerNext("plugins") /\ UNCHANGED <<setup, created, failing>>

Steps ==
  \/ Organize
  \/ LoadPlugin \/ CheckTypes
  \/ BuildField \/ BuildArithmeticRAM \/ BuildBooleanRAM \/ RefuseType \/ TypesBuilt
  \/ BuildConverter \/ ConvertersBuilt
  \/ Parse \/ Report

Next == Steps \/ Create

Spec == Init /\ [][Next]_vars

-------------------------------------------------------------------------------
TypeOK ==
  /\ setting \in Settings
  /\ exit \in {"running", "0", "1", "assert", "undefined"}
  /\ stage = "exit" <=> exit /= "running"
  /\ circuit \in 0..Len(resources) /\ used \subseteq DOMAIN resources
  /\ Len(refs) = Len(counters) /\ Len(refs) <= Len(types)
  /\ \A g \in given : <<g[1], g[2]>> \in loaded /\ g[3] \in DOMAIN refs

Organized == stage \in {"plugins", "types", "converters", "parse", "report"} \/ exit = "0"
Ready == stage \in {"converters", "parse", "report"} \/ exit = "0"

(* organize(): every input stream serves exactly one type, which is the     *)
(* stream's, as what it is; and nothing is left over.                       *)
StreamsPlaced ==
  Organized =>
    \A k \in DOMAIN resources \ {circuit} :
      \E j \in DOMAIN types :
        /\ SameType(types[j], resources[k].type) /\ streams[j][resources[k].kind] = k
        /\ \A l \in DOMAIN types \ {j} : k \notin {streams[l].public_in, streams[l].private_in}

(* A prover has both streams of every field when evaluation starts, and a   *)
(* verifier the public ones, although the search for the setting looks at   *)
(* the first field only and plugin types have no streams.                   *)
StreamsSuffice ==
  Ready =>
    \A j \in DOMAIN types :
      types[j].variety = "field" =>
        /\ setting \in {"prover", "verifier"} => Public(j)
        /\ setting = "prover" => Private(j)

(* Backends, counters and interpreters are those of the type at the same    *)
(* index, wires of a RAM are those of a field built before it, and every    *)
(* type has one unless a Boolean RAM comes before it; converters count the  *)
(* wires of their output's type.                                            *)
BackendsMatch ==
  Ready =>
    /\ \A k \in DOMAIN refs :
         /\ refs[k].type = k /\ counters[k] = k
         /\ types[refs[k].wireType].variety = "field" /\ refs[k].wireType <= k
    /\ \A c \in Range(converters) : c.counter = c.out
    /\ Len(refs) < Len(types) => types[Len(refs)].name = "ram_bool_v0"

(* A plugin with a RAM's operations has only backends of its own types;     *)
(* except that v0 and v1 of the arithmetic RAM have each other's, and that  *)
(* firealarm's arithmetic and Boolean RAMs have each other's of eight bits, *)
(* where the backend is then taken for one of the other class.              *)
BackendsGiven ==
  \A g \in given :
    types[g[3]].variety = "plugin" =>
      \/ g[1] \in {types[g[3]].name, "iter_v0"}
      \/ IsArithmetic(types[g[3]]) /\ g[1] \in {"ram_arith_v0", "ram_arith_v1"}
      \/ g[2] = <<"ram", "uint8">> /\ ~ fallback

(* An operation comes from the plugin that was asked, made for the wires of *)
(* a type of the function's signature.                                      *)
CreatedFits ==
  created /= NoOperation =>
    /\ created.type \in DOMAIN refs
    /\ <<created.name, created.wire>> \in loaded
    /\ refs[created.type].precision \in Precisions =>
         created.wire = <<"wire", refs[created.type].precision>>

(* Memory past the end of the types that are built is read only for a RAM   *)
(* over a type declared after it (v1: as the first type), or for the        *)
(* conversion of a type that follows a Boolean RAM or is never declared;    *)
(* and the program stops at an assert only when a circuit declares a type   *)
(* twice.                                                                   *)
UndefinedOnly ==
  /\ exit = "undefined" =>
       \/ \E j \in DOMAIN types : types[j].index >= j \/ (types[j].name = "ram_arith_v1" /\ j = 1)
       \/ \E j \in DOMAIN types : types[j].name = "ram_bool_v0" /\ j < Len(types)
       \/ \E c \in Range(scenario.conversions) : ~ {c.out, c.in} \subseteq DOMAIN types
  /\ exit = "assert" =>
       \E j, k \in DOMAIN types : j /= k /\ SameType(types[j], types[k])

(* Converter.h: when a conversion without modulus overflows, check() "at    *)
(* the end of the proof" returns false; such a proof does not succeed.      *)
(* The code does not keep it: see "Stated, and false" in the README.        *)
ConversionsChecked == exit = "0" /\ setting = "prover" => failing = {}

(* main.cpp: a backend for each type indicated by the relation's header.    *)
(* The code does not keep it: see "Stated, and false" in the README.        *)
BackendsComplete == Ready => Len(refs) = Len(types)

(* ParserOrganizer.h: preprocess is without access to public or private     *)
(* inputs, a verifier without access to private ones.                       *)
(* The code does not keep it: see "Stated, and false" in the README.        *)
SettingMeant ==
  Organized =>
    \A j \in DOMAIN types :
      /\ setting = "preprocess" => ~ Public(j) /\ ~ Private(j)
      /\ setting = "verifier" => ~ Private(j)
===============================================================================
