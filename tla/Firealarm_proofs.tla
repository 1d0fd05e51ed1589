--------------------------- MODULE Firealarm_proofs ---------------------------
(***************************************************************************)
(* Proofs about Firealarm, for every set of scenarios: resources of any    *)
(* number and kind, circuits with any types and conversions, any plugins.  *)
(* The organizer's invariant says what is settled at each stage (streams   *)
(* are placed once, every field before the loop's index has its streams);  *)
(* the program's says which backends exist while the types are built.      *)
(***************************************************************************)
EXTENDS Firealarm, SequenceTheorems, FiniteSetTheorems, WellFoundedInduction, TLAPS

(* The least number of a nonempty set of naturals is the one Min chooses.   *)
LEMMA MinIsLeast ==
  ASSUME NEW S \in SUBSET Nat, S # {}
  PROVE  Min(S) \in S /\ \A n \in S : Min(S) <= n
<1> DEFINE R == {ss \in Nat \X Nat : ss[1] < ss[2]}
<1>1. IsWellFoundedOn(R, Nat)
  BY NatLessThanWellFounded DEF OpToRel
<1> HIDE DEF R
<1>2. PICK m \in S : \A n \in S : ~ (<<n, m>> \in R)
  BY <1>1, WFMin, Zenon
<1>3. \A n \in S : m <= n
  <2> TAKE n \in S
  <2>1. ~ (<<n, m>> \in R)
    BY <1>2
  <2>. QED  BY <2>1 DEF R
<1>. QED  BY <1>3 DEF Min

-------------------------------------------------------------------------------
(* ----- the organizer ---------------------------------------------------- *)

Sides == {"public_in", "private_in"}

Stages ==
  {"open", "circuit", "streams", "check", "used", "plugins", "types", "converters"} \cup
  {"parse", "report", "exit"}

(* Shapes of the organizer's variables, and what an exit is.                *)
OrganizerShape ==
  /\ scenario \in Scenarios
  /\ stage \in Stages /\ i \in Nat \ {0}
  /\ circuit \in 0..Len(resources) /\ used \subseteq DOMAIN resources
  /\ streams \in [DOMAIN types -> [public_in : Nat, private_in : Nat]]
  /\ setting \in Settings
  /\ exit \in {"running", "0", "1", "assert", "undefined"}
  /\ stage = "exit" <=> exit /= "running"

(* A stream that was given to a type is one of its kind and of that type,   *)
(* was met before, and was given to no other.                               *)
Placed ==
  /\ \A j \in DOMAIN types : \A side \in Sides :
       streams[j][side] /= 0 =>
         /\ streams[j][side] \in DOMAIN resources
         /\ resources[streams[j][side]].kind = side
         /\ SameType(types[j], resources[streams[j][side]].type)
  /\ \A j, l \in DOMAIN types : \A side, other \in Sides :
       streams[j][side] /= 0 /\ streams[j][side] = streams[l][other] => j = l

Met ==
  /\ stage \in {"open", "circuit"} =>
       \A j \in DOMAIN types : \A side \in Sides : streams[j][side] = 0
  /\ stage = "streams" =>
       \A j \in DOMAIN types : \A side \in Sides : streams[j][side] < i

(* A resource is used as the circuit or as a type's stream.                 *)
UsedPlaced ==
  \/ stage \in {"open", "circuit"} /\ used = {}
  \/ \A k \in used :
       k = circuit \/ \E j \in DOMAIN types : \E side \in Sides : streams[j][side] = k

Enough(j) ==
  /\ setting \in {"prover", "verifier"} => Public(j)
  /\ setting = "prover" => Private(j)

(* The loops that look for the setting and check it have left behind no     *)
(* field without its streams.                                               *)
Checked ==
  /\ stage = "check" => \A j \in DOMAIN types : j < i /\ types[j].variety = "field" => Enough(j)
  /\ stage = "used" \/ Organized =>
       \A j \in DOMAIN types : types[j].variety = "field" => Enough(j)

AllUsed == Organized => used = DOMAIN resources

(* The program stops at an assert at the second of two equal types.         *)
Asserted ==
  exit = "assert" => \E j, k \in DOMAIN types : j /= k /\ SameType(types[j], types[k])

OInv ==
  OrganizerShape /\ Placed /\ Met /\ UsedPlaced /\ Checked /\ AllUsed /\ Asserted

LEMMA ScenarioShape ==
  ASSUME NEW s \in Scenarios
  PROVE  /\ Len(s.resources) \in Nat /\ DOMAIN s.resources = 1..Len(s.resources)
         /\ Len(s.types) \in Nat /\ DOMAIN s.types = 1..Len(s.types)
         /\ \A j \in DOMAIN s.types : s.types[j] \in TypeSpec
         /\ \A k \in DOMAIN s.resources :
              s.resources[k] \in [kind : Kinds, type : TypeSpec, fault : Faults]
<1>1. /\ s.resources \in Seq([kind : Kinds, type : TypeSpec, fault : Faults])
      /\ s.types \in Seq(TypeSpec)
  BY ScenariosAssumption DEF ScenariosAssumption
<1>2. \A T : \A q \in Seq(T) : Len(q) \in Nat /\ DOMAIN q = 1..Len(q) /\ \A k \in DOMAIN q : q[k] \in T
  OBVIOUS
<1>. QED
  BY <1>1, <1>2, Zenon

LEMMA OrganizerStarts == OrganizerInit => OInv
<1>. SUFFICES ASSUME OrganizerInit PROVE OInv
  OBVIOUS
<1>1. scenario \in Scenarios
  BY DEF OrganizerInit
<1>2. OrganizerShape
  BY <1>1, ScenarioShape DEF OrganizerInit, OrganizerShape, Stages, Settings, resources, types
<1>3. Placed /\ Met /\ UsedPlaced /\ Checked /\ AllUsed /\ Asserted
  BY DEF OrganizerInit, Placed, Met, UsedPlaced, Checked, AllUsed, Asserted, Organized, types, Sides
<1>. QED
  BY <1>2, <1>3 DEF OInv

(* Steps that leave the streams alone.                                      *)
LEMMA OpenStep == OInv /\ Open => OInv'
<1>. SUFFICES ASSUME OInv, Open PROVE OInv'
  OBVIOUS
<1> USE DEF OInv, Open
<1>1. stage = "open" /\ exit = "running" /\ UNCHANGED <<scenario, circuit, used, streams, setting>>
  BY DEF At, OrganizerShape
<1>2. \/ stage' = "circuit" /\ i' = 1 /\ exit' = exit
      \/ stage' = "exit" /\ exit' = "1" /\ i' = i
  BY DEF Goto, Exit
<1>3. OrganizerShape'
  BY <1>1, <1>2 DEF OrganizerShape, Stages, resources, types
<1>4. Placed' /\ Met'
  BY <1>1, <1>2 DEF Placed, Met, resources, types
<1>5. UsedPlaced' /\ Checked' /\ AllUsed' /\ Asserted'
  BY <1>1, <1>2 DEF UsedPlaced, Checked, AllUsed, Asserted, Organized, types
<1>. QED
  BY <1>3, <1>4, <1>5

LEMMA FindCircuitStep == OInv /\ FindCircuit => OInv'
<1>. SUFFICES ASSUME OInv, FindCircuit PROVE OInv'
  OBVIOUS
<1> USE DEF OInv
<1>1. stage = "circuit" /\ exit = "running" /\ UNCHANGED <<scenario, streams, setting>>
  BY DEF At, OrganizerShape, FindCircuit
<1>2. \/ /\ stage' = "streams" /\ i' = 1 /\ exit' = exit
         /\ circuit' \in DOMAIN resources
         /\ used' \subseteq DOMAIN resources /\ \A k \in used' : k = circuit'
      \/ /\ stage' = "exit" /\ exit' = "1" /\ i' = i /\ UNCHANGED <<circuit, used>>
  <2> DEFINE circuits == {k \in DOMAIN resources : resources[k].kind = "circuit"}
  <2>1. CASE Cardinality(circuits) = 1 /\ UNCHANGED exit
    <3>1. IsFiniteSet(circuits)
      <4>1. circuits \subseteq 1..Len(resources) /\ Len(resources) \in Nat
        BY ScenarioShape DEF OrganizerShape, resources
      <4>. QED
        BY <4>1, FS_Interval, FS_Subset
    <3>2. PICK c : circuits = {c}
      BY <2>1, <3>1, FS_Singleton, Zenon
    <3>. QED
      BY <2>1, <3>2 DEF FindCircuit, Goto, Exit
  <2>2. CASE ~ (Cardinality(circuits) = 1 /\ UNCHANGED exit)
    BY <2>2 DEF FindCircuit, Goto, Exit
  <2>. QED
    BY <2>1, <2>2
<1>3. DOMAIN resources = 1..Len(resources) /\ Len(resources) \in Nat
  BY ScenarioShape DEF OrganizerShape, resources
<1>4. OrganizerShape'
  BY <1>1, <1>2, <1>3 DEF OrganizerShape, Stages, resources, types
<1>5. Placed' /\ Met'
  BY <1>1, <1>2 DEF Placed, Met, resources, types
<1>6. UsedPlaced' /\ Checked' /\ AllUsed' /\ Asserted'
  BY <1>1, <1>2 DEF UsedPlaced, Checked, AllUsed, Asserted, Organized, types
<1>. QED
  BY <1>4, <1>5, <1>6

(* A stream goes to the first type that is its own, and if there is a       *)
(* second one the program ends.                                             *)
LEMMA MatchStreamStep == OInv /\ MatchStream => OInv'
<1>. SUFFICES ASSUME OInv, MatchStream PROVE OInv'
  OBVIOUS
<1> USE DEF OInv
<1> DEFINE side == resources[i].kind
           equal == {j \in DOMAIN types : SameType(types[j], resources[i].type)}
           first == Min(equal)
           second == Min(equal \ {first})
<1>1. /\ stage = "streams" /\ exit = "running" /\ i \in DOMAIN resources
      /\ UNCHANGED <<scenario, circuit, setting>>
  BY ScenarioShape DEF At, OrganizerShape, MatchStream, resources
<1>2. DOMAIN types = 1..Len(types) /\ Len(types) \in Nat
  BY ScenarioShape DEF OrganizerShape, types
<1>3. CASE UNCHANGED <<used, streams>> /\ ((i' = i + 1 /\ UNCHANGED <<stage, exit>>) \/ Exit("1"))
  <2>1. OrganizerShape'
    BY <1>1, <1>3 DEF OrganizerShape, Stages, resources, types, Exit
  <2>2. streams \in [DOMAIN types -> [public_in : Nat, private_in : Nat]] /\ i \in Nat
    BY DEF OrganizerShape
  <2>3. Placed' /\ Met'
    BY <1>1, <1>3, <2>2 DEF Placed, Met, resources, types, Exit, Sides
  <2>4. UsedPlaced' /\ Checked' /\ AllUsed' /\ Asserted'
    BY <1>1, <1>3 DEF UsedPlaced, Checked, AllUsed, Asserted, Organized, types, Exit
  <2>. QED
    BY <2>1, <2>3, <2>4
<1>4. CASE /\ side \in Sides /\ equal # {} /\ ~ Taken(first, side)
           /\ streams' = [streams EXCEPT ![first][side] = i]
           /\ used' = used \cup {i}
           /\ \/ equal = {first} /\ i' = i + 1 /\ UNCHANGED <<stage, exit>>
              \/ equal # {first} /\ Exit(IF Taken(second, side) THEN "1" ELSE "assert")
  <2>1. first \in DOMAIN types /\ SameType(types[first], resources[i].type)
    <3>1. equal \subseteq Nat
      BY <1>2
    <3>. QED
      BY <1>4, <3>1, MinIsLeast, Zenon
  <2>2. /\ \A j \in DOMAIN types : \A s \in Sides :
             streams'[j][s] = IF j = first /\ s = side THEN i ELSE streams[j][s]
        /\ streams' \in [DOMAIN types -> [public_in : Nat, private_in : Nat]]
    BY <1>4, <2>1 DEF OrganizerShape, Sides
  <2>3. /\ stage' \in {"streams", "exit"} /\ exit' \in {"running", "1", "assert"}
        /\ stage' = "exit" <=> exit' /= "running"
        /\ i' \in {i, i + 1} /\ (stage' = "streams" => i' = i + 1)
    BY <1>1, <1>4 DEF Exit
  <2>4. OrganizerShape'
    <3> HIDE DEF side, equal, first, second
    <3>1. resources' = resources /\ types' = types
      BY <1>1 DEF resources, types
    <3>2. i \in Nat \ {0} /\ i' \in Nat \ {0} /\ used' \subseteq DOMAIN resources
      BY <1>1, <1>4, <2>3 DEF OrganizerShape
    <3>3. stage' \in Stages /\ exit' \in {"running", "0", "1", "assert", "undefined"}
      BY <2>3 DEF Stages
    <3>. QED
      BY <1>1, <2>2, <2>3, <3>1, <3>2, <3>3 DEF OrganizerShape
  <2>5. i \in Nat /\ \A j \in DOMAIN types : \A s \in Sides : streams[j][s] \in Nat /\ streams[j][s] < i
    BY <1>1 DEF OrganizerShape, Met, Sides
  <2>6. Placed'
    <3>1. \A j \in DOMAIN types : \A s \in Sides :
            streams'[j][s] /= 0 =>
              /\ streams'[j][s] \in DOMAIN resources
              /\ resources[streams'[j][s]].kind = s
              /\ SameType(types[j], resources[streams'[j][s]].type)
      BY <1>1, <2>1, <2>2 DEF Placed
    <3>2. \A j, l \in DOMAIN types : \A s, other \in Sides :
            streams'[j][s] /= 0 /\ streams'[j][s] = streams'[l][other] => j = l
      <4>1. TAKE j, l \in DOMAIN types
      <4>2. TAKE s, other \in Sides
      <4> HIDE DEF side, equal, first, second
      <4>3. \A a \in DOMAIN types : \A t \in Sides : streams'[a][t] = i => a = first
        BY <2>2, <2>5
      <4>4. streams'[j][s] /= i => streams'[j][s] = streams[j][s]
        BY <2>2
      <4>5. streams'[l][other] /= i => streams'[l][other] = streams[l][other]
        BY <2>2
      <4>. QED
        BY <4>3, <4>4, <4>5 DEF Placed
    <3>. QED
      BY <1>1, <3>1, <3>2 DEF Placed, types, resources
  <2>7. Met'
    <3> HIDE DEF side, equal, first, second
    <3>1. \A j \in DOMAIN types : \A s \in Sides : streams'[j][s] < i + 1
      BY <2>2, <2>5
    <3>2. types' = types
      BY <1>1 DEF types
    <3>3. CASE stage' = "streams"
      BY <2>3, <3>1, <3>2, <3>3 DEF Met
    <3>4. CASE stage' = "exit"
      BY <3>4 DEF Met
    <3>. QED
      BY <2>3, <3>3, <3>4
  <2>8. UsedPlaced'
    <3>1. \A k \in used : k = circuit \/ \E j \in DOMAIN types : \E s \in Sides : streams[j][s] = k
      BY <1>1 DEF UsedPlaced
    <3>2. \A k \in used : k = circuit \/ \E j \in DOMAIN types : \E s \in Sides : streams'[j][s] = k
      <4>1. TAKE k \in used
      <4>2. CASE k = circuit
        BY <4>2
      <4>3. CASE k /= circuit
        <5>1. PICK j \in DOMAIN types, s \in Sides : streams[j][s] = k
          BY <3>1, <4>3
        <5>2. ~ (j = first /\ s = side)
          <6>1. SUFFICES ASSUME j = first, s = side PROVE FALSE
            OBVIOUS
          <6>2. k = 0
            BY <1>4, <5>1, <6>1 DEF Taken
          <6>. QED
            BY <1>1, <4>1, <6>2, ScenarioShape DEF OrganizerShape, resources
        <5>. QED
          BY <2>2, <5>1, <5>2
      <4>. QED
        BY <4>2, <4>3
    <3>3. \E j \in DOMAIN types : \E s \in Sides : streams'[j][s] = i
      BY <1>4, <2>1, <2>2
    <3>. QED
      BY <1>1, <1>4, <3>2, <3>3 DEF UsedPlaced, types
  <2>9. Checked' /\ AllUsed'
    BY <1>1, <1>4, <2>3 DEF Checked, AllUsed, Organized
  <2>10. Asserted'
    <3>1. CASE exit' = "assert"
      <4>1. equal # {first}
        BY <1>1, <1>4, <3>1
      <4>2. PICK other \in equal : other # first
        BY <1>4, <4>1
      <4>3. SameType(types[first], types[other])
        BY <2>1, <4>2 DEF SameType
      <4>. QED
        BY <1>1, <2>1, <4>2, <4>3 DEF Asserted, types
    <3>2. CASE exit' /= "assert"
      BY <3>2 DEF Asserted
    <3>. QED
      BY <3>1, <3>2
  <2>. QED
    BY <2>4, <2>6, <2>7, <2>8, <2>9, <2>10
<1>5. QED
  <2>1. side \in {"public_in", "private_in"} => side \in Sides
    BY DEF Sides
  <2>. QED
    BY <1>3, <1>4, <2>1 DEF MatchStream

(* The types before the deciding one are no fields.                         *)
LEMMA DecideSettingStep == OInv /\ DecideSetting => OInv'
<1>. SUFFICES ASSUME OInv, DecideSetting PROVE OInv'
  OBVIOUS
<1> USE DEF OInv
<1>1. /\ stage = "streams" /\ exit = "running"
      /\ UNCHANGED <<scenario, circuit, used, streams>>
  BY DEF At, OrganizerShape, DecideSetting
<1>2. DOMAIN types = 1..Len(types) /\ Len(types) \in Nat
  BY ScenarioShape DEF OrganizerShape, types
<1>3. \/ stage' = "exit" /\ exit' = "1" /\ i' = i /\ setting' = setting
      \/ /\ stage' = "check" /\ exit' = exit /\ i' \in Nat \ {0} /\ setting' \in Settings
         /\ \A j \in DOMAIN types : j < i' => types[j].variety /= "field"
  <2>1. CASE Deciding = {}
    BY <1>2, <2>1 DEF DecideSetting, Deciding, Decides, Settings
  <2>2. CASE Deciding # {}
    <3> DEFINE least == Min(Deciding)
    <3>1. least \in Deciding /\ \A j \in Deciding : least <= j
      <4>1. Deciding \subseteq Nat
        BY <1>2 DEF Deciding
      <4>. QED
        BY <2>2, <4>1, MinIsLeast, Zenon
    <3>2. \/ Exit("1") /\ UNCHANGED setting
          \/ /\ setting' \in {"preprocess", "prover", "verifier"}
             /\ stage' = "check" /\ i' = least /\ UNCHANGED exit
      BY <2>2 DEF DecideSetting
    <3>3. \A j \in DOMAIN types : types[j].variety = "field" => j \in Deciding
      BY DEF Deciding, Decides
    <3>4. least \in Nat \ {0}
      BY <1>2, <3>1 DEF Deciding
    <3> HIDE DEF least
    <3>5. \A j \in DOMAIN types : j < least => types[j].variety /= "field"
      BY <1>2, <3>1, <3>3, <3>4
    <3>. QED
      BY <3>2, <3>4, <3>5 DEF Exit, Settings
  <2>. QED
    BY <2>1, <2>2
<1>4. OrganizerShape'
  BY <1>1, <1>3 DEF OrganizerShape, Stages, resources, types
<1>5. Placed' /\ Met'
  BY <1>1, <1>3 DEF Placed, Met, resources, types
<1>6. UsedPlaced' /\ AllUsed' /\ Asserted'
  BY <1>1, <1>3 DEF UsedPlaced, AllUsed, Asserted, Organized, types
<1>7. Checked'
  BY <1>1, <1>3 DEF Checked, Organized, types
<1>. QED
  BY <1>4, <1>5, <1>6, <1>7

LEMMA CheckStreamsStep == OInv /\ CheckStreams => OInv'
<1>. SUFFICES ASSUME OInv, CheckStreams PROVE OInv'
  OBVIOUS
<1> USE DEF OInv
<1>1. /\ stage = "check" /\ exit = "running"
      /\ UNCHANGED <<scenario, circuit, used, streams, setting>>
  BY DEF At, OrganizerShape, CheckStreams
<1>2. DOMAIN types = 1..Len(types) /\ Len(types) \in Nat /\ i \in Nat
  BY ScenarioShape DEF OrganizerShape, types
<1>3. \/ stage' = "exit" /\ exit' = "1" /\ i' = i
      \/ /\ stage' = "used" /\ exit' = exit /\ i' = 1
         /\ \A j \in DOMAIN types : i <= j => ~ MissingPublic(j) /\ ~ MissingPrivate(j)
  BY <1>2 DEF CheckStreams, Exit, Goto
<1>4. OrganizerShape'
  BY <1>1, <1>3 DEF OrganizerShape, Stages, resources, types
<1>5. Placed' /\ Met'
  BY <1>1, <1>3 DEF Placed, Met, resources, types
<1>6. UsedPlaced' /\ AllUsed' /\ Asserted'
  BY <1>1, <1>3 DEF UsedPlaced, AllUsed, Asserted, Organized, types
<1>7. Checked'
  <2>1. CASE stage' = "used"
    <3>1. ASSUME NEW j \in DOMAIN types, types[j].variety = "field" PROVE Enough(j)
      <4>1. CASE j < i
        BY <1>1, <3>1, <4>1 DEF Checked
      <4>2. CASE i <= j
        BY <1>3, <2>1, <3>1, <4>2 DEF MissingPublic, MissingPrivate, Enough
      <4>. QED
        BY <1>2, <4>1, <4>2
    <3>2. types' = types /\ \A j : Enough(j)' = Enough(j)
      BY <1>1 DEF types, Enough, Public, Private
    <3>. QED
      BY <1>3, <2>1, <3>1, <3>2 DEF Checked, Organized, Enough, Public, Private, types
  <2>2. CASE stage' = "exit"
    BY <1>3, <2>2 DEF Checked, Organized
  <2>. QED
    BY <1>3, <2>1, <2>2
<1>. QED
  BY <1>4, <1>5, <1>6, <1>7

(* From here on the organizer's results stay what they are.                 *)
Later == {"plugins", "types", "converters", "parse", "report"}

LEMMA LaterStep ==
  ASSUME OInv, UNCHANGED <<scenario, circuit, used, streams, setting>>,
         \/ stage \in Later
         \/ stage = "used" /\ (stage' \in Later => used = DOMAIN resources),
         stage' \in Later \cup {"exit"}, i' \in Nat \ {0},
         exit' \in {"running", "0", "1", "undefined"},
         stage' = "exit" <=> exit' /= "running",
         exit' = "0" => stage = "report"
  PROVE  OInv'
<1> USE DEF OInv
<1>1. OrganizerShape'
  BY DEF OrganizerShape, Stages, Later, resources, types
<1>2. Placed' /\ Met'
  BY DEF Placed, Met, resources, types, Later
<1>3. UsedPlaced'
  BY DEF UsedPlaced, types, Later
<1>4. Checked' /\ AllUsed' /\ Asserted'
  BY DEF Checked, AllUsed, Asserted, Organized, types, resources, Later, Enough, Public, Private
<1>. QED
  BY <1>1, <1>2, <1>3, <1>4

-------------------------------------------------------------------------------
(* ----- plugins, backends and converters --------------------------------- *)

RefPrecisions == Precisions \cup {"ram", "bool_ram", "fallback_ram", "fallback_bool_ram"}

Ref == [precision : RefPrecisions, type : Nat, wireType : Nat]

ProgramShape ==
  /\ fallback \in BOOLEAN
  /\ refs \in Seq(Ref) /\ counters \in Seq(Nat)
  /\ Len(counters) = Len(refs) /\ Len(refs) <= Len(types)

LoadedFit ==
  \A p \in loaded : \E name \in KnownPlugins : \E wire \in Implementations(name) : p = <<name, wire>>

(* While the types are built there is a backend for each one before the     *)
(* index; afterwards for each up to a Boolean RAM.                          *)
Building ==
  /\ stage \in Stages \ {"types", "converters", "parse", "report", "exit"} => refs = <<>>
  /\ stage = "types" => i = Len(refs) + 1
  /\ Ready => Len(refs) = Len(types) \/ (Len(refs) \in DOMAIN types /\ types[Len(refs)].name = "ram_bool_v0")

RefsFit ==
  \A k \in DOMAIN refs :
    /\ refs[k].type = k /\ counters[k] = k
    /\ refs[k].wireType \in 1..k /\ types[refs[k].wireType].variety = "field"
    /\ refs[k].precision \in Precisions => types[k].variety = "field"

(* The wires of a RAM's backend are RAM buffers of its precision.           *)
RAMFits(type, wire) ==
  types[type].variety = "plugin" =>
    \/ IsArithmetic(types[type]) /\ \E pr \in Precisions : wire = RAMWire(pr)
    \/ types[type].name = "ram_bool_v0" /\ wire = BoolWire

GivenFit ==
  \A g \in given :
    /\ <<g[1], g[2]>> \in loaded /\ g[3] \in DOMAIN refs
    /\ refs[g[3]].precision \in Precisions => g[2] = <<"wire", refs[g[3]].precision>>
    /\ RAMFits(g[3], g[2])

ConvertersFit == \A k \in DOMAIN converters : converters[k].counter = converters[k].out

ConverterShape == converters \in Seq([out : Nat, in : Nat, counter : Nat])

UndefinedFit ==
  exit = "undefined" =>
    \/ \E j \in DOMAIN types : types[j].index >= j \/ (types[j].name = "ram_arith_v1" /\ j = 1)
    \/ \E j \in DOMAIN types : types[j].name = "ram_bool_v0" /\ j < Len(types)
    \/ \E c \in Range(scenario.conversions) : ~ {c.out, c.in} \subseteq DOMAIN types

Backends == ProgramShape /\ RefsFit /\ GivenFit

PInv ==
  /\ Backends /\ LoadedFit /\ Building
  /\ ConverterShape /\ ConvertersFit /\ UndefinedFit /\ CreatedFits

IInv == OInv /\ PInv

LEMMA StartsFit == Init => PInv
<1>. SUFFICES ASSUME Init PROVE PInv
  OBVIOUS
<1>1. scenario \in Scenarios /\ stage = "open" /\ exit = "running"
  BY DEF Init, OrganizerInit
<1>2. refs = <<>> /\ counters = <<>> /\ converters = <<>> /\ loaded = {} /\ given = {}
  BY DEF Init
<1>3. fallback \in BOOLEAN
  BY <1>1, FirealarmAssumption DEF Init, FirealarmAssumption
<1>4. Len(types) \in Nat
  BY <1>1, ScenarioShape DEF types
<1>5. Backends
  BY <1>2, <1>3, <1>4 DEF Backends, ProgramShape, RefsFit, GivenFit
<1>6. LoadedFit /\ Building /\ ConverterShape /\ ConvertersFit
  BY <1>1, <1>2 DEF LoadedFit, Building, Ready, ConverterShape, ConvertersFit
<1>7. UndefinedFit /\ CreatedFits
  BY <1>1 DEF UndefinedFit, CreatedFits, Init
<1>. QED
  BY <1>5, <1>6, <1>7 DEF PInv

(* The part of the invariant about backends depends on few variables.       *)
LEMMA BackendsKept ==
  ASSUME Backends, UNCHANGED <<scenario, fallback, refs, counters, given>>, loaded \subseteq loaded'
  PROVE  Backends'
<1>1. ProgramShape'
  BY DEF Backends, ProgramShape, types
<1>2. RefsFit'
  BY DEF Backends, RefsFit, types
<1>3. GivenFit'
  BY DEF Backends, GivenFit, RAMFits, types, RAMWire, BoolWire
<1>. QED
  BY <1>1, <1>2, <1>3 DEF Backends

(* A new backend is for the type at the end of refs.                        *)
LEMMA BuildFits ==
  ASSUME Backends, scenario \in Scenarios, stage = "types", i \in DOMAIN types, i = Len(refs) + 1,
         NEW precision \in RefPrecisions, NEW wire, NEW wireType \in 1..i,
         types[wireType].variety = "field",
         precision \in Precisions => Built.variety = "field" /\ wire = <<"wire", precision>>,
         RAMFits(i, wire),
         Build(precision, wire, wireType),
         UNCHANGED <<scenario, fallback, loaded>>
  PROVE  Backends' /\ Len(refs') = i
<1> DEFINE new == [precision |-> precision, type |-> i, wireType |-> wireType]
<1>1. refs' = Append(refs, new) /\ counters' = Append(counters, i)
  BY DEF Build
<1>2. refs \in Seq(Ref) /\ counters \in Seq(Nat) /\ Len(counters) = Len(refs) /\ Len(refs) \in Nat
  BY DEF Backends, ProgramShape
<1>3. Len(types) \in Nat /\ DOMAIN types = 1..Len(types) /\ types' = types
  BY ScenarioShape DEF types
<1>4. new \in Ref /\ i \in Nat
  BY <1>2, <1>3 DEF Ref
<1>5. /\ refs' \in Seq(Ref) /\ Len(refs') = i /\ refs'[i] = new
      /\ \A k \in 1..Len(refs) : refs'[k] = refs[k]
  BY <1>1, <1>2, <1>4
<1>6. /\ counters' \in Seq(Nat) /\ Len(counters') = i /\ counters'[i] = i
      /\ \A k \in 1..Len(refs) : counters'[k] = counters[k]
  BY <1>1, <1>2, <1>4
<1>7. DOMAIN refs = 1..Len(refs) /\ DOMAIN refs' = 1..i
  BY <1>2, <1>5
<1>8. ProgramShape'
  BY <1>3, <1>5, <1>6 DEF Backends, ProgramShape
<1>9. RefsFit'
  <2>1. ASSUME NEW k \in 1..Len(refs)
        PROVE  /\ refs'[k].type = k /\ counters'[k] = k
               /\ refs'[k].wireType \in 1..k /\ types[refs'[k].wireType].variety = "field"
               /\ refs'[k].precision \in Precisions => types[k].variety = "field"
    BY <1>5, <1>6, <1>7 DEF Backends, RefsFit
  <2>2. /\ new.type = i /\ new.wireType = wireType /\ new.precision = precision
    OBVIOUS
  <2>3. \A k \in 1..i : k = i \/ k \in 1..Len(refs)
    BY <1>2
  <2>4. Built = types[i]
    BY DEF Built, types
  <2> HIDE DEF new
  <2>5. /\ refs'[i].type = i /\ counters'[i] = i
        /\ refs'[i].wireType \in 1..i /\ types[refs'[i].wireType].variety = "field"
        /\ refs'[i].precision \in Precisions => types[i].variety = "field"
    BY <1>5, <1>6, <2>2, <2>4
  <2>. QED
    BY <1>3, <1>7, <2>1, <2>3, <2>5 DEF RefsFit
<1>10. GivenFit'
  <2>1. given' = given \cup {<<name, wire, i>> : name \in {n \in KnownPlugins : <<n, wire>> \in loaded}}
    BY DEF Build, addBackend
  <2>2. \A t, w : RAMFits(t, w)' <=> RAMFits(t, w)
    BY <1>3 DEF RAMFits, RAMWire, BoolWire
  <2>3. ASSUME NEW g \in given
        PROVE  /\ <<g[1], g[2]>> \in loaded /\ g[3] \in 1..Len(refs)
               /\ refs'[g[3]].precision \in Precisions => g[2] = <<"wire", refs'[g[3]].precision>>
               /\ RAMFits(g[3], g[2])
    BY <1>5, <1>7 DEF Backends, GivenFit
  <2>4. ASSUME NEW name, <<name, wire>> \in loaded, NEW g, g = <<name, wire, i>>
        PROVE  /\ <<g[1], g[2]>> \in loaded /\ g[3] = i
               /\ refs'[i].precision \in Precisions => g[2] = <<"wire", refs'[i].precision>>
               /\ RAMFits(i, g[2])
    BY <1>5, <2>4
  <2>5. \A g \in given' : g \in given \/ \E name : <<name, wire>> \in loaded /\ g = <<name, wire, i>>
    BY <2>1
  <2>6. 1..Len(refs) \subseteq 1..i /\ i \in 1..i
    BY <1>2
  <2> HIDE DEF new
  <2>7. ASSUME NEW g \in given'
        PROVE  /\ <<g[1], g[2]>> \in loaded /\ g[3] \in 1..i
               /\ refs'[g[3]].precision \in Precisions => g[2] = <<"wire", refs'[g[3]].precision>>
               /\ RAMFits(g[3], g[2])
    <3>1. CASE g \in given
      BY <2>3, <2>6, <3>1
    <3>2. CASE \E name : <<name, wire>> \in loaded /\ g = <<name, wire, i>>
      <4>1. PICK name : <<name, wire>> \in loaded /\ g = <<name, wire, i>>
        BY <3>2
      <4>2. g[3] = i
        BY <4>1
      <4>. QED
        BY <2>4, <2>6, <4>1, <4>2
    <3>. QED
      BY <2>5, <3>1, <3>2
  <2>. QED
    BY <1>7, <2>2, <2>7 DEF GivenFit
<1>. QED
  BY <1>5, <1>8, <1>9, <1>10 DEF Backends

(* What a step that leaves plugins, backends and converters alone must keep.*)
LEMMA SetupKept ==
  ASSUME PInv, UNCHANGED <<scenario, setup>>, Building', UndefinedFit',
         created' \in {created, NoOperation}
  PROVE  PInv'
<1> USE DEF PInv, setup
<1>1. Backends'
  BY BackendsKept
<1>2. LoadedFit'
  <2>1. loaded' = loaded /\ \A name : Implementations(name)' = Implementations(name)
    BY DEF Implementations, Plain, RAMBuffers, FallbackBuffers
  <2>. QED
    BY <2>1 DEF LoadedFit
<1>3. ConverterShape' /\ ConvertersFit'
  BY DEF ConverterShape, ConvertersFit
<1>4. CreatedFits'
  BY DEF CreatedFits, Precisions
<1>. QED
  BY <1>1, <1>2, <1>3, <1>4

LEMMA OrganizeFits == IInv /\ Organize => IInv'
<1>. SUFFICES ASSUME IInv, Organize PROVE IInv'
  OBVIOUS
<1>1. /\ UNCHANGED <<scenario, setup, created>>
      /\ stage \in {"open", "circuit", "streams", "check", "used"}
      /\ \/ stage' = stage /\ exit' = exit
         \/ stage' \in {"circuit", "streams", "check", "used", "plugins"} /\ exit' = exit
         \/ stage' = "exit" /\ exit' \in {"1", "assert"}
  <2>1. CASE Open
    BY <2>1 DEF Open, Organize, At, Goto, Exit
  <2>2. CASE FindCircuit
    BY <2>2 DEF FindCircuit, Organize, At, Goto, Exit
  <2>3. CASE MatchStream
    BY <2>3 DEF MatchStream, Organize, At, Goto, Exit
  <2>4. CASE DecideSetting
    BY <2>4 DEF DecideSetting, Organize, At, Goto, Exit
  <2>5. CASE CheckStreams
    BY <2>5 DEF CheckStreams, Organize, At, Goto, Exit
  <2>6. CASE CheckUsed("plugins")
    BY <2>6 DEF CheckUsed, Organize, At, Goto, Exit
  <2>. QED
    BY <2>1, <2>2, <2>3, <2>4, <2>5, <2>6 DEF Organize, OrganizerNext
<1>2. exit = "running"
  BY <1>1 DEF IInv, OInv, OrganizerShape
<1>3. Building' /\ UndefinedFit'
  <2>1. refs' = refs /\ refs = <<>>
    BY <1>1 DEF IInv, PInv, Building, setup, Stages
  <2>. QED
    BY <1>1, <1>2, <2>1 DEF Building, UndefinedFit, Ready
<1>4. PInv'
  BY <1>1, <1>3, SetupKept DEF IInv
<1>5. OInv'
  <2>1. CASE CheckUsed("plugins")
    <3>1. /\ stage = "used" /\ UNCHANGED <<scenario, circuit, used, streams, setting>>
          /\ i' \in {i, 1}
          /\ (stage' = "plugins" /\ used = DOMAIN resources) \/ stage' = "exit"
      BY <2>1 DEF CheckUsed, At, Goto, Exit
    <3>2. i \in Nat \ {0} /\ OInv
      BY DEF IInv, OInv, OrganizerShape
    <3>3. exit' \in {"running", "1"} /\ (stage' = "exit" <=> exit' /= "running")
      BY <1>2, <2>1, <3>1 DEF CheckUsed, Goto, Exit
    <3>. QED
      BY <3>1, <3>2, <3>3, LaterStep DEF Later
  <2>. QED
    BY <2>1, OpenStep, FindCircuitStep, MatchStreamStep, DecideSettingStep, CheckStreamsStep
       DEF IInv, Organize, OrganizerNext
<1>. QED
  BY <1>4, <1>5 DEF IInv

LEMMA LoadPluginFits == IInv /\ LoadPlugin => IInv'
<1>. SUFFICES ASSUME IInv, LoadPlugin PROVE IInv'
  OBVIOUS
<1>1. /\ stage = "plugins" /\ UNCHANGED <<scenario, circuit, used, streams, setting>>
      /\ UNCHANGED <<fallback, refs, counters, given, converters, created>>
  BY DEF LoadPlugin, At
<1>2. i \in Nat \ {0} /\ exit = "running"
  BY <1>1 DEF IInv, OInv, OrganizerShape
<1>3. /\ \/ stage' = stage /\ i' = i + 1 /\ exit' = exit
         \/ stage' = "exit" /\ i' = i /\ exit' = "1"
      /\ \/ loaded' = loaded
         \/ \E name \in KnownPlugins : loaded' = loaded \cup ({name} \X Implementations(name))
  BY DEF LoadPlugin, Exit, addPlugin
<1>4. OInv'
  <2>1. i' \in Nat \ {0} /\ stage' \in Later \cup {"exit"} /\ exit' \in {"running", "1"}
    BY <1>1, <1>2, <1>3 DEF Later
  <2>. QED
    BY <1>1, <1>2, <1>3, <2>1, LaterStep DEF IInv, Later
<1>5. Backends'
  BY <1>1, <1>3, BackendsKept DEF IInv, PInv
<1>6. LoadedFit'
  <2>1. \A name : Implementations(name)' = Implementations(name)
    BY <1>1 DEF Implementations, Plain, RAMBuffers, FallbackBuffers
  <2>. QED
    BY <1>3, <2>1 DEF IInv, PInv, LoadedFit
<1>7. Building' /\ UndefinedFit'
  BY <1>1, <1>2, <1>3 DEF IInv, PInv, Building, UndefinedFit, Ready, Stages
<1>8. ConverterShape' /\ ConvertersFit' /\ CreatedFits'
  BY <1>1, <1>3 DEF IInv, PInv, ConverterShape, ConvertersFit, CreatedFits, Precisions
<1>. QED
  BY <1>4, <1>5, <1>6, <1>7, <1>8 DEF IInv, PInv

(* Steps that only go on, or end the program.                               *)
LEMMA OnwardFits ==
  ASSUME IInv, CheckTypes \/ RefuseType \/ TypesBuilt \/ ConvertersBuilt \/ Parse \/ Report
  PROVE  IInv'
<1>1. /\ UNCHANGED <<scenario, circuit, used, streams, setting, setup>>
      /\ created' \in {created, NoOperation}
  BY DEF CheckTypes, RefuseType, TypesBuilt, ConvertersBuilt, Parse, Report
<1>2. \/ stage = "plugins" /\ stage' = "types" /\ i' = 1 /\ exit' = exit
      \/ stage = "types" /\ stage' = "converters" /\ i = Len(types) + 1 /\ i' = 1 /\ exit' = exit
      \/ stage = "converters" /\ stage' = "parse" /\ i' = 1 /\ exit' = exit
      \/ stage = "parse" /\ stage' = "report" /\ i' = 1 /\ exit' = exit
      \/ stage \in Later /\ stage' = "exit" /\ exit' = "1" /\ i' = i
      \/ stage = "report" /\ stage' = "exit" /\ exit' = "0" /\ i' = i
  BY DEF CheckTypes, RefuseType, TypesBuilt, ConvertersBuilt, Parse, Report, At, Goto, Exit, Later
<1>3. stage \in Later /\ exit = "running" /\ i \in Nat \ {0}
  BY <1>2 DEF IInv, OInv, OrganizerShape, Later
<1>4. OInv'
  <2>1. stage' \in Later \cup {"exit"} /\ i' \in Nat \ {0}
    BY <1>2, <1>3 DEF Later
  <2>2. /\ exit' \in {"running", "0", "1"}
        /\ stage' = "exit" <=> exit' /= "running"
        /\ exit' = "0" => stage = "report"
    BY <1>2, <1>3 DEF Later
  <2>. QED
    BY <1>1, <1>3, <2>1, <2>2, LaterStep DEF IInv
<1>5. Building' /\ UndefinedFit'
  <2>1. Building /\ refs' = refs /\ types' = types /\ Len(refs) \in Nat /\ Len(types) \in Nat
    BY <1>1, ScenarioShape DEF IInv, PInv, OInv, OrganizerShape, Backends, ProgramShape, setup, types
  <2>2. refs = <<>> => Len(refs) = 0
    OBVIOUS
  <2>3. Building'
    BY <1>2, <1>3, <2>1, <2>2 DEF Building, Ready, Stages, Later
  <2>. QED
    BY <1>2, <1>3, <2>3 DEF UndefinedFit
<1>. QED
  BY <1>1, <1>4, <1>5, SetupKept DEF IInv

(* What follows when a type has its backend.                                *)
LEMMA BuiltFits ==
  ASSUME IInv, stage = "types", i \in DOMAIN types,
         NEW precision \in RefPrecisions, NEW wire, NEW wireType \in 1..i,
         types[wireType].variety = "field",
         precision \in Precisions => Built.variety = "field" /\ wire = <<"wire", precision>>,
         RAMFits(i, wire),
         Build(precision, wire, wireType),
         \/ stage' = stage /\ i' = i + 1
         \/ stage' = "converters" /\ i' = 1 /\ types[i].name = "ram_bool_v0",
         exit' = exit,
         UNCHANGED <<scenario, circuit, used, streams, setting>>,
         UNCHANGED <<fallback, loaded, converters, created>>
  PROVE  IInv'
<1>1. i = Len(refs) + 1 /\ Backends /\ scenario \in Scenarios /\ exit = "running" /\ i \in Nat \ {0}
  BY DEF IInv, PInv, Building, OInv, OrganizerShape
<1>2. Backends' /\ Len(refs') = i
  BY <1>1, BuildFits
<1>3. OInv'
  BY <1>1, LaterStep DEF IInv, Later
<1>4. types' = types
  BY DEF types
<1>5. Building' /\ UndefinedFit'
  BY <1>1, <1>2, <1>4 DEF Building, UndefinedFit, Ready, Stages
<1>6. LoadedFit'
  <2>1. \A name : Implementations(name)' = Implementations(name)
    BY DEF Implementations, Plain, RAMBuffers, FallbackBuffers
  <2>. QED
    BY <2>1 DEF IInv, PInv, LoadedFit
<1>7. ConverterShape' /\ ConvertersFit'
  BY DEF IInv, PInv, ConverterShape, ConvertersFit
<1>8. CreatedFits'
  <2>1. CASE created = NoOperation
    BY <2>1 DEF CreatedFits, NoOperation
  <2>2. CASE created /= NoOperation
    <3>1. /\ created.type \in DOMAIN refs /\ <<created.name, created.wire>> \in loaded
          /\ refs[created.type].precision \in Precisions =>
                created.wire = <<"wire", refs[created.type].precision>>
      BY <2>2 DEF IInv, PInv, CreatedFits
    <3>2. refs \in Seq(Ref) /\ refs' = Append(refs, [precision |-> precision, type |-> i, wireType |-> wireType])
      BY <1>1 DEF Backends, ProgramShape, Build
    <3>3. created.type \in DOMAIN refs' /\ refs'[created.type] = refs[created.type]
      BY <1>1, <1>2, <3>1, <3>2
    <3>. QED
      BY <3>1, <3>3 DEF CreatedFits, Precisions
  <2>. QED
    BY <2>1, <2>2
<1>. QED
  BY <1>2, <1>3, <1>5, <1>6, <1>7, <1>8 DEF IInv, PInv

(* A refusal while types are built, or memory read that is not there.       *)
LEMMA StoppedFits ==
  ASSUME IInv, stage \in {"types", "converters"}, NEW code \in {"1", "undefined"}, Exit(code),
         code = "undefined" => UndefinedFit',
         UNCHANGED <<scenario, circuit, used, streams, setting, setup, created>>
  PROVE  IInv'
<1>1. stage' = "exit" /\ exit' = code /\ i' = i /\ i \in Nat \ {0}
  BY DEF Exit, IInv, OInv, OrganizerShape
<1>2. OInv'
  BY <1>1, LaterStep DEF IInv, Later
<1>3. Building' /\ UndefinedFit'
  BY <1>1 DEF Building, UndefinedFit, Ready
<1>. QED
  BY <1>2, <1>3, SetupKept DEF IInv

LEMMA BuildFieldFits == IInv /\ BuildField => IInv'
<1>. SUFFICES ASSUME IInv, BuildField PROVE IInv'
  OBVIOUS
<1> DEFINE precision == PrecisionOf(Built.prime)
<1>1. /\ stage = "types" /\ i <= Len(types) /\ Built.variety = "field"
      /\ Build(precision, <<"wire", precision>>, i)
      /\ stage' = stage /\ i' = i + 1 /\ exit' = exit
      /\ UNCHANGED <<scenario, circuit, used, streams, setting>>
      /\ UNCHANGED <<fallback, loaded, converters, created>>
  BY DEF BuildField, At
<1>2. /\ i \in DOMAIN types /\ i \in Nat \ {0} /\ Built = types[i] /\ i \in 1..i
  BY <1>1, ScenarioShape DEF IInv, OInv, OrganizerShape, types, Built
<1>3. RAMFits(i, <<"wire", precision>>)
  BY <1>1, <1>2 DEF RAMFits
<1>4. precision \in RefPrecisions
  <2>1. Built.prime \in Primes /\ Built.prime /= "none"
    BY <1>1, <1>2, ScenarioShape, FirealarmAssumption
       DEF FirealarmAssumption, IInv, OInv, OrganizerShape, types, TypeSpec
  <2>2. precision \in {"unlimited", "uint64", "uint8"}
    BY <2>1 DEF PrecisionOf, Primes
  <2> HIDE DEF precision
  <2>. QED
    BY <2>2 DEF Precisions, RefPrecisions
<1> HIDE DEF precision
<1>. QED
  BY <1>1, <1>2, <1>3, <1>4, BuiltFits

LEMMA BuildArithmeticRAMFits == IInv /\ BuildArithmeticRAM => IInv'
<1>. SUFFICES ASSUME IInv, BuildArithmeticRAM PROVE IInv'
  OBVIOUS
<1>1. /\ stage = "types" /\ i <= Len(types) /\ Built.variety = "plugin" /\ IsArithmetic(Built)
      /\ UNCHANGED <<scenario, circuit, used, streams, setting>>
      /\ UNCHANGED <<fallback, loaded, converters, created>>
  BY DEF BuildArithmeticRAM, At
<1>2. /\ i \in DOMAIN types /\ i \in Nat \ {0} /\ Built = types[i] /\ i = Len(refs) + 1
      /\ DOMAIN refs = 1..Len(refs) /\ Len(refs) \in Nat
  BY <1>1, ScenarioShape
     DEF IInv, PInv, Building, Backends, ProgramShape, OInv, OrganizerShape, types, Built
<1>3. IndexType \in Nat \ {0}
  <2>1. Built.index \in Nat
    BY <1>2, ScenarioShape DEF IInv, OInv, OrganizerShape, types, TypeSpec
  <2>2. Built.index /= 0
    BY <1>1, <1>2, FirealarmAssumption
       DEF FirealarmAssumption, IInv, OInv, OrganizerShape, types, IsArithmetic, RAMNames
  <2>. QED
    BY <2>1, <2>2 DEF IndexType
<1>4. CASE ArithmeticAccepted /\ IndexType \in DOMAIN refs /\ refs[IndexType].precision \in Precisions
  <2> DEFINE wire == RAMWire(refs[IndexType].precision)
  <2>1. Build(wire[1], wire, IndexType) /\ i' = i + 1 /\ stage' = stage /\ exit' = exit
    BY <1>4 DEF BuildArithmeticRAM
  <2>2. wire[1] \in RefPrecisions /\ wire[1] \notin Precisions
    <3>1. wire[1] \in {"fallback_ram", "ram"}
      BY DEF RAMWire
    <3> HIDE DEF wire
    <3>. QED
      BY <3>1 DEF Precisions, RefPrecisions
  <2>3. types[IndexType].variety = "field"
    BY <1>4 DEF IInv, PInv, Backends, RefsFit
  <2>4. RAMFits(i, wire)
    BY <1>1, <1>2, <1>4 DEF RAMFits
  <2>5. IndexType \in 1..i
    BY <1>2, <1>3, <1>4
  <2> HIDE DEF wire
  <2>. QED
    BY <1>1, <1>2, <2>1, <2>2, <2>3, <2>4, <2>5, BuiltFits
<1>5. CASE ~ (ArithmeticAccepted /\ IndexType \in DOMAIN refs /\ refs[IndexType].precision \in Precisions)
  <2> DEFINE code == IF ArithmeticAccepted /\ IndexType \notin DOMAIN refs THEN "undefined" ELSE "1"
  <2>1. Exit(code) /\ UNCHANGED <<refs, counters, given>>
    BY <1>5 DEF BuildArithmeticRAM
  <2>2. ASSUME code = "undefined" PROVE UndefinedFit'
    <3>1. IndexType >= i
      BY <1>2, <1>3, <2>2
    <3>2. types[i].index >= i \/ (types[i].name = "ram_arith_v1" /\ i = 1)
      BY <1>2, <3>1 DEF IndexType
    <3>. QED
      BY <1>1, <1>2, <3>2 DEF UndefinedFit, types
  <2>3. code \in {"1", "undefined"}
    OBVIOUS
  <2> HIDE DEF code
  <2>. QED
    BY <1>1, <2>1, <2>2, <2>3, StoppedFits DEF setup
<1>. QED
  BY <1>4, <1>5

LEMMA BuildBooleanRAMFits == IInv /\ BuildBooleanRAM => IInv'
<1>. SUFFICES ASSUME IInv, BuildBooleanRAM PROVE IInv'
  OBVIOUS
<1>1. /\ stage = "types" /\ i <= Len(types) /\ Built.variety = "plugin" /\ Built.name = "ram_bool_v0"
      /\ UNCHANGED <<scenario, circuit, used, streams, setting>>
      /\ UNCHANGED <<fallback, loaded, converters, created>>
  BY DEF BuildBooleanRAM, At
<1>2. /\ i \in DOMAIN types /\ i \in Nat \ {0} /\ Built = types[i] /\ i = Len(refs) + 1
      /\ DOMAIN refs = 1..Len(refs) /\ Len(refs) \in Nat
  BY <1>1, ScenarioShape
     DEF IInv, PInv, Building, Backends, ProgramShape, OInv, OrganizerShape, types, Built
<1>3. Built.index \in Nat \ {0}
  <2>1. Built.index \in Nat
    BY <1>2, ScenarioShape DEF IInv, OInv, OrganizerShape, types, TypeSpec
  <2>2. Built.index /= 0
    BY <1>1, <1>2, FirealarmAssumption
       DEF FirealarmAssumption, IInv, OInv, OrganizerShape, types, RAMNames
  <2>. QED
    BY <2>1, <2>2
<1>4. CASE BoolAccepted /\ Built.index \in DOMAIN refs /\ IsBoolean(types[refs[Built.index].type])
  <2> DEFINE precision == IF fallback THEN BoolWire[1] ELSE "bool_ram"
             wire == BoolWire
  <2>1. Build(precision, wire, Built.index) /\ stage' = "converters" /\ i' = 1 /\ exit' = exit
    BY <1>4 DEF BuildBooleanRAM, Goto
  <2>2. precision \in RefPrecisions /\ precision \notin Precisions
    <3>1. precision \in {"fallback_bool_ram", "bool_ram"}
      BY DEF BoolWire, FallbackBool
    <3> HIDE DEF precision
    <3>. QED
      BY <3>1 DEF Precisions, RefPrecisions
  <2>3. types[Built.index].variety = "field"
    BY <1>4 DEF IInv, PInv, Backends, RefsFit, IsBoolean
  <2>4. RAMFits(i, wire)
    BY <1>1, <1>2 DEF RAMFits
  <2>5. Built.index \in 1..i
    BY <1>2, <1>3, <1>4
  <2> HIDE DEF wire, precision
  <2>. QED
    BY <1>1, <1>2, <2>1, <2>2, <2>3, <2>4, <2>5, BuiltFits
<1>5. CASE ~ (BoolAccepted /\ Built.index \in DOMAIN refs /\ IsBoolean(types[refs[Built.index].type]))
  <2> DEFINE code == IF BoolAccepted /\ Built.index \notin DOMAIN refs THEN "undefined" ELSE "1"
  <2>1. Exit(code) /\ UNCHANGED <<refs, counters, given>>
    BY <1>5 DEF BuildBooleanRAM
  <2>2. ASSUME code = "undefined" PROVE UndefinedFit'
    <3>1. Built.index >= i
      BY <1>2, <1>3, <2>2
    <3>. QED
      BY <1>1, <1>2, <3>1 DEF UndefinedFit, types
  <2>3. code \in {"1", "undefined"}
    OBVIOUS
  <2> HIDE DEF code
  <2>. QED
    BY <1>1, <2>1, <2>2, <2>3, StoppedFits DEF setup
<1>. QED
  BY <1>4, <1>5

LEMMA BuildConverterFits == IInv /\ BuildConverter => IInv'
<1>. SUFFICES ASSUME IInv, BuildConverter PROVE IInv'
  OBVIOUS
<1>1. /\ stage = "converters" /\ i \in Nat \ {0} /\ i <= Len(scenario.conversions)
      /\ exit = "running"
      /\ UNCHANGED <<scenario, circuit, used, streams, setting>>
      /\ UNCHANGED <<fallback, loaded, refs, counters, given, created, failing>>
  BY DEF BuildConverter, At, IInv, OInv, OrganizerShape
<1>2. /\ scenario.conversions \in Seq([out : Nat \ {0}, in : Nat \ {0}])
      /\ i \in DOMAIN scenario.conversions /\ Conversion \in [out : Nat \ {0}, in : Nat \ {0}]
  <2>1. scenario.conversions \in Seq([out : Nat \ {0}, in : Nat \ {0}])
    BY FirealarmAssumption DEF FirealarmAssumption, IInv, OInv, OrganizerShape
  <2>2. \A T : \A q \in Seq(T) : \A k \in 1..Len(q) : k \in DOMAIN q /\ q[k] \in T
    OBVIOUS
  <2>3. i \in 1..Len(scenario.conversions)
    BY <1>1, <2>1
  <2>. QED
    BY <2>1, <2>2, <2>3 DEF Conversion
<1>3. CASE /\ {Conversion.out, Conversion.in} \subseteq DOMAIN refs
           /\ addConverter(Conversion) /\ i' = i + 1 /\ UNCHANGED <<stage, exit>>
  <2>1. OInv'
    BY <1>1, <1>3, LaterStep DEF IInv, Later
  <2>2. ConverterShape' /\ ConvertersFit'
    <3> DEFINE new == [out |-> Conversion.out, in |-> Conversion.in, counter |-> counters[Conversion.out]]
    <3>1. converters' = Append(converters, new)
      BY <1>3 DEF addConverter
    <3>2. counters[Conversion.out] = Conversion.out
      BY <1>3 DEF IInv, PInv, Backends, RefsFit
    <3>3. /\ converters \in Seq([out : Nat, in : Nat, counter : Nat])
          /\ new \in [out : Nat, in : Nat, counter : Nat] /\ new.counter = new.out
      BY <1>2, <3>2 DEF IInv, PInv, ConverterShape
    <3> HIDE DEF new
    <3>4. /\ converters' \in Seq([out : Nat, in : Nat, counter : Nat])
          /\ \A k \in DOMAIN converters' : converters'[k] = new \/ (k \in DOMAIN converters /\ converters'[k] = converters[k])
      BY <3>1, <3>3
    <3>. QED
      BY <3>3, <3>4 DEF IInv, PInv, ConverterShape, ConvertersFit
  <2>3. Backends'
    BY <1>1, BackendsKept DEF IInv, PInv
  <2>4. LoadedFit'
    <3>1. \A name : Implementations(name)' = Implementations(name)
      BY <1>1 DEF Implementations, Plain, RAMBuffers, FallbackBuffers
    <3>. QED
      BY <1>1, <3>1 DEF IInv, PInv, LoadedFit
  <2>5. Building' /\ UndefinedFit' /\ CreatedFits'
    BY <1>1, <1>3 DEF IInv, PInv, Building, UndefinedFit, CreatedFits, Ready, Stages, types, Precisions
  <2>. QED
    BY <2>1, <2>2, <2>3, <2>4, <2>5 DEF IInv, PInv
<1>4. CASE Exit("1") /\ UNCHANGED converters
  BY <1>1, <1>4, StoppedFits DEF setup
<1>5. CASE ~ {Conversion.out, Conversion.in} \subseteq DOMAIN refs /\ Exit("undefined") /\ UNCHANGED converters
  <2>1. Building /\ Ready /\ refs \in Seq(Ref) /\ Len(refs) <= Len(types)
    BY <1>1 DEF IInv, PInv, Backends, ProgramShape, Ready
  <2>2. DOMAIN refs = 1..Len(refs) /\ DOMAIN types = 1..Len(types) /\ Len(types) \in Nat /\ Len(refs) \in Nat
    BY <2>1, ScenarioShape DEF IInv, OInv, OrganizerShape, types
  <2>3. Conversion \in Range(scenario.conversions)
    BY <1>2 DEF Range, Conversion
  <2>4. \/ Len(refs) \in DOMAIN types /\ types[Len(refs)].name = "ram_bool_v0" /\ Len(refs) < Len(types)
        \/ ~ {Conversion.out, Conversion.in} \subseteq DOMAIN types
    <3>1. CASE Len(refs) = Len(types)
      BY <1>5, <2>2, <3>1
    <3>2. CASE Len(refs) /= Len(types)
      <4>1. Len(refs) \in DOMAIN types /\ types[Len(refs)].name = "ram_bool_v0"
        BY <2>1, <3>2 DEF Building
      <4>2. Len(refs) \in Nat /\ Len(types) \in Nat /\ Len(refs) <= Len(types)
        BY <2>1, <2>2
      <4>3. Len(refs) < Len(types)
        BY <3>2, <4>2
      <4>. QED
        BY <4>1, <4>3
    <3>. QED
      BY <3>1, <3>2
  <2>5. UndefinedFit'
    BY <1>1, <2>3, <2>4 DEF UndefinedFit, types
  <2>. QED
    BY <1>1, <1>5, <2>5, StoppedFits DEF setup
<1> DEFINE refused == IF Convertible(Conversion.out) THEN Conversion.in ELSE Conversion.out
<1>6. CASE Convertible(Conversion.out) /\ Convertible(Conversion.in)
  <2>1. {Conversion.out, Conversion.in} \subseteq DOMAIN refs
    BY <1>6 DEF Convertible
  <2>2. addConverter(Conversion) /\ i' = i + 1 /\ UNCHANGED <<stage, exit>>
    BY <1>6 DEF BuildConverter
  <2>. QED  BY <1>3, <2>1, <2>2
<1>7. CASE ~ (Convertible(Conversion.out) /\ Convertible(Conversion.in))
  <2>1. /\ Exit(IF refused \in DOMAIN refs THEN "1" ELSE "undefined")
        /\ UNCHANGED converters
    BY <1>7 DEF BuildConverter
  <2>2. refused \in {Conversion.out, Conversion.in}
    OBVIOUS
  <2> HIDE DEF refused
  <2>3. CASE refused \in DOMAIN refs
    BY <1>4, <2>1, <2>3
  <2>4. CASE refused \notin DOMAIN refs
    BY <1>5, <2>1, <2>2, <2>4
  <2>. QED  BY <2>3, <2>4
<1>. QED
  BY <1>6, <1>7

(* The operation that is returned was made for one of the plugin's wires of *)
(* the type.                                                                *)
LEMMA CreateFits == IInv /\ Create => IInv'
<1>. SUFFICES ASSUME IInv, Create PROVE IInv'
  OBVIOUS
<1>1. UNCHANGED <<organizer, setup>> /\ stage = "parse"
  BY DEF Create, At
<1>2. OInv'
  BY <1>1, LaterStep DEF IInv, OInv, OrganizerShape, organizer, Later
<1>3. CreatedFits'
  <2>1. ASSUME created' /= NoOperation PROVE CreatedFits'
    <3>1. PICK name, type, w :
             created' = [name |-> name, type |-> type, wire |-> w] /\ w \in WiresOf(name, type)
      <4>1. PICK name \in {scenario.plugins[k] : k \in DOMAIN scenario.plugins} :
               \E type : /\ type = 0 \/ WiresOf(name, type) # {}
                        /\ created' = IF type = 0 THEN NoOperation
                                      ELSE [name |-> name, type |-> type,
                                            wire |-> CHOOSE w \in WiresOf(name, type) : TRUE]
        <5>1. PICK name \in {scenario.plugins[k] : k \in DOMAIN scenario.plugins},
                   out \in DOMAIN types, in \in DOMAIN types, in2 \in DOMAIN types :
                LET type == DominantType(name, <<out>>, <<in, in2>>)
                IN  created' = IF type = 0 THEN NoOperation
                               ELSE [name |-> name, type |-> type,
                                     wire |-> CHOOSE w \in WiresOf(name, type) : TRUE]
          BY DEF Create
        <5> DEFINE known(seq) == {k \in DOMAIN seq : WiresOf(name, seq[k]) /= {}}
                   chosen == DominantType(name, <<out>>, <<in, in2>>)
        <5>2. known(<<in, in2>>) # {} =>
                WiresOf(name, <<in, in2>>[Min(known(<<in, in2>>))]) # {}
          <6>1. known(<<in, in2>>) \subseteq Nat
            OBVIOUS
          <6>. QED
            BY <6>1, MinIsLeast, Zenon
        <5>3. known(<<out>>) # {} => WiresOf(name, <<out>>[Min(known(<<out>>))]) # {}
          <6>1. known(<<out>>) \subseteq Nat
            OBVIOUS
          <6>. QED
            BY <6>1, MinIsLeast, Zenon
        <5>4. chosen = 0 \/ WiresOf(name, chosen) # {}
          BY <5>2, <5>3, Zenon DEF DominantType
        <5>. QED
          BY <5>1, <5>4
      <4>2. PICK type : /\ type = 0 \/ WiresOf(name, type) # {}
                        /\ created' = IF type = 0 THEN NoOperation
                                      ELSE [name |-> name, type |-> type,
                                            wire |-> CHOOSE w \in WiresOf(name, type) : TRUE]
        BY <4>1
      <4>. QED
        BY <2>1, <4>2
    <3>2. PICK g \in given : w = g[2] /\ g[1] = name /\ g[3] = type
      BY <3>1 DEF WiresOf
    <3>3. /\ <<g[1], g[2]>> \in loaded /\ g[3] \in DOMAIN refs
          /\ refs[g[3]].precision \in Precisions => g[2] = <<"wire", refs[g[3]].precision>>
      BY DEF IInv, PInv, Backends, GivenFit
    <3>4. created'.name = name /\ created'.type = type /\ created'.wire = w
      BY <3>1
    <3>. QED
      BY <1>1, <3>2, <3>3, <3>4 DEF CreatedFits, setup, Precisions
  <2>. QED
    BY <2>1 DEF CreatedFits, NoOperation
<1>4. Backends'
  BY <1>1, BackendsKept DEF IInv, PInv, organizer, setup
<1>5. LoadedFit'
  <2>1. loaded' = loaded /\ \A name : Implementations(name)' = Implementations(name)
    BY <1>1 DEF setup, Implementations, Plain, RAMBuffers, FallbackBuffers
  <2>. QED
    BY <2>1 DEF IInv, PInv, LoadedFit
<1>6. Building' /\ ConverterShape' /\ ConvertersFit' /\ UndefinedFit'
  BY <1>1 DEF IInv, PInv, Building, ConverterShape, ConvertersFit, UndefinedFit, Ready, organizer, setup, types
<1>. QED
  BY <1>2, <1>3, <1>4, <1>5, <1>6 DEF IInv, PInv

-------------------------------------------------------------------------------
(* ----- the theorems ----------------------------------------------------- *)

LEMMA StepFits == IInv /\ [Next]_vars => IInv'
<1>. SUFFICES ASSUME IInv, [Next]_vars PROVE IInv'
  OBVIOUS
<1>1. CASE UNCHANGED vars
  <2>1. UNCHANGED <<scenario, stage, i, circuit, used, streams, setting, exit>> /\ UNCHANGED <<setup, created>>
    BY <1>1 DEF vars, organizer
  <2>2. OInv'
    <3>1. UNCHANGED <<resources, types>>
      BY <2>1 DEF resources, types
    <3>2. OrganizerShape' /\ Placed' /\ Met'
      BY <2>1, <3>1 DEF IInv, OInv, OrganizerShape, Placed, Met
    <3>3. UsedPlaced' /\ AllUsed' /\ Asserted'
      BY <2>1, <3>1 DEF IInv, OInv, UsedPlaced, AllUsed, Asserted, Organized
    <3>4. Checked'
      BY <2>1, <3>1 DEF IInv, OInv, Checked, Organized, Enough, Public, Private
    <3>. QED
      BY <3>2, <3>3, <3>4 DEF OInv
  <2>3. Building' /\ UndefinedFit'
    BY <2>1 DEF IInv, PInv, Building, UndefinedFit, Ready, types, setup
  <2>. QED
    BY <2>1, <2>2, <2>3, SetupKept DEF IInv
<1>2. CASE Next
  BY <1>2, OrganizeFits, LoadPluginFits, OnwardFits, BuildFieldFits, BuildArithmeticRAMFits,
     BuildBooleanRAMFits, BuildConverterFits, CreateFits DEF Next, Steps
<1>. QED
  BY <1>1, <1>2

(* What is settled at each stage of the program, whatever it is given.      *)
THEOREM SettledInvariant == Spec => []IInv
<1>1. Init => IInv
  BY OrganizerStarts, StartsFit DEF Init, IInv
<1>2. IInv /\ [Next]_vars => IInv'
  BY StepFits
<1>. QED
  BY <1>1, <1>2, PTL DEF Spec

(* The program's variables keep their types, and every backend of a plugin  *)
(* is for a type that was built.                                            *)
THEOREM TypeInvariant == Spec => []TypeOK
<1>1. IInv => TypeOK
  BY DEF IInv, OInv, OrganizerShape, PInv, Backends, ProgramShape, GivenFit, TypeOK
<1>. QED
  BY <1>1, SettledInvariant, PTL

(* After organize() every input stream serves exactly one type, its own.    *)
THEOREM StreamsReachTheirTypes == Spec => []StreamsPlaced
<1>1. IInv => StreamsPlaced
  <2>1. SUFFICES ASSUME IInv, Organized, NEW k \in DOMAIN resources, k /= circuit
                 PROVE  \E j \in DOMAIN types :
                          /\ SameType(types[j], resources[k].type) /\ streams[j][resources[k].kind] = k
                          /\ \A l \in DOMAIN types \ {j} : k \notin {streams[l].public_in, streams[l].private_in}
    BY DEF StreamsPlaced
  <2>2. k \in used /\ stage \notin {"open", "circuit"}
    BY <2>1 DEF IInv, OInv, AllUsed, Organized, OrganizerShape
  <2>3. PICK j \in DOMAIN types, side \in Sides : streams[j][side] = k
    BY <2>1, <2>2 DEF IInv, OInv, UsedPlaced
  <2>4. k /= 0
    BY <2>1, ScenarioShape DEF IInv, OInv, OrganizerShape, resources
  <2>5. resources[k].kind = side /\ SameType(types[j], resources[k].type)
    <3>1. Placed
      BY <2>1 DEF IInv, OInv
    <3>. QED
      BY <2>3, <2>4, <3>1 DEF Placed
  <2>6. ASSUME NEW l \in DOMAIN types, l /= j
        PROVE  k \notin {streams[l].public_in, streams[l].private_in}
    <3>1. \A other \in Sides : streams[l][other] /= k
      BY <2>1, <2>3, <2>4, <2>6 DEF IInv, OInv, Placed
    <3>. QED
      BY <3>1 DEF Sides
  <2>. QED
    BY <2>3, <2>5, <2>6
<1>. QED
  BY <1>1, SettledInvariant, PTL

(* When evaluation starts, a prover has both streams of every field and a   *)
(* verifier the public ones.                                                *)
THEOREM EveryFieldHasItsStreams == Spec => []StreamsSuffice
<1>1. IInv => StreamsSuffice
  BY DEF IInv, OInv, Checked, Enough, StreamsSuffice, Organized, Ready
<1>. QED
  BY <1>1, SettledInvariant, PTL

(* Backends, counters and converters are those of the type at their index.  *)
THEOREM BackendsAreTheirTypes == Spec => []BackendsMatch
<1>1. IInv => BackendsMatch
  <2>1. SUFFICES ASSUME IInv, Ready
                 PROVE  /\ \A k \in DOMAIN refs :
                             /\ refs[k].type = k /\ counters[k] = k
                             /\ types[refs[k].wireType].variety = "field" /\ refs[k].wireType <= k
                        /\ \A c \in Range(converters) : c.counter = c.out
                        /\ Len(refs) < Len(types) => types[Len(refs)].name = "ram_bool_v0"
    BY DEF BackendsMatch
  <2>2. \A c \in Range(converters) : c.counter = c.out
    BY <2>1 DEF IInv, PInv, ConvertersFit, Range
  <2>3. \A k \in DOMAIN refs :
          /\ refs[k].type = k /\ counters[k] = k
          /\ types[refs[k].wireType].variety = "field" /\ refs[k].wireType <= k
    BY <2>1 DEF IInv, PInv, Backends, RefsFit
  <2>4. Len(refs) < Len(types) => types[Len(refs)].name = "ram_bool_v0"
    <3>1. Len(types) \in Nat /\ Len(refs) \in Nat
      BY <2>1, ScenarioShape DEF IInv, OInv, OrganizerShape, PInv, Backends, ProgramShape, types
    <3>. QED
      BY <2>1, <3>1 DEF IInv, PInv, Building
  <2>. QED
    BY <2>2, <2>3, <2>4
<1>. QED
  BY <1>1, SettledInvariant, PTL

(* A plugin for RAMs has only backends of its own types, but for the two    *)
(* versions of the arithmetic RAM and for buffers of eight bits.            *)
THEOREM RAMBackendsGiven == Spec => []BackendsGiven
<1>1. IInv => BackendsGiven
  <2>1. SUFFICES ASSUME IInv, NEW g \in given, types[g[3]].variety = "plugin"
                 PROVE  \/ g[1] \in {types[g[3]].name, "iter_v0"}
                        \/ IsArithmetic(types[g[3]]) /\ g[1] \in {"ram_arith_v0", "ram_arith_v1"}
                        \/ g[2] = <<"ram", "uint8">> /\ ~ fallback
    BY DEF BackendsGiven
  <2>2. PICK name \in KnownPlugins : \E wire \in Implementations(name) : <<g[1], g[2]>> = <<name, wire>>
    BY <2>1 DEF IInv, PInv, Backends, GivenFit, LoadedFit
  <2> DEFINE wire == g[2]
  <2>3. g[1] = name /\ g[2] = wire /\ wire \in Implementations(name)
    BY <2>2
  <2> HIDE DEF wire
  <2>4. \/ IsArithmetic(types[g[3]]) /\ \E pr \in Precisions : wire = RAMWire(pr)
        \/ types[g[3]].name = "ram_bool_v0" /\ wire = BoolWire
    BY <2>1, <2>3 DEF IInv, PInv, Backends, GivenFit, RAMFits
  <2>5. CASE name \in {"wizkit_vectors", "mux_v0", "extended_arithmetic_v1"}
    <3>1. PICK pr : wire = <<"wire", pr>>
      BY <2>3, <2>5 DEF Implementations, Plain
    <3>. QED
      BY <2>4, <3>1 DEF RAMWire, BoolWire, FallbackBool
  <2>6. CASE name \in {"ram_arith_v0", "ram_arith_v1"}
    <3>1. \E pr \in Precisions : wire = RAMWire(pr)
      BY <2>3, <2>6 DEF Implementations, RAMWire, RAMBuffers, FallbackBuffers
    <3>. QED
      BY <2>3, <2>4, <2>6, <3>1 DEF RAMWire, BoolWire, FallbackBool
  <2>7. CASE name = "ram_bool_v0"
    <3>1. wire = BoolWire
      BY <2>3, <2>7 DEF Implementations, BoolWire
    <3>. QED
      BY <2>3, <2>4, <2>7, <3>1 DEF RAMWire, BoolWire, FallbackBool
  <2>. QED
    BY <2>3, <2>5, <2>6, <2>7 DEF KnownPlugins, RAMNames
<1>. QED
  BY <1>1, SettledInvariant, PTL

(* An operation comes from the plugin that was asked, for a wire of a type  *)
(* that was built.                                                          *)
THEOREM OperationsFit == Spec => []CreatedFits
<1>1. IInv => CreatedFits
  BY DEF IInv, PInv
<1>. QED
  BY <1>1, SettledInvariant, PTL

(* Memory past the end of what was built is read only in the cases that     *)
(* UndefinedOnly lists, and asserts fail only for types declared twice.     *)
THEOREM UndefinedNowhereElse == Spec => []UndefinedOnly
<1>1. IInv => UndefinedOnly
  BY DEF IInv, PInv, OInv, UndefinedFit, Asserted, UndefinedOnly
<1>. QED
  BY <1>1, SettledInvariant, PTL
===============================================================================
