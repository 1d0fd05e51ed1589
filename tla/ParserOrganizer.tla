--------------------------- MODULE ParserOrganizer ----------------------------
(***************************************************************************)
(* utils/ParserOrganizer.t.h: opens the resources of a run, finds the one  *)
(* circuit, gives the input streams to the circuit's types and recognizes  *)
(* the setting from the streams there are. Resources, types and whatever   *)
(* else the files hold are fixed by a scenario. log_assert stops the       *)
(* program.                                                                *)
(***************************************************************************)
EXTENDS Integers, Sequences, FiniteSets, FiniteSetsExt

CONSTANT Scenarios   \* records with the resources and the circuit's header

Kinds == {"circuit", "public_in", "private_in", "translation", "configuration"}
Faults == {"none", "open", "body"}
Settings == {"failure", "preprocess", "verifier", "prover"}

Varieties == {"field", "ring", "plugin"}
Primes == {"two", "small", "medium", "large", "none"}

(* A type of the circuit; of a RAM the index is that of the type of its     *)
(* wires, counted from 1.                                                   *)
TypeSpec ==
  [variety : Varieties, prime : Primes, name : STRING, parameters : Nat, index : Nat]

ASSUME ScenariosAssumption ==
  \A s \in Scenarios :
    /\ s.resources \in Seq([kind : Kinds, type : TypeSpec, fault : Faults])
    /\ s.types \in Seq(TypeSpec)

VARIABLES
  scenario,   \* the files
  stage,      \* what the program does next
  i,          \* the index of its loop, from 1
  circuit,    \* the resource that is the circuit, 0 before it is found
  used,       \* parserUsed, the resources that have been put to use
  streams,    \* circuitStreams: each type's resources, 0 where it has none
  setting,
  exit        \* 0 or 1, or what else ended the program

organizer == <<scenario, stage, i, circuit, used, streams, setting, exit>>

resources == scenario.resources
types == scenario.types

At(s) == stage = s
Goto(s) == stage' = s /\ i' = 1 /\ UNCHANGED exit
Exit(code) == stage' = "exit" /\ exit' = code /\ UNCHANGED i
Running == exit = "running"

(* operator== of types. Of a plugin's binding the name, the operation and   *)
(* the number of parameters are compared; of a numeric parameter only its   *)
(* form, as the constant `numeric' stands where its number should.          *)
SameType(l, r) ==
  /\ l.variety = r.variety /\ l.prime = r.prime
  /\ l.name = r.name /\ l.parameters = r.parameters

OrganizerInit ==
  /\ scenario \in Scenarios
  /\ stage = "open" /\ i = 1
  /\ circuit = 0 /\ used = {}
  /\ streams = [j \in DOMAIN scenario.types |-> [public_in |-> 0, private_in |-> 0]]
  /\ setting = "failure" /\ exit = "running"

(* Every resource is opened and its header parsed.                          *)
Open ==
  /\ At("open")
  /\ IF \E k \in DOMAIN resources : resources[k].fault = "open" THEN Exit("1")
     ELSE Goto("circuit")
  /\ UNCHANGED <<scenario, circuit, used, streams, setting>>

(* The loop over the resources that looks for circuits, and the header of   *)
(* the one that was found.                                                  *)
FindCircuit ==
  LET circuits == {k \in DOMAIN resources : resources[k].kind = "circuit"}
      unsupported == {k \in DOMAIN resources :
                        resources[k].kind \in {"translation", "configuration"}}
  IN  /\ At("circuit")
      /\ IF /\ Cardinality(circuits) = 1 /\ unsupported = {}
            /\ \A k \in circuits : resources[k].fault = "none"
         THEN circuit' \in circuits /\ used' = circuits /\ Goto("streams")
         ELSE Exit("1") /\ UNCHANGED <<circuit, used>>
      /\ UNCHANGED <<scenario, streams, setting>>

(* A mutant: a second stream replaces the first.                            *)
TakenNever(j, side) == FALSE

Taken(j, side) == streams[j][side] /= 0

(* A stream is given to every type that is the stream's; at the second one  *)
(* the assert that the stream is unused fails.                              *)
MatchStream ==
  LET side == resources[i].kind
      equal == {j \in DOMAIN types : SameType(types[j], resources[i].type)}
      first == Min(equal)
      second == Min(equal \ {first})
  IN  /\ At("streams") /\ i <= Len(resources)
      /\ IF side \notin {"public_in", "private_in"}
         THEN i' = i + 1 /\ UNCHANGED <<stage, exit, used, streams>>
         ELSE IF resources[i].fault = "body"
         THEN Exit("1") /\ UNCHANGED <<used, streams>>
         ELSE IF equal = {}
         THEN i' = i + 1 /\ UNCHANGED <<stage, exit, used, streams>>
         ELSE IF Taken(first, side)
         THEN Exit("1") /\ UNCHANGED <<used, streams>>
         ELSE /\ streams' = [streams EXCEPT ![first][side] = i]
              /\ used' = used \cup {i}
              /\ IF equal = {first} THEN i' = i + 1 /\ UNCHANGED <<stage, exit>>
                 ELSE Exit(IF Taken(second, side) THEN "1" ELSE "assert")
      /\ UNCHANGED <<scenario, circuit, setting>>

Public(j) == streams[j].public_in /= 0
Private(j) == streams[j].private_in /= 0
OnlyPrivate(j) == Private(j) /\ ~ Public(j)

(* The search for the setting ends at the first type with a stream, but     *)
(* also at the first field.                                                 *)
Decides(j) == Public(j) \/ Private(j) \/ types[j].variety = "field"

Deciding == {j \in DOMAIN types : Decides(j)}

DecideSetting ==
  /\ At("streams") /\ i = Len(resources) + 1
  /\ IF Deciding = {}
     THEN setting' = "preprocess" /\ stage' = "check" /\ i' = Len(types) + 1 /\ UNCHANGED exit
     ELSE LET j == Min(Deciding)
          IN  IF OnlyPrivate(j) THEN Exit("1") /\ UNCHANGED setting
              ELSE /\ setting' = IF ~ Public(j) THEN "preprocess"
                                 ELSE IF Private(j) THEN "prover" ELSE "verifier"
                   /\ stage' = "check" /\ i' = j /\ UNCHANGED exit
  /\ UNCHANGED <<scenario, circuit, used, streams>>

MissingPublic(j) ==
  types[j].variety /= "plugin" /\ setting \in {"verifier", "prover"} /\ ~ Public(j)

(* A mutant: a prover needs no private streams but the first.               *)
MissingPrivateNever(j) == FALSE

MissingPrivate(j) ==
  types[j].variety /= "plugin" /\ setting = "prover" /\ ~ Private(j)

(* The second loop goes on from the type where the first one ended.         *)
CheckStreams ==
  /\ At("check")
  /\ IF \E j \in i..Len(types) : OnlyPrivate(j) \/ MissingPublic(j) \/ MissingPrivate(j)
     THEN Exit("1") ELSE Goto("used")
  /\ UNCHANGED <<scenario, circuit, used, streams, setting>>

CheckUsed(next) ==
  /\ At("used")
  /\ IF used = DOMAIN resources THEN Goto(next) ELSE Exit("1")
  /\ UNCHANGED <<scenario, circuit, used, streams, setting>>

OrganizerNext(next) ==
  \/ Open \/ FindCircuit \/ MatchStream \/ DecideSetting \/ CheckStreams \/ CheckUsed(next)
===============================================================================
