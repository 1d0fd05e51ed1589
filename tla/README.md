# wiztoolkit in TLA+

wiztoolkit reads zero-knowledge circuits written in the Circuit-IR (SIEVE IR),
in text or in flatbuffers, and hands them to a backend gate by gate. Its tools
are `firealarm` (evaluates a circuit in the clear and says whether it is well
formed) and `press` (converts between the formats). The library part, which
proof systems link against, is the *interpreter*: it keeps the wires of each
type and of each function under way, decides which directives are legal, and
gives backends the addresses they read and write.

All sources named below are relative to `src/src/main/cpp/wtk/` unless they
start with `docs/` or `src/`.

- [1. The system](#1-the-system)
- [2. Modules](#2-modules)
- [3. Runs](#3-runs)
- [4. Bounds](#4-bounds)
- [5. Fairness and deadlock](#5-fairness-and-deadlock)
- [6. Proofs](#6-proofs)
- [7. Where the code does not keep what is said](#7-where-the-code-does-not-keep-what-is-said)
- [8. Not modelled](#8-not-modelled)
- [9. Plan](#9-plan)

To check a module: `tlc -config MCScope.cfg MCScope.tla`; to prove one:
`tlapm FunctionCheck_proofs.tla`.

## 1. The system

A tool opens its *resources* (relations, private and public streams).
`ParserOrganizer` parses their headers, matches streams to the types of the
circuit and decides whether the tool runs as prover, verifier or preprocessor.
The relation's *parser* then calls a *handler* with every directive. The
handler (`nails::Handler`) gives directives at the top level straight to the
*interpreter*; those between `@function` and `@end` it records in a
*function*, which is *type-checked* once, at its end, and evaluated by the
interpreter at every call. The interpreter has one *lead type interpreter* for
each type, which keeps a stack of *scopes*; a scope keeps the wires of one type
in one function, with two *interval sets* to know which are assigned and which
are active. A *type backend* does the arithmetic. Functions may also be bound
to *plugins* (RAM, vectors, multiplexers, extended arithmetic, iteration).
`press` puts a *printer* where `firealarm` has the handler: it writes what one
parser reads in the format of the other.

Everything is sequential: one parser, one thread, no callback that re-enters.
There are three hard parts. *Memory by reference across calls*: outputs and
inputs of a call are pointers into the caller's scope, possibly through several
scopes, while the scope keeps moving its wires between allocations. *Checks made
elsewhere*: once, before any call, for functions; directive by directive at the
top level; by type, by index or by name, in tables that keep growing.
*Arithmetic on the way*: unsigned indexes that wrap, slices and places of
several parameters, digits of field elements that a prover may choose.

| component | files | state | operations | what is hard | what makes it correct |
|---|---|---|---|---|---|
| Interval set | `utils/SkipList.*` | linked list of `[first, last]`, highest first | has, hasAll, insert, remove (number and interval), forRange, integrityCheck | unsigned wrap-around at 0 and at the top; early stopping walks that trust the order; joining and splitting | the list is canonical (ordered, disjoint, never adjacent); each call does to the list what its name says to a set |
| Scope | `nails/Scope.*` | coindexed `offsets` and `ranges` (memory), `assigned`, `active`, `firstLocal` | newRange, deleteRange, retrieve, assign, findRange, mapOutputs, mapInputs, findOutputs, findInputs, destructor | ranges of single assignments grow and overlap the declared ones; `@new` cuts them and moves wires; addresses given out must stay good until a call returns | every active wire is constructed in exactly one cell, the one a lookup finds; a wire is assigned once and never comes back after deletion |
| Calls and interpreters | `nails/Interpreter.*`, `nails/TypeInterpreter.*`, `nails/Converter.*` | a stack of scopes for each type, the memory they share | gates, copies, stream inputs, convert, `@new`, `@delete`, push, pop, mapOutput, mapInput, checkOutput, invoke | parameters numbered per type twice (when mapped, when checked); refusals in the middle of nested calls; partly assigned outputs | mapping by reference means what copying would mean; nothing that holds a value is written again |
| Function type check and handler | `nails/Functions.*`, `nails/Handler.*` | recorded gates; `assigns`, `actives`, `allocations` while checking; the table of functions | startFunction, recording, endFunction (typeCheck), regularFunction, pluginFunction, invoke, evaluate | a second opinion, by different code, of what the scope will do; names resolved at the check and again at every call | what it accepts the scope does not refuse; calls resolve and never recur; a call does what its body inlined would |
| Iteration plugin | `nails/IterPlugin.*` | the map under way: slices, places, the number of the iteration | create, evaluate | slices of each parameter and per-type places at each iteration; results that nobody looks at | iteration `i` of the callee sees slice `i` of each mapped parameter |
| Plugin management | `nails/Plugins.*`, `plugins/{Plugin,PluginBackend,SimplePlugin}.*` | table of plugins, of backends by type, of operations | addPlugin, addBackend, create, evaluate | backends cast to the class that a plugin expects | an operation is made for the wires of a type of the signature |
| RAM plugins | `plugins/{ArithmeticRAM,BooleanRAM}.*`, `firealarm/RAM.*` | buffers, counts of allocations | init, read, write | elements as runs of bits; a fallback made of gates that compares every index | a read gives the last value written; both backends agree |
| Other plugins | `plugins/{ExtendedArithmetic,Multiplexer,Vectors}.*` | none | pure operations on vectors of wires | bit order, strictness, widths, uniqueness of digits | each equals its reference definition |
| firealarm backends | `firealarm/{FieldBackend,RingBackend,Converter,Wire}.*`, `Counters.h` | counters of directives and live wires, failure flag | one per gate, stream inputs | failures that only count in a prover | a failed assert is never forgotten |
| firealarm program | `firealarm/main.cpp` | plugins, backends and converters by the index of their type | submain | order of steps, tables indexed alike | exit code follows the failures; everything belongs to its type |
| ParserOrganizer | `utils/ParserOrganizer.*` | list of parsers, streams per type, setting | open, organize | inference of the setting from the streams that exist | every type has the streams its setting needs, or the tool stops |
| Text parser | `irregular/*` | grammar automata over a refilled buffer | one parse function per rule | which statements are accepted where | the calls are those of the text |
| Binary parser | `flatbuffer/*` | current buffer of the file | parse | functions and streams in several buffers | hands over what the file says |
| press | `press/*` | recorded gates of the buffer and of the function under construction | one per directive | splitting of gates into buffers of 2 GB | output parses to the same directives |
| Pool, CharMap, number utilities | `utils/*` | chunks; strings; none | allocate; compare; convert | nothing that a unit test would not reach | allocations do not overlap |

The hazards behind this table, one by one and at their lines, are the
"hazards" of PROJECT.json.

## 2. Modules

```
NumberSet      <--refines-- SkipList                  interval sets
WireStore      <--refines-- Scope, WireRanges         the wires of one function and type
PureCalls      <--refines-- CallStack                 calls, wires mapped by reference
                            FunctionCheck             typeCheck beside Scope (EXTENDS Scope)
InlinedCircuit <--refines-- Handler                   the table of functions, evaluation by name
MapCalls       <--refines-- IterPlugin                maps over slices
                            FieldGates                gates of backends, one-bit logic
                              ExtendedArithmetic      EXTENDS FieldGates
                              Vectors, Multiplexer    EXTENDS ExtendedArithmetic
                              Plugins                 from a backend to the results
RAMArray       <--refines-- RAM                       EXTENDS Multiplexer
                            ParserOrganizer
                              Firealarm               EXTENDS ParserOrganizer: the program
                            Resource
                              FlatbufferFile, TextFile  the two formats
                              Press                     EXTENDS both: text, flatbuffer, text
```

Each layer uses the one above through its abstract specification: Scope keeps
`assigned` and `active` as sets because SkipList is shown to be one; CallStack
keeps a wire at a *location* because Scope is shown to keep every active wire
in one cell; Handler leaves wires out because CallStack and FunctionCheck have
them. A definition marked "mutant" beside the original is a plausible bug under
which a run finds a property violated; mutants are not part of the
specification.

### SkipList (`utils/SkipList.h`, `SkipList.t.h`)

`list` is the linked list in the order of its `next` pointers, `reply` the last
call with its answer. A walk along the list is written as the choice of the
first position at which one of the code's conditions holds; the conditions
(`ExtendsLast`, `FitsAboveNext`, ...) are the code's, with its wrapping
`Succ` and `Pred`. `MaxArg < MaxNumber` is the part of the number type in which
the code is right. **NumberSet** is the abstract set with the same calls.

### WireRanges and Scope (`nails/Scope.h`, `Scope.t.h`)

`WireRanges` holds the layout as operators over a sequence of ranges: the
binary search, growth of single-assignment ranges, the cut that `newRange`
makes, the walk of `deleteRange`, the lookups. A cell is `Raw` (allocated, not
constructed), the index of the wire whose value it holds, or `Garbage` (moved
out of a cell that held nothing), so that "the value of wire w" is just `w`
and every mix-up is visible. `Scope` is the state machine: one action per call,
with the set-up of a function call (`MapOutputs`, `MapInputs`) as a phase.
Outputs of calls go through the three steps the interpreter makes: found
(`FindOutputs`), written through the addresses, marked (`ReturnOutputs`).
`AvoidForeign` leaves out programs in which a new range cuts a grown one that
already runs into others, which corrupts the scope (section 7).
**WireStore** is the abstract assign-once store.

### CallStack (`nails/Interpreter.*`, `TypeInterpreter.*`, `Converter.*`)

`stack` has, for each depth and type, the scope's sets of wires, its first local
wire and, below it, the ranges mapped from parameters, each with the scope and
the first wire that own its memory. `LocationIn` follows a wire to its
*location* (the depth, type and wire that own it), as `retrieve` does; `Lengths`
numbers the parameters of each type, as `invoke` does with its `places`;
`memory` and `constructed` say what each location holds and whether a
constructor ran; `calls` are the outputs of each call under way; `failed` is
set when a directive is refused, after which only `Return` remains: the calls
under way unwind as the code's `return false` does, still checking outputs and
popping. Directives are plain gates, copies of intervals, stream inputs,
conversions, deletions and calls; `Directives` selects those of a run.
`Refuse` is a refusal of any directive for a reason this level does not see.
`Checked` says whether directives have passed the type check (inside
functions) or not (top level). **PureCalls** is call by value.

### FunctionCheck (`nails/Functions.*`)

Runs `typeCheck` and the evaluation of the same body side by side: each action
checks a directive against `assigns`, `actives` and `allocations` and, if it is
accepted, performs it in `Scope`. `Lenient` lists the known places at which the
two differ: `"mapped"` (deletions of parameters), `"several"` (of more than one
range), `"type"` (intervals of stream inputs whose type is misread) and `"self"`
(conversions within one type). A name in it lets its case in. Only `"self"` is
harmless to the properties of the run and is let in.

### Handler (`nails/Handler.t.h`, `Functions.t.h`, `Interpreter.t.h`)

What is above wires: `functions` is the table, `signature`, `building` and
`gates` the function under construction, `stack` the calls in evaluation as
names and positions (a call is resolved by name, as in the code), `pushed` the
scopes that calls pushed. At the top level a directive is performed, in a
function recorded; `EndFunction` is typeCheck (`BodyFits`) and, if it passes,
the registration. Checks of wires, which other modules have, succeed or fail.
`status` is `"undefined"` or `"assert"` where the code has undefined behaviour
or a `log_assert`: a conversion that does not exist, a type index equal to the
number of types. **InlinedCircuit** performs, for each top-level directive, a
sequence of operations, in order and once; the refinement mapping `Todo` gives
what is left of the calls under way, their bodies inlined (`Expansion` is
defined by what it satisfies, a function that no recursion over names needs to be
unfolded for).

### IterPlugin (`nails/IterPlugin.t.h`)

One call of a map: `Enter` is the plugin function's own scope, `Unassign` takes
back the marks of its outputs, and each iteration goes through `Enumerate` (the
iteration's number is made, as one wire or as bits), `Remap` (a slice of every
parameter), `Evaluate` (which may fail and assign only some outputs) and `Check`
(marks, pop, deletion of the number). Places are computed from the parameter
that the code takes them from. `Aligned` keeps to signatures for which
these lengths agree. **MapCalls** calls a function `Count` times on chunks.

### FieldGates, ExtendedArithmetic, Vectors, Multiplexer, Plugins

Pure operators, each from a signature to a result: the output ranges, the
values asserted to be zero, and whether all of it is defined. `Plugins` is the
short machine around them: a backend is added, a signature is checked
(`Create`), the operation is evaluated on every assignment. Values a prover
chooses (`getExtendedWitness` and digits) are the right ones in `Evaluate`, and
`DecompositionsExact` quantifies over all others.

### RAM (`plugins/{ArithmeticRAM,BooleanRAM}.t.h`, `firealarm/RAM.t.h`)

`buffers` is firealarm's RAM, `raw` the fallback that only has gates; every call
goes to both. `counter` has the allocations that firealarm reports.
`undefined` says why the code's behaviour is not defined in the call, after
which nothing is modelled; `odd` that a call was made on a size for which the
fallback's gates are wrong. `call` is the last call as it was given, which no
call looks at. **RAMArray** is an array per buffer, with the same calls; an
index is there the number that the call's wires stand for (`Number`, a sum of
weighted wires, where the code shifts).

### ParserOrganizer and Firealarm (`utils/ParserOrganizer.t.h`, `firealarm/main.cpp`, `plugins/Plugin.t.h`)

A *scenario* fixes the files: the resources with their faults, the circuit's
types, plugins and conversions. `stage` is where the program is and `i` the
index of its loop. `refs`, `counters`, `given` and `converters` are the tables
that later steps index; `Parse` stands for the evaluation of the circuit, which
can fail what is in `CanFail`, and `Create` for the requests of plugin functions
during it. `exit` is the code, or `"assert"`, or `"undefined"` where memory past
the end of a table is read.

### Resource, FlatbufferFile, TextFile, Press (`press/*`, `flatbuffer/Parser.t.h`, `irregular/CircuitIR.i.h`)

`Resource` has the calls of `circuit::Handler`. `FlatbufferFile` has the printer
(directives collected, a buffer finished when it is nearly full) and the parser
of buffers; `TextFile` the statements the other printer writes and what the
grammar makes of them. `Press` composes them as the regression tests do: the
calls of a first text are printed to buffers, the buffers parsed and printed as
text, the text read again; `given`, `parsed` and `received` are the three
sequences of calls.

## 3. Runs

| run | shows |
|---|---|
| `skiplist` | over every list of ranges of 0..6 and every call: the list stays canonical (`Integrity`), `has`, `hasAll` and the overlap query are exact although they stop early (`QueriesExact`), `forRange` visits exactly the held part of an interval, in order (`ForRangeExact`), and the list implements a set (`IsNumberSet`) |
| `scope` | all programs over five wires, up to one below the top of the index type, with small ranges that grow, are cut, deleted and overlap, and with one wire possibly mapped: offsets stay sorted, the binary search is exact, and every active wire is in the one cell a lookup finds (`LayoutExact`), intervals given to callees are consecutive cells of the right wires (`FindInputsExact`), addresses of outputs stay free until the call returns (`OutputsFree`), and the scope implements WireStore, in which a wire is assigned once and never comes back |
| `callstack` | calls three scopes deep with arbitrary bodies, any directive of which may be refused: mapping by reference implements PureCalls (`IsPureCalls`), every active wire refers to memory that is alive (`ActiveHeld`), and nothing that holds a value is written again, also while refused calls unwind (`WriteOnce`) |
| `callstack_types` | two types, two outputs: numbering of parameters per type, conversions and deletions between calls, and a constructor ran for every wire that becomes active (`ActiveConstructed`) |
| `function_check` | bodies over four wires with calls returning two intervals: what typeCheck accepts the scope does not refuse (`AcceptedEvaluates`), its sets agree with the scope's (`CheckAgrees`), its allocations are the scope's fixed ranges (`AllocationsAreRanges`) |
| `handler` | circuits of up to six directives with two functions: functions are in the table only after their check, calls never recur (`NoRecursion`) and always resolve (`CallsResolve`), scopes are balanced also after refusals (`ScopesBalanced`), evaluation ends (`Terminates`) and performs what the inlined circuit would (`IsInlined`) |
| `iter_plugin` | maps over all signatures within the bounds, any iteration of which may fail: every slice is found (`SlicesFound`), each iteration reads and assigns its own chunks (`IsMapCalls`), the call ends (`Terminates`) |
| `plugins` | every signature of up to seven wires over five fields and a ring: what is accepted computes what its name says, and a prover with right values fails no assert (`ResultsExact`), digits that pass the asserts of a decomposition are the right ones but for zero (`DecompositionsExact`), and what is left undefined is in a list (`UndefinedOnly`) |
| `ram` | four calls on two buffers of three RAM types: firealarm's RAM implements an array, reading and writing for each call the element at the number of its index and failing just for numbers beyond the buffer, and reports what its arrays take (`IsArray`), the fallback agrees with it (`BackendsAgree`) |
| `firealarm` | the program from its resources to its exit code: streams reach their types (`StreamsPlaced`) and suffice for the setting (`StreamsSuffice`), backends, counters and converters belong to their types (`BackendsMatch`, `BackendsGiven`), the cases of undefined behaviour and asserts are in a list (`UndefinedOnly`) |
| `press` | circuits and streams of up to six calls, in buffers that hold two gates: no call is lost, repeated or moved (`NothingMoved`), all but two kinds of calls mean the same (`MeaningKept`), refusals have a reason, and a function is refused only if its gates fill more than half a buffer less the slack (`StopsForReason`), both programs end (`Terminates`) |
| `press_round_trip` | a violation: conversion to flatbuffer and back gives the same circuit (`RoundTrip`), see section 7 |

Every property of a passing run has a mutant in PROJECT.json. The type invariants
are conjuncts of a run's invariant (`LayoutExact`, `ActiveHeld`,
`AllocationsAreRanges`, `SlicesFound`, `ResultsExact`, `BackendsAgree`,
`NothingMoved`), or proved (SkipList, Handler, Firealarm).

## 4. Bounds

- **SkipList**: `MaxNumber = 7`, arguments 0..6. A call looks at two neighbouring
  ranges and at most one more that it joins; seven numbers hold four ranges
  with gaps, so every combination of "joins above", "joins below", "splits",
  "lowest range" and "highest range" occurs. The proof removes the bound.
- **Scope**: five wires (0..4). A grown range of two cells (`DefaultSize`, 4 in
  the code) is outgrown, overlapped, and cut in the middle with wires on both
  sides. `MaxWire`, the top of the index type, is 5, so that growth saturates.
  Two intervals (`MaxOutputs`) are found before any is written.
- **CallStack**: depth 3 is the least at which a mapping goes through a mapping.
  Two wires of one type there, with calls of one output and two inputs; two
  types at depth 2 with two outputs and one input. Two values tell any two
  wires apart that a property compares. `TopWire` is 5, so that the code's
  unsigned subtractions can be told from valid wires. `CallAssumption` asks that
  the parameters of one call fit the number type (`(MaxOutputs + MaxInputs) *
  MaxLength <= TopWire + 1`): a place beyond it would wrap in the code, with
  more wires than memory holds. Values and types are
  symmetric (`Symmetry` of MCCallStack): no definition tells one from another,
  and the properties checked are all safety properties.
- **FunctionCheck**: four wires, parameters of up to two, at most two intervals
  for each call.
- **Handler**: two functions, two types (and the indexes 2 and 3 that are not
  defined), six reads (`MaxRead`): a function, a second one that calls it, and a
  call of that take six. Names may be redefined, called too early, and called
  with the wrong counts and lengths. The proof removes the bounds.
- **IterPlugin**: two types, parameters of up to two wires, two outputs, two
  inputs and the iteration's number, two iterations: the least at which places
  of parameters of one type, of several types and of later iterations differ.
  `TopWire = 40` is not reached.
- **Plugins**: the primes 2, 3, 5, 7 and 11 and a ring of two bits. 3 and 7 are
  all ones, 5 and 11 have zeros among their digits, which the comparison treats
  apart. Up to 343 assignments of inputs (`MaxAssignments`, three wires of the
  field of 7) are all tried; wider inputs hold 0, 1 and -1.
- **RAM**: two handles, which are symmetric, buffers of up to five elements,
  beyond what indexes of one bit, two bits or modulo 3 can number, four calls.
- **Firealarm**: all sequences of up to three streams, and of four different
  ones, with circuits of up to two types; two streams with three types; types
  of every precision and RAM, before and after the types they refer to, with
  RAM, multiplexer and iteration plugins. `TypeLimit` is 4. The proof removes
  these bounds.
- **Press**: buffers of four entries of which two are slack, so that a split
  occurs after every second gate and in every kind of place; three types, two
  wires; five calls and the end. The proof removes these bounds.

## 5. Fairness and deadlock

The programs are sequential. What must happen, happens because a single thread
that waits for nothing goes on: this is weak fairness of the steps that the
program takes by itself, and of no others.

- **IterPlugin**: `WF_vars(Next)`, a call of evaluate in progress.
- **Handler**: `WF_vars(Next)`; a parser reads at most `MaxRead` directives, as
  a file is finite, and evaluation ends because functions call older ones.
- **Press**: `WF_vars(Proceed)`, the steps that follow the first input; the
  input itself (`Print2Flatbuffer`) may stop coming. The fairness is in
  `FairSpec`; `Spec`, of which the theorems are, has none.

Elsewhere the input drives every step and may end anywhere, or only safety is
asked: no fairness is assumed. A refused directive stops the tool, and a program
that has ended takes no step, so the configurations say `CHECK_DEADLOCK FALSE`,
except those of SkipList and IterPlugin.

## 6. Proofs

Eight modules of proofs. Each theorem holds for every value of the constants
that satisfies the named assumptions, and each proof is of the specification
that TLC runs.

The library's induction theorems take an operator as a parameter, which the
installed provers cannot instantiate; an induction over positions is written
out instead, by applying `LeastNat` (a nonempty set of natural numbers has a
least member) to the set of the positions where the claim fails. The modules
that need it begin with it and with what follows from it: `IterationExists` and
`IterationAtExists` give, from a first value and a function for each step, the
function that a recursive definition chooses; `RankedExists` does so for
recursion on anything that descends in a rank, and `FlattenIs` says of a
concatenation of sequences what it is one sequence at a time.

**SkipList_proofs**, for every `MaxNumber` and every `MaxArg < MaxNumber`:
`TypeOK`, `Integrity`, `QueriesExact`, `ForRangeExact` and the refinement
`IsNumberSet`. None of them is inductive: a join of two ranges keeps the order
only if ranges were never adjacent, and the early-stopping queries are exact
only of ordered lists. The inductive invariant is `IInv == TypeOK /\
Canonical(list)`, where `Canonical` says that each range lies more than one
number above every later one (`Integrity` says so of neighbours only). The
lemmas say of each position of a walk what replacing, joining, splitting or
erasing there does to the elements and to the order. What `forRange` visits is
shown one range at a time (`ClippedTo`), from the highest down, and turned round
at the end; the range at which the walk stops is the last that it could visit
(`ReachedAll`). The hypothesis is needed: at the top of the type `insert` wraps
(section 7). `Next` leaves out `remove(n)` of the only number of a range
(`HeldAlone`), which breaks the list and which nothing in the repository calls.

**FunctionCheck_proofs**, its parts about Scope, for every width of the index
type, every default size and any number of ranges: `LayoutExact`,
`FindInputsExact`, `OutputsFree` and the refinement `IsWireStore` under
`AvoidForeign` and `MaxArg < MaxWire`. The first hypothesis keeps out the cuts
that corrupt the scope, the second the top of the type, where a length wraps to
0; without either the properties are false (section 7). What a user sees, that a
lookup finds the wire's one cell, is not inductive: whether a cut keeps it
depends on where the other ranges lie. The inductive invariant `Layout` says so:
ranges are sorted and none starts inside a declared or mapped one, a grown range
starts at a wire that was assigned (`Shape`); every active wire lies in the last
range that starts at or below it, in the cell of its own, and no other cell
holds anything (`Cells`); the outputs found for a call lie in ranges that no
operation before the return moves (`PendingHeld`). Grown ranges may run into
others, which is why "the last range that starts below", and no simpler
partition, is what holds. The first part of the module shows of each operation
of the layout that it keeps `Shape` and `Cells`: most replace one range by
several (`SpliceShape`, `SpliceCells`), a cut replaces a piece at a time, an
erasure takes out a run. `BinarySearchIs` is the loop of `findRange`.

**FunctionCheck_proofs**, its last part: `CheckAgrees` if the type of an
interval of stream inputs is read where it was written (`"type" \notin
Lenient`), and `AcceptedEvaluates` and `AllocationsAreRanges` under `Lenient =
{}`, `AvoidForeign` and `MaxArg < MaxWire`. The code does mishandle the programs
that `Lenient` would let in (section 7); the run lets in conversions within one
type besides, which the proof leaves out: their inputs are found first, and
making the output's range may then move them. `AcceptedEvaluates` says that no
directive is refused; a body may still leave an output unassigned, for which
typeCheck does not ask and which its caller then refuses. The invariant is
`Agree`: the two sets are the scope's, and the table of allocations is `Match`,
sorted, disjoint, and exactly the spans of the scope's declared and mapped
ranges, among which lie all mapped wires. That what typeCheck finds within an
allocation the scope finds within a range is then a matter of sorted sequences;
outputs of one directive are found one after the other, each adding to table and
ranges (`FoundUpTo`), and a deletion erases the same rows on both sides.

**CallStack_proofs**, for any number of types, wires, parameters and scopes:
`ActiveHeld`, `WriteOnce` and the refinement `IsPureCalls` under `Checked =
TRUE`, and `ActiveConstructed` if in addition no interval of public inputs is
read, whose wires no constructor runs for. `Checked` is needed: at the top
level, which typeCheck does not see, two outputs of a call may be the same wires
(section 7). That a write through a mapped wire overwrites nothing depends on
every scope below, and the invariant `Held` says of the states in which nothing
was refused how they fit together: in each scope mapped ranges follow one
another below the local wires and lead to scopes further down (`Mapped`); the
outputs of each call under way are disjoint, still unassigned where they belong,
and located where the callee expects them (`Linked`); and `Free`, about the
wires not yet assigned: no two of a scope share a location, none has memory,
except those that a call under way is to assign, and those alone may share a
location with a wire of a scope above. For states in which something was refused
only `TypeOK` and the sizes of the two stacks hold (`AssignedWritten` of section
7 is false), and `WriteOnce` survives because unwinding only releases memory.

For the refinement (`CallsArePure`) a scope is seen as a `Frame`: the values of
its active wires, its assigned wires, and the outputs of the call that made it.
A directive changes the top frame only, because `Free` keeps what it writes out
of every other scope's active wires (`AssignMaps`, `DeleteMaps`). A call adds
the frame that a copy of its inputs makes, since an input of the callee is at
the location of the wire it was mapped to (`InputFrom`, `InvokeMaps`). A return
joins the two top frames: what it marks as assigned in the caller already is at
the locations where the callee wrote its outputs (`OutputsRenamed`,
`ReturnMaps`). A refusal, from which on PureCalls has no frames, is a step too
(`FailMaps`), and what unwinds after it stutters.

**Handler_proofs**: `TypeOK`, `NoRecursion`, `CallsResolve`, `ScopesBalanced`,
`UndefinedOnly` and the refinement `IsInlined`, for every set of directives and
signatures. That no
function is on the stack twice is not inductive: it follows because bodies
only call functions that were in the table before them. The invariant says it
without a history: there is an *age* for each function such that bodies call
older ones (`CallsOlder`) and the stack descends in age (`StackOlder`); a new
function takes an age above all others (`Ordered`). `BodiesFit` says that what
typeCheck saw of a call stays true, because entries of the table never change.

For the refinement (`Inlining`) the ages are the measure by which the expansion
of a call exists (`ExpansionIs`, with the age, whether it is a call and of what
as the rank), and it stays what it was when a function is added, as no body
calls the new one. What is left to do is the rest of each call's body, the
innermost first (`Left`). Each step of the handler then performs the first
operation of it or rewrites it into itself: a call that is entered stands for
its expansion (`EvaluateCallStep`), a call that ends has nothing left
(`ReturnStep`), and a failure drops everything (`StopStep`), as the inlined
circuit does.

**Firealarm_proofs**: all invariants of the run, with `TypeOK` and `CreatedFits`
(an operation is made for a wire of a type that was built), for every set of
scenarios: resources of any number and kind, circuits of any types and
conversions. The assumptions are that a scenario's parts have their shapes,
that a field has a prime, and that types are numbered from 1. The organizer's
half of the invariant says what is settled at each stage: streams given are of
their type and given once (`Placed`), used resources are placed
(`UsedPlaced`), fields that the loops have passed have their streams
(`Checked`); types before the one that decided the setting are no fields. The
program's half says that while types are built there is a backend for each
one before the index (`Building`), each at its own index (`RefsFit`), and what
each plugin has been given (`GivenFit`, `RAMFits`).

**Press_proofs**: `NothingMoved`, `MeaningKept` and `StopsForReason`, for
buffers of every size and any number of types, wires, gates, bindings, values
and calls. The assumptions are that the first parser makes calls of the shapes
it has (`GivenGate`, `GivenBinding`), and that the buffer has room for its slack
and one more entry (`Slack \in 1..(MaxSize - 1)`; the code has 2 GB and reserves
64 KiB). `StopsForReason` also takes that a copy to one wire is of one wire, as
the interpreter demands: a circuit that breaks this is refused when its text is
read. The split into buffers is the matter of the proof. A gate recorded in the
flatbuffer *stands* for a call if it reads as that call but for what the format
has no place for (`Like`). An item stands for consecutive calls of `given`
(`ItemAt`): one, or all those of a function. The items of the closed buffers, of
the printer, and of a function under construction stand for the whole of `given`
between them, each beginning where the one before ended, across the ends of
buffers (`Placed`, `Written`); the function under construction stands for an
open end of it (`Open`), since its item is made only at `endFunction`. When the
file is written nothing is open (`Filed`), and no buffer of a stream but the
last is empty (`NoneEmpty`), without which the parser would end too early. In
f2t the calls parsed are those up to the item at which the parser stands
(`Parsing`); the text is the printed lines of the calls parsed (`TextOf`), of
which `regularFunction` has none, so that the line that is read and the call
that is made part company by one at each function; what is received is what the
lines above the current one say (`ReadUpTo`). `IInv` is these by stage, with the
reason of each stop (`Reasons`). For functions that are too big it is a separate
invariant, `Room`: half a buffer is left when a function begins, and only its
own gates have been added since. None of the three properties is inductive
without them, as they speak of `given` and `parsed` and nothing of what lies
between.

**IterPlugin_proofs**: `SlicesFound` and the refinement `IsMapCalls`, under
`Aligned`, for any number of types, parameters, wires and iterations whose
wires the index type can number (`TopWire` in `IterAssumption`). `Aligned` is
needed: the code takes lengths and places from other parameters (section 7).
That an iteration finds its slices depends on what the iterations before it
left, which neither property says. The inductive invariant `IInv` says, for the
map under way: the plugin's inputs keep their values (`InputsHeld`), the outputs
of this and of later iterations are unassigned (`OutputsFree`), the iteration's
number is in place (`NumberHeld`), its scope shows the slices it was given
(`Shown`), and what the function assigned is where its outputs were mapped
(`ResultsHeld`). The lemmas before it are about places: parameters of one type
follow one another without overlap (`WiresApart`) and below the iteration's
number (`PluginBelow`), a slice lies within its parameter (`ChunkWithin`), and
the places that `advance` moves along, that the check of the outputs takes and
that the mapped ranges have are the same (`AdvancedAgrees`, `CheckPlaceAgrees`,
`FlattenPlaces`). In the refinement the step that marks an iteration's outputs
(`Check`) is the abstract call, and all others stutter.

**RAM_proofs**: the refinement `IsArray` and `BackendsAgree`, for any RAM types,
handles, sizes and programs of any length. Of the modulus of an arithmetic RAM
the proof uses one fact, Fermat's little theorem as the fallback's own
square-and-multiply computes it (`FermatAssumption`, which TLC evaluates): a
prime has it, the code compares indexes by nothing else. The inductive invariant
is `Shape` for the refinement, with `Agree` for the fallback. That each call
does to the array what it was asked to rests on the index: the shifts of the
code give the number that the wires stand for (`NumberIs`), since what the last
wires give is their weighted sum (`Rest`, `RestAdds`). `Shape` says that the
buffers hold field elements, `sizes` times the width of an element of them, and
that a Boolean RAM has no more elements than its index has numbers. A buffer of
runs of bits is then an array: `Place` puts bit `j` of element `i` where no
other bit is (`PlacedAt`), so that a write changes one element. `Agree` says
that the two backends' buffers and reads are equal and, in a prover, that both
fail or neither, as long as no call was undefined or of an odd size. That one
call keeps it has three parts. An arithmetic index is compared by Fermat
(`EqualityIs`), and of the products that are added up one is not zero
(`AddedOne`). A Boolean write compares bits: those of a position are what
remains of it after halving (`Rest`, `Low`), and they agree with the index's
bits exactly at the index (`BitEquality`). A Boolean read is the tree of the
multiplexer: each level selects, by the bits below it, the case of the number
that they give, if the subtree has it (`LevelSelects`, `TreeMuxIs`), and the 1
sent through the same tree comes out exactly for indexes in range
(`TreeCheckIs`).

The tree is the multiplexer plugin's own, so that the same lemmas give
`TreeMultiplexerExact`, which is of `EvaluateTree` and of no run's property:
what `ResultsExact` checks of Boolean multiplexers with up to seven wires holds
for any number of selector bits, cases and outputs, once the cases are grouped
as intended (section 7 says when they are not).

Only model-checked: Plugins, of which `ResultsExact` and `DecompositionsExact`
speak of sums of bits, quotients and folds over every signature, and
`UndefinedOnly` of the same signatures. The liveness properties (`Terminates`)
are out of the prover's reach.

## 7. Where the code does not keep what is said

### The finding

`press_round_trip`: a circuit converted to flatbuffer and back is not the same
circuit. `pluginFunction` appends private input counts to the public ones
(`press/FlatbufferPrinter.h:1070`), and a conversion in a function loses its
modulus (line 852), while the regression tests convert every circuit there and
back and expect the original's result. `MeaningKept` of the run `press` shows
that these two are all.

### Stated, and false

Properties that a comment or document of the repository states, defined in the
modules beside those that hold, each with what shows that the code does not keep
it. They belong to no run.

| property | the code | to see it |
|---|---|---|
| `Scope.SortedOffsets`, in `LayoutExact` | `newRange` cuts a range by its allocated length, which may span other ranges (`Scope.t.h:172`): `$0 <- ..; $3 <- ..; @new($2); @new($1)` moves wire 3 twice and leaves the offsets unsorted, against the class's comment | MCScope.cfg with `AvoidForeign = FALSE` |
| `CallStack.WriteOnce` | at the top level two outputs of a call may be the same wires, which the callee then writes twice (`TypeInterpreter.t.h:56`) | MCCallStack.cfg with `MaxOutputs = 2`, `Checked = FALSE` |
| `CallStack.AssignedWritten` | a nested call refused for a parameter returns with its scopes pushed (`Interpreter.t.h:465`), and the outer call marks its outputs in the wrong one | MCCallStack.cfg with `MaxLength = 1`, `Directives = {"call", "fail"}` |
| `FunctionCheck.AcceptedEvaluates` | typeCheck accepts a deletion of a declared range together with other wires, which the scope refuses halfway (`Functions.t.h:789`) | MCFunctionCheck.cfg with `Lenient = {"several"}`, `MaxArg = 2` |
| `FunctionCheck.CheckAgrees` | typeCheck reads the type of an interval of stream inputs through the wrong member of a union (`Functions.t.h:916`) | MCFunctionCheck.cfg with `Lenient = {"type"}` |
| `FunctionCheck.ConvertsWires` | a conversion within one type may read its input after finding the output moved it (`Converter.t.h:25`) | MCFunctionCheck.cfg with `DefaultSize = 4` |
| `IterPlugin.SlicesFound` | slices and places are taken from other parameters' lengths and positions (`IterPlugin.t.h` 260, 281, 304) | MCIterPlugin.cfg with `Aligned = FALSE` |
| `Plugins.DecompositionUnique` | the assert that a decomposition does not overflow compares with less than (`ExtendedArithmetic.t.h:603`) and lets the digits of the prime pass as those of zero | MCPlugins.cfg |
| `Plugins.GroupsDefined` | `inputs.size() - 1 / outputs.size()` (`Multiplexer.t.h:142`): a multiplexer of several output ranges groups its cases wrongly, although the documentation's example is one | MCPlugins.cfg |
| `Firealarm.ConversionsChecked` | `check()` of converters, "at the end of the proof" (`Converter.h`), is never called: an overflow is not a failure | MCFirealarm.cfg |
| `Firealarm.BackendsComplete` | the break after a Boolean RAM ends the loop over the types (`main.cpp:914`), and later types have no backend | MCFirealarm.cfg |
| `Firealarm.SettingMeant` | the setting is recognized from the first field only (`ParserOrganizer.t.h:221`): a preprocessor may have streams, a verifier private ones | MCFirealarm.cfg |

### Seen while modelling

| where | the code | in the models |
|---|---|---|
| `SkipList.t.h:271` | `insert` of an interval ending at the top of the type is accepted over a range that starts at 0 | kept out by `MaxArg < MaxNumber` |
| `SkipList.t.h:330` | `remove(n)` of the only number of a range leaves `last < first`; nothing calls this overload | kept out by `HeldAlone` |
| `Scope.t.h:98` | `@new` of every index has length 0 | kept out by `MaxArg < MaxWire` |
| `Scope.t.h:264` | `@delete` as a first directive fails an assertion | goes on with the error code behind it |
| `Scope.t.h:282`, `381` | the codes for deleted and for never assigned wires are mixed up | as in the code |
| `Scope.t.h:705` | the loops of the destructor do not end if the top index is active | kept out by `MaxArg < MaxWire` |
| `TypeInterpreter.t.h:71` | parts of an unfinished output are marked at subtracted offsets | `MarkParts`; the call has failed |
| `TypeInterpreter.t.h:552` | intervals of public inputs are written to unconstructed memory | kept out by `Directives` of `callstack_types` |
| `TypeInterpreter.t.h:555`, `680` | refused inputs of an interval are marked; a first refused one marks `first .. first - 1` | as in the code; the run has failed |
| `TypeInterpreter.t.h:368` | a copy of several intervals at the top level may read what it just assigned | `CopyMulti`; typeCheck refuses it in functions |
| `Functions.t.h:781` | typeCheck accepts deletions of parameters, which every call then refuses | kept out of `function_check` |
| `Functions.t.h:889`, `929` | typeCheck does not compare totals of copies, nor ask for all outputs | refused at each call |
| `Interpreter.t.h:343` | `convert` reports an unknown conversion and goes on: the return is missing | `status = "undefined"` of Handler |
| `Handler.t.h:409`, `421` | a type index equal to the number of types passes (`>` for `>=`) | `Odd`, `status = "assert"` |
| `IterPlugin.t.h:287`, `301` | results of an iteration's calls are ignored | iterations fail in IterPlugin |
| `IterPlugin.t.h:371` | a textual environment count is reported and then used | numbers are read as such |
| `Multiplexer.t.h:102` | more cases than the prime are reported and accepted | `TooManyCases` |
| `ExtendedArithmetic.t.h:692` | division by zero divides in C++ | `operation = "division"` in `UndefinedOnly` |
| `ArithmeticRAM.t.h:349` | the fallback reads element 0 of an empty buffer and counts to `size - 1` | `undefined`, `odd` of RAM |
| `main.cpp:974` | a conversion of a type that is not declared reads past the end of the types: neither parser checks it | `exit = "undefined"` |
| `FieldBackend.t.h:138`, `86` | publicIn counts a private input, addcGate a multiplication | counts of gates are not modelled |
| `FlatbufferPrinter.h:587` | a function is refused when its gates fill the buffer it began in, which may be half used (line 40): from half a buffer less the slack on, where the message speaks of 2 GB | `"function too big"` |
| `flatbuffer/Parser.t.h:1075` | a vector is resized only if shorter than the index | `outcome = "undefined"` |
| `CircuitIR.i.h:806` | `@modulus` of one wire is refused by the text parser | `"text refused"` |
| `CircuitIR.i.h:102` | after `@private`, `@public` sets the wrong flag and the loop over the private counts goes on: a binding with both is refused | `TextFile.Accepted` |

## 8. Not modelled

- **Characters, tokens and layout**: the grammar's automata and their buffer
  (`AutomataCtx`), number conversions and indentation, the bytes of flatbuffers.
- **Pool, CharMap**: an allocator with one cursor and a comparison of strings.
- **firealarm's counts of gates and live wires**, which only the report prints,
  and `RingBackend`, which the program never makes; the digits of `Converter`.
- **Errors of writing** in press, `NothingPrinter`, options and usage texts.
- **Failure of allocation**: `malloc` never fails.
- **Generators, tests, build and packaging**.

There is no concurrency, no message and no persistent state in these programs,
so there is nothing to model of crashes, losses or retries.

## 9. Plan

What is left, in this order:

1. The results of the other plugins: comparisons and decompositions of bits,
   vectors, and the multiplexer that compares by Fermat.
2. The counts of gates and of live wires along constructors, destructors and
   moves; `Converter`'s digits as operators beside ExtendedArithmetic.
