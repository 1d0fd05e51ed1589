---------------------------------- MODULE RAM ---------------------------------
(***************************************************************************)
(* The RAM plugins. Every call goes to firealarm's RAM (firealarm/RAM.t.h),*)
(* which indexes a buffer directly and counts what it does, and to the     *)
(* fallback RAM that --fallback-ram selects (plugins/ArithmeticRAM.t.h,    *)
(* plugins/BooleanRAM.t.h), which has nothing but gates. An arithmetic RAM *)
(* has elements and indexes of one wire, a Boolean one of several bits.    *)
(***************************************************************************)
EXTENDS Multiplexer

CONSTANTS
  Rams,        \* the RAM types: boolean, modulus p, indexBits and elementBits
  Handles,     \* the wires of the RAM type that calls may name
  MaxSize,     \* the most elements of a buffer
  MaxLength,   \* the longest range of a signature
  MaxCalls     \* the most calls of a program

ASSUME RAMAssumption ==
  /\ \A r \in Rams : /\ r.boolean \in BOOLEAN
                     /\ r.p \in Nat \ {0, 1} /\ {r.indexBits, r.elementBits} \subseteq Nat \ {0}
                     /\ r.boolean => r.p = 2
                     /\ ~ r.boolean => r.indexBits = 1 /\ r.elementBits = 1
  /\ {MaxSize, MaxLength, MaxCalls} \subseteq Nat

(* Of the prime that an arithmetic RAM's modulus is, what the fallback      *)
(* relies on is Fermat's little theorem.                                    *)
ASSUME FermatAssumption ==
  \A r \in Rams : ~ r.boolean =>
    \A a \in 0..(r.p - 1) : exponentiate(r.p, a, r.p - 1) = IF a = 0 THEN 0 ELSE 1

VARIABLES
  ram,         \* the type
  functions,   \* those declared for its operations
  prover,      \* the setting; any other suppresses asserts
  live,        \* the handles with a buffer
  buffers,     \* firealarm's buffer of each handle, a sequence of wires
  raw,         \* the fallback's
  sizes,       \* the number of elements of each buffer
  out,         \* the element firealarm read last
  rawOut,      \* the element the fallback read last
  failure,     \* firealarm's ram->failure
  fail,        \* the fallback's failed assert, in the wires' backend
  undefined,   \* what calls have done that the code does not define
  odd,         \* some call was on a size the fallback's gates are wrong for
  counter,     \* firealarm's TypeCounter of the RAM
  calls,
  call         \* the last call and what it was given; no call looks at it

values == <<buffers, raw, sizes>>
outs == <<out, rawOut>>
ghosts == <<undefined, odd>>
vars == <<ram, functions, prover, live, values, outs, failure, fail, ghosts, counter, calls, call>>

p == ram.p
Word(bits) == [1..bits -> 0..(p - 1)]
ZeroElement(type) == [j \in 1..type.elementBits |-> 0]

(* ----- signatures ------------------------------------------------------- *)

Buffer == [type |-> "ram", length |-> 1]
Wires(n) == [type |-> "wire", length |-> n]

(* Of an arithmetic RAM.                                                    *)
ArithmeticInit(f) == f.outs = <<Buffer>> /\ f.ins = <<Wires(1)>> /\ f.params = <<"numeric">>
ArithmeticRead(f) == f.outs = <<Wires(1)>> /\ f.ins = <<Buffer, Wires(1)>> /\ f.params = <<>>
ArithmeticWrite(f) == f.outs = <<>> /\ f.ins = <<Buffer, Wires(1), Wires(1)>> /\ f.params = <<>>

(* Of a Boolean RAM.                                                        *)
BooleanInit(type, f) ==
  f.outs = <<Buffer>> /\ f.ins = <<Wires(type.elementBits)>> /\ f.params = <<"numeric">>

BooleanRead(type, f) ==
  /\ f.outs = <<Wires(type.elementBits)>>
  /\ f.ins = <<Buffer, Wires(type.indexBits)>> /\ f.params = <<>>

BooleanWrite(type, f) ==
  /\ f.outs = <<>> /\ f.params = <<>>
  /\ f.ins = <<Buffer, Wires(type.indexBits), Wires(type.elementBits)>>

Ranges == [type : {"ram", "wire", "other"}, length : 1..MaxLength]

Signatures ==
  [outs : BoundedSeq(Ranges, 1), ins : BoundedSeq(Ranges, 3),
   params : {<<>>, <<"numeric">>, <<"textual">>}]

(* The functions a relation can declare for the operations of a RAM.        *)
Operations(type) ==
  IF type.boolean
  THEN [init |-> {f \in Signatures : BooleanInit(type, f)},
        read |-> {f \in Signatures : BooleanRead(type, f)},
        write |-> {f \in Signatures : BooleanWrite(type, f)}]
  ELSE [init |-> {f \in Signatures : ArithmeticInit(f)},
        read |-> {f \in Signatures : ArithmeticRead(f)},
        write |-> {f \in Signatures : ArithmeticWrite(f)}]

(* The size is bounded by the index's bits; that an arithmetic RAM has more *)
(* elements than the field is only reported.                                *)
SizeAllowed(size) == ram.boolean => size <= Pow2(ram.indexBits)

(* ----- firealarm's RAM -------------------------------------------------- *)

(* A mutant: the least significant bit first.                               *)
NumbersReversed(idx) ==
  LET number[n \in 0..Len(idx)] == IF n = 0 THEN 0 ELSE number[n - 1] + Pow2(n - 1) * idx[n]
  IN  number

(* The number that the first bits give, the most significant first.         *)
Numbers(idx) ==
  LET number[n \in 0..Len(idx)] == IF n = 0 THEN 0 ELSE 2 * number[n - 1] + idx[n]
  IN  number

Index(idx) == Numbers(idx)[Len(idx)]

(* The wire j of the element i of a flat buffer; elements count from 0.     *)
Place(i, j) == i * ram.elementBits + j

Filled(size, fill) ==
  [k \in 1..(size * ram.elementBits) |-> fill[((k - 1) % ram.elementBits) + 1]]

OutOfRange(h, idx) == Index(idx) * ram.elementBits >= Len(buffers[h])

Element(h, idx) == [j \in 1..ram.elementBits |-> buffers[h][Place(Index(idx), j)]]

Overwritten(h, idx, in) ==
  [k \in DOMAIN buffers[h] |->
     LET j == k - Place(Index(idx), 0)
     IN  IF j \in 1..ram.elementBits THEN in[j] ELSE buffers[h][k]]

Counted(name, n) == [counter EXCEPT ![name] = @ + n]

(* TypeCounter::increment and decrement, of a RAM's counter.                *)
Allocated(length) ==
  LET held == counter.currentAlloc + length
  IN  [counter EXCEPT !.init = @ + 1, !.totalAlloc = @ + length, !.currentAlloc = held,
                      !.maxAlloc = IF held > @ THEN held ELSE @]

Released(length) == [counter EXCEPT !.currentAlloc = @ - length]

(* ----- the fallback's arithmetic RAM ------------------------------------ *)

(* The elements that read adds up: the first, those between and the last,   *)
(* so that a single element comes twice.                                    *)
ReadPlaces(size) == IF size = 1 THEN <<1, 1>> ELSE [i \in 1..size |-> i]

(* What the gates add to a first value, one wire after the other.           *)
Added(first, wires) ==
  LET sum[n \in 0..Len(wires)] == IF n = 0 THEN first ELSE addGate(p, sum[n - 1], wires[n])
  IN  sum[Len(wires)]

Equalities(index, places) ==
  [k \in DOMAIN places |-> FLT_equality_const(p, index, places[k] - 1)]

FLTRead(buffer, index) ==
  LET places == ReadPlaces(Len(buffer))
      equal == Equalities(index, places)
  IN  Added(0, [k \in DOMAIN places |-> mulGate(p, equal[k], buffer[places[k]])])

FLTReadCheck(buffer, index) == Added(p - 1, Equalities(index, ReadPlaces(Len(buffer))))

(* 1 when the wire is not the constant, else 0.                             *)
FLT_inequality_const(in, c) == exponentiate(p, addcGate(p, in, p - c), p - 1)

FLTWrite(buffer, index, in) ==
  [i \in DOMAIN buffer |->
     addGate(p, mulGate(p, FLT_equality_const(p, index, i - 1), in),
                mulGate(p, FLT_inequality_const(index, i - 1), buffer[i]))]

FLTWriteCheck(buffer, index) ==
  Added(p - 1, [i \in DOMAIN buffer |-> FLT_equality_const(p, index, i - 1)])

(* ----- the fallback's Boolean RAM --------------------------------------- *)

(* A strict multiplexer over the elements.                                  *)
BoolRead(buffer, size, idx) ==
  [j \in 1..ram.elementBits |->
     treeMux(idx, [i \in 1..size |-> buffer[Place(i - 1, j)]])]

(* A mutant: the bits are compared from the other end.                      *)
bool_equality_reversed(in, c) ==
  LET equal[n \in 0..Len(in)] ==
        IF n = 0 THEN 1
        ELSE mulGate(p, equal[n - 1], addcGate(p, in[n], ((c \div Pow2(n - 1)) + 1) % 2))
  IN  equal[Len(in)]

(* The product over the bits, from the last on, of whether they are c's.    *)
bool_equality(in, c) ==
  LET equal[n \in 0..Len(in)] ==
        IF n = 0 THEN 1
        ELSE mulGate(p, equal[n - 1], addcGate(p, in[Len(in) + 1 - n],
                                               ((c \div Pow2(n - 1)) + 1) % 2))
  IN  equal[Len(in)]

BoolWrite(buffer, idx, in) ==
  [k \in DOMAIN buffer |->
     LET i == (k - 1) \div ram.elementBits
         j == ((k - 1) % ram.elementBits) + 1
     IN  addGate(p, buffer[k], mulGate(p, bool_equality(idx, i), addGate(p, buffer[k], in[j])))]

BoolWriteCheck(size, idx) ==
  Added(1, [i \in 1..size |-> bool_equality(idx, i - 1)])

(* ----- the fallback's operations ---------------------------------------- *)

(* Wires that a call reads past the end of a range; elements beyond the     *)
(* field, which are compared with a negative number; and a read of no       *)
(* elements, which goes past the buffer.                                    *)
Short(word, bits) == {s \in {"short"} : Len(word) < bits}
Beyond(h) == {s \in {"beyond_field"} : ~ ram.boolean /\ sizes[h] > p + 1}
Empty(h) == {s \in {"empty"} : sizes[h] = 0}

(* The sizes of an arithmetic RAM that the gates are wrong for: a single    *)
(* element is added as the first and as the last one, and with one element  *)
(* more than the field the first and the last have the same number.         *)
OddRead(h) == ~ ram.boolean /\ sizes[h] \in {1, p + 1}
OddWrite(h) == ~ ram.boolean /\ sizes[h] = p + 1

RawRead(h, idx) ==
  IF ram.boolean THEN BoolRead(raw[h], sizes[h], idx) ELSE <<FLTRead(raw[h], idx[1])>>

RawReadCheck(h, idx) ==
  IF ram.boolean THEN TreeCheck(idx, sizes[h]) ELSE FLTReadCheck(raw[h], idx[1])

RawWrite(h, idx, in) ==
  IF ram.boolean THEN BoolWrite(raw[h], idx, in) ELSE FLTWrite(raw[h], idx[1], in[1])

RawWriteCheck(h, idx) ==
  IF ram.boolean THEN BoolWriteCheck(sizes[h], idx) ELSE FLTWriteCheck(raw[h], idx[1])

Failing(check) == ~ assertZero(~ prover, check)

-------------------------------------------------------------------------------
Init ==
  /\ ram \in Rams /\ functions = Operations(ram) /\ prover \in BOOLEAN
  /\ live = {}
  /\ buffers = [h \in Handles |-> <<>>] /\ raw = buffers
  /\ sizes = [h \in Handles |-> 0]
  /\ out = ZeroElement(ram) /\ rawOut = out
  /\ failure = FALSE /\ fail = FALSE
  /\ undefined = {} /\ odd = FALSE
  /\ counter = [init |-> 0, read |-> 0, write |-> 0,
                totalAlloc |-> 0, currentAlloc |-> 0, maxAlloc |-> 0]
  /\ calls = 0 /\ call = [op |-> "none"]

(* Nothing is modelled after a call that the code does not define.          *)
Called ==
  /\ calls < MaxCalls /\ calls' = calls + 1
  /\ undefined = {}
  /\ UNCHANGED <<ram, functions, prover>>

(* A wire of the RAM type is assigned once: init makes its buffer.          *)
RamInit(h) ==
  /\ Called /\ h \notin live /\ live' = live \cup {h}
  /\ \E f \in functions.init, size \in 0..MaxSize :
       \E fill \in Word(f.ins[1].length) :
         /\ SizeAllowed(size)
         /\ call' = [op |-> "create", on |-> h, size |-> size, element |-> fill]
         /\ undefined' = Short(fill, ram.elementBits)
         /\ IF undefined' /= {} THEN UNCHANGED <<values, counter>>
            ELSE /\ buffers' = [buffers EXCEPT ![h] = Filled(size, fill)]
                 /\ raw' = [raw EXCEPT ![h] = Filled(size, fill)]
                 /\ sizes' = [sizes EXCEPT ![h] = size]
                 /\ counter' = Allocated(size * ram.elementBits)
  /\ UNCHANGED <<outs, failure, fail, odd>>

RamRead(h) ==
  /\ Called /\ h \in live
  /\ \E f \in functions.read : \E idx \in Word(f.ins[2].length) :
       /\ call' = [op |-> "read", on |-> h, index |-> idx]
       /\ undefined' = Short(idx, ram.indexBits) \cup Empty(h) \cup Beyond(h)
       /\ IF "short" \in undefined' THEN UNCHANGED <<out, failure>>
          ELSE /\ out' = IF OutOfRange(h, idx) THEN ZeroElement(ram) ELSE Element(h, idx)
               /\ failure' = (failure \/ OutOfRange(h, idx))
       /\ IF undefined' /= {} THEN UNCHANGED <<rawOut, fail>>
          ELSE rawOut' = RawRead(h, idx) /\ fail' = (fail \/ Failing(RawReadCheck(h, idx)))
  /\ odd' = (odd \/ OddRead(h))
  /\ counter' = Counted("read", ram.elementBits)
  /\ UNCHANGED <<live, values>>

RamWrite(h) ==
  /\ Called /\ h \in live
  /\ \E f \in functions.write :
     \E idx \in Word(f.ins[2].length), in \in Word(f.ins[3].length) :
       /\ call' = [op |-> "write", on |-> h, index |-> idx, element |-> in]
       /\ undefined' = Short(idx, ram.indexBits) \cup Short(in, ram.elementBits) \cup Beyond(h)
       /\ IF "short" \in undefined' THEN UNCHANGED <<buffers, failure>>
          ELSE /\ buffers' = IF OutOfRange(h, idx) THEN buffers
                             ELSE [buffers EXCEPT ![h] = Overwritten(h, idx, in)]
               /\ failure' = (failure \/ OutOfRange(h, idx))
       /\ IF undefined' /= {} THEN UNCHANGED <<raw, fail>>
          ELSE /\ raw' = [raw EXCEPT ![h] = RawWrite(h, idx, in)]
               /\ fail' = (fail \/ Failing(RawWriteCheck(h, idx)))
  /\ odd' = (odd \/ OddWrite(h))
  /\ counter' = Counted("write", 1)
  /\ UNCHANGED <<live, sizes, outs>>

(* The destructor, with the scope or the deletion of the wire.              *)
RamDrop(h) ==
  /\ Called /\ h \in live /\ live' = live \ {h}
  /\ call' = [op |-> "drop", on |-> h]
  /\ counter' = Released(Len(buffers[h]))
  /\ buffers' = [buffers EXCEPT ![h] = <<>>] /\ raw' = [raw EXCEPT ![h] = <<>>]
  /\ sizes' = [sizes EXCEPT ![h] = 0]
  /\ UNCHANGED <<outs, failure, fail, ghosts>>

Next == \E h \in Handles : RamInit(h) \/ RamRead(h) \/ RamWrite(h) \/ RamDrop(h)

Spec == Init /\ [][Next]_vars

-------------------------------------------------------------------------------
(* Buffers are sequences of their size's wires that hold field elements, in *)
(* firealarm and in the fallback.                                           *)
TypeOK ==
  /\ \A h \in Handles : /\ {Len(buffers[h]), Len(raw[h])} = {sizes[h] * ram.elementBits}
                        /\ Range(buffers[h]) \cup Range(raw[h]) \subseteq 0..(p - 1)
                        /\ h \notin live => sizes[h] = 0
  /\ {failure, fail, odd} \subseteq BOOLEAN

(* The number that a word stands for: the last wire counts 1 and every      *)
(* other one twice as much as the next.                                     *)
Number(word) ==
  LET sum[n \in 0..Len(word)] ==
        IF n = 0 THEN 0 ELSE sum[n - 1] + word[Len(word) + 1 - n] * Pow2(n - 1)
  IN  sum[Len(word)]

(* The call with its index as a number.                                     *)
Meant == IF call.op \in {"read", "write"} THEN [call EXCEPT !.index = Number(@)] ELSE call

(* firealarm's RAM is an array: a call reads the element at the number that *)
(* its index wires stand for, as the last write at that number left it, or  *)
(* init, and a write puts the element it was given there and nowhere else,  *)
(* also with several buffers alive, although the elements are runs of bits  *)
(* in one flat buffer. A number beyond the buffer, and no other, changes    *)
(* nothing, reads zeros and is a failure for good; and the allocations that *)
(* firealarm reports are those of the buffers.                              *)
ElementsOf(h) ==
  [i \in 1..sizes[h] |->
     SubSeq(buffers[h], Place(i - 1, 1), Place(i - 1, ram.elementBits))]

Array ==
  INSTANCE RAMArray WITH
    arrays <- [h \in Handles |-> ElementsOf(h)], failed <- failure, call <- Meant,
    total <- counter.totalAlloc, held <- counter.currentAlloc, peak <- counter.maxAlloc,
    Elements <- UNION {[1..r.elementBits -> 0..(r.p - 1)] : r \in Rams},
    Zeros <- {ZeroElement(r) : r \in Rams},
    Indices <- UNION {{Number(idx) : idx \in [1..r.indexBits -> 0..(r.p - 1)]} : r \in Rams}

IsArray == Array!Spec

(* The fallback, which compares every element's number with the index in    *)
(* gates, holds and reads the same values as firealarm's RAM in every       *)
(* setting, and in a prover its asserts fail for the same calls, except     *)
(* after a call on a size that its gates are wrong for. No call that passed *)
(* checkSignature reads past the wires of its ranges: what is undefined is  *)
(* the fallback's read of an empty buffer, and of one with more elements    *)
(* than the field can number.                                               *)
BackendsAgree ==
  /\ TypeOK
  /\ "short" \notin undefined
  /\ undefined = {} /\ ~ odd =>
       /\ raw = buffers /\ rawOut = out
       /\ prover => (fail <=> failure)
===============================================================================
