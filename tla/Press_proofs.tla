----------------------------- MODULE Press_proofs -----------------------------
(***************************************************************************)
(* Nothing moves or is lost between the formats, for every size of the      *)
(* buffers and every number of calls, gates, bindings and values. The first *)
(* part says what becomes of one call; then of one item of the flatbuffer   *)
(* (ItemAt), of the items of all buffers (Placed, Written, Filed), and of    *)
(* the lines of the text (TextOf). The invariant says for each program what *)
(* its input stands for among the calls that were given.                   *)
(***************************************************************************)
EXTENDS Press, FiniteSetTheorems, SequenceTheorems, WellFoundedInduction, TLAPS

(* ----- sequences ------------------------------------------------------------- *)

(* Sequences of anything.                                                   *)
Sequence(s) == s \in Seq({s[i] : i \in DOMAIN s})

(* A function on 1..n is a sequence of length n.                            *)
LEMMA SequenceIs ==
  ASSUME NEW s, NEW n \in Nat, DOMAIN s = 1..n, s = [i \in 1..n |-> s[i]]
  PROVE  Sequence(s) /\ Len(s) = n
<1> DEFINE S == {s[i] : i \in DOMAIN s}
<1>1. s \in [1..n -> S]
  OBVIOUS
<1> HIDE DEF S
<1>2. s \in Seq(S) /\ Len(s) = n
  BY <1>1
<1>. QED  BY <1>2 DEF Sequence, S

(* What is known of any sequence.                                           *)
LEMMA SequenceFacts ==
  ASSUME NEW s, Sequence(s)
  PROVE  /\ Len(s) \in Nat /\ DOMAIN s = 1..Len(s) /\ s = [i \in 1..Len(s) |-> s[i]]
BY DEF Sequence

(* A sequence over a set is a sequence.                                     *)
LEMMA SequenceOf ==
  ASSUME NEW S, NEW t \in Seq(S)
  PROVE  Sequence(t)
<1>1. DOMAIN t = 1..Len(t) /\ t = [i \in 1..Len(t) |-> t[i]] /\ Len(t) \in Nat
  OBVIOUS
<1>. QED  BY <1>1, SequenceIs

(* The sequence t is s, of length a, and then x.                             *)
IsAppended(t, s, a, x) ==
  /\ Sequence(t) /\ Len(t) = a + 1 /\ t[a + 1] = x
  /\ \A i \in 1..a : t[i] = s[i]

(* Append adds one element at the end.                                      *)
LEMMA Appended ==
  ASSUME NEW s, Sequence(s), NEW x, NEW t, t = Append(s, x), NEW a, a = Len(s)
  PROVE  IsAppended(t, s, a, x)
<1> DEFINE S == {s[i] : i \in DOMAIN s} \cup {x}
<1>1. s \in Seq(S) /\ x \in S
  BY DEF Sequence
<1> HIDE DEF S
<1>2. /\ t \in Seq(S) /\ Len(t) = a + 1 /\ t[a + 1] = x
      /\ \A i \in 1..a : t[i] = s[i]
  BY <1>1, AppendProperties
<1>3. Sequence(t)
  BY <1>2, SequenceOf, Zenon
<1>. QED  BY <1>2, <1>3 DEF IsAppended

(* The sequence u is s, of length a, and then t, of length b.                *)
IsConcatenated(u, s, a, t, b) ==
  /\ Sequence(u) /\ Len(u) = a + b
  /\ \A i \in 1..a : u[i] = s[i]
  /\ \A i \in 1..b : u[a + i] = t[i]

(* Concatenation keeps the elements of both sequences in their order.       *)
LEMMA Concatenated ==
  ASSUME NEW s, NEW t, Sequence(s), Sequence(t), NEW u, u = s \o t,
         NEW a, NEW b, a = Len(s), b = Len(t)
  PROVE  IsConcatenated(u, s, a, t, b)
<1> DEFINE S == {s[i] : i \in DOMAIN s} \cup {t[i] : i \in DOMAIN t}
<1>1. s \in Seq(S) /\ t \in Seq(S)
  BY DEF Sequence
<1> HIDE DEF S
<1>2. u \in Seq(S) /\ Len(u) = a + b
  BY <1>1
<1>3. \A i \in 1..a : u[i] = s[i]
  BY <1>1
<1>4. \A i \in 1..b : u[a + i] = t[i]
  BY <1>1
<1>5. Sequence(u)
  BY <1>2, SequenceOf, Zenon
<1>. QED  BY <1>2, <1>3, <1>4, <1>5 DEF IsConcatenated

(* A prefix, element by element.                                            *)
LEMMA PrefixIs ==
  ASSUME NEW s, NEW t, Sequence(s), Sequence(t)
  PROVE  IsPrefix(s, t) <=> Len(s) <= Len(t) /\ \A i \in 1..Len(s) : s[i] = t[i]
<1> DEFINE S == {s[i] : i \in DOMAIN s} \cup {t[i] : i \in DOMAIN t}
<1>1. s \in Seq(S) /\ t \in Seq(S)
  BY DEF Sequence
<1> HIDE DEF S
<1>2. CASE Len(s) <= Len(t)
  <2>1. SubSeq(s, 1, Len(s)) = [i \in 1..Len(s) |-> s[i]]
    BY <1>1
  <2>2. SubSeq(t, 1, Len(s)) = [i \in 1..Len(s) |-> t[i]]
    BY <1>1, <1>2
  <2>3. IsPrefix(s, t) <=> [i \in 1..Len(s) |-> s[i]] = [i \in 1..Len(s) |-> t[i]]
    BY <1>2, <2>1, <2>2, Zenon DEF IsPrefix
  <2>. QED  BY <1>2, <2>3
<1>. QED  BY <1>2 DEF IsPrefix

(* A function over the domain of a sequence is a sequence of its length.    *)
LEMMA MappedIs ==
  ASSUME NEW s, Sequence(s), NEW f, f = [i \in DOMAIN s |-> f[i]]
  PROVE  Sequence(f) /\ Len(f) = Len(s)
<1>1. DOMAIN f = 1..Len(s) /\ f = [i \in 1..Len(s) |-> f[i]] /\ Len(s) \in Nat
  BY SequenceFacts
<1>. QED  BY <1>1, SequenceIs

(* The empty sequence.                                                      *)
LEMMA EmptyIs == Sequence(<<>>) /\ Len(<<>>) = 0
BY SequenceIs DEF Sequence

(* A sequence of one element.                                               *)
LEMMA OneIs ==
  ASSUME NEW x
  PROVE  Sequence(<<x>>) /\ Len(<<x>>) = 1 /\ <<x>>[1] = x
BY DEF Sequence

(* A sequence of two elements.                                              *)
LEMMA TwoIs ==
  ASSUME NEW x, NEW y
  PROVE  Sequence(<<x, y>>) /\ Len(<<x, y>>) = 2 /\ <<x, y>>[1] = x /\ <<x, y>>[2] = y
BY DEF Sequence

(* ----- the forms of calls ---------------------------------------------------- *)

(* The call u that the flatbuffer's parser makes for the gate c, inside a    *)
(* function or not: it means the same, and so does what its text says.      *)
Recorded(c, inFunction) == Unpacked(Packed(c, inFunction))

Inside == {"startFunction", "regularFunction", "pluginFunction", "endFunction"}

SameGate(c, inFunction, u) ==
  /\ Stripped(u) = Stripped(c)
  /\ (c.op = "convert" => ~ c.modulus \/ ~ inFunction) => Meaning(u) = Meaning(c)
  /\ c.op \notin Inside /\ u.op \notin Inside

Reads(u) ==
  /\ Prints(u)
  /\ Statement(u).keyword \notin {"@function", "@plugin"}
  /\ Accepted(Statement(u)) => CallOf(Statement(u)) = u

(* A range is read as it was written, and has one part if it is a wire.     *)
LEMMA RangeReads ==
  ASSUME NEW r \in Ranges
  PROVE  /\ ReadRange(WrittenRange(r)) = r
         /\ Len(WrittenRange(r)) = IF IsWire(r) THEN 1 ELSE 2
<1>1. PICK f, l : r = [first |-> f, last |-> l]
  BY DEF Ranges
<1>2. r.first = f /\ r.last = l
  BY <1>1
<1>3. CASE f = l
  BY <1>1, <1>2, <1>3 DEF ReadRange, WrittenRange, IsWire
<1>4. CASE f # l
  BY <1>1, <1>2, <1>4 DEF ReadRange, WrittenRange, IsWire
<1>. QED  BY <1>3, <1>4

(* A list of ranges is read as it was written.                              *)
LEMMA RangesRead ==
  ASSUME NEW rs \in Seq(Ranges)
  PROVE  /\ ReadRanges(WrittenRanges(rs)) = rs
         /\ Len(WrittenRanges(rs)) = Len(rs)
         /\ \A k \in DOMAIN rs : WrittenRanges(rs)[k] = WrittenRange(rs[k])
<1>1. DOMAIN rs = 1..Len(rs) /\ Len(rs) \in Nat /\ rs = [k \in 1..Len(rs) |-> rs[k]]
  OBVIOUS
<1> DEFINE w == WrittenRanges(rs)
<1>2. w = [k \in 1..Len(rs) |-> WrittenRange(rs[k])]
  BY <1>1 DEF WrittenRanges
<1>3. Len(w) = Len(rs) /\ DOMAIN w = 1..Len(rs)
  BY <1>1, <1>2
<1>4. \A k \in 1..Len(rs) : w[k] = WrittenRange(rs[k])
  BY <1>2
<1>5. \A k \in 1..Len(rs) : ReadRange(w[k]) = rs[k]
  BY <1>1, <1>4, RangeReads
<1> HIDE DEF w
<1>6. ReadRanges(w) = [k \in 1..Len(rs) |-> ReadRange(w[k])]
  BY <1>3 DEF ReadRanges
<1>7. ReadRanges(w) = [k \in 1..Len(rs) |-> rs[k]]
  BY <1>5, <1>6
<1>. QED  BY <1>1, <1>3, <1>4, <1>7 DEF w

(* A list of one range.                                                     *)
LEMMA OneRange ==
  ASSUME NEW r \in Ranges
  PROVE  <<r>> \in Seq(Ranges) /\ WrittenRanges(<<r>>)[1] = WrittenRange(r) /\ Len(WrittenRanges(<<r>>)) = 1
<1>1. <<r>> \in Seq(Ranges) /\ DOMAIN <<r>> = {1} /\ <<r>>[1] = r /\ Len(<<r>>) = 1
  OBVIOUS
<1>. QED  BY <1>1, RangesRead

(* A type is read as it was written, 0 by its absence.                      *)
LEMMA TypeReads == ASSUME NEW t PROVE ReadType(WrittenType(t)) = t
BY DEF ReadType, WrittenType

(* When the text accepts a copy.                                            *)
LEMMA AcceptedCopy ==
  ASSUME NEW s, s.keyword = "<-"
  PROVE  Accepted(s) <=> (Len(s.outputs[1]) = 1 => ~ IsList(s.inputs) /\ Len(s.inputs[1]) = 1)
BY DEF Accepted

(* When the text accepts a conversion.                                      *)
LEMMA AcceptedConvert ==
  ASSUME NEW s, s.keyword = "@convert"
  PROVE  Accepted(s) <=> (s.modulus => Len(s.inputs[1]) = 2)
BY DEF Accepted

(* Gates on wires, @new and @delete come through both formats unchanged.    *)
LEMMA PlainReads ==
  ASSUME NEW op \in PlainOps, NEW t, NEW c, c = Plain(op, t), NEW b \in BOOLEAN
  PROVE  SameGate(c, b, Recorded(c, b)) /\ Reads(Recorded(c, b)) /\ Accepted(Statement(c)) /\ Recorded(c, b) = c
<1>1. c.op = op /\ c.type = t
  BY DEF Plain
<1>2. op \notin CopyOps /\ op \notin InputOps /\ op \notin Inside /\ op # "convert" /\ op # "invoke" /\ op # "next"
      /\ op \notin {"GateCopy", "GatePublic", "GatePrivate", "<-", "@convert", "@plugin", "@function"}
      /\ op \notin {"copyMulti", "publicInMulti", "privateInMulti", "regularFunction"}
  BY DEF PlainOps, CopyOps, InputOps, Inside
<1>3. Packed(c, b) = c
  BY <1>1, <1>2 DEF Packed
<1>4. Unpacked(c) = c
  BY <1>1, <1>2 DEF Unpacked
<1>5. Recorded(c, b) = c
  BY <1>3, <1>4 DEF Recorded
<1>6. Statement(c) = GateStatement(c)
  BY <1>1, <1>2 DEF Statement, Inside
<1> DEFINE s == Statement(c)
<1>7. s.keyword = op /\ s.type = WrittenType(t)
  BY <1>1, <1>6 DEF GateStatement
<1> HIDE DEF s
<1>8. CallOf(s) = Plain(op, t)
  BY <1>7, TypeReads DEF CallOf, PlainOps
<1>9. Accepted(s)
  BY <1>2, <1>7 DEF Accepted
<1>10. SameGate(c, b, c)
  BY <1>1, <1>2 DEF SameGate
<1>11. Reads(c)
  BY <1>1, <1>2, <1>7, <1>8 DEF Reads, Prints, s
<1>. QED  BY <1>5, <1>9, <1>10, <1>11 DEF s

(* Copies keep their meaning, and are accepted if one wire is copied to     *)
(* one.                                                                     *)
LEMMA CopyReads ==
  ASSUME NEW op \in CopyOps, NEW out \in Ranges, NEW ins \in Seq(Ranges), ins # <<>>, NEW t,
         op = "copy" => IsWire(out) /\ Len(ins) = 1 /\ IsWire(ins[1]),
         NEW c, c = Copy(op, out, ins, t), NEW b \in BOOLEAN
  PROVE  /\ SameGate(c, b, Recorded(c, b)) /\ Reads(Recorded(c, b))
         /\ (IsWire(out) => Len(ins) = 1 /\ IsWire(ins[1])) => Accepted(Statement(Recorded(c, b)))
         /\ Recorded(c, b).op \in CopyOps
<1> DEFINE one == IsWire(out) /\ Len(ins) = 1 /\ IsWire(ins[1])
           name == IF one THEN "copy" ELSE "copyMulti"
           u == Copy(name, out, ins, t)
           g == Copy("GateCopy", out, ins, t)
<1>1. c.op = op /\ op \in {"copy", "copyMulti"} /\ c.outputs[1] = out /\ c.inputs = ins
  BY DEF Copy, CopyOps
<1>2. [c EXCEPT !.op = "GateCopy"] = g
  BY DEF Copy
<1>3. Packed(c, b) = g
  BY <1>1, <1>2 DEF Packed, PackedCopy, CopyOps, InputOps
<1>4. g.op = "GateCopy" /\ g.outputs[1] = out /\ g.inputs = ins
  BY DEF Copy
<1>5. [g EXCEPT !.op = name] = u
  BY DEF Copy
<1>6. Unpacked(g) = u
  BY <1>4, <1>5 DEF Unpacked, UnpackedCopy
<1>7. Recorded(c, b) = u
  BY <1>3, <1>6 DEF Recorded
<1>8. u.op = name /\ u.outputs = <<out>> /\ u.outputs[1] = out /\ u.inputs = ins /\ u.type = t
      /\ name \in {"copy", "copyMulti"}
  BY DEF Copy
<1>9. Meaning(c) = u /\ Meaning(u) = u
  <2>1. [c EXCEPT !.op = "copy"] = Copy("copy", out, ins, t) /\ [u EXCEPT !.op = "copy"] = Copy("copy", out, ins, t)
    BY DEF Copy
  <2>2. Meaning(u) = u
    <3>1. CASE one
      BY <1>8, <3>1 DEF Meaning
    <3>2. CASE ~ one
      BY <1>8, <3>2 DEF Meaning
    <3>. QED  BY <3>1, <3>2
  <2>3. Meaning(c) = u
    <3>1. CASE one /\ op = "copy"
      BY <1>1, <3>1 DEF Meaning
    <3>2. CASE one /\ op = "copyMulti"
      BY <1>1, <2>1, <3>2 DEF Meaning
    <3>3. CASE ~ one
      BY <1>1, <3>3 DEF Meaning
    <3>. QED  BY <1>1, <3>1, <3>2, <3>3
  <2>. QED  BY <2>2, <2>3
<1> HIDE DEF u, g, name
<1>10. Stripped(c) = u /\ Stripped(u) = u
  BY <1>1, <1>8, <1>9 DEF Stripped
<1>11. SameGate(c, b, u)
  BY <1>1, <1>8, <1>9, <1>10 DEF SameGate, Inside
<1>12. Statement(u) = CopyStatement(u)
  BY <1>8 DEF Statement, PlainOps, CopyOps, InputOps
<1> DEFINE s == Statement(u)
<1>13. s.keyword = "<-" /\ s.outputs = WrittenRanges(<<out>>) /\ s.inputs = WrittenRanges(ins) /\ s.type = WrittenType(t)
  BY <1>8, <1>12 DEF CopyStatement
<1> HIDE DEF s
<1>14. /\ s.outputs[1] = WrittenRange(out) /\ Len(s.inputs) = Len(ins) /\ 1 \in DOMAIN ins /\ Len(ins) \in Nat /\ Len(ins) >= 1
       /\ s.inputs[1] = WrittenRange(ins[1]) /\ ReadRanges(s.inputs) = ins /\ ReadRange(s.outputs[1]) = out
       /\ Len(s.outputs[1]) = (IF IsWire(out) THEN 1 ELSE 2)
       /\ Len(s.inputs[1]) = (IF IsWire(ins[1]) THEN 1 ELSE 2)
  <2>1. 1 \in DOMAIN ins /\ ins[1] \in Ranges /\ Len(ins) \in Nat /\ Len(ins) >= 1
    OBVIOUS
  <2>2. s.outputs[1] = WrittenRange(out)
    BY <1>13, OneRange
  <2>3. Len(s.inputs) = Len(ins) /\ ReadRanges(s.inputs) = ins /\ s.inputs[1] = WrittenRange(ins[1])
    BY <1>13, <2>1, RangesRead
  <2>. QED  BY <2>1, <2>2, <2>3, RangeReads
<1>15. Accepted(s) <=> (IsWire(out) => Len(ins) = 1 /\ IsWire(ins[1]))
  <2>1. Accepted(s) <=> (Len(s.outputs[1]) = 1 => ~ IsList(s.inputs) /\ Len(s.inputs[1]) = 1)
    BY <1>13, AcceptedCopy
  <2>2. ~ IsList(s.inputs) <=> Len(ins) = 1
    <3>1. \A n \in Nat : n >= 1 => (~ (n > 1) <=> n = 1)
      OBVIOUS
    <3>. QED  BY <1>14, <3>1, Zenon DEF IsList
  <2>3. (Len(s.outputs[1]) = 1) <=> IsWire(out)
    BY <1>14
  <2>4. (Len(s.inputs[1]) = 1) <=> IsWire(ins[1])
    BY <1>14
  <2>. QED  BY <2>1, <2>2, <2>3, <2>4, Zenon
<1>16. CallOf(s) = CopyCall(s)
  BY <1>13 DEF CallOf, PlainOps
<1>17. Accepted(s) => CallOf(s) = u
  <2>1. Accepted(s) => (IF Len(s.outputs[1]) = 1 THEN "copy" ELSE "copyMulti") = name
    BY <1>14, <1>15 DEF name
  <2>2. CopyCall(s) = Copy(IF Len(s.outputs[1]) = 1 THEN "copy" ELSE "copyMulti", out, ins, t)
    BY <1>13, <1>14, TypeReads, Zenon DEF CopyCall
  <2>. QED  BY <1>16, <2>1, <2>2, Zenon DEF u
<1>18. Reads(u)
  BY <1>8, <1>13, <1>17 DEF Reads, Prints, s
<1>. QED  BY <1>7, <1>8, <1>11, <1>15, <1>18 DEF s, CopyOps

(* Inputs keep their meaning and are accepted.                              *)
LEMMA InputReads ==
  ASSUME NEW op \in InputOps, NEW out \in Ranges, NEW t,
         op \in {"publicIn", "privateIn"} => IsWire(out),
         NEW c, c = Input(op, out, t), NEW b \in BOOLEAN
  PROVE  /\ SameGate(c, b, Recorded(c, b)) /\ Reads(Recorded(c, b))
         /\ Accepted(Statement(Recorded(c, b))) /\ Recorded(c, b).op \in InputOps
<1> DEFINE public == op \in {"publicIn", "publicInMulti"}
           name == IF public THEN (IF IsWire(out) THEN "publicIn" ELSE "publicInMulti")
                             ELSE (IF IsWire(out) THEN "privateIn" ELSE "privateInMulti")
           table == IF public THEN "GatePublic" ELSE "GatePrivate"
           u == Input(name, out, t)
           g == Input(table, out, t)
<1>1. c.op = op /\ op \in {"publicIn", "publicInMulti", "privateIn", "privateInMulti"} /\ c.outputs[1] = out
  BY DEF Input, InputOps
<1>2. \A x : [c EXCEPT !.op = x] = Input(x, out, t)
  BY DEF Input
<1>3. Packed(c, b) = g
  <2>1. [c EXCEPT !.op = table] = g
    BY <1>2
  <2>2. PackedInput(c) = [c EXCEPT !.op = table]
    BY <1>1 DEF PackedInput
  <2>3. c.op \in InputOps /\ c.op \notin CopyOps
    BY <1>1 DEF CopyOps, InputOps
  <2>. QED  BY <1>1, <2>1, <2>2, <2>3 DEF Packed
<1>4. g.op = table /\ g.outputs[1] = out /\ table \in {"GatePublic", "GatePrivate"}
  BY DEF Input
<1>5. Unpacked(g) = u
  <2>1. [g EXCEPT !.op = name] = u
    BY DEF Input
  <2>2. UnpackedInput(g) = [g EXCEPT !.op = name]
    <3>1. CASE public
      BY <1>4, <3>1 DEF UnpackedInput
    <3>2. CASE ~ public
      BY <1>4, <3>2 DEF UnpackedInput
    <3>. QED  BY <3>1, <3>2
  <2>. QED  BY <1>4, <2>1, <2>2 DEF Unpacked
<1>6. Recorded(c, b) = u
  BY <1>3, <1>5 DEF Recorded
<1>7. u.op = name /\ u.outputs = <<out>> /\ u.outputs[1] = out /\ u.type = t /\ name \in {"publicIn", "publicInMulti", "privateIn", "privateInMulti"}
  BY DEF Input
<1>8. Meaning(c) = u /\ Meaning(u) = u
  <2>1. Meaning(u) = u
    <3>1. CASE IsWire(out)
      BY <1>7, <3>1 DEF Meaning
    <3>2. CASE ~ IsWire(out)
      BY <1>7, <3>2 DEF Meaning
    <3>. QED  BY <3>1, <3>2
  <2>2. Meaning(c) = u
    <3>1. CASE IsWire(out) /\ op = "publicInMulti"
      BY <1>1, <1>2, <3>1 DEF Meaning
    <3>2. CASE IsWire(out) /\ op = "privateInMulti"
      BY <1>1, <1>2, <3>2 DEF Meaning
    <3>3. CASE ~ IsWire(out) \/ op \in {"publicIn", "privateIn"}
      <4>1. name = op
        BY <1>1, <3>3
      <4>. QED  BY <1>1, <3>3, <4>1 DEF Meaning
    <3>. QED  BY <1>1, <3>1, <3>2, <3>3
  <2>. QED  BY <2>1, <2>2
<1> HIDE DEF u, g
<1>9. Stripped(c) = u /\ Stripped(u) = u
  BY <1>1, <1>7, <1>8 DEF Stripped
<1>10. SameGate(c, b, u)
  BY <1>1, <1>7, <1>8, <1>9 DEF SameGate, Inside
<1> DEFINE s == Statement(u)
<1>11. s = InputStatement(u)
  BY <1>7 DEF Statement, PlainOps, CopyOps, InputOps
<1>12. s.keyword = (IF public THEN "@public" ELSE "@private") /\ s.outputs = WrittenRanges(<<out>>) /\ s.type = WrittenType(t)
  BY <1>7, <1>11 DEF InputStatement
<1> HIDE DEF s
<1>13. ReadRange(s.outputs[1]) = out /\ Len(s.outputs[1]) = IF IsWire(out) THEN 1 ELSE 2
  BY <1>12, OneRange, RangeReads
<1>14. Accepted(s)
  BY <1>12 DEF Accepted
<1>15. CallOf(s) = u
  <2>1. CASE public
    <3>1. CallOf(s) = InputCall(s, "publicIn", "publicInMulti")
      BY <1>12, <2>1 DEF CallOf, PlainOps
    <3>. QED  BY <1>12, <1>13, <2>1, <3>1, TypeReads DEF InputCall, u
  <2>2. CASE ~ public
    <3>1. CallOf(s) = InputCall(s, "privateIn", "privateInMulti")
      BY <1>12, <2>2 DEF CallOf, PlainOps
    <3>. QED  BY <1>12, <1>13, <2>2, <3>1, TypeReads DEF InputCall, u
  <2>. QED  BY <2>1, <2>2
<1>16. Reads(u)
  BY <1>7, <1>12, <1>15 DEF Reads, Prints, s
<1>. QED  BY <1>6, <1>7, <1>10, <1>14, <1>16 DEF s, InputOps

(* A conversion loses its modulus in a function, and nothing else.          *)
LEMMA ConvertReads ==
  ASSUME NEW out \in Ranges, NEW in \in Ranges, NEW t, NEW i, NEW modulus \in BOOLEAN,
         NEW c, c = Convert(out, t, in, i, modulus), NEW b \in BOOLEAN
  PROVE  /\ SameGate(c, b, Recorded(c, b)) /\ Reads(Recorded(c, b))
         /\ Recorded(c, b).op = "convert"
         /\ ~ Accepted(Statement(Recorded(c, b))) => modulus /\ IsWire(in)
<1> DEFINE kept == modulus /\ ~ b
           u == Convert(out, t, in, i, kept)
<1>1. c.op = "convert" /\ c.modulus = modulus
  BY DEF Convert
<1>2. \A x : [c EXCEPT !.modulus = x] = Convert(out, t, in, i, x)
  BY DEF Convert
<1>3. Packed(c, b) = u
  BY <1>1, <1>2 DEF Packed, PackedConvert, CopyOps, InputOps
<1>4. u.op = "convert" /\ u.modulus = kept /\ u.outputs = <<out>> /\ u.inputs = <<in>> /\ u.type = t /\ u.inType = i
  BY DEF Convert
<1>5. Unpacked(u) = u
  BY <1>4 DEF Unpacked
<1>6. Recorded(c, b) = u
  BY <1>3, <1>5 DEF Recorded
<1>7. [u EXCEPT !.modulus = FALSE] = Convert(out, t, in, i, FALSE)
  <2>1. u = Convert(out, t, in, i, kept)
    OBVIOUS
  <2> HIDE DEF u, kept
  <2>2. \A x : [u EXCEPT !.modulus = x] = Convert(out, t, in, i, x)
    BY <2>1 DEF Convert
  <2>. QED  BY <2>2
<1>8. Meaning(c) = c /\ Meaning(u) = u
  BY <1>1, <1>4 DEF Meaning
<1>9. ~ modulus \/ ~ b => u = c
  <2>1. ~ modulus \/ ~ b => kept = modulus
    OBVIOUS
  <2>. QED  BY <2>1
<1> HIDE DEF u
<1>10. Stripped(u) = Convert(out, t, in, i, FALSE) /\ Stripped(c) = Convert(out, t, in, i, FALSE)
  BY <1>1, <1>2, <1>4, <1>7 DEF Stripped
<1>11. SameGate(c, b, u)
  BY <1>1, <1>4, <1>8, <1>9, <1>10 DEF SameGate, Inside
<1> DEFINE s == Statement(u)
<1>12. s = ConvertStatement(u)
  BY <1>4 DEF Statement, PlainOps, CopyOps, InputOps
<1>13. /\ s.keyword = "@convert" /\ s.outputs = WrittenRanges(<<out>>) /\ s.inputs = WrittenRanges(<<in>>)
       /\ s.type = <<t>> /\ s.inType = i /\ s.modulus = kept
  BY <1>4, <1>12 DEF ConvertStatement
<1> HIDE DEF s
<1>14. /\ ReadRange(s.outputs[1]) = out /\ ReadRange(s.inputs[1]) = in
       /\ Len(s.inputs[1]) = IF IsWire(in) THEN 1 ELSE 2
  BY <1>13, OneRange, RangeReads
<1>15. Accepted(s) <=> (kept => ~ IsWire(in))
  <2>1. Accepted(s) <=> (s.modulus => Len(s.inputs[1]) = 2)
    BY <1>13, AcceptedConvert
  <2>2. (Len(s.inputs[1]) = 2) <=> ~ IsWire(in)
    BY <1>14
  <2>3. s.modulus <=> kept
    BY <1>13
  <2>. QED  BY <2>1, <2>2, <2>3, Zenon
<1>16. CallOf(s) = u
  <2>1. CallOf(s) = ConvertCall(s)
    BY <1>13 DEF CallOf, PlainOps
  <2>2. s.type[1] = t
    BY <1>13
  <2>. QED  BY <1>13, <1>14, <2>1, <2>2, Zenon DEF ConvertCall, u
<1>17. Reads(u)
  BY <1>4, <1>13, <1>16 DEF Reads, Prints, s
<1>. QED  BY <1>4, <1>6, <1>11, <1>15, <1>17 DEF s

(* A call of a function comes through both formats unchanged.               *)
LEMMA InvokeReads ==
  ASSUME NEW name, NEW outs \in Seq(Ranges), NEW ins \in Seq(Ranges),
         NEW c, c = Invoke(name, outs, ins), NEW b \in BOOLEAN
  PROVE  SameGate(c, b, Recorded(c, b)) /\ Reads(Recorded(c, b)) /\ Accepted(Statement(Recorded(c, b)))
         /\ Recorded(c, b).op = "invoke"
<1>1. c.op = "invoke" /\ c.name = name /\ c.outputs = outs /\ c.inputs = ins
  BY DEF Invoke
<1>2. Packed(c, b) = c
  BY <1>1 DEF Packed, CopyOps, InputOps
<1>3. Unpacked(c) = c
  BY <1>1 DEF Unpacked
<1>4. Recorded(c, b) = c
  BY <1>2, <1>3 DEF Recorded
<1>5. SameGate(c, b, c)
  BY <1>1 DEF SameGate, Inside
<1> DEFINE s == Statement(c)
<1>6. s = CallStatement(c)
  BY <1>1 DEF Statement, PlainOps, CopyOps, InputOps
<1>7. s.keyword = "@call" /\ s.name = name /\ s.outputs = WrittenRanges(outs) /\ s.inputs = WrittenRanges(ins)
  BY <1>1, <1>6 DEF CallStatement
<1> HIDE DEF s
<1>8. Accepted(s)
  BY <1>7 DEF Accepted
<1>9. CallOf(s) = Invoke(s.name, ReadRanges(s.outputs), ReadRanges(s.inputs))
  BY <1>7 DEF CallOf, PlainOps
<1>10. CallOf(s) = c
  BY <1>7, <1>9, RangesRead, Zenon
<1>11. Reads(c)
  BY <1>1, <1>7, <1>10 DEF Reads, Prints, s
<1>. QED  BY <1>1, <1>4, <1>5, <1>8, <1>11 DEF s

(* A copy to one wire is of one wire.                                        *)
WellFormed(c) ==
  c.op = "copyMulti" /\ IsWire(c.outputs[1]) => Len(c.inputs) = 1 /\ IsWire(c.inputs[1])

(* A conversion that the text format has no place for.                      *)
Unreadable(c) == c.op = "convert" /\ c.modulus /\ IsWire(c.inputs[1])

(* Whatever the gate, it keeps its meaning but for the modulus in a         *)
(* function.                                                                *)
LEMMA GateReads ==
  ASSUME NEW c, GivenGate(c), NEW b \in BOOLEAN
  PROVE  /\ SameGate(c, b, Recorded(c, b)) /\ Reads(Recorded(c, b))
         /\ WellFormed(c) /\ ~ Accepted(Statement(Recorded(c, b))) => Unreadable(c)
<1>1. CASE c.op \in PlainOps /\ c = Plain(c.op, c.type)
  <2>1. PICK op, t : op = c.op /\ t = c.type
    OBVIOUS
  <2>. QED  BY <1>1, <2>1, PlainReads
<1>2. CASE /\ c.op \in CopyOps /\ c = Copy(c.op, c.outputs[1], c.inputs, c.type)
           /\ c.outputs[1] \in Ranges /\ c.inputs \in Seq(Ranges) \ {<<>>}
           /\ c.op = "copy" => IsWire(c.outputs[1]) /\ Len(c.inputs) = 1 /\ IsWire(c.inputs[1])
  <2>1. PICK op, t, out, ins : op = c.op /\ t = c.type /\ out = c.outputs[1] /\ ins = c.inputs
    OBVIOUS
  <2>2. /\ SameGate(c, b, Recorded(c, b)) /\ Reads(Recorded(c, b))
        /\ (IsWire(out) => Len(ins) = 1 /\ IsWire(ins[1])) => Accepted(Statement(Recorded(c, b)))
    BY <1>2, <2>1, CopyReads
  <2>3. op \in {"copy", "copyMulti"}
    BY <1>2, <2>1 DEF CopyOps
  <2>. QED  BY <1>2, <2>1, <2>2, <2>3 DEF WellFormed
<1>3. CASE /\ c.op \in InputOps /\ c = Input(c.op, c.outputs[1], c.type)
           /\ c.outputs[1] \in Ranges /\ (c.op \in {"publicIn", "privateIn"} => IsWire(c.outputs[1]))
  <2>1. PICK op, t, out : op = c.op /\ t = c.type /\ out = c.outputs[1]
    OBVIOUS
  <2>. QED  BY <1>3, <2>1, InputReads
<1>4. CASE /\ c.op = "convert" /\ c = Convert(c.outputs[1], c.type, c.inputs[1], c.inType, c.modulus)
           /\ {c.outputs[1], c.inputs[1]} \subseteq Ranges /\ c.modulus \in BOOLEAN
  <2>1. PICK t, i, out, in, m : t = c.type /\ i = c.inType /\ out = c.outputs[1] /\ in = c.inputs[1] /\ m = c.modulus
    OBVIOUS
  <2>2. /\ SameGate(c, b, Recorded(c, b)) /\ Reads(Recorded(c, b))
        /\ ~ Accepted(Statement(Recorded(c, b))) => m /\ IsWire(in)
    BY <1>4, <2>1, ConvertReads
  <2>. QED  BY <1>4, <2>1, <2>2, Zenon DEF Unreadable
<1>5. CASE /\ c.op = "invoke" /\ c = Invoke(c.name, c.outputs, c.inputs)
           /\ {c.outputs, c.inputs} \subseteq Seq(Ranges)
  <2>1. PICK name, outs, ins : name = c.name /\ outs = c.outputs /\ ins = c.inputs
    OBVIOUS
  <2>. QED  BY <1>5, <2>1, InvokeReads
<1>. QED  BY <1>1, <1>2, <1>3, <1>4, <1>5 DEF GivenGate

(* ----- directives and the calls they are parsed to ----------------------------- *)

Empty == PluginOf(NoCounts, NoCounts)

(* What the text says of the call c: what c was, or for the counts of a      *)
(* plugin that it was one.                                                  *)
Spoken(c) ==
  /\ Prints(c)
  /\ Statement(c).keyword = "@function" <=> c.op = "startFunction"
  /\ Statement(c).keyword = "@plugin" <=> c.op = "pluginFunction"
  /\ Accepted(Statement(c)) =>
       /\ Stripped(CallOf(Statement(c))) = Stripped(c)
       /\ c.op # "pluginFunction" \/ c = Empty => CallOf(Statement(c)) = c

(* A gate that is read as it was written says what it was.                  *)
LEMMA ReadsSpoken ==
  ASSUME NEW c, Reads(c), c.op \notin Inside
  PROVE  Spoken(c)
BY DEF Reads, Spoken, Inside

(* The start of a function is written and accepted.                         *)
LEMMA StartSpoken ==
  ASSUME NEW name, NEW c, c = StartOf(name)
  PROVE  Spoken(c) /\ Accepted(Statement(c)) /\ c.op = "startFunction"
<1>1. c.op = "startFunction" /\ c.name = name
  BY DEF StartOf
<1> DEFINE s == Statement(c)
<1>2. s = [keyword |-> "@function", name |-> name]
  BY <1>1 DEF Statement, PlainOps, CopyOps, InputOps
<1>3. s.keyword = "@function" /\ s.name = name
  BY <1>2
<1> HIDE DEF s
<1>4. Accepted(s)
  BY <1>3 DEF Accepted
<1>5. CallOf(s) = c
  BY <1>3 DEF CallOf, PlainOps
<1>. QED  BY <1>1, <1>3, <1>4, <1>5 DEF Spoken, Prints, s

(* The end of a function is written and accepted.                           *)
LEMMA EndSpoken ==
  ASSUME NEW c, c = EndOf
  PROVE  Spoken(c) /\ Accepted(Statement(c)) /\ c.op = "endFunction"
<1>1. c.op = "endFunction"
  BY DEF EndOf
<1> DEFINE s == Statement(c)
<1>2. s = [keyword |-> "@end"]
  BY <1>1 DEF Statement, PlainOps, CopyOps, InputOps
<1>3. s.keyword = "@end"
  BY <1>2
<1> HIDE DEF s
<1>4. Accepted(s)
  BY <1>3 DEF Accepted
<1>5. CallOf(s) = c
  BY <1>3 DEF CallOf, PlainOps
<1>. QED  BY <1>1, <1>3, <1>4, <1>5 DEF Spoken, Prints, s

(* A value of a stream is written and accepted.                             *)
LEMMA ValueSpoken ==
  ASSUME NEW v, NEW c, c = Value(v)
  PROVE  Spoken(c) /\ Accepted(Statement(c)) /\ c.op = "next"
<1>1. c.op = "next" /\ c.value = v
  BY DEF Value
<1> DEFINE s == Statement(c)
<1>2. s = [keyword |-> "<>", value |-> v]
  BY <1>1 DEF Statement, PlainOps, CopyOps, InputOps
<1>3. s.keyword = "<>" /\ s.value = v
  BY <1>2
<1> HIDE DEF s
<1>4. Accepted(s)
  BY <1>3 DEF Accepted
<1>5. CallOf(s) = c
  BY <1>3 DEF CallOf, PlainOps
<1>. QED  BY <1>1, <1>3, <1>4, <1>5 DEF Spoken, Prints, s

(* A type that nothing is asked of has no entry, and nothing is read.        *)
LEMMA NoEntries ==
  /\ Entries(NoCounts) = <<>>
  /\ ReadCounts(<<>>) = NoCounts
<1>1. {t \in Types : NoCounts[t] # 0} = {}
  BY DEF NoCounts
<1>2. Cardinality({}) = 0
  BY FS_EmptySet
<1> DEFINE asked == {t \in Types : NoCounts[t] # 0}
           nth(k) == CHOOSE t \in asked : Cardinality({u \in asked : u < t}) = k - 1
           pair(k) == <<nth(k), NoCounts[nth(k)]>>
           e == Entries(NoCounts)
<1>3. e = [k \in 1..Cardinality(asked) |-> pair(k)]
  BY DEF Entries
<1> HIDE DEF e, asked, nth, pair
<1>4. Cardinality(asked) = 0
  BY <1>1, <1>2 DEF asked
<1>5. e = <<>>
  BY <1>3, <1>4
<1>6. ReadCounts(<<>>) = NoCounts
  BY DEF ReadCounts, NoCounts
<1>. QED  BY <1>5, <1>6 DEF e

(* Reading no entries writes nothing, and nothing beyond the vector.        *)
LEMMA NothingCounted ==
  CountsRead(<<>>) = [length |-> 0, counts |-> NoCounts, beyond |-> FALSE]
<1> DEFINE start == [length |-> 0, counts |-> NoCounts, beyond |-> FALSE]
           f == [s \in {{}} |-> start]
<1>1. DOMAIN <<>> = {} /\ SUBSET {} = {{}}
  OBVIOUS
<1>. QED  BY <1>1 DEF CountsRead, FoldLeft, MapThenFoldSet

(* A binding without private inputs is written and accepted.                *)
LEMMA PluginSpoken ==
  ASSUME NEW x, NEW c, c = PluginOf(x, NoCounts)
  PROVE  Spoken(c) /\ Accepted(Statement(c)) /\ c.op = "pluginFunction"
<1>1. c.op = "pluginFunction" /\ c.publics = x /\ c.privates = NoCounts
  BY DEF PluginOf
<1> DEFINE s == Statement(c)
<1>2. s = [keyword |-> "@plugin", private |-> Entries(NoCounts), public |-> Entries(x)]
  BY <1>1 DEF Statement, PluginStatement, PlainOps, CopyOps, InputOps
<1>3. s.keyword = "@plugin" /\ s.private = <<>> /\ s.public = Entries(x)
  BY <1>2, NoEntries
<1> HIDE DEF s
<1>4. Accepted(s)
  BY <1>3 DEF Accepted
<1>5. CallOf(s) = PluginOf(ReadCounts(Entries(x)), NoCounts)
  <2>1. CallOf(s) = PluginOf(ReadCounts(s.public), ReadCounts(s.private))
    BY <1>3 DEF CallOf, PlainOps
  <2>. QED  BY <1>3, <2>1, NoEntries
<1>6. c = Empty => CallOf(s) = c
  <2>1. c = Empty => c.publics = NoCounts
    BY DEF Empty, PluginOf
  <2>2. c = Empty => x = NoCounts
    BY <1>1, <2>1
  <2>3. c = Empty => ReadCounts(Entries(x)) = NoCounts
    BY <2>2, NoEntries
  <2>. QED  BY <1>5, <2>3 DEF Empty
<1>7. Stripped(CallOf(s)) = Empty /\ Stripped(c) = Empty
  <2>1. CallOf(s).op = "pluginFunction"
    BY <1>5 DEF PluginOf
  <2>. QED  BY <1>1, <2>1 DEF Stripped, Empty
<1>8. Prints(c)
  BY <1>1 DEF Prints
<1>. QED  BY <1>1, <1>3, <1>4, <1>6, <1>7, <1>8 DEF Spoken, s

(* ----- a call that stands for one of the first text's --------------------------- *)

BodyAt(g, k) == Cardinality({j \in 1..k : g[j] = Regular}) > Cardinality({j \in 1..k : g[j] = EndOf})
KeptAt(g, k) ==
  /\ g[k].op = "convert" => ~ g[k].modulus \/ ~ BodyAt(g, k)
  /\ g[k].op = "pluginFunction" => g[k] = PluginOf(NoCounts, NoCounts)

AllFormed == \A c \in Gates : WellFormed(c)

(* c is what the flatbuffer's parser makes of the j-th call of g.            *)
Like(g, j, c) ==
  /\ Stripped(c) = Stripped(g[j])
  /\ KeptAt(g, j) => Meaning(c) = Meaning(g[j]) /\ (c.op = "pluginFunction" => c = Empty)
  /\ c = Regular \/ Spoken(c)
  /\ AllFormed /\ c # Regular /\ ~ Accepted(Statement(c)) => Unreadable(g[j])

(* A call that comes through unchanged is like itself.                      *)
LEMMA LikeSame ==
  ASSUME NEW g, NEW j, NEW c, c = g[j], c = Regular \/ (Spoken(c) /\ Accepted(Statement(c))), c.op # "pluginFunction"
  PROVE  Like(g, j, c)
BY DEF Like

(* What the flatbuffer keeps of a gate is like it.                          *)
LEMMA LikeGate ==
  ASSUME NEW g, NEW j, g[j] \in Gates, NEW b \in BOOLEAN, b => BodyAt(g, j)
  PROVE  /\ Like(g, j, Recorded(g[j], b))
         /\ Reads(Recorded(g[j], b)) /\ Recorded(g[j], b).op \notin Inside
<1>1. PICK c : c = g[j]
  OBVIOUS
<1>2. GivenGate(c)
  BY <1>1, PressAssumption
<1> DEFINE u == Recorded(c, b)
<1>3. /\ SameGate(c, b, u) /\ Reads(u)
      /\ WellFormed(c) /\ ~ Accepted(Statement(u)) => Unreadable(c)
  BY <1>2, GateReads
<1> HIDE DEF u
<1>4. Stripped(u) = Stripped(c) /\ c.op \notin Inside /\ u.op \notin Inside
      /\ ((c.op = "convert" => ~ c.modulus \/ ~ b) => Meaning(u) = Meaning(c))
  BY <1>3 DEF SameGate
<1>5. Spoken(u)
  BY <1>3, <1>4, ReadsSpoken
<1>6. KeptAt(g, j) => Meaning(u) = Meaning(c)
  BY <1>1, <1>4, Zenon DEF KeptAt
<1>7. u.op # "pluginFunction"
  BY <1>4 DEF Inside
<1>8. AllFormed => WellFormed(c)
  BY <1>1 DEF AllFormed
<1>9. Like(g, j, u)
  BY <1>1, <1>3, <1>4, <1>5, <1>6, <1>7, <1>8 DEF Like
<1>. QED  BY <1>1, <1>3, <1>4, <1>9 DEF u

(* What follows a call changes nothing of it.                               *)
Extends(g, h) ==
  Sequence(g) /\ Sequence(h) /\ Len(g) <= Len(h) /\ \A j \in 1..Len(g) : h[j] = g[j]

(* What follows a call changes nothing of what is like it.                  *)
LEMMA LikeExtends ==
  ASSUME NEW g, NEW h, Extends(g, h), NEW j \in 1..Len(g), NEW c, Like(g, j, c)
  PROVE  Like(h, j, c)
<1>1. h[j] = g[j]
  BY DEF Extends
<1>2. Len(g) \in Nat
  BY SequenceFacts DEF Extends
<1>3. \A i \in 1..j : h[i] = g[i]
  BY <1>2 DEF Extends
<1>4. \A x : {i \in 1..j : g[i] = x} = {i \in 1..j : h[i] = x}
  BY <1>3
<1>5. BodyAt(g, j) <=> BodyAt(h, j)
  BY <1>4, Zenon DEF BodyAt
<1>6. KeptAt(g, j) <=> KeptAt(h, j)
  BY <1>1, <1>5, Zenon DEF KeptAt
<1>. QED  BY <1>1, <1>6, Zenon DEF Like

(* ----- items and the calls they are parsed to ------------------------------------- *)

Speaks(c) == Prints(c) /\ Statement(c).keyword \notin {"@function", "@plugin"}

(* The calls of an item: of a gate or a value, a plugin or a function.        *)
Shape(C) ==
  \/ Len(C) = 1 /\ Speaks(C[1])
  \/ Len(C) = 2 /\ C[1].op = "startFunction" /\ C[2].op = "pluginFunction"
  \/ /\ Len(C) >= 3 /\ C[1].op = "startFunction" /\ C[2] = Regular
     /\ \A m \in 3..Len(C) : Speaks(C[m])

ItemCalls(k, d) == IF k = "circuit" THEN CallsOf(d) ELSE <<d>>

(* The calls C stand for those of g after p and up to n.                     *)
Stands(g, p, C, n) ==
  /\ Sequence(C) /\ p \in Nat /\ n = p + Len(C) /\ n <= Len(g) /\ Shape(C)
  /\ \A m \in 1..Len(C) : Like(g, p + m, C[m])

Reasoned(k, g, d) ==
  k = "circuit" /\ ReadsBeyond(d) => \E j \in 1..Len(g) : g[j].op = "pluginFunction" /\ g[j] # Empty

ItemAt(k, g, p, d, n) == Stands(g, p, ItemCalls(k, d), n) /\ Reasoned(k, g, d)

(* What follows an item changes nothing of what it stands for.              *)
LEMMA ItemExtends ==
  ASSUME NEW g, NEW h, Extends(g, h), NEW k, NEW p, NEW d, NEW n, ItemAt(k, g, p, d, n)
  PROVE  ItemAt(k, h, p, d, n)
<1>1. Len(g) \in Nat /\ Len(h) \in Nat /\ Len(g) <= Len(h) /\ \A j \in 1..Len(g) : h[j] = g[j] /\ j \in 1..Len(h)
  BY SequenceFacts DEF Extends
<1>2. Reasoned(k, h, d)
  BY <1>1 DEF ItemAt, Reasoned
<1>3. PICK C : C = ItemCalls(k, d)
  OBVIOUS
<1>4. Stands(g, p, C, n)
  BY <1>3 DEF ItemAt
<1>5. /\ Sequence(C) /\ p \in Nat /\ n = p + Len(C) /\ n <= Len(g) /\ Shape(C)
      /\ \A m \in 1..Len(C) : Like(g, p + m, C[m])
  BY <1>4 DEF Stands
<1>6. Len(C) \in Nat
  BY <1>5, SequenceFacts
<1>7. ASSUME NEW m \in 1..Len(C)
      PROVE  Like(h, p + m, C[m])
  <2>1. p + m \in 1..Len(g)
    BY <1>1, <1>5, <1>6
  <2>2. PICK j \in 1..Len(g) : j = p + m
    BY <2>1
  <2>3. PICK c : c = C[m]
    OBVIOUS
  <2>. QED  BY <1>5, <2>2, <2>3, LikeExtends
<1>8. n <= Len(h)
  BY <1>1, <1>5, <1>6
<1>. QED  BY <1>2, <1>3, <1>5, <1>7, <1>8 DEF ItemAt, Stands

(* A value stands for itself.                                               *)
LEMMA ValueItem ==
  ASSUME NEW k, k # "circuit", NEW g, NEW p \in Nat, p + 1 <= Len(g), NEW v, g[p + 1] = Value(v),
         NEW d, d = Value(v)
  PROVE  ItemAt(k, g, p, d, p + 1)
<1>1. Spoken(d) /\ Accepted(Statement(d)) /\ d.op = "next"
  BY ValueSpoken
<1>2. Like(g, p + 1, d)
  BY <1>1, LikeSame
<1>3. Speaks(d)
  BY <1>1 DEF Speaks, Spoken
<1>4. PICK C : C = <<d>>
  OBVIOUS
<1>5. Sequence(C) /\ Len(C) = 1 /\ C[1] = d
  BY <1>4, OneIs
<1>6. Stands(g, p, C, p + 1)
  BY <1>2, <1>3, <1>5 DEF Stands, Shape
<1>. QED  BY <1>4, <1>6 DEF ItemAt, Reasoned, ItemCalls

(* The item of a gate stands for it.                                        *)
LEMMA GateItem ==
  ASSUME NEW g, NEW p \in Nat, p + 1 <= Len(g), g[p + 1] \in Gates,
         NEW d, d = [form |-> "gate", gate |-> Packed(g[p + 1], FALSE)]
  PROVE  ItemAt("circuit", g, p, d, p + 1)
<1>1. PICK u : u = Recorded(g[p + 1], FALSE)
  OBVIOUS
<1>2. Like(g, p + 1, u) /\ Reads(u)
  BY <1>1, LikeGate
<1>3. d.form = "gate" /\ CallsOf(d) = <<u>>
  BY <1>1 DEF CallsOf, Recorded
<1>4. Speaks(u)
  BY <1>2 DEF Speaks, Reads
<1>5. PICK C : C = <<u>>
  OBVIOUS
<1>6. Sequence(C) /\ Len(C) = 1 /\ C[1] = u
  BY <1>5, OneIs
<1>7. Stands(g, p, C, p + 1)
  BY <1>2, <1>4, <1>6 DEF Stands, Shape
<1>8. ~ ReadsBeyond(d)
  BY <1>3 DEF ReadsBeyond
<1>. QED  BY <1>3, <1>5, <1>7, <1>8 DEF ItemAt, Reasoned, ItemCalls

(* The item of a plugin stands for its two calls, and overruns only with    *)
(* counts.                                                                  *)
LEMMA PluginItem ==
  ASSUME NEW g, NEW p \in Nat, p + 2 <= Len(g), NEW name, g[p + 1] = StartOf(name), NEW b \in Bindings, g[p + 2] = b,
         NEW d, d.form = "plugin", d.name = name,
         d.public = Entries(b.publics) \o Entries(b.privates), d.private = <<>>
  PROVE  ItemAt("circuit", g, p, d, p + 2)
<1>1. d.form = "plugin" /\ d.name = name /\ d.public = Entries(b.publics) \o Entries(b.privates) /\ d.private = <<>>
  OBVIOUS
<1> DEFINE x == CountsRead(d.public).counts
<1>2. CallsOf(d) = <<StartOf(name), PluginOf(x, NoCounts)>>
  BY <1>1, NothingCounted DEF CallsOf, PluginCalls
<1> HIDE DEF x
<1>3. PICK c, s : c = PluginOf(x, NoCounts) /\ s = StartOf(name)
  OBVIOUS
<1>4. Spoken(c) /\ Accepted(Statement(c)) /\ c.op = "pluginFunction"
  BY <1>3, PluginSpoken
<1>5. Spoken(s) /\ Accepted(Statement(s)) /\ s.op = "startFunction"
  BY <1>3, StartSpoken
<1>6. b.op = "pluginFunction"
  BY PressAssumption DEF GivenBinding, PluginOf
<1>7. b = Empty => d.public = <<>>
  <2>1. b = Empty => b.publics = NoCounts /\ b.privates = NoCounts
    BY DEF Empty, PluginOf
  <2>2. <<>> \o <<>> = <<>>
    OBVIOUS
  <2>3. b = Empty => Entries(b.publics) = <<>> /\ Entries(b.privates) = <<>>
    BY <2>1, NoEntries
  <2>. QED  BY <1>1, <2>2, <2>3
<1>8. b = Empty => c = Empty
  <2>1. b = Empty => x = NoCounts
    <3>1. CountsRead(<<>>).counts = NoCounts
      BY NothingCounted
    <3>2. ASSUME b = Empty PROVE CountsRead(d.public).counts = NoCounts
      BY <1>7, <3>1, <3>2, Zenon
    <3>. QED  BY <3>2 DEF x
  <2>. QED  BY <1>3, <2>1 DEF Empty
<1>9. ReadsBeyond(d) => b # Empty
  <2>1. CountsRead(<<>>).beyond = FALSE
    BY NothingCounted
  <2>2. CountsRead(d.private).beyond = FALSE /\ (b = Empty => CountsRead(d.public).beyond = FALSE)
    BY <1>1, <1>7, <2>1
  <2>. QED  BY <2>2 DEF ReadsBeyond
<1>10. Stripped(c) = Empty /\ Stripped(b) = Empty
  BY <1>4, <1>6 DEF Stripped, Empty
<1>11. Like(g, p + 1, s)
  BY <1>3, <1>5, LikeSame
<1>12. Like(g, p + 2, c)
  <2>1. KeptAt(g, p + 2) => b = Empty
    BY <1>6 DEF KeptAt, Empty
  <2>. QED  BY <1>4, <1>8, <1>10, <2>1 DEF Like
<1>13. PICK C : C = <<s, c>>
  OBVIOUS
<1>14. Sequence(C) /\ Len(C) = 2 /\ C[1] = s /\ C[2] = c
  BY <1>13, TwoIs
<1>15. Stands(g, p, C, p + 2)
  <2>1. \A m \in 1..Len(C) : m = 1 \/ m = 2
    BY <1>14
  <2>2. Shape(C)
    BY <1>4, <1>5, <1>14 DEF Shape
  <2>. QED  BY <1>11, <1>12, <1>14, <2>1, <2>2 DEF Stands
<1>16. Reasoned("circuit", g, d)
  BY <1>6, <1>9, p + 2 \in 1..Len(g) DEF Reasoned
<1>. QED  BY <1>2, <1>3, <1>13, <1>15, <1>16 DEF ItemAt, ItemCalls

(* A function that is open: its calls after p, the gates' as body has them.   *)
OpenAt(g, p, name, body) ==
  /\ Sequence(body) /\ p \in Nat /\ p + 2 + Len(body) <= Len(g)
  /\ g[p + 1] = StartOf(name) /\ g[p + 2] = Regular
  /\ \A m \in 1..Len(body) : /\ Like(g, p + 2 + m, Unpacked(body[m]))
                             /\ Reads(Unpacked(body[m])) /\ Unpacked(body[m]).op \notin Inside

(* The calls that the item of a function is parsed to.                      *)
LEMMA GatesCallsAre ==
  ASSUME NEW d, d.form = "gates", Sequence(d.body), NEW C, C = CallsOf(d)
  PROVE  /\ Sequence(C) /\ Len(C) = Len(d.body) + 3
         /\ C[1] = StartOf(d.name) /\ C[2] = Regular /\ C[Len(d.body) + 3] = EndOf
         /\ \A m \in 1..Len(d.body) : C[m + 2] = Unpacked(d.body[m])
<1>1. PICK n : n = Len(d.body)
  OBVIOUS
<1>2. n \in Nat /\ DOMAIN d.body = 1..n
  BY <1>1, SequenceFacts
<1>3. PICK u : u = [m \in DOMAIN d.body |-> Unpacked(d.body[m])]
  OBVIOUS
<1>4. Sequence(u) /\ Len(u) = n /\ \A m \in 1..n : u[m] = Unpacked(d.body[m])
  <2>1. u = [m \in DOMAIN d.body |-> u[m]]
    BY <1>3
  <2>2. \A m \in 1..n : u[m] = Unpacked(d.body[m])
    BY <1>2, <1>3
  <2>. QED  BY <1>1, <2>1, <2>2, MappedIs
<1>5. PICK s, e : s = <<StartOf(d.name), Regular>> /\ e = <<EndOf>>
  OBVIOUS
<1>6. Sequence(s) /\ Len(s) = 2 /\ s[1] = StartOf(d.name) /\ s[2] = Regular
  BY <1>5, TwoIs
<1>7. Sequence(e) /\ Len(e) = 1 /\ e[1] = EndOf
  BY <1>5, OneIs
<1>8. C = (s \o u) \o e
  BY <1>3, <1>5 DEF CallsOf, GatesCalls
<1>9. PICK t : t = s \o u
  OBVIOUS
<1>10. /\ Sequence(t) /\ Len(t) = n + 2 /\ \A m \in 1..2 : t[m] = s[m]
       /\ \A m \in 1..n : t[m + 2] = u[m]
  <2>1. Sequence(t) /\ Len(t) = 2 + n /\ (\A m \in 1..2 : t[m] = s[m]) /\ \A m \in 1..n : t[2 + m] = u[m]
    <3>1. IsConcatenated(t, s, 2, u, n)
      BY <1>4, <1>6, <1>9, Concatenated
    <3>. QED  BY <3>1 DEF IsConcatenated
  <2>2. \A m \in 1..n : 2 + m = m + 2
    BY <1>2
  <2>. QED  BY <1>2, <2>1, <2>2
<1>11. /\ Sequence(C) /\ Len(C) = n + 3 /\ \A m \in 1..(n + 2) : C[m] = t[m]
       /\ C[n + 3] = EndOf
  <2>1. Sequence(C) /\ Len(C) = n + 2 + 1 /\ (\A m \in 1..(n + 2) : C[m] = t[m]) /\ \A m \in 1..1 : C[n + 2 + m] = e[m]
    <3>1. IsConcatenated(C, t, n + 2, e, 1)
      BY <1>7, <1>8, <1>9, <1>10, Concatenated
    <3>. QED  BY <3>1 DEF IsConcatenated
  <2>2. C[n + 2 + 1] = e[1]
    BY <2>1
  <2>3. n + 2 + 1 = n + 3
    BY <1>2
  <2>. QED  BY <1>7, <2>1, <2>2, <2>3
<1>12. C[1] = StartOf(d.name) /\ C[2] = Regular
  <2>1. 1 \in 1..(n + 2) /\ 2 \in 1..(n + 2) /\ 1 \in 1..2 /\ 2 \in 1..2
    BY <1>2
  <2>. QED  BY <1>6, <1>10, <1>11, <2>1
<1>13. \A m \in 1..n : C[m + 2] = Unpacked(d.body[m])
  <2>1. \A m \in 1..n : m + 2 \in 1..(n + 2)
    BY <1>2
  <2>. QED  BY <1>4, <1>10, <1>11, <2>1
<1>. QED  BY <1>1, <1>11, <1>12, <1>13

(* The item of a function stands for all of its calls.                      *)
LEMMA FunctionItem ==
  ASSUME NEW g, NEW p, NEW name, NEW body, OpenAt(g, p, name, body),
         p + Len(body) + 3 <= Len(g), g[p + Len(body) + 3] = EndOf,
         NEW d, d = [form |-> "gates", name |-> name, body |-> body]
  PROVE  ItemAt("circuit", g, p, d, p + Len(body) + 3)
<1>1. d.form = "gates" /\ d.name = name /\ d.body = body
  OBVIOUS
<1>2. PICK n, C, s, e : n = Len(body) /\ C = CallsOf(d) /\ s = StartOf(name) /\ e = EndOf
  OBVIOUS
<1>3. /\ Sequence(body) /\ p \in Nat /\ n \in Nat
      /\ g[p + 1] = s /\ g[p + 2] = Regular
      /\ \A m \in 1..n : /\ Like(g, p + 2 + m, Unpacked(body[m]))
                         /\ Reads(Unpacked(body[m])) /\ Unpacked(body[m]).op \notin Inside
  BY <1>2, SequenceFacts DEF OpenAt
<1>4. /\ Sequence(C) /\ Len(C) = n + 3 /\ C[1] = s /\ C[2] = Regular /\ C[n + 3] = e
      /\ \A m \in 1..n : C[m + 2] = Unpacked(body[m])
  <2>1. d.form = "gates" /\ Sequence(d.body) /\ C = CallsOf(d)
    BY <1>1, <1>2, <1>3
  <2>2. /\ Sequence(C) /\ Len(C) = Len(d.body) + 3
        /\ C[1] = StartOf(d.name) /\ C[2] = Regular /\ C[Len(d.body) + 3] = EndOf
        /\ \A m \in 1..Len(d.body) : C[m + 2] = Unpacked(d.body[m])
    BY <2>1, GatesCallsAre, Zenon
  <2>. QED  BY <1>1, <1>2, <2>2, Zenon
<1>5. Spoken(s) /\ Accepted(Statement(s)) /\ s.op = "startFunction"
  BY <1>2, StartSpoken
<1>6. Spoken(e) /\ Accepted(Statement(e)) /\ e.op = "endFunction"
  BY <1>2, EndSpoken
<1>7. Like(g, p + 1, C[1])
  BY <1>3, <1>4, <1>5, LikeSame
<1>8. Like(g, p + 2, C[2])
  <2>1. Regular.op = "regularFunction"
    BY DEF Regular
  <2>. QED  BY <1>3, <1>4, <2>1, LikeSame
<1>9. Like(g, p + (n + 3), C[n + 3])
  <2>1. p + (n + 3) = p + n + 3
    BY <1>3
  <2>2. g[p + (n + 3)] = e
    BY <1>2, <2>1
  <2>3. e.op # "pluginFunction" /\ e = g[p + (n + 3)] /\ C[n + 3] = e
    BY <1>4, <1>6, <2>2
  <2>4. Like(g, p + (n + 3), e)
    BY <1>6, <2>3, LikeSame, Zenon
  <2>. QED  BY <2>3, <2>4, Zenon
<1>10. \A m \in 1..(n + 3) : m = 1 \/ m = 2 \/ m = n + 3 \/ (m - 2 \in 1..n /\ (m - 2) + 2 = m /\ p + 2 + (m - 2) = p + m)
  BY <1>3
<1>11. ASSUME NEW m \in 1..(n + 3), m - 2 \in 1..n, (m - 2) + 2 = m, p + 2 + (m - 2) = p + m
       PROVE  Like(g, p + m, C[m]) /\ Speaks(C[m])
  <2>1. PICK i \in 1..n : i = m - 2
    BY <1>11
  <2>2. C[m] = Unpacked(body[i]) /\ p + 2 + i = p + m
    BY <1>4, <1>11, <2>1
  <2>. QED  BY <1>3, <2>1, <2>2 DEF Speaks, Reads
<1>12. \A m \in 1..(n + 3) : Like(g, p + m, C[m])
  BY <1>7, <1>8, <1>9, <1>10, <1>11
<1>13. Speaks(e)
  BY <1>6 DEF Speaks, Spoken
<1>14. Shape(C)
  <2>1. \A m \in 3..(n + 3) : m \in 1..(n + 3) /\ m # 1 /\ m # 2
    BY <1>3
  <2>2. \A m \in 3..(n + 3) : Speaks(C[m])
    BY <1>4, <1>10, <1>11, <1>13, <2>1
  <2>3. n + 3 >= 3
    BY <1>3
  <2>. QED  BY <1>4, <1>5, <2>2, <2>3 DEF Shape
<1>15. p + n + 3 = p + Len(C)
  BY <1>3, <1>4
<1>16. Stands(g, p, C, p + n + 3)
  BY <1>2, <1>3, <1>4, <1>12, <1>14, <1>15 DEF Stands
<1>17. ~ ReadsBeyond(d)
  BY <1>1 DEF ReadsBeyond
<1>. QED  BY <1>2, <1>16, <1>17 DEF ItemAt, Reasoned, ItemCalls

(* ----- buffers and the calls they stand for --------------------------------------- *)

(* e[i][m] is the number of calls before item m of the i-th of N buffers s,   *)
(* and n the number of those that they stand for together.                   *)
Placed(k, e, N, s, g, n) ==
  /\ N \in Nat \ {0} /\ n \in Nat /\ n <= Len(g)
  /\ e[1][1] = 0
  /\ \A i \in 1..N : Sequence(s[i])
  /\ \A i \in 1..N : \A m \in 1..Len(s[i]) : ItemAt(k, g, e[i][m], s[i][m], e[i][m + 1])
  /\ \A i \in 1..(N - 1) : e[i][Len(s[i]) + 1] = e[i + 1][1]
  /\ n = e[N][Len(s[N]) + 1]

(* Calls that are not yet in items change nothing of those that are.        *)
LEMMA PlacedExtends ==
  ASSUME NEW g, NEW h, Extends(g, h), NEW k, NEW e, NEW N, NEW s, NEW n, Placed(k, e, N, s, g, n)
  PROVE  Placed(k, e, N, s, h, n)
<1>1. Len(g) \in Nat /\ Len(h) \in Nat /\ Len(g) <= Len(h)
  BY SequenceFacts DEF Extends
<1>2. n \in Nat /\ n <= Len(h)
  BY <1>1 DEF Placed
<1>3. ASSUME NEW i \in 1..N, NEW m \in 1..Len(s[i])
      PROVE  ItemAt(k, h, e[i][m], s[i][m], e[i][m + 1])
  <2>1. ItemAt(k, g, e[i][m], s[i][m], e[i][m + 1])
    BY DEF Placed
  <2>2. PICK p, d, q : p = e[i][m] /\ d = s[i][m] /\ q = e[i][m + 1]
    OBVIOUS
  <2>. QED  BY <2>1, <2>2, ItemExtends
<1>. QED  BY <1>2, <1>3, Zenon DEF Placed

(* The last buffer is written, and an empty one begun.                       *)
LEMMA PlacedFlushed ==
  ASSUME NEW k, NEW e, NEW N, NEW s, NEW g, NEW n, Placed(k, e, N, s, g, n),
         NEW t, \A i \in 1..N : t[i] = s[i], t[N + 1] = <<>>
  PROVE  \E f : /\ Placed(k, f, N + 1, t, g, n)
                /\ \A i \in 1..N : \A m \in Nat : f[i][m] = e[i][m]
<1> DEFINE f == [i \in Nat |-> [m \in Nat |-> IF i = N + 1 /\ m = 1 THEN n ELSE e[i][m]]]
<1>1. N \in Nat /\ N >= 1 /\ N + 1 \in Nat
  BY DEF Placed
<1>2. \A i \in 1..N : i \in Nat /\ i # N + 1
  BY <1>1
<1>3. \A i \in 1..N : \A m \in Nat : f[i][m] = e[i][m]
  BY <1>2
<1>4. f[N + 1][1] = n
  BY <1>1
<1> HIDE DEF f
<1>5. \A i \in 1..(N + 1) : i \in 1..N \/ i = N + 1
  BY <1>1
<1>6. Sequence(<<>>) /\ Len(<<>>) = 0
  BY EmptyIs
<1>7. \A i \in 1..(N + 1) : Sequence(t[i])
  BY <1>5, <1>6 DEF Placed
<1>8. ASSUME NEW i \in 1..(N + 1), NEW m \in 1..Len(t[i])
      PROVE  ItemAt(k, g, f[i][m], t[i][m], f[i][m + 1])
  <2>1. i \in 1..N
    BY <1>5, <1>6
  <2>2. t[i] = s[i] /\ Len(s[i]) \in Nat
    BY <2>1, SequenceFacts DEF Placed
  <2>3. m \in Nat /\ m + 1 \in Nat /\ m \in 1..Len(s[i])
    BY <2>2
  <2>4. f[i][m] = e[i][m] /\ f[i][m + 1] = e[i][m + 1]
    BY <1>3, <2>1, <2>3
  <2>. QED  BY <2>1, <2>2, <2>3, <2>4 DEF Placed
<1>9. ASSUME NEW i \in 1..N
      PROVE  f[i][Len(t[i]) + 1] = f[i + 1][1]
  <2>1. i \in 1..N
    OBVIOUS
  <2>2. t[i] = s[i] /\ Len(s[i]) + 1 \in Nat
    BY <2>1, SequenceFacts DEF Placed
  <2>3. f[i][Len(t[i]) + 1] = e[i][Len(s[i]) + 1]
    BY <1>3, <2>1, <2>2
  <2>4. CASE i = N
    BY <1>4, <2>2, <2>3, <2>4 DEF Placed
  <2>5. CASE i # N
    <3>1. i \in 1..(N - 1) /\ i + 1 \in 1..N /\ 1 \in Nat
      BY <1>1, <2>1, <2>5
    <3>2. f[i + 1][1] = e[i + 1][1]
      BY <1>3, <3>1
    <3>. QED  BY <2>3, <3>1, <3>2 DEF Placed
  <2>. QED  BY <2>4, <2>5
<1>10. f[1][1] = 0
  <2>1. 1 \in 1..N /\ 1 \in Nat
    BY <1>1
  <2>2. e[1][1] = 0
    BY DEF Placed
  <2>. QED  BY <1>3, <2>1, <2>2, Zenon
<1>11. n = f[N + 1][Len(t[N + 1]) + 1]
  BY <1>4, <1>6
<1>12. Placed(k, f, N + 1, t, g, n)
  <2>1. N + 1 \in Nat \ {0} /\ n \in Nat /\ n <= Len(g)
    BY <1>1 DEF Placed
  <2>2. PICK M : M = N + 1
    OBVIOUS
  <2>3. \A i \in 1..M : \A m \in 1..Len(t[i]) : ItemAt(k, g, f[i][m], t[i][m], f[i][m + 1])
    BY <1>8, <2>2
  <2>4. \A i \in 1..(M - 1) : f[i][Len(t[i]) + 1] = f[i + 1][1]
    <3>1. \A i \in 1..(M - 1) : i \in 1..N
      BY <1>1, <2>2
    <3>. QED  BY <1>9, <3>1, Zenon
  <2>5. M \in Nat \ {0} /\ n \in Nat /\ n <= Len(g) /\ n = f[M][Len(t[M]) + 1]
    <3>1. n = f[M][Len(t[M]) + 1]
      BY <1>11, <2>2, Zenon
    <3>. QED  BY <2>1, <2>2, <3>1
  <2>6. \A i \in 1..M : Sequence(t[i])
    BY <1>7, <2>2
  <2>7. Placed(k, f, M, t, g, n)
    BY <1>10, <2>3, <2>4, <2>5, <2>6, Zenon DEF Placed
  <2>. QED  BY <2>2, <2>7
<1>. QED  BY <1>3, <1>12

(* An item that stands for the next calls is added to the last buffer.        *)
LEMMA PlacedAdded ==
  ASSUME NEW k, NEW e, NEW N, NEW s, NEW g, NEW n, Placed(k, e, N, s, g, n),
         NEW d, NEW q, q \in Nat, q <= Len(g), ItemAt(k, g, n, d, q),
         NEW t, \A i \in 1..(N - 1) : t[i] = s[i], t[N] = Append(s[N], d)
  PROVE  \E f : /\ Placed(k, f, N, t, g, q)
                /\ f[1][1] = 0
<1> DEFINE L == Len(s[N])
           f == [i \in Nat |-> [m \in Nat |-> IF i = N /\ m = L + 2 THEN q ELSE e[i][m]]]
<1>1. N \in Nat /\ N >= 1 /\ N \in 1..N
  BY DEF Placed
<1>2. Sequence(s[N]) /\ L \in Nat
  BY <1>1, SequenceFacts DEF Placed
<1>3. IsAppended(t[N], s[N], L, d)
  <2>1. PICK a, b : a = s[N] /\ b = t[N]
    OBVIOUS
  <2>. QED  BY <1>2, <2>1, Appended
<1>4. /\ Sequence(t[N]) /\ Len(t[N]) = L + 1 /\ t[N][L + 1] = d
      /\ \A m \in 1..L : t[N][m] = s[N][m]
  BY <1>3 DEF IsAppended
<1>5. /\ \A i \in 1..(N - 1) : \A m \in Nat : f[i][m] = e[i][m]
      /\ \A m \in 1..(L + 1) : f[N][m] = e[N][m]
      /\ f[N][L + 2] = q
  <2>1. \A i \in 1..(N - 1) : i \in Nat /\ i # N
    BY <1>1
  <2>2. \A m \in 1..(L + 1) : m \in Nat /\ m # L + 2
    BY <1>2
  <2>3. L + 2 \in Nat
    BY <1>2
  <2>. QED  BY <1>1, <2>1, <2>2, <2>3
<1> HIDE DEF f, L
<1>6. \A i \in 1..N : i \in 1..(N - 1) \/ i = N
  BY <1>1
<1>7. \A i \in 1..(N - 1) : i \in 1..N
  BY <1>1
<1>8. \A i \in 1..N : Sequence(t[i])
  BY <1>4, <1>6, <1>7 DEF Placed
<1>9. n = e[N][L + 1]
  BY DEF Placed, L
<1>10. ASSUME NEW i \in 1..N, NEW m \in 1..Len(t[i])
       PROVE  ItemAt(k, g, f[i][m], t[i][m], f[i][m + 1])
  <2>1. CASE i \in 1..(N - 1)
    <3>1. t[i] = s[i] /\ Len(s[i]) \in Nat
      BY <1>7, <2>1, SequenceFacts DEF Placed
    <3>2. m \in Nat /\ m + 1 \in Nat /\ m \in 1..Len(s[i])
      BY <3>1
    <3>3. f[i][m] = e[i][m] /\ f[i][m + 1] = e[i][m + 1]
      BY <1>5, <2>1, <3>2
    <3>. QED  BY <3>1, <3>2, <3>3 DEF Placed
  <2>2. CASE i = N /\ m = L + 1
    <3>1. f[N][m] = n /\ f[N][m + 1] = q
      <4>1. m + 1 = L + 2 /\ L + 1 \in 1..(L + 1)
        BY <1>2, <2>2
      <4>. QED  BY <1>5, <1>9, <2>2, <4>1
    <3>. QED  BY <1>4, <2>2, <3>1
  <2>3. CASE i = N /\ m # L + 1
    <3>1. m \in 1..L /\ m \in 1..(L + 1) /\ m + 1 \in 1..(L + 1)
      BY <1>2, <1>4, <2>3
    <3>2. f[N][m] = e[N][m] /\ f[N][m + 1] = e[N][m + 1] /\ t[N][m] = s[N][m]
      BY <1>4, <1>5, <3>1
    <3>3. ItemAt(k, g, e[N][m], s[N][m], e[N][m + 1])
      BY <1>1, <3>1 DEF Placed, L
    <3>. QED  BY <2>3, <3>2, <3>3
  <2>. QED  BY <1>6, <2>1, <2>2, <2>3
<1>11. ASSUME NEW i \in 1..(N - 1)
       PROVE  f[i][Len(t[i]) + 1] = f[i + 1][1]
  <2>1. t[i] = s[i] /\ Len(s[i]) + 1 \in Nat /\ i + 1 \in 1..N
    BY <1>1, <1>7, SequenceFacts DEF Placed
  <2>2. 1 \in 1..(L + 1) /\ 1 \in Nat
    BY <1>2
  <2>3. f[i + 1][1] = e[i + 1][1]
    BY <1>5, <1>6, <2>1, <2>2
  <2>4. f[i][Len(t[i]) + 1] = e[i][Len(s[i]) + 1]
    BY <1>5, <2>1
  <2>. QED  BY <2>3, <2>4 DEF Placed
<1>12. f[1][1] = 0
  <2>1. 1 \in 1..(L + 1) /\ 1 \in Nat /\ 1 \in 1..N
    BY <1>1, <1>2
  <2>2. f[1][1] = e[1][1]
    BY <1>5, <1>6, <2>1
  <2>. QED  BY <2>2 DEF Placed
<1>13. q = f[N][Len(t[N]) + 1]
  <2>1. L + 1 + 1 = L + 2
    BY <1>2
  <2>. QED  BY <1>4, <1>5, <2>1
<1>14. Placed(k, f, N, t, g, q)
  <2>1. N \in Nat \ {0}
    BY DEF Placed
  <2>. QED  BY <1>8, <1>10, <1>11, <1>12, <1>13, <2>1, Zenon DEF Placed
<1>. QED  BY <1>12, <1>14

(* ----- the text and the calls that it is printed for -------------------------------- *)

(* The first item of a function that is no plugin's: the parser calls         *)
(* regularFunction before what the item says.                                *)
Opens(t, l) == l > 1 /\ t[l - 1].keyword = "@function" /\ t[l].keyword # "@plugin"

Ahead(t, l) == IF Opens(t, l) THEN 2 ELSE 1

(* The lines W are printed for the calls C: the m-th for the h[m]-th of them. *)
PrintsAs(C, W, K, h) ==
  /\ Sequence(W) /\ Len(W) = K /\ K \in Nat /\ K >= 1
  /\ h[1] = 1 /\ h[K] = Len(C)
  /\ \A m \in 1..K : h[m] \in 1..Len(C) /\ C[h[m]] # Regular /\ W[m] = Statement(C[h[m]])
  /\ \A m \in 2..K : h[m - 1] + Ahead(W, m) = h[m] /\ (Opens(W, m) => C[h[m] - 1] = Regular)
  /\ W[K].keyword # "@function"

Lines(P) == [k \in DOMAIN P |-> Statement(P[k])]

AreLines(W, P, K) ==
  Sequence(W) /\ Len(W) = K /\ K \in Nat /\ \A m \in 1..K : W[m] = Statement(P[m])

(* One line for each call.                                                  *)
LEMMA LinesAre ==
  ASSUME NEW P, Sequence(P), NEW K, K = Len(P), NEW W, W = Lines(P)
  PROVE  AreLines(W, P, K)
<1>1. DOMAIN P = 1..K /\ K \in Nat
  BY SequenceFacts
<1>2. W = [k \in DOMAIN P |-> W[k]]
  BY DEF Lines
<1>3. \A m \in 1..K : W[m] = Statement(P[m])
  BY <1>1 DEF Lines
<1>. QED  BY <1>1, <1>2, <1>3, MappedIs DEF AreLines

(* A sequence without its second element.                                   *)
LEMMA RemovedSecond ==
  ASSUME NEW C, Sequence(C), NEW n, n = Len(C), n >= 3, NEW P, P = RemoveAt(C, 2)
  PROVE  Sequence(P) /\ Len(P) = n - 1 /\ P[1] = C[1] /\ \A m \in 2..(n - 1) : P[m] = C[m + 1]
<1> DEFINE S == {C[i] : i \in DOMAIN C}
<1>1. C \in Seq(S) /\ n \in Nat
  BY DEF Sequence
<1> HIDE DEF S
<1>2. PICK a, b : a = SubSeq(C, 1, 2 - 1) /\ b = SubSeq(C, 2 + 1, n)
  OBVIOUS
<1>3. a \in Seq(S) /\ Len(a) = 1 /\ a[1] = C[1]
  <2>1. 1 \in 1..n /\ 2 - 1 = 1
    BY <1>1
  <2>2. SubSeq(C, 1, 1) \in Seq(S) /\ Len(SubSeq(C, 1, 1)) = 1 /\ SubSeq(C, 1, 1)[1] = C[1]
    BY <1>1, <2>1
  <2>. QED  BY <1>2, <2>1, <2>2
<1>4. b \in Seq(S) /\ Len(b) = n - 2 /\ \A i \in 1..(n - 2) : b[i] = C[i + 2]
  <2>1. b = SubSeq(C, 3, n)
    BY <1>2
  <2>2. b \in Seq(S) /\ Len(b) = n - 2
    BY <1>1, <2>1
  <2>3. \A i \in 1..(n - 2) : b[i] = C[3 + i - 1]
    BY <1>1, <2>1
  <2>4. \A i \in 1..(n - 2) : 3 + i - 1 = i + 2
    BY <1>1
  <2>. QED  BY <2>2, <2>3, <2>4
<1>5. Sequence(a) /\ Sequence(b)
  BY <1>3, <1>4, SequenceOf, Zenon
<1>6. P = a \o b
  BY <1>2 DEF RemoveAt
<1>7. IsConcatenated(P, a, 1, b, n - 2)
  <2>1. PICK c : c = n - 2
    OBVIOUS
  <2>. QED  BY <1>3, <1>4, <1>5, <1>6, <2>1, Concatenated
<1>8. /\ Sequence(P) /\ Len(P) = 1 + (n - 2) /\ P[1] = C[1]
      /\ \A i \in 1..(n - 2) : P[1 + i] = C[i + 2]
  <2>1. 1 \in 1..1
    OBVIOUS
  <2>. QED  BY <1>3, <1>4, <1>7, <2>1 DEF IsConcatenated
<1>9. \A m \in 2..(n - 1) : P[m] = C[m + 1]
  <2>1. \A m \in 2..(n - 1) : m - 1 \in 1..(n - 2) /\ 1 + (m - 1) = m /\ (m - 1) + 2 = m + 1
    BY <1>1
  <2>2. ASSUME NEW m \in 2..(n - 1) PROVE P[m] = C[m + 1]
    <3>1. PICK i : i = m - 1
      OBVIOUS
    <3>. QED  BY <1>8, <2>1, <3>1
  <2>. QED  BY <2>2
<1>10. 1 + (n - 2) = n - 1
  BY <1>1
<1>. QED  BY <1>8, <1>9, <1>10

(* The lines of an item say its calls, with regularFunction unsaid.         *)
LEMMA CallsPrint ==
  ASSUME NEW C, Sequence(C), Shape(C), \A m \in 1..Len(C) : C[m] = Regular \/ Spoken(C[m]),
         NEW W, W = Lines(Printed(C))
  PROVE  \E K, h : PrintsAs(C, W, K, h)
<1>1. PICK n : n = Len(C)
  OBVIOUS
<1>2. n \in Nat
  BY <1>1, SequenceFacts
<1>3. Regular.op = "regularFunction"
  BY DEF Regular
<1>4. \A c : Spoken(c) /\ c.op = "startFunction" => Statement(c).keyword = "@function"
  BY DEF Spoken
<1>5. \A c : Spoken(c) /\ c.op = "pluginFunction" => Statement(c).keyword = "@plugin"
  BY DEF Spoken
<1>6. \A c : Speaks(c) => c # Regular /\ Statement(c).keyword # "@function" /\ Statement(c).keyword # "@plugin"
  BY <1>3 DEF Speaks, Prints
<1>7. CASE n = 1 /\ Speaks(C[1])
  <2>1. Printed(C) = C
    BY <1>1, <1>7 DEF Printed
  <2>2. Sequence(W) /\ Len(W) = 1 /\ W[1] = Statement(C[1])
    <3>1. AreLines(W, C, 1)
      BY <1>1, <1>7, <2>1, LinesAre
    <3>. QED  BY <3>1, 1 \in 1..1 DEF AreLines
  <2>3. PICK h : h = [m \in 1..1 |-> 1]
    OBVIOUS
  <2>4. h[1] = 1 /\ C[1] # Regular /\ W[1].keyword # "@function"
    BY <1>6, <1>7, <2>2, <2>3
  <2>5. \A m \in 1..1 : m = 1
    OBVIOUS
  <2>6. 2..1 = {}
    OBVIOUS
  <2>7. PrintsAs(C, W, 1, h)
    BY <1>1, <1>7, <2>2, <2>4, <2>5, <2>6 DEF PrintsAs
  <2>. QED  BY <2>7
<1>8. CASE n = 2 /\ C[1].op = "startFunction" /\ C[2].op = "pluginFunction"
  <2>1. Spoken(C[1]) /\ Spoken(C[2]) /\ C[1] # Regular /\ C[2] # Regular
    BY <1>1, <1>3, <1>8
  <2>2. Printed(C) = C
    BY <1>1, <1>8, <2>1 DEF Printed, Spoken
  <2>3. Sequence(W) /\ Len(W) = 2 /\ \A m \in 1..2 : W[m] = Statement(C[m])
    <3>1. AreLines(W, C, 2)
      BY <1>1, <1>8, <2>2, LinesAre
    <3>. QED  BY <3>1 DEF AreLines
  <2>4. W[1] = Statement(C[1]) /\ W[2] = Statement(C[2])
    BY <2>3
  <2>5. PICK h : h = [m \in 1..2 |-> m]
    OBVIOUS
  <2>6. h[1] = 1 /\ h[2] = 2
    BY <2>5
  <2>7. W[2].keyword = "@plugin"
    BY <1>5, <1>8, <2>1, <2>4
  <2>8. ~ Opens(W, 2) /\ Ahead(W, 2) = 1
    BY <2>7 DEF Opens, Ahead
  <2>9. (\A m \in 1..2 : m = 1 \/ m = 2) /\ (\A m \in 2..2 : m = 2) /\ 2 - 1 = 1 /\ 1 + 1 = 2
    OBVIOUS
  <2>10. \A m \in 1..2 : h[m] \in 1..2 /\ C[h[m]] # Regular /\ W[m] = Statement(C[h[m]])
    BY <2>1, <2>4, <2>6, <2>9
  <2>11. \A m \in 2..2 : h[m - 1] + Ahead(W, m) = h[m] /\ (Opens(W, m) => C[h[m] - 1] = Regular)
    <3>1. h[2 - 1] + Ahead(W, 2) = h[2]
      BY <2>6, <2>8, <2>9
    <3>. QED  BY <2>8, <2>9, <3>1
  <2>12. W[2].keyword # "@function"
    BY <2>7
  <2>13. PrintsAs(C, W, 2, h)
    BY <1>1, <1>8, <2>3, <2>6, <2>10, <2>11, <2>12 DEF PrintsAs
  <2>. QED  BY <2>13
<1>9. CASE n >= 3 /\ C[1].op = "startFunction" /\ C[2] = Regular /\ \A m \in 3..n : Speaks(C[m])
  <2>1. Spoken(C[1]) /\ C[1] # Regular
    BY <1>1, <1>2, <1>3, <1>9, 1 \in 1..n
  <2>2. PICK P : P = RemoveAt(C, 2)
    OBVIOUS
  <2>3. Printed(C) = P
    BY <1>1, <1>2, <1>3, <1>9, <2>2 DEF Printed, Prints
  <2>4. Sequence(P) /\ Len(P) = n - 1 /\ P[1] = C[1] /\ \A m \in 2..(n - 1) : P[m] = C[m + 1]
    BY <1>1, <1>9, <2>2, RemovedSecond
  <2>5. PICK K : K = n - 1
    OBVIOUS
  <2>6. K \in Nat /\ K >= 2 /\ K + 1 = n
    BY <1>2, <1>9, <2>5
  <2>7. Sequence(W) /\ Len(W) = K /\ \A m \in 1..K : W[m] = Statement(P[m])
    <3>1. AreLines(W, P, K)
      BY <2>3, <2>4, <2>5, LinesAre
    <3>. QED  BY <3>1 DEF AreLines
  <2>8. PICK h : h = [m \in 1..K |-> IF m = 1 THEN 1 ELSE m + 1]
    OBVIOUS
  <2>9. h[1] = 1 /\ \A m \in 2..K : h[m] = m + 1 /\ m \in 1..K
    BY <2>6, <2>8
  <2>10. \A m \in 2..K : m + 1 \in 3..n /\ m + 1 \in 1..n
    BY <2>6
  <2>11. \A m \in 2..K : W[m] = Statement(C[m + 1]) /\ Speaks(C[m + 1])
    BY <1>9, <2>4, <2>5, <2>7, <2>9, <2>10
  <2>12. W[1] = Statement(C[1]) /\ W[1].keyword = "@function" /\ 1 \in 1..n
    BY <1>4, <1>9, <2>1, <2>4, <2>6, <2>7
  <2>13. \A m \in 1..K : m = 1 \/ m \in 2..K
    BY <2>6
  <2>14. \A m \in 1..K : h[m] \in 1..n /\ C[h[m]] # Regular /\ W[m] = Statement(C[h[m]])
    BY <1>6, <2>1, <2>9, <2>10, <2>11, <2>12, <2>13
  <2>15. ASSUME NEW m \in 2..K
         PROVE  h[m - 1] + Ahead(W, m) = h[m] /\ (Opens(W, m) => C[h[m] - 1] = Regular)
    <3>1. W[m].keyword # "@plugin"
      BY <1>6, <2>11
    <3>2. CASE m = 2
      <4>1. m - 1 = 1 /\ m > 1 /\ h[m] = 3 /\ 3 - 1 = 2 /\ 1 + 2 = 3
        BY <2>9, <3>2
      <4>2. Opens(W, m) /\ Ahead(W, m) = 2
        BY <2>12, <3>1, <4>1 DEF Opens, Ahead
      <4>. QED  BY <1>9, <2>9, <4>1, <4>2
    <3>3. CASE m # 2
      <4>1. m - 1 \in 2..K /\ m - 1 + 1 = m
        BY <2>6, <3>3
      <4>2. W[m - 1].keyword # "@function"
        BY <1>6, <2>11, <4>1
      <4>3. ~ Opens(W, m) /\ Ahead(W, m) = 1
        BY <4>2 DEF Opens, Ahead
      <4>4. h[m - 1] = m /\ h[m] = m + 1
        BY <2>9, <4>1
      <4>. QED  BY <4>3, <4>4
    <3>. QED  BY <3>2, <3>3
  <2>16. W[K].keyword # "@function" /\ h[K] = n
    BY <1>6, <2>6, <2>9, <2>11, K \in 2..K
  <2>17. PrintsAs(C, W, K, h)
    <3>1. K >= 1
      BY <2>6
    <3>. QED  BY <1>1, <2>6, <2>7, <2>9, <2>14, <2>15, <2>16, <3>1, Zenon DEF PrintsAs
  <2>. QED  BY <2>17
<1>. QED  BY <1>1, <1>7, <1>8, <1>9 DEF Shape

(* Line l of the text t is for the q[l]-th of the calls ps.                   *)
Line(q, t, ps, l) ==
  /\ q[l - 1] + Ahead(t, l) = q[l]
  /\ q[l] \in 1..Len(ps) /\ ps[q[l]] # Regular /\ t[l] = Statement(ps[q[l]])
  /\ Opens(t, l) => ps[q[l] - 1] = Regular

TextOf(q, t, ps) ==
  /\ Sequence(t) /\ Sequence(ps)
  /\ q[0] = 0 /\ q[Len(t)] = Len(ps)
  /\ \A l \in 1..Len(t) : Line(q, t, ps, l)
  /\ Len(t) > 0 => t[Len(t)].keyword # "@function"

(* The lines of an item continue the text.                                  *)
LEMMA TextAdded ==
  ASSUME NEW q, NEW t, NEW ps, TextOf(q, t, ps),
         NEW C, Sequence(C), NEW W, NEW K, NEW h, PrintsAs(C, W, K, h),
         NEW u, u = t \o W, NEW us, us = ps \o C
  PROVE  \E r : TextOf(r, u, us)
<1>1. PICK L, M, n : L = Len(t) /\ M = Len(ps) /\ n = Len(C)
  OBVIOUS
<1>2. L \in Nat /\ M \in Nat /\ n \in Nat /\ K \in Nat /\ K >= 1
  BY <1>1, SequenceFacts DEF TextOf, PrintsAs
<1>17. h[1] = 1 /\ h[K] = n
  BY <1>1 DEF PrintsAs
<1>3. IsConcatenated(u, t, L, W, K)
  BY <1>1, Concatenated DEF TextOf, PrintsAs
<1>4. IsConcatenated(us, ps, M, C, n)
  BY <1>1, Concatenated DEF TextOf
<1>5. /\ Sequence(u) /\ Len(u) = L + K
      /\ \A l \in 1..L : u[l] = t[l]
      /\ \A m \in 1..K : u[L + m] = W[m]
  BY <1>3 DEF IsConcatenated
<1>6. /\ Sequence(us) /\ Len(us) = M + n
      /\ \A i \in 1..M : us[i] = ps[i]
      /\ \A i \in 1..n : us[M + i] = C[i]
  BY <1>4 DEF IsConcatenated
<1>7. PICK r : r = [x \in Nat |-> IF x <= L THEN q[x] ELSE M + h[x - L]]
  OBVIOUS
<1>8. \A x \in 0..L : r[x] = q[x]
  BY <1>2, <1>7
<1>9. \A m \in 1..K : r[L + m] = M + h[m]
  <2>1. \A m \in 1..K : L + m \in Nat /\ ~(L + m <= L) /\ L + m - L = m
    BY <1>2
  <2>2. \A x \in Nat : r[x] = IF x <= L THEN q[x] ELSE M + h[x - L]
    BY <1>7
  <2>3. ASSUME NEW m \in 1..K PROVE r[L + m] = M + h[m]
    <3>1. PICK x \in Nat : x = L + m
      BY <2>1
    <3>2. ~ (x <= L) /\ x - L = m
      BY <1>2, <3>1
    <3>3. r[x] = M + h[x - L]
      BY <2>2, <3>2
    <3>. QED  BY <3>1, <3>2, <3>3, Zenon
  <2>. QED  BY <2>3
<1>10. r[0] = 0 /\ r[L] = M
  <2>1. 0 \in 0..L /\ L \in 0..L
    BY <1>2
  <2>. QED  BY <1>1, <1>8, <2>1 DEF TextOf
<1>11. r[L + K] = M + n
  <2>1. K \in 1..K
    BY <1>2
  <2>2. r[L + K] = M + h[K]
    BY <1>9, <2>1
  <2>. QED  BY <1>17, <2>2, Zenon
<1>12. ASSUME NEW l \in 1..L
       PROVE  Line(r, u, us, l)
  <2>1. Line(q, t, ps, l)
    BY <1>1 DEF TextOf
  <2>2. l \in 0..L /\ l - 1 \in 0..L /\ l \in Nat /\ (l > 1 => l - 1 \in 1..L)
    BY <1>2
  <2>3. r[l] = q[l] /\ r[l - 1] = q[l - 1] /\ u[l] = t[l] /\ (l > 1 => u[l - 1] = t[l - 1])
    BY <1>5, <1>8, <2>2
  <2>4. Opens(u, l) <=> Opens(t, l)
    BY <2>3, Zenon DEF Opens
  <2>5. Ahead(u, l) = Ahead(t, l)
    BY <2>4 DEF Ahead
  <2>6. q[l] \in 1..M
    BY <1>1, <2>1 DEF Line
  <2>7. q[l] \in 1..(M + n) /\ us[q[l]] = ps[q[l]]
    BY <1>2, <1>6, <2>6
  <2>8. Opens(u, l) => us[q[l] - 1] = Regular
    <3>1. SUFFICES ASSUME Opens(u, l) PROVE us[q[l] - 1] = Regular
      OBVIOUS
    <3>2. q[l - 1] + 2 = q[l]
      BY <2>1, <2>4, <3>1 DEF Line, Ahead
    <3>3. q[l - 1] \in Nat
      <4>1. CASE l - 1 = 0
        BY <4>1 DEF TextOf
      <4>2. CASE l - 1 # 0
        <5>1. l - 1 \in 1..L
          BY <2>2, <4>2
        <5>2. Line(q, t, ps, l - 1)
          BY <1>1, <5>1 DEF TextOf
        <5>3. q[l - 1] \in 1..M
          BY <1>1, <5>2 DEF Line
        <5>. QED  BY <1>2, <5>3
      <4>. QED  BY <4>1, <4>2
    <3>4. q[l] - 1 \in 1..M
      BY <1>2, <2>6, <3>2, <3>3, SMTT(30)
    <3>. QED  BY <1>6, <2>1, <2>4, <3>1, <3>4 DEF Line
  <2>. QED  BY <1>6, <2>1, <2>3, <2>5, <2>7, <2>8 DEF Line
<1>13. ASSUME NEW m \in 1..K
       PROVE  Line(r, u, us, L + m)
  <2>1. PICK l, x : l = L + m /\ x = h[m]
    OBVIOUS
  <2>2. x \in 1..n /\ C[x] # Regular /\ W[m] = Statement(C[x])
    BY <1>1, <2>1 DEF PrintsAs
  <2>3. r[l] = M + x /\ u[l] = W[m] /\ l \in Nat
    BY <1>2, <1>5, <1>9, <2>1
  <2>4. us[M + x] = C[x]
    BY <1>6, <2>2
  <2>5. M + x \in 1..Len(us)
    BY <1>2, <1>6, <2>2
  <2>6. us[r[l]] # Regular /\ u[l] = Statement(us[r[l]]) /\ r[l] \in 1..Len(us)
    BY <2>2, <2>3, <2>4, <2>5
  <2>7. CASE m = 1
    <3>1. x = 1 /\ l - 1 = L
      BY <1>2, <1>17, <2>1, <2>7
    <3>2. r[l - 1] = M /\ r[l] = M + 1
      BY <1>10, <2>3, <3>1
    <3>3. ~ Opens(u, l)
      <4>1. CASE L = 0
        <5>1. ~ (l > 1)
          BY <2>3, <3>1, <4>1
        <5>. QED  BY <5>1 DEF Opens
      <4>2. CASE L # 0
        <5>1. L > 0 /\ L \in 1..L
          BY <1>2, <4>2
        <5>2. u[L].keyword # "@function"
          BY <1>1, <1>5, <5>1 DEF TextOf
        <5>3. u[l - 1].keyword # "@function"
          BY <3>1, <5>2, Zenon
        <5>. QED  BY <5>3, Zenon DEF Opens
      <4>. QED  BY <4>1, <4>2
    <3>4. Ahead(u, l) = 1
      BY <3>3 DEF Ahead
    <3>5. r[l - 1] + Ahead(u, l) = r[l]
      BY <3>2, <3>4
    <3>6. Line(r, u, us, l)
      BY <2>6, <3>3, <3>5, Zenon DEF Line
    <3>. QED  BY <2>1, <3>6
  <2>8. CASE m # 1
    <3>1. m \in 2..K /\ m - 1 \in 1..K /\ l - 1 = L + (m - 1) /\ l > 1 /\ m > 1
      BY <1>2, <2>1, <2>8
    <3>2. PICK y : y = h[m - 1]
      OBVIOUS
    <3>3. y + Ahead(W, m) = x /\ (Opens(W, m) => C[x - 1] = Regular)
      BY <2>1, <3>1, <3>2 DEF PrintsAs
    <3>4. y \in 1..n
      BY <1>1, <3>1, <3>2 DEF PrintsAs
    <3>5. r[l - 1] = M + y /\ u[l - 1] = W[m - 1]
      <4>1. PICK i \in 1..K : i = m - 1
        BY <3>1
      <4>2. r[L + i] = M + h[i] /\ u[L + i] = W[i]
        BY <1>5, <1>9
      <4>. QED  BY <3>1, <3>2, <4>1, <4>2
    <3>6. Opens(u, l) <=> Opens(W, m)
      BY <2>3, <3>1, <3>5, Zenon DEF Opens
    <3>7. Ahead(u, l) = Ahead(W, m)
      BY <3>6, Zenon DEF Ahead
    <3>8. Ahead(W, m) \in {1, 2}
      BY DEF Ahead
    <3>9. r[l - 1] + Ahead(u, l) = r[l]
      <4>1. PICK z : z = Ahead(W, m)
        OBVIOUS
      <4>2. M + y + z = M + (y + z)
        BY <1>2, <3>4, <3>8, <4>1
      <4>. QED  BY <2>3, <3>3, <3>5, <3>7, <4>1, <4>2
    <3>10. Opens(u, l) => us[r[l] - 1] = Regular
      <4>1. SUFFICES ASSUME Opens(u, l) PROVE us[r[l] - 1] = Regular
        OBVIOUS
      <4>2. y + 2 = x
        BY <3>3, <3>6, <4>1 DEF Ahead
      <4>3. x - 1 \in 1..n /\ M + x - 1 = M + (x - 1)
        BY <1>2, <2>2, <3>4, <4>2
      <4>4. C[x - 1] = Regular
        BY <3>3, <3>6, <4>1
      <4>5. us[M + (x - 1)] = C[x - 1]
        BY <1>6, <4>3
      <4>6. r[l] - 1 = M + (x - 1)
        BY <1>2, <2>2, <2>3
      <4>. QED  BY <4>4, <4>5, <4>6, Zenon
    <3>11. Line(r, u, us, l)
      BY <2>6, <3>9, <3>10, Zenon DEF Line
    <3>. QED  BY <2>1, <3>11
  <2>. QED  BY <2>7, <2>8
<1>14. \A l \in 1..(L + K) : Line(r, u, us, l)
  <2>1. ASSUME NEW l \in 1..(L + K)
        PROVE  Line(r, u, us, l)
    <3>1. CASE l \in 1..L
      BY <1>12, <3>1
    <3>2. CASE l \notin 1..L
      <4>1. l - L \in 1..K /\ L + (l - L) = l
        BY <1>2, <3>2
      <4>2. PICK m \in 1..K : m = l - L
        BY <4>1
      <4>3. Line(r, u, us, L + m) /\ L + m = l
        BY <1>13, <4>1, <4>2
      <4>. QED  BY <4>3, Zenon
    <3>. QED  BY <3>1, <3>2
  <2>. QED  BY <2>1
<1>15. u[L + K].keyword # "@function"
  <2>1. K \in 1..K
    BY <1>2
  <2>2. u[L + K] = W[K]
    BY <1>5, <2>1
  <2>. QED  BY <2>2, Zenon DEF PrintsAs
<1>16. TextOf(r, u, us)
  BY <1>5, <1>6, <1>10, <1>11, <1>14, <1>15, Zenon DEF TextOf
<1>. QED  BY <1>16

(* ----- functions that are open ------------------------------------------------------- *)

Count(g, k, x) == Cardinality({j \in 1..k : g[j] = x})

(* The number of calls of one kind among the first k + 1.                   *)
LEMMA CountNext ==
  ASSUME NEW g, NEW k \in Nat, NEW x
  PROVE  Count(g, k, x) \in Nat /\ Count(g, k + 1, x) = Count(g, k, x) + (IF g[k + 1] = x THEN 1 ELSE 0)
<1> DEFINE S == {j \in 1..k : g[j] = x}
           T == {j \in 1..(k + 1) : g[j] = x}
<1>1. IsFiniteSet(S)
  <2>1. IsFiniteSet(1..k) /\ S \subseteq 1..k
    BY FS_Interval
  <2>. QED  BY <2>1, FS_Subset, Zenon
<1>2. Cardinality(S) \in Nat
  BY <1>1, FS_CardinalityType
<1>3. \A j \in 1..(k + 1) : j \in 1..k \/ j = k + 1
  OBVIOUS
<1>4. \A j \in 1..k : j \in 1..(k + 1) /\ j # k + 1
  OBVIOUS
<1>5. k + 1 \in 1..(k + 1)
  OBVIOUS
<1>6. CASE g[k + 1] = x
  <2>1. T = S \cup {k + 1} /\ k + 1 \notin S
    BY <1>3, <1>4, <1>5, <1>6, Zenon
  <2>2. Cardinality(S \cup {k + 1}) = Cardinality(S) + 1
    BY <1>1, <2>1, FS_AddElement
  <2>. QED  BY <1>2, <1>6, <2>1, <2>2 DEF Count
<1>7. CASE g[k + 1] # x
  <2>1. T = S
    BY <1>3, <1>4, <1>7, Zenon
  <2>. QED  BY <1>2, <1>7, <2>1 DEF Count
<1>. QED  BY <1>6, <1>7

(* The number of calls of one kind depends on these calls alone.            *)
LEMMA CountSame ==
  ASSUME NEW g, NEW h, NEW k, \A j \in 1..k : h[j] = g[j], NEW x
  PROVE  Count(h, k, x) = Count(g, k, x)
<1>1. {j \in 1..k : g[j] = x} = {j \in 1..k : h[j] = x}
  OBVIOUS
<1>. QED  BY <1>1 DEF Count

(* Among n calls of g one function, if b, has begun that has not ended.       *)
Balanced(g, n, b) == Count(g, n, Regular) = Count(g, n, EndOf) + (IF b THEN 1 ELSE 0)

(* A call begins a function, ends it, or is inside it or outside.           *)
LEMMA BalancedNext ==
  ASSUME NEW g, NEW h, NEW n \in Nat, \A j \in 1..n : h[j] = g[j], NEW b \in BOOLEAN, Balanced(g, n, b)
  PROVE  /\ h[n + 1].op \notin {"regularFunction", "endFunction"} =>
              Balanced(h, n + 1, b) /\ (b => BodyAt(h, n + 1))
         /\ h[n + 1] = Regular /\ ~ b => Balanced(h, n + 1, TRUE)
         /\ h[n + 1] = EndOf /\ b => Balanced(h, n + 1, FALSE)
<1>1. PICK x, y, c : x = Count(g, n, Regular) /\ y = Count(g, n, EndOf) /\ c = h[n + 1]
  OBVIOUS
<1>2. x \in Nat /\ y \in Nat /\ x = y + (IF b THEN 1 ELSE 0)
  BY <1>1, CountNext DEF Balanced
<1>3. Count(h, n + 1, Regular) = x + (IF c = Regular THEN 1 ELSE 0)
  <2>1. Count(h, n, Regular) = x
    BY <1>1, CountSame
  <2>2. Count(h, n + 1, Regular) = Count(h, n, Regular) + (IF h[n + 1] = Regular THEN 1 ELSE 0)
    BY CountNext
  <2>. QED  BY <1>1, <2>1, <2>2, Zenon
<1>4. Count(h, n + 1, EndOf) = y + (IF c = EndOf THEN 1 ELSE 0)
  <2>1. Count(h, n, EndOf) = y
    BY <1>1, CountSame
  <2>2. Count(h, n + 1, EndOf) = Count(h, n, EndOf) + (IF h[n + 1] = EndOf THEN 1 ELSE 0)
    BY CountNext
  <2>. QED  BY <1>1, <2>1, <2>2, Zenon
<1>5. Regular.op = "regularFunction" /\ EndOf.op = "endFunction" /\ Regular # EndOf
  BY DEF Regular, EndOf
<1>6. ASSUME c.op \notin {"regularFunction", "endFunction"}
      PROVE  Balanced(h, n + 1, b) /\ (b => BodyAt(h, n + 1))
  <2>1. c # Regular /\ c # EndOf
    BY <1>5, <1>6
  <2>2. Count(h, n + 1, Regular) = x /\ Count(h, n + 1, EndOf) = y
    BY <1>2, <1>3, <1>4, <2>1
  <2>3. b => x > y
    BY <1>2
  <2>. QED  BY <1>2, <2>2, <2>3 DEF Balanced, BodyAt, Count
<1>7. ASSUME c = Regular, ~ b
      PROVE  Balanced(h, n + 1, TRUE)
  BY <1>2, <1>3, <1>4, <1>5, <1>7 DEF Balanced
<1>8. ASSUME c = EndOf, b
      PROVE  Balanced(h, n + 1, FALSE)
  BY <1>2, <1>3, <1>4, <1>5, <1>8 DEF Balanced
<1>. QED  BY <1>1, <1>6, <1>7, <1>8

(* ----- what FlatbufferPrinter has written ---------------------------------------------- *)

BuffersOf(f, its) == [i \in 1..(Len(f) + 1) |-> IF i <= Len(f) THEN f[i].items ELSE its]

PrinterFields == {"header", "items", "size", "inFunction", "name", "body"}

PrinterIs(p) ==
  /\ p = [f \in PrinterFields |-> p[f]]
  /\ p.header \in BOOLEAN /\ Sequence(p.items) /\ p.size \in Nat /\ p.inFunction \in BOOLEAN

(* The calls after the first n are those of the function that is open.        *)
Open(k, g, p, n) ==
  IF p.inFunction
  THEN k = "circuit" /\ OpenAt(g, n, p.name, p.body) /\ Len(g) = n + 2 + Len(p.body)
  ELSE p.body = <<>> /\ Len(g) = n

Headed(k, p, f) == IF Len(f) = 0 THEN p.header ELSE f[1].header /\ f[1].kind = k

Sized(k, p) == k # "circuit" => p.size = Len(p.items) + (IF p.header THEN 1 ELSE 0)

(* The file f and the printer p hold the calls g, and n of them in items.     *)
Written(k, g, p, f, e, n) ==
  /\ Sequence(g) /\ Sequence(f) /\ PrinterIs(p)
  /\ Placed(k, e, Len(f) + 1, BuffersOf(f, p.items), g, n)
  /\ Open(k, g, p, n) /\ Balanced(g, Len(g), p.inFunction)
  /\ Len(g) + (IF p.inFunction THEN 1 ELSE 0) <= MaxCalls + 1
  /\ Headed(k, p, f) /\ Sized(k, p)

ItemAdded(p, o, d) ==
  /\ PrinterIs(o) /\ o.header = p.header /\ ~ o.inFunction /\ o.body = <<>>
  /\ o.items = Append(p.items, d)

(* What the printer's operations make of its fields.                         *)
LEMMA GateAdded ==
  ASSUME NEW p, PrinterIs(p), ~ p.inFunction, p.body = <<>>, NEW x, NEW o, o = AddGate(p, x)
  PROVE  ItemAdded(p, o, [form |-> "gate", gate |-> x])
<1>1. PICK d : d = [form |-> "gate", gate |-> x]
  OBVIOUS
<1>2. PICK its : its = Append(p.items, d)
  OBVIOUS
<1>3. o = [p EXCEPT !.size = @ + 1, !.items = its]
  BY <1>1, <1>2 DEF AddGate
<1>4. /\ o = [f \in PrinterFields |-> o[f]] /\ o.header = p.header /\ o.size = p.size + 1
      /\ o.inFunction = p.inFunction /\ o.body = p.body /\ o.items = its
  BY <1>3 DEF PrinterIs, PrinterFields
<1>5. Sequence(its)
  BY <1>2, Appended DEF PrinterIs, IsAppended
<1>6. o.header \in BOOLEAN /\ o.inFunction \in BOOLEAN
  BY <1>1, <1>2, <1>4, <1>5, Zenon DEF PrinterIs
<1>7. o.size \in Nat /\ Sequence(o.items)
  <2>1. p.size \in Nat /\ Sequence(p.items)
    BY Zenon DEF PrinterIs
  <2>2. p.size + 1 \in Nat
    BY <2>1
  <2>. QED  BY <1>1, <1>2, <1>4, <1>5, <2>1, <2>2, Zenon
<1>8. PrinterIs(o)
  BY <1>1, <1>2, <1>4, <1>5, <1>6, <1>7, Zenon DEF PrinterIs
<1>. QED  BY <1>1, <1>2, <1>4, <1>5, <1>8, Zenon DEF ItemAdded

(* A gate in a function: only the body and the size change.                 *)
LEMMA BodyAdded ==
  ASSUME NEW p, PrinterIs(p), p.inFunction, NEW x, NEW o, o = AddGate(p, x)
  PROVE  /\ PrinterIs(o) /\ o.header = p.header /\ o.size = p.size + 1 /\ o.inFunction /\ o.name = p.name
         /\ o.items = p.items /\ o.body = Append(p.body, x)
<1>1. PICK B : B = Append(p.body, x)
  OBVIOUS
<1>2. o = [p EXCEPT !.size = @ + 1, !.body = B]
  BY <1>1 DEF AddGate
<1>3. /\ o = [f \in PrinterFields |-> o[f]] /\ o.header = p.header /\ o.size = p.size + 1
      /\ o.inFunction = p.inFunction /\ o.name = p.name /\ o.items = p.items /\ o.body = B
  BY <1>2 DEF PrinterIs, PrinterFields
<1>4. o.header \in BOOLEAN /\ o.inFunction \in BOOLEAN
  BY <1>1, <1>3, Zenon DEF PrinterIs
<1>5. o.size \in Nat /\ Sequence(o.items)
  <2>1. p.size \in Nat /\ Sequence(p.items)
    BY Zenon DEF PrinterIs
  <2>2. p.size + 1 \in Nat
    BY <2>1
  <2>. QED  BY <1>1, <1>3, <2>1, <2>2, Zenon
<1>6. PrinterIs(o)
  BY <1>1, <1>3, <1>4, <1>5, Zenon DEF PrinterIs
<1>. QED  BY <1>1, <1>3, <1>6, Zenon

(* A value: one item more.                                                  *)
LEMMA ValueAdded ==
  ASSUME NEW p, PrinterIs(p), ~ p.inFunction, p.body = <<>>, NEW x, NEW o, o = AddValue(p, x)
  PROVE  ItemAdded(p, o, x) /\ o.size = p.size + 1
<1>1. PICK its : its = Append(p.items, x)
  OBVIOUS
<1>2. o = [p EXCEPT !.size = @ + 1, !.items = its]
  BY <1>1 DEF AddValue
<1>3. /\ o = [f \in PrinterFields |-> o[f]] /\ o.header = p.header /\ o.size = p.size + 1
      /\ o.inFunction = p.inFunction /\ o.body = p.body /\ o.items = its
  BY <1>2 DEF PrinterIs, PrinterFields
<1>4. Sequence(its)
  BY <1>1, Appended DEF PrinterIs, IsAppended
<1>5. o.header \in BOOLEAN /\ o.inFunction \in BOOLEAN
  BY <1>1, <1>3, <1>4, Zenon DEF PrinterIs
<1>6. o.size \in Nat /\ Sequence(o.items)
  <2>1. p.size \in Nat /\ Sequence(p.items)
    BY Zenon DEF PrinterIs
  <2>2. p.size + 1 \in Nat
    BY <2>1
  <2>. QED  BY <1>1, <1>3, <1>4, <2>1, <2>2, Zenon
<1>7. PrinterIs(o)
  BY <1>1, <1>3, <1>4, <1>5, <1>6, Zenon DEF PrinterIs
<1>. QED  BY <1>1, <1>3, <1>4, <1>7, Zenon DEF ItemAdded

(* A buffer is written: the items and the header are gone, the function     *)
(* stays.                                                                   *)
LEMMA PrinterRewritten ==
  ASSUME NEW p, PrinterIs(p), NEW o, o = Rewritten(p)
  PROVE  /\ PrinterIs(o) /\ o.header = FALSE /\ o.size = 0 /\ o.inFunction = p.inFunction /\ o.name = p.name
         /\ o.body = p.body /\ o.items = <<>>
<1>1. PICK its : its = <<>>
  OBVIOUS
<1>2. o = [p EXCEPT !.header = FALSE, !.items = its, !.size = 0]
  BY <1>1 DEF Rewritten
<1>3. /\ o = [f \in PrinterFields |-> o[f]] /\ o.header = FALSE /\ o.size = 0
      /\ o.inFunction = p.inFunction /\ o.name = p.name /\ o.body = p.body /\ o.items = its
  BY <1>2 DEF PrinterIs, PrinterFields
<1>4. Sequence(its)
  BY <1>1, EmptyIs
<1>5. o.header \in BOOLEAN /\ o.inFunction \in BOOLEAN
  BY <1>1, <1>3, <1>4, Zenon DEF PrinterIs
<1>6. o.size \in Nat /\ Sequence(o.items)
  <2>1. p.size \in Nat /\ Sequence(p.items)
    BY Zenon DEF PrinterIs
  <2>2. 0 \in Nat
    OBVIOUS
  <2>. QED  BY <1>1, <1>3, <1>4, <2>1, <2>2, Zenon
<1>7. PrinterIs(o)
  BY <1>1, <1>3, <1>4, <1>5, <1>6, Zenon DEF PrinterIs
<1>. QED  BY <1>1, <1>3, <1>4, <1>7, Zenon

Begins(p, o, name) ==
  /\ PrinterIs(o) /\ o.header = p.header /\ o.inFunction /\ o.name = name
  /\ o.body = p.body /\ o.items = p.items

(* A function is begun: only its name is new.                               *)
LEMMA FunctionBegun ==
  ASSUME NEW p, PrinterIs(p), NEW name, NEW o, o = [p EXCEPT !.name = name, !.inFunction = TRUE]
  PROVE  Begins(p, o, name)
<1>1. /\ o = [f \in PrinterFields |-> o[f]] /\ o.header = p.header /\ o.size = p.size
      /\ o.inFunction = TRUE /\ o.name = name /\ o.body = p.body /\ o.items = p.items
  BY DEF PrinterIs, PrinterFields
<1>2. o.header \in BOOLEAN /\ o.inFunction \in BOOLEAN
  BY <1>1, Zenon DEF PrinterIs
<1>3. o.size \in Nat /\ Sequence(o.items)
  <2>1. p.size \in Nat /\ Sequence(p.items)
    BY Zenon DEF PrinterIs
  <2>2. p.size + 1 \in Nat
    BY <2>1
  <2>. QED  BY <1>1, <2>1, <2>2, Zenon
<1>4. PrinterIs(o)
  BY <1>1, <1>2, <1>3, Zenon DEF PrinterIs
<1>. QED  BY <1>1, <1>4, Zenon DEF Begins

(* A function is ended: one item more, with its body.                       *)
LEMMA FunctionAdded ==
  ASSUME NEW p, PrinterIs(p), Len(p.body) \in Nat, NEW o, o = AddFunction(p)
  PROVE  ItemAdded(p, o, [form |-> "gates", name |-> p.name, body |-> p.body])
<1>1. PICK d : d = [form |-> "gates", name |-> p.name, body |-> p.body]
  OBVIOUS
<1>2. PICK its, z, B : its = Append(p.items, d) /\ z = p.size + 1 + Len(p.body) /\ B = <<>>
  OBVIOUS
<1>3. PICK none : o = [p EXCEPT !.size = z, !.inFunction = FALSE, !.name = none, !.body = B, !.items = its]
  BY <1>1, <1>2, Zenon DEF AddFunction
<1>4. /\ o = [f \in PrinterFields |-> o[f]] /\ o.header = p.header /\ o.size = z
      /\ o.inFunction = FALSE /\ o.body = B /\ o.items = its
  BY <1>3 DEF PrinterIs, PrinterFields
<1>5. Sequence(its)
  BY <1>2, Appended DEF PrinterIs, IsAppended
<1>6. z \in Nat
  <2>1. p.size \in Nat
    BY DEF PrinterIs
  <2>. QED  BY <1>2, <2>1
<1>7. o.header \in BOOLEAN /\ o.inFunction \in BOOLEAN
  BY <1>1, <1>2, <1>4, <1>5, <1>6, Zenon DEF PrinterIs
<1>8. o.size \in Nat /\ Sequence(o.items)
  <2>1. p.size \in Nat /\ Sequence(p.items)
    BY Zenon DEF PrinterIs
  <2>2. p.size + 1 \in Nat
    BY <2>1
  <2>. QED  BY <1>1, <1>2, <1>4, <1>5, <1>6, <2>1, <2>2, Zenon
<1>9. PrinterIs(o)
  BY <1>1, <1>2, <1>4, <1>5, <1>6, <1>7, <1>8, Zenon DEF PrinterIs
<1>. QED  BY <1>1, <1>2, <1>4, <1>5, <1>6, <1>9, Zenon DEF ItemAdded

(* A plugin is bound: one item more, with all counts in one list.           *)
LEMMA PluginAdded ==
  ASSUME NEW p, PrinterIs(p), ~ p.inFunction, p.body = <<>>, NEW name, NEW b,
         NEW o, o = AddPlugin([p EXCEPT !.name = name], b), NEW w, w = Entries(b.publics) \o Entries(b.privates)
  PROVE  ItemAdded(p, o, [form |-> "plugin", name |-> name, public |-> w, private |-> <<>>])
<1>1. PICK r : r = [p EXCEPT !.name = name]
  OBVIOUS
<1>2. /\ r = [f \in PrinterFields |-> r[f]] /\ r.header = p.header /\ r.size = p.size
      /\ r.inFunction = p.inFunction /\ r.name = name /\ r.body = p.body /\ r.items = p.items
  BY <1>1 DEF PrinterIs, PrinterFields
<1>3. PICK d : d = [form |-> "plugin", name |-> name, public |-> w, private |-> <<>>]
  OBVIOUS
<1>4. PICK its : its = Append(p.items, d)
  OBVIOUS
<1>5. PICK none : o = [r EXCEPT !.size = @ + 1, !.name = none, !.items = its]
  BY <1>1, <1>2, <1>3, <1>4, Zenon DEF AddPlugin
<1>6. /\ o = [f \in PrinterFields |-> o[f]] /\ o.header = r.header /\ o.size = r.size + 1
      /\ o.inFunction = r.inFunction /\ o.body = r.body /\ o.items = its
  BY <1>2, <1>5 DEF PrinterFields
<1>7. Sequence(its)
  BY <1>4, Appended DEF PrinterIs, IsAppended
<1>8. o.header \in BOOLEAN /\ o.inFunction \in BOOLEAN
  BY <1>2, <1>3, <1>4, <1>6, <1>7, Zenon DEF PrinterIs
<1>9. o.size \in Nat /\ Sequence(o.items)
  <2>1. p.size \in Nat /\ Sequence(p.items)
    BY Zenon DEF PrinterIs
  <2>2. p.size + 1 \in Nat
    BY <2>1
  <2>. QED  BY <1>2, <1>3, <1>4, <1>6, <1>7, <2>1, <2>2, Zenon
<1>10. PrinterIs(o)
  BY <1>2, <1>3, <1>4, <1>6, <1>7, <1>8, <1>9, Zenon DEF PrinterIs
<1>. QED  BY <1>2, <1>3, <1>4, <1>6, <1>7, <1>10, Zenon DEF ItemAdded

(* The printer after the header.                                            *)
LEMMA Begun ==
  /\ PrinterIs(WithHeader) /\ WithHeader.header /\ WithHeader.items = <<>> /\ WithHeader.size = 1
  /\ ~ WithHeader.inFunction /\ WithHeader.body = <<>>
<1>1. PICK p, its : p = EmptyPrinter /\ its = <<>>
  OBVIOUS
<1>2. p = [f \in PrinterFields |-> p[f]] /\ p.items = its /\ p.inFunction = FALSE /\ p.body = <<>>
  BY <1>1 DEF EmptyPrinter, PrinterFields
<1>3. PICK o : o = WithHeader
  OBVIOUS
<1>4. o = [p EXCEPT !.header = TRUE, !.size = 1]
  BY <1>1, <1>3 DEF WithHeader
<1>5. /\ o = [f \in PrinterFields |-> o[f]] /\ o.header = TRUE /\ o.size = 1
      /\ o.inFunction = p.inFunction /\ o.body = p.body /\ o.items = p.items
  BY <1>2, <1>4 DEF PrinterFields
<1>6. Sequence(its)
  BY <1>1, EmptyIs
<1>7. o.header \in BOOLEAN /\ o.inFunction \in BOOLEAN
  BY <1>1, <1>2, <1>3, <1>5, <1>6, Zenon DEF PrinterIs
<1>8. o.size \in Nat /\ Sequence(o.items)
  BY <1>2, <1>5, <1>6
<1>9. PrinterIs(o)
  BY <1>1, <1>2, <1>3, <1>5, <1>6, <1>7, <1>8, Zenon DEF PrinterIs
<1>. QED  BY <1>1, <1>2, <1>3, <1>5, <1>6, <1>9, Zenon

AreBuffers(s, f, its, L) ==
  (\A i \in 1..L : s[i] = f[i].items) /\ s[L + 1] = its

(* The buffers of the file, and the items that are not written yet.         *)
LEMMA BuffersAre ==
  ASSUME NEW f, Sequence(f), NEW its, NEW L, L = Len(f), NEW s, s = BuffersOf(f, its)
  PROVE  AreBuffers(s, f, its, L)
<1>1. L \in Nat
  BY SequenceFacts
<1>2. (\A i \in 1..L : i \in 1..(L + 1) /\ i <= L) /\ L + 1 \in 1..(L + 1) /\ ~ (L + 1 <= L)
  BY <1>1
<1>. QED  BY <1>2 DEF BuffersOf, AreBuffers

(* Writing a buffer loses nothing.                                          *)
LEMMA WrittenFlushed ==
  ASSUME NEW k, NEW g, NEW p, NEW f, NEW e, NEW n, Written(k, g, p, f, e, n),
         NEW o, o = Rewritten(p), NEW b, b = Append(f, BufferOf(p, k))
  PROVE  /\ o.inFunction = p.inFunction /\ o.name = p.name /\ o.body = p.body /\ o.items = <<>>
         /\ \E x : Written(k, g, o, b, x, n)
<1>1. PICK L : L = Len(f)
  OBVIOUS
<1>2. L \in Nat /\ Sequence(f) /\ PrinterIs(p)
  BY <1>1, SequenceFacts DEF Written
<1>3. PrinterIs(o)
  BY <1>2, PrinterRewritten
<1>4. /\ o.header = FALSE /\ o.items = <<>> /\ o.size = 0
      /\ o.inFunction = p.inFunction /\ o.name = p.name /\ o.body = p.body
  BY <1>2, PrinterRewritten, Zenon
<1>5. PrinterIs(o)
  BY <1>3
<1>6. IsAppended(b, f, L, BufferOf(p, k))
  BY <1>1, <1>2, Appended
<1>7. /\ Sequence(b) /\ Len(b) = L + 1 /\ b[L + 1] = BufferOf(p, k)
      /\ \A i \in 1..L : b[i] = f[i]
  BY <1>6 DEF IsAppended
<1>8. PICK s, t : s = BuffersOf(f, p.items) /\ t = BuffersOf(b, o.items)
  OBVIOUS
<1>9. Placed(k, e, L + 1, s, g, n)
  BY <1>1, <1>8 DEF Written
<1>10. /\ \A i \in 1..L : s[i] = f[i].items
       /\ s[L + 1] = p.items
  <2>1. AreBuffers(s, f, p.items, L)
    BY <1>1, <1>2, <1>8, BuffersAre
  <2>. QED  BY <2>1 DEF AreBuffers
<1>11. /\ \A i \in 1..(L + 1) : t[i] = b[i].items
       /\ t[L + 1 + 1] = <<>>
  <2>1. AreBuffers(t, b, o.items, L + 1)
    BY <1>7, <1>8, BuffersAre
  <2>. QED  BY <1>4, <2>1, Zenon DEF AreBuffers
<1>12. BufferOf(p, k).items = p.items /\ BufferOf(p, k).header = p.header /\ BufferOf(p, k).kind = k
  BY DEF BufferOf
<1>13. \A i \in 1..(L + 1) : t[i] = s[i]
  <2>1. \A i \in 1..(L + 1) : i \in 1..L \/ i = L + 1
    BY <1>2
  <2>. QED  BY <1>7, <1>10, <1>11, <1>12, <2>1
<1>14. PICK x : Placed(k, x, L + 1 + 1, t, g, n)
  <2>1. PICK N : N = L + 1
    OBVIOUS
  <2>2. \E x : Placed(k, x, N + 1, t, g, n)
    BY <1>9, <1>11, <1>13, <2>1, PlacedFlushed
  <2>. QED  BY <2>1, <2>2
<1>15. Headed(k, o, b)
  <2>1. CASE L = 0
    BY <1>1, <1>2, <1>7, <1>12, <2>1 DEF Headed, Written
  <2>2. CASE L # 0
    <3>1. 1 \in 1..L /\ L + 1 # 0
      BY <1>2, <2>2
    <3>2. f[1].header /\ f[1].kind = k
      BY <1>1, <2>2 DEF Headed, Written
    <3>3. b[1] = f[1]
      BY <1>7, <3>1
    <3>. QED  BY <1>7, <3>1, <3>2, <3>3 DEF Headed
  <2>. QED  BY <2>1, <2>2
<1>16. Sized(k, o)
  BY <1>4, EmptyIs DEF Sized
<1>17. Open(k, g, o, n)
  BY <1>4, Zenon DEF Open, Written
<1>18. Written(k, g, o, b, x, n)
  BY <1>4, <1>5, <1>7, <1>8, <1>14, <1>15, <1>16, <1>17, Zenon DEF Written
<1>. QED  BY <1>4, <1>18

(* An item is added that holds all calls that were not in items before.       *)
LEMMA WrittenItem ==
  ASSUME NEW k, NEW g, NEW p, NEW f, NEW e, NEW n, Written(k, g, p, f, e, n),
         NEW h, Extends(g, h), NEW q, q = Len(h), NEW d, ItemAt(k, h, n, d, q),
         Balanced(h, q, FALSE), q <= MaxCalls + 1,
         NEW o, ItemAdded(p, o, d), Sized(k, o)
  PROVE  \E x : Written(k, h, o, f, x, q)
<1>0. PrinterIs(o) /\ o.items = Append(p.items, d) /\ o.header = p.header /\ ~ o.inFunction /\ o.body = <<>>
  BY DEF ItemAdded
<1>1. PICK L : L = Len(f)
  OBVIOUS
<1>2. L \in Nat /\ Sequence(f) /\ Sequence(h) /\ q \in Nat
  BY <1>1, SequenceFacts DEF Written, Extends
<1>3. PICK s, t : s = BuffersOf(f, p.items) /\ t = BuffersOf(f, o.items)
  OBVIOUS
<1>4. Placed(k, e, L + 1, s, h, n)
  <2>1. Placed(k, e, L + 1, s, g, n)
    BY <1>1, <1>3 DEF Written
  <2>. QED  BY <2>1, PlacedExtends
<1>5. (\A i \in 1..L : s[i] = f[i].items) /\ s[L + 1] = p.items
  <2>1. AreBuffers(s, f, p.items, L)
    BY <1>1, <1>2, <1>3, BuffersAre
  <2>. QED  BY <2>1 DEF AreBuffers
<1>6. (\A i \in 1..L : t[i] = f[i].items) /\ t[L + 1] = o.items
  <2>1. AreBuffers(t, f, o.items, L)
    BY <1>1, <1>2, <1>3, BuffersAre
  <2>. QED  BY <2>1 DEF AreBuffers
<1>7. PICK x : Placed(k, x, L + 1, t, h, q)
  <2>1. PICK N : N = L + 1
    OBVIOUS
  <2>2. \A i \in 1..(N - 1) : i \in 1..L
    BY <1>2, <2>1
  <2>3. (\A i \in 1..(N - 1) : t[i] = s[i]) /\ t[N] = Append(s[N], d)
    BY <1>0, <1>5, <1>6, <2>1, <2>2
  <2>4. q <= Len(h)
    BY <1>2
  <2>5. \E x : Placed(k, x, N, t, h, q)
    BY <1>2, <1>4, <2>1, <2>3, <2>4, PlacedAdded
  <2>. QED  BY <2>1, <2>5
<1>8. Headed(k, o, f)
  BY <1>0 DEF Headed, Written
<1>9. Open(k, h, o, q)
  BY <1>0 DEF Open
<1>10. Balanced(h, Len(h), o.inFunction)
  <2>1. o.inFunction = FALSE
    BY <1>0 DEF PrinterIs
  <2>. QED  BY <2>1
<1>11. Len(h) + (IF o.inFunction THEN 1 ELSE 0) <= MaxCalls + 1
  BY <1>0, <1>2
<1>. QED  BY <1>0, <1>1, <1>2, <1>3, <1>7, <1>8, <1>9, <1>10, <1>11 DEF Written

(* A function is begun, or a gate added to it.                               *)
LEMMA WrittenOpen ==
  ASSUME NEW g, NEW p, NEW f, NEW e, NEW n, Written("circuit", g, p, f, e, n),
         NEW h, Extends(g, h), NEW o, PrinterIs(o), o.items = p.items, o.header = p.header, o.inFunction,
         OpenAt(h, n, o.name, o.body), Len(h) = n + 2 + Len(o.body),
         Balanced(h, Len(h), TRUE), Len(h) <= MaxCalls
  PROVE  Written("circuit", h, o, f, e, n)
<1>1. Sequence(f) /\ Sequence(h) /\ Len(h) \in Nat
  BY SequenceFacts DEF Written, Extends
<1>2. PICK s, N : s = BuffersOf(f, p.items) /\ N = Len(f) + 1
  OBVIOUS
<1>3. Placed("circuit", e, N, s, h, n)
  <2>1. Placed("circuit", e, N, s, g, n)
    BY <1>2 DEF Written
  <2>. QED  BY <2>1, PlacedExtends
<1>4. Headed("circuit", o, f) /\ Sized("circuit", o) /\ Open("circuit", h, o, n)
  BY DEF Headed, Sized, Open, Written
<1>5. o.inFunction = TRUE
  BY DEF PrinterIs
<1>6. Len(h) + (IF o.inFunction THEN 1 ELSE 0) <= MaxCalls + 1
  BY <1>1, <1>5, PressAssumption
<1>7. Balanced(h, Len(h), o.inFunction)
  BY <1>5
<1>. QED  BY <1>1, <1>2, <1>3, <1>4, <1>6, <1>7 DEF Written

(* ----- the steps of FlatbufferPrinter --------------------------------------------------- *)

OneMore(g, h, N, c) ==
  Extends(g, h) /\ N \in Nat /\ Len(h) = N + 1 /\ h[N + 1] = c /\ \A j \in 1..N : h[j] = g[j]

(* One call more.                                                           *)
LEMMA IsOneMore ==
  ASSUME NEW g, Sequence(g), NEW c, NEW h, h = Append(g, c), NEW N, N = Len(g)
  PROVE  OneMore(g, h, N, c)
<1>1. IsAppended(h, g, N, c)
  BY Appended
<1>2. N \in Nat
  BY SequenceFacts
<1>. QED  BY <1>1, <1>2 DEF IsAppended, Extends, OneMore

TwoMore(g, h, N, c, d) ==
  /\ Extends(g, h) /\ N \in Nat /\ Len(h) = N + 2 /\ h[N + 1] = c /\ h[N + 2] = d
  /\ \A j \in 1..N : h[j] = g[j]

(* Two calls more.                                                          *)
LEMMA IsTwoMore ==
  ASSUME NEW g, Sequence(g), NEW c, NEW d, NEW h, h = g \o <<c, d>>, NEW N, N = Len(g)
  PROVE  TwoMore(g, h, N, c, d)
<1>1. PICK t : t = <<c, d>>
  OBVIOUS
<1>2. Sequence(t) /\ Len(t) = 2 /\ t[1] = c /\ t[2] = d
  BY <1>1, TwoIs
<1>3. IsConcatenated(h, g, N, t, 2)
  BY <1>1, <1>2, Concatenated
<1>4. N \in Nat
  BY SequenceFacts
<1>5. 1 \in 1..2 /\ 2 \in 1..2
  OBVIOUS
<1>. QED  BY <1>2, <1>3, <1>4, <1>5 DEF IsConcatenated, Extends, TwoMore

(* A gate is no call about functions.                                       *)
LEMMA GateOp ==
  ASSUME NEW c \in Gates
  PROVE  c.op \notin Inside
<1>1. GivenGate(c)
  BY PressAssumption
<1>. QED  BY <1>1, GateReads DEF SameGate

(* Outside functions every call is in an item.                               *)
Closed(k, g, p, n) ==
  /\ Sequence(g) /\ PrinterIs(p) /\ n \in Nat /\ n = Len(g) /\ p.body = <<>> /\ ~ p.inFunction
  /\ Balanced(g, n, FALSE) /\ Sized(k, p)

(* What is known outside functions.                                         *)
LEMMA IsClosed ==
  ASSUME NEW k, NEW g, NEW p, NEW f, NEW e, NEW n, Written(k, g, p, f, e, n), ~ p.inFunction
  PROVE  Closed(k, g, p, n)
<1>1. p.inFunction = FALSE
  BY DEF Written, PrinterIs
<1>2. Sequence(g) /\ PrinterIs(p) /\ n = Len(g) /\ p.body = <<>> /\ Sized(k, p)
  BY DEF Written, Open
<1>3. Balanced(g, n, FALSE)
  BY <1>1, <1>2 DEF Written
<1>. QED  BY <1>1, <1>2, <1>3, SequenceFacts DEF Closed

(* A gate outside functions is added.                                       *)
LEMMA GateOutside ==
  ASSUME NEW g, NEW p, NEW f, NEW e, NEW n, Written("circuit", g, p, f, e, n), ~ p.inFunction,
         NEW c \in Gates, NEW h, h = Append(g, c), Len(g) + 1 <= MaxCalls,
         NEW o, o = AddGate(p, Packed(c, FALSE))
  PROVE  \E x, q : Written("circuit", h, o, f, x, q)
<1>1. Sequence(g) /\ PrinterIs(p) /\ n \in Nat /\ n = Len(g) /\ p.body = <<>> /\ Balanced(g, n, FALSE)
  BY IsClosed DEF Closed
<1>2. Extends(g, h) /\ Len(h) = n + 1 /\ h[n + 1] = c /\ \A j \in 1..n : h[j] = g[j]
  <2>1. OneMore(g, h, n, c)
    BY <1>1, IsOneMore
  <2>. QED  BY <2>1 DEF OneMore
<1>3. PICK d, q : d = [form |-> "gate", gate |-> Packed(c, FALSE)] /\ q = n + 1
  OBVIOUS
<1>4. ItemAt("circuit", h, n, d, q)
  <2>1. d = [form |-> "gate", gate |-> Packed(h[n + 1], FALSE)] /\ h[n + 1] \in Gates
    BY <1>2, <1>3
  <2>2. n + 1 <= Len(h)
    BY <1>1, <1>2
  <2>. QED  BY <1>1, <1>3, <2>1, <2>2, GateItem
<1>5. ItemAdded(p, o, d)
  BY <1>1, <1>3, GateAdded
<1>6. Balanced(h, q, FALSE)
  <2>1. c.op \notin {"regularFunction", "endFunction"}
    BY GateOp DEF Inside
  <2>. QED  BY <1>1, <1>2, <1>3, <2>1, BalancedNext
<1>7. Sized("circuit", o) /\ q = Len(h) /\ q <= MaxCalls + 1
  BY <1>1, <1>2, <1>3, PressAssumption DEF Sized
<1>8. \E x : Written("circuit", h, o, f, x, q)
  BY <1>2, <1>4, <1>5, <1>6, <1>7, WrittenItem
<1>. QED  BY <1>8

(* A gate in a function is added.                                           *)
LEMMA GateInside ==
  ASSUME NEW g, NEW p, NEW f, NEW e, NEW n, Written("circuit", g, p, f, e, n), p.inFunction,
         NEW c \in Gates, NEW h, h = Append(g, c), Len(g) + 1 <= MaxCalls,
         NEW o, o = AddGate(p, Packed(c, TRUE))
  PROVE  Written("circuit", h, o, f, e, n)
<1>1. PICK N, b : N = Len(g) /\ b = p.body
  OBVIOUS
<1>2. /\ Sequence(g) /\ PrinterIs(p) /\ OpenAt(g, n, p.name, b) /\ N = n + 2 + Len(b)
      /\ Balanced(g, N, TRUE) /\ n \in Nat
  <2>1. p.inFunction = TRUE
    BY DEF Written, PrinterIs
  <2>. QED  BY <1>1, <2>1 DEF Written, Open, OpenAt
<1>3. Extends(g, h) /\ N \in Nat /\ Len(h) = N + 1 /\ h[N + 1] = c /\ \A j \in 1..N : h[j] = g[j]
  <2>1. OneMore(g, h, N, c)
    BY <1>1, <1>2, IsOneMore
  <2>. QED  BY <2>1 DEF OneMore
<1>4. PICK B, u : B = Append(b, u) /\ u = Packed(c, TRUE)
  OBVIOUS
<1>5. PICK m : m = Len(b)
  OBVIOUS
<1>6. Sequence(b) /\ m \in Nat /\ N = n + 2 + m
  BY <1>2, <1>5, SequenceFacts DEF OpenAt
<1>7. IsAppended(B, b, m, u)
  BY <1>4, <1>5, <1>6, Appended
<1>8. Sequence(B) /\ Len(B) = m + 1 /\ B[m + 1] = u /\ \A i \in 1..m : B[i] = b[i]
  BY <1>7 DEF IsAppended
<1>9. Balanced(h, N + 1, TRUE) /\ BodyAt(h, N + 1)
  <2>1. c.op \notin {"regularFunction", "endFunction"}
    BY GateOp DEF Inside
  <2>. QED  BY <1>2, <1>3, <2>1, BalancedNext
<1>10. /\ Like(h, N + 1, Unpacked(u)) /\ Reads(Unpacked(u)) /\ Unpacked(u).op \notin Inside
  <2>1. PICK j : j = N + 1
    OBVIOUS
  <2>2. h[j] = c /\ BodyAt(h, j)
    BY <1>3, <1>9, <2>1
  <2>3. /\ Like(h, j, Recorded(h[j], TRUE))
        /\ Reads(Recorded(h[j], TRUE)) /\ Recorded(h[j], TRUE).op \notin Inside
    BY <2>2, LikeGate
  <2>. QED  BY <1>4, <2>1, <2>2, <2>3 DEF Recorded
<1>11. ASSUME NEW i \in 1..(m + 1)
       PROVE  Like(h, n + 2 + i, Unpacked(B[i])) /\ Reads(Unpacked(B[i])) /\ Unpacked(B[i]).op \notin Inside
  <2>1. CASE i = m + 1
    <3>1. n + 2 + i = N + 1
      BY <1>2, <1>6, <2>1
    <3>. QED  BY <1>8, <1>10, <2>1, <3>1
  <2>2. CASE i # m + 1
    <3>1. i \in 1..m /\ n + 2 + i \in 1..N
      BY <1>2, <1>6, <2>2
    <3>2. PICK j \in 1..N : j = n + 2 + i
      BY <3>1
    <3>3. PICK v : v = Unpacked(b[i])
      OBVIOUS
    <3>4. Like(g, j, v) /\ Reads(v) /\ v.op \notin Inside
      BY <1>2, <1>5, <3>1, <3>2, <3>3 DEF OpenAt
    <3>5. Like(h, j, v)
      BY <1>1, <1>3, <3>4, LikeExtends
    <3>. QED  BY <1>8, <3>1, <3>2, <3>3, <3>4, <3>5
  <2>. QED  BY <2>1, <2>2
<1>12. OpenAt(h, n, p.name, B)
  <2>1. n + 1 \in 1..N /\ n + 2 \in 1..N /\ n + 2 + (m + 1) = N + 1
    BY <1>2, <1>6
  <2>2. h[n + 1] = StartOf(p.name) /\ h[n + 2] = Regular
    BY <1>2, <1>3, <2>1 DEF OpenAt
  <2>3. n + 2 + (m + 1) <= Len(h)
    BY <1>3, <2>1
  <2>. QED  BY <1>2, <1>8, <1>11, <2>2, <2>3 DEF OpenAt
<1>13. PrinterIs(o) /\ o.header = p.header /\ o.inFunction /\ o.name = p.name /\ o.items = p.items /\ o.body = B
  BY <1>1, <1>2, <1>4, BodyAdded, ZenonT(30)
<1>14. OpenAt(h, n, o.name, o.body)
  BY <1>12, <1>13
<1>15. Len(h) = n + 2 + Len(o.body)
  <2>1. Len(o.body) = m + 1
    BY <1>8, <1>13
  <2>2. N + 1 = n + 2 + (m + 1)
    BY <1>2, <1>6
  <2>. QED  BY <1>3, <2>1, <2>2
<1>16. Balanced(h, Len(h), TRUE) /\ Len(h) <= MaxCalls
  BY <1>1, <1>3, <1>9
<1>. QED  BY <1>3, <1>13, <1>14, <1>15, <1>16, WrittenOpen

(* What begins and binds a function has no part in the count of bodies.       *)
LEMMA StartOp == \A name : StartOf(name).op = "startFunction"
BY DEF StartOf

(* Two calls that begin a function or bind it.                              *)
LEMMA StartBalanced ==
  ASSUME NEW g, NEW h, NEW n \in Nat, \A j \in 1..n : h[j] = g[j], Balanced(g, n, FALSE),
         h[n + 1].op = "startFunction", NEW q, q = n + 1, NEW r, r = n + 2
  PROVE  /\ h[r] = Regular => Balanced(h, r, TRUE)
         /\ h[r].op \notin {"regularFunction", "endFunction"} => Balanced(h, r, FALSE)
<1>1. Balanced(h, q, FALSE)
  BY BalancedNext
<1>2. q \in Nat /\ q + 1 = r /\ \A j \in 1..q : h[j] = h[j]
  OBVIOUS
<1>3. /\ h[q + 1] = Regular /\ ~ FALSE => Balanced(h, q + 1, TRUE)
      /\ h[q + 1].op \notin {"regularFunction", "endFunction"} => Balanced(h, q + 1, FALSE)
  BY <1>1, <1>2, BalancedNext
<1>. QED  BY <1>2, <1>3

(* A function is begun.                                                     *)
LEMMA FunctionStarted ==
  ASSUME NEW g, NEW p, NEW f, NEW e, NEW n, Written("circuit", g, p, f, e, n), ~ p.inFunction,
         NEW name, NEW h, h = g \o <<StartOf(name), Regular>>, Len(g) + 2 <= MaxCalls,
         NEW o, o = [p EXCEPT !.name = name, !.inFunction = TRUE]
  PROVE  Written("circuit", h, o, f, e, n)
<1>1. Sequence(g) /\ PrinterIs(p) /\ n \in Nat /\ n = Len(g) /\ p.body = <<>> /\ Balanced(g, n, FALSE)
  BY IsClosed DEF Closed
<1>2. /\ Extends(g, h) /\ Len(h) = n + 2 /\ h[n + 1] = StartOf(name) /\ h[n + 2] = Regular
      /\ \A j \in 1..n : h[j] = g[j]
  <2>1. TwoMore(g, h, n, StartOf(name), Regular)
    BY <1>1, IsTwoMore
  <2>. QED  BY <2>1 DEF TwoMore
<1>3. /\ PrinterIs(o) /\ o.header = p.header /\ o.inFunction /\ o.name = name
      /\ o.body = p.body /\ o.items = p.items
  <2>1. Begins(p, o, name)
    BY <1>1, FunctionBegun
  <2>. QED  BY <2>1 DEF Begins
<1>4. Sequence(o.body) /\ Len(o.body) = 0
  BY <1>1, <1>3, EmptyIs, Zenon
<1>5. OpenAt(h, n, o.name, o.body)
  <2>1. 1..0 = {}
    OBVIOUS
  <2>2. PICK b, m : b = o.body /\ m = o.name
    OBVIOUS
  <2>3. Sequence(b) /\ Len(b) = 0 /\ m = name
    BY <1>3, <1>4, <2>2
  <2>4. n + 2 + 0 <= Len(h)
    BY <1>1, <1>2
  <2>. QED  BY <1>1, <1>2, <2>1, <2>2, <2>3, <2>4 DEF OpenAt
<1>6. Balanced(h, n + 2, TRUE)
  <2>1. h[n + 1].op = "startFunction"
    BY <1>2, StartOp, Zenon
  <2>. QED  BY <1>1, <1>2, <2>1, StartBalanced
<1>7. Len(h) = n + 2 + Len(o.body)
  <2>1. n + 2 = n + 2 + 0
    BY <1>1
  <2>. QED  BY <1>2, <1>4, <2>1, Zenon
<1>8. Len(h) <= MaxCalls
  BY <1>1, <1>2
<1>9. Balanced(h, Len(h), TRUE)
  BY <1>2, <1>6
<1>. QED  BY <1>2, <1>3, <1>5, <1>7, <1>8, <1>9, WrittenOpen

(* A function is ended.                                                     *)
LEMMA FunctionEnded ==
  ASSUME NEW k, NEW g, NEW p, NEW f, NEW e, NEW n, Written(k, g, p, f, e, n), p.inFunction,
         NEW h, h = Append(g, EndOf), NEW o, o = AddFunction(p)
  PROVE  \E x, q : Written(k, h, o, f, x, q)
<1>1. PICK N, b, m, name : N = Len(g) /\ b = p.body /\ m = Len(b) /\ name = p.name
  OBVIOUS
<1>2. /\ k = "circuit" /\ Sequence(g) /\ PrinterIs(p) /\ OpenAt(g, n, name, b) /\ N = n + 2 + m
      /\ Balanced(g, N, TRUE) /\ N + 1 <= MaxCalls + 1
  <2>1. p.inFunction = TRUE
    BY DEF Written, PrinterIs
  <2>. QED  BY <1>1, <2>1 DEF Written, Open
<1>3. Sequence(b) /\ m \in Nat /\ n \in Nat
  BY <1>1, <1>2, SequenceFacts DEF OpenAt
<1>4. Extends(g, h) /\ N \in Nat /\ Len(h) = N + 1 /\ h[N + 1] = EndOf /\ \A j \in 1..N : h[j] = g[j]
  <2>1. OneMore(g, h, N, EndOf)
    BY <1>1, <1>2, IsOneMore
  <2>. QED  BY <2>1 DEF OneMore
<1>5. OpenAt(h, n, name, b)
  <2>1. n + 1 \in 1..N /\ n + 2 \in 1..N /\ n + 2 + m <= Len(h)
    BY <1>2, <1>3, <1>4
  <2>2. h[n + 1] = StartOf(name) /\ h[n + 2] = Regular
    BY <1>2, <1>4, <2>1 DEF OpenAt
  <2>3. ASSUME NEW i \in 1..m
        PROVE  /\ Like(h, n + 2 + i, Unpacked(b[i])) /\ Reads(Unpacked(b[i]))
               /\ Unpacked(b[i]).op \notin Inside
    <3>1. n + 2 + i \in 1..N
      BY <1>2, <1>3
    <3>2. PICK j \in 1..N : j = n + 2 + i
      BY <3>1
    <3>3. PICK v : v = Unpacked(b[i])
      OBVIOUS
    <3>4. Like(g, j, v) /\ Reads(v) /\ v.op \notin Inside
      BY <1>1, <1>2, <3>2, <3>3 DEF OpenAt
    <3>5. Like(h, j, v)
      BY <1>1, <1>4, <3>4, LikeExtends
    <3>. QED  BY <3>2, <3>3, <3>4, <3>5
  <2>. QED  BY <1>1, <1>3, <2>1, <2>2, <2>3 DEF OpenAt
<1>6. PICK d, q : d = [form |-> "gates", name |-> name, body |-> b] /\ q = N + 1
  OBVIOUS
<1>7. ItemAt("circuit", h, n, d, q)
  <2>1. q = n + Len(b) + 3
    <3>1. n + 2 + m + 1 = n + m + 3
      BY <1>3
    <3>. QED  BY <1>1, <1>2, <1>6, <3>1, Zenon
  <2>2. n + Len(b) + 3 <= Len(h) /\ h[n + Len(b) + 3] = EndOf
    BY <1>4, <1>6, <2>1
  <2>3. ItemAt("circuit", h, n, d, n + Len(b) + 3)
    BY <1>5, <1>6, <2>2, FunctionItem
  <2>. QED  BY <2>1, <2>3
<1>8. ItemAdded(p, o, d)
  BY <1>1, <1>2, <1>3, <1>6, FunctionAdded
<1>9. Balanced(h, q, FALSE)
  BY <1>2, <1>4, <1>6, BalancedNext
<1>10. Sized(k, o) /\ q = Len(h) /\ q <= MaxCalls + 1
  BY <1>2, <1>4, <1>6 DEF Sized
<1>11. \E x : Written(k, h, o, f, x, q)
  BY <1>2, <1>4, <1>7, <1>8, <1>9, <1>10, WrittenItem
<1>. QED  BY <1>11

(* A function is bound to a plugin.                                         *)
LEMMA PluginBound ==
  ASSUME NEW g, NEW p, NEW f, NEW e, NEW n, Written("circuit", g, p, f, e, n), ~ p.inFunction,
         NEW name, NEW b \in Bindings, NEW h, h = g \o <<StartOf(name), b>>, Len(g) + 2 <= MaxCalls,
         NEW o, o = AddPlugin([p EXCEPT !.name = name], b)
  PROVE  \E x, q : Written("circuit", h, o, f, x, q)
<1>1. Sequence(g) /\ PrinterIs(p) /\ n \in Nat /\ n = Len(g) /\ p.body = <<>> /\ Balanced(g, n, FALSE)
  BY IsClosed DEF Closed
<1>2. /\ Extends(g, h) /\ Len(h) = n + 2 /\ h[n + 1] = StartOf(name) /\ h[n + 2] = b
      /\ \A j \in 1..n : h[j] = g[j]
  <2>1. TwoMore(g, h, n, StartOf(name), b)
    BY <1>1, IsTwoMore
  <2>. QED  BY <2>1 DEF TwoMore
<1>3. PICK w, q : w = Entries(b.publics) \o Entries(b.privates) /\ q = n + 2
  OBVIOUS
<1>4. PICK d : d = [form |-> "plugin", name |-> name, public |-> w, private |-> <<>>]
  OBVIOUS
<1>5. ItemAt("circuit", h, n, d, q)
  <2>1. d.form = "plugin" /\ d.name = name /\ d.public = w /\ d.private = <<>>
    BY <1>4
  <2>2. n + 2 <= Len(h)
    BY <1>1, <1>2
  <2>. QED  BY <1>1, <1>2, <1>3, <2>1, <2>2, PluginItem
<1>6. ItemAdded(p, o, d)
  BY <1>1, <1>3, <1>4, PluginAdded
<1>7. Balanced(h, q, FALSE)
  <2>1. h[n + 1].op = "startFunction"
    BY <1>2, StartOp, Zenon
  <2>2. b.op = "pluginFunction"
    <3>1. GivenBinding(b)
      BY PressAssumption
    <3>. QED  BY <3>1 DEF GivenBinding, PluginOf
  <2>. QED  BY <1>1, <1>2, <1>3, <2>1, <2>2, StartBalanced, ZenonT(30)
<1>8. Sized("circuit", o) /\ q = Len(h) /\ q <= MaxCalls + 1
  BY <1>1, <1>2, <1>3, PressAssumption DEF Sized
<1>9. \E x : Written("circuit", h, o, f, x, q)
  BY <1>2, <1>5, <1>6, <1>7, <1>8, WrittenItem
<1>. QED  BY <1>9

(* A value of a stream is added.                                            *)
LEMMA ValueWritten ==
  ASSUME NEW k, k # "circuit", NEW g, NEW p, NEW f, NEW e, NEW n, Written(k, g, p, f, e, n), ~ p.inFunction,
         NEW v, NEW h, h = Append(g, Value(v)), Len(g) + 1 <= MaxCalls,
         NEW o, o = AddValue(p, Value(v))
  PROVE  \E x, q : Written(k, h, o, f, x, q)
<1>1. /\ Sequence(g) /\ PrinterIs(p) /\ n \in Nat /\ n = Len(g) /\ p.body = <<>> /\ Balanced(g, n, FALSE)
      /\ Sized(k, p)
  BY IsClosed DEF Closed
<1>2. PICK d, q : d = Value(v) /\ q = n + 1
  OBVIOUS
<1>3. Extends(g, h) /\ Len(h) = n + 1 /\ h[n + 1] = d /\ \A j \in 1..n : h[j] = g[j]
  <2>1. OneMore(g, h, n, d)
    BY <1>1, <1>2, IsOneMore
  <2>. QED  BY <2>1 DEF OneMore
<1>4. ItemAt(k, h, n, d, q)
  <2>1. n + 1 <= Len(h)
    BY <1>1, <1>3
  <2>. QED  BY <1>1, <1>2, <1>3, <2>1, ValueItem
<1>5. ItemAdded(p, o, d) /\ o.size = p.size + 1
  BY <1>1, <1>2, ValueAdded
<1>6. Balanced(h, q, FALSE)
  <2>1. d.op = "next"
    BY <1>2 DEF Value
  <2>. QED  BY <1>1, <1>2, <1>3, <2>1, BalancedNext
<1>7. Sized(k, o)
  <2>1. PICK L, s, t : L = Len(p.items) /\ s = p.items /\ t = o.items
    OBVIOUS
  <2>2. IsAppended(t, s, L, d)
    BY <1>1, <1>5, <2>1, Appended DEF ItemAdded, PrinterIs
  <2>3. Len(t) = L + 1 /\ L \in Nat
    BY <1>1, <2>1, <2>2, SequenceFacts DEF IsAppended, PrinterIs
  <2>4. p.size = L + (IF p.header THEN 1 ELSE 0)
    BY <1>1, <2>1 DEF Sized
  <2>5. o.header = p.header
    BY <1>5 DEF ItemAdded
  <2>6. CASE p.header
    <3>1. o.header
      BY <2>5, <2>6
    <3>. QED  BY <1>5, <2>1, <2>3, <2>4, <2>6, <3>1 DEF Sized
  <2>7. CASE ~ p.header
    <3>1. ~ o.header
      BY <2>5, <2>7
    <3>. QED  BY <1>5, <2>1, <2>3, <2>4, <2>7, <3>1 DEF Sized
  <2>. QED  BY <2>6, <2>7
<1>8. q = Len(h) /\ q <= MaxCalls + 1
  BY <1>1, <1>2, <1>3, PressAssumption
<1>9. \E x : Written(k, h, o, f, x, q)
  BY <1>3, <1>4, <1>5, <1>6, <1>7, <1>8, WrittenItem
<1>. QED  BY <1>9

(* ----- the flatbuffer is parsed --------------------------------------------------------- *)

(* The file holds all calls: e[i][m] of them before item m of buffer i.       *)
Filed(k, g, p, f, e) ==
  /\ Sequence(g) /\ Len(g) <= MaxCalls + 1 /\ Sequence(f) /\ Len(f) \in Nat \ {0}
  /\ ~ p.inFunction /\ p.body = <<>>
  /\ e[1][1] = 0
  /\ \A i \in 1..Len(f) : Sequence(f[i].items)
  /\ \A i \in 1..Len(f) : \A m \in 1..Len(f[i].items) : ItemAt(k, g, e[i][m], f[i].items[m], e[i][m + 1])
  /\ \A i \in 1..(Len(f) - 1) : e[i][Len(f[i].items) + 1] = e[i + 1][1]
  /\ Len(g) = e[Len(f)][Len(f[Len(f)].items) + 1]

(* Of a stream's buffers only the last may be empty.                         *)
NoneEmpty(k, f, n) == k # "circuit" => \A i \in 1..n : f[i].items # <<>>

(* When everything is written, the file holds it all.                       *)
LEMMA WrittenFiled ==
  ASSUME NEW k, NEW g, NEW p, NEW f, NEW e, NEW n, Written(k, g, p, f, e, n), ~ p.inFunction, p.items = <<>>,
         Len(f) # 0
  PROVE  Filed(k, g, p, f, e)
<1>1. /\ Sequence(g) /\ p.body = <<>> /\ n = Len(g)
  BY IsClosed DEF Closed
<1>2. PICK L, s : L = Len(f) /\ s = BuffersOf(f, <<>>)
  OBVIOUS
<1>3. Sequence(f) /\ L \in Nat \ {0}
  BY <1>2, SequenceFacts DEF Written
<1>4. Placed(k, e, L + 1, s, g, n)
  BY <1>2 DEF Written
<1>5. (\A i \in 1..L : s[i] = f[i].items) /\ s[L + 1] = <<>>
  <2>1. AreBuffers(s, f, <<>>, L)
    BY <1>2, <1>3, BuffersAre
  <2>. QED  BY <2>1 DEF AreBuffers
<1>6. /\ e[1][1] = 0
      /\ \A i \in 1..(L + 1) : Sequence(s[i])
      /\ \A i \in 1..(L + 1) : \A m \in 1..Len(s[i]) : ItemAt(k, g, e[i][m], s[i][m], e[i][m + 1])
      /\ \A i \in 1..((L + 1) - 1) : e[i][Len(s[i]) + 1] = e[i + 1][1]
      /\ n = e[L + 1][Len(s[L + 1]) + 1]
  BY <1>4, Zenon DEF Placed
<1>7. /\ \A i \in 1..L : i \in 1..(L + 1) /\ i \in 1..((L + 1) - 1)
      /\ \A i \in 1..(L - 1) : i \in 1..L
      /\ L \in 1..L
  BY <1>3
<1>8. /\ \A i \in 1..L : Sequence(f[i].items)
      /\ \A i \in 1..L : \A m \in 1..Len(f[i].items) : ItemAt(k, g, e[i][m], f[i].items[m], e[i][m + 1])
      /\ \A i \in 1..L : e[i][Len(f[i].items) + 1] = e[i + 1][1]
  BY <1>5, <1>6, <1>7
<1>9. n = e[L][Len(f[L].items) + 1]
  <2>1. Len(s[L + 1]) + 1 = 1
    BY <1>5, EmptyIs
  <2>. QED  BY <1>6, <1>7, <1>8, <2>1, SMTT(30)
<1>10. Len(g) <= MaxCalls + 1
  <2>1. p.inFunction = FALSE
    BY DEF Written, PrinterIs
  <2>2. Len(g) + 0 <= MaxCalls + 1
    BY <2>1 DEF Written
  <2>. QED  BY <1>1, <2>2, SequenceFacts
<1>. QED  BY <1>1, <1>2, <1>3, <1>6, <1>7, <1>8, <1>9, <1>10 DEF Filed

(* The parser's place a: what it parsed are the calls before it.              *)
AtItem(e, a, f, ps) ==
  /\ a = [buffer |-> a.buffer, item |-> a.item]
  /\ a.buffer \in 1..Len(f) /\ a.item \in 1..(Len(f[a.buffer].items) + 1)
  /\ Len(ps) = e[a.buffer][a.item]

(* A position that is not past the end is one of the positions.             *)
LEMMA NotLast ==
  ASSUME NEW l \in Nat, NEW m \in 1..(l + 1), ~ (m > l)
  PROVE  m \in 1..l /\ m + 1 \in 1..(l + 1)
OBVIOUS

(* The next buffer begins where this one ended.                             *)
LEMMA NextBufferAt ==
  ASSUME NEW k, NEW g, NEW p, NEW f, NEW e, Filed(k, g, p, f, e), NEW a, NEW ps, AtItem(e, a, f, ps),
         a.item > Len(f[a.buffer].items), a.buffer < Len(f),
         NEW b, b = [buffer |-> a.buffer + 1, item |-> 1]
  PROVE  AtItem(e, b, f, ps)
<1>1. PICK L, i, l : L = Len(f) /\ i = a.buffer /\ l = Len(f[i].items)
  OBVIOUS
<1>2. L \in Nat /\ i \in 1..(L - 1) /\ i + 1 \in 1..L
  BY <1>1 DEF Filed, AtItem
<1>3. l \in Nat /\ Len(f[i + 1].items) \in Nat
  <2>1. i \in 1..L
    BY <1>2
  <2>. QED  BY <1>1, <1>2, <2>1, SequenceFacts DEF Filed
<1>4. a.item = l + 1
  BY <1>1, <1>3 DEF AtItem
<1>5. Len(ps) = e[i + 1][1]
  BY <1>1, <1>2, <1>4 DEF Filed, AtItem
<1>6. b.buffer = i + 1 /\ b.item = 1
  BY <1>1
<1>7. 1 \in 1..(Len(f[i + 1].items) + 1)
  BY <1>3
<1>. QED  BY <1>1, <1>2, <1>5, <1>6, <1>7 DEF AtItem

(* At the end of the last buffer everything has been parsed.                *)
LEMMA AllParsed ==
  ASSUME NEW k, NEW g, NEW p, NEW f, NEW e, Filed(k, g, p, f, e), NEW a, NEW ps, AtItem(e, a, f, ps),
         a.buffer = Len(f), a.item > Len(f[a.buffer].items)
  PROVE  Len(ps) = Len(g)
<1>1. PICK L, l : L = Len(f) /\ l = Len(f[L].items)
  OBVIOUS
<1>2. l \in Nat
  <2>1. L \in 1..L
    BY <1>1 DEF Filed
  <2>. QED  BY <1>1, <2>1, SequenceFacts DEF Filed
<1>3. a.item = l + 1
  BY <1>1, <1>2 DEF AtItem
<1>. QED  BY <1>1, <1>3 DEF Filed, AtItem

(* At an empty buffer of a stream everything has been parsed.               *)
LEMMA NothingLeft ==
  ASSUME NEW k, k # "circuit", NEW g, NEW p, NEW f, NEW e, Filed(k, g, p, f, e), NoneEmpty(k, f, Len(f) - 1),
         NEW a, NEW ps, AtItem(e, a, f, ps), f[a.buffer].items = <<>>
  PROVE  Len(ps) = Len(g)
<1>1. a.buffer \in 1..Len(f) /\ Len(f) \in Nat
  BY DEF Filed, AtItem
<1>2. a.buffer \notin 1..(Len(f) - 1)
  BY DEF NoneEmpty
<1>3. a.buffer = Len(f)
  BY <1>1, <1>2
<1>4. a.item > Len(f[a.buffer].items)
  BY EmptyIs DEF AtItem
<1>. QED  BY <1>3, <1>4, AllParsed

(* The calls ps are what is made of the first ones of g, and t is their text.  *)
Converted(g, ps, t) ==
  /\ Sequence(ps) /\ Len(ps) <= Len(g)
  /\ \A j \in 1..Len(ps) : Like(g, j, ps[j])
  /\ \E q : TextOf(q, t, ps)

(* The parser is at a, and has made the calls ps.                            *)
Parsing(k, g, p, f, a, ps, t) ==
  /\ \E e : Filed(k, g, p, f, e) /\ AtItem(e, a, f, ps)
  /\ NoneEmpty(k, f, Len(f) - 1)
  /\ Converted(g, ps, t)

AllLike(g, p, ps, n) == \A j \in 1..n : Like(g, p + j, ps[j])

(* Calls that are like others, one after the other.                         *)
LEMMA LikeConcatenated ==
  ASSUME NEW g, NEW M \in Nat, NEW n \in Nat, NEW ps, NEW C, NEW us, IsConcatenated(us, ps, M, C, n),
         \A j \in 1..M : Like(g, j, ps[j]), AllLike(g, M, C, n),
         NEW j \in 1..(M + n)
  PROVE  Like(g, j, us[j])
<1>1. CASE j \in 1..M
  BY <1>1 DEF IsConcatenated
<1>2. CASE j \notin 1..M
  <2>1. PICK r \in 1..n : M + r = j
    <3>1. j - M \in 1..n /\ M + (j - M) = j
      BY <1>2
    <3>. QED  BY <3>1
  <2>2. Like(g, M + r, C[r]) /\ us[M + r] = C[r]
    BY DEF IsConcatenated, AllLike
  <2>. QED  BY <2>1, <2>2
<1>. QED  BY <1>1, <1>2

(* An item is read whole, whatever the program prints of it.                 *)
LEMMA ItemParsed ==
  ASSUME NEW k, NEW g, NEW p, NEW f, NEW e, Filed(k, g, p, f, e), NEW a, NEW ps, AtItem(e, a, f, ps),
         ~ (a.item > Len(f[a.buffer].items)), NEW t, Converted(g, ps, t), NoneEmpty(k, f, Len(f) - 1),
         NEW d, d = f[a.buffer].items[a.item], NEW C, C = ItemCalls(k, d),
         NEW us, us = ps \o C, NEW u, u = t \o Lines(Printed(C)), NEW b, b = [a EXCEPT !.item = @ + 1]
  PROVE  Parsing(k, g, p, f, b, us, u)
<1>1. PICK i, l, m, M, n : i = a.buffer /\ l = Len(f[i].items) /\ m = a.item /\ M = Len(ps) /\ n = Len(C)
  OBVIOUS
<1>2. i \in 1..Len(f) /\ l \in Nat
  BY <1>1, SequenceFacts DEF Filed, AtItem
<1>3. m \in 1..l /\ m + 1 \in 1..(l + 1)
  <2>1. m \in 1..(l + 1) /\ ~ (m > l)
    BY <1>1, Zenon DEF AtItem
  <2>. QED  BY <1>2, <2>1, NotLast, Zenon
<1>4. M = e[i][m]
  BY <1>1 DEF AtItem
<1>5. ItemAt(k, g, M, d, e[i][m + 1])
  BY <1>1, <1>2, <1>3, <1>4 DEF Filed
<1>6. /\ Sequence(C) /\ M \in Nat /\ n \in Nat /\ e[i][m + 1] = M + n /\ M + n <= Len(g) /\ Shape(C)
      /\ \A j \in 1..n : Like(g, M + j, C[j])
  BY <1>1, <1>5, SequenceFacts DEF ItemAt, Stands
<1>7. Sequence(ps) /\ \A j \in 1..M : Like(g, j, ps[j])
  BY <1>1 DEF Converted
<1>8. IsConcatenated(us, ps, M, C, n)
  BY <1>1, <1>6, <1>7, Concatenated
<1>9. /\ Sequence(us) /\ Len(us) = M + n
      /\ \A j \in 1..M : us[j] = ps[j]
      /\ \A j \in 1..n : us[M + j] = C[j]
  BY <1>8 DEF IsConcatenated
<1>10. \A j \in 1..(M + n) : Like(g, j, us[j])
  <2>1. AllLike(g, M, C, n)
    BY <1>6, Zenon DEF AllLike
  <2>2. M \in Nat /\ n \in Nat
    BY <1>6, Zenon
  <2>3. \A j \in 1..M : Like(g, j, ps[j])
    BY <1>7, Zenon
  <2>. QED  BY <1>8, <2>1, <2>2, <2>3, LikeConcatenated, Zenon
<1>11. \E q : TextOf(q, u, us)
  <2>1. PICK q : TextOf(q, t, ps)
    BY DEF Converted
  <2>2. PICK W : W = Lines(Printed(C))
    OBVIOUS
  <2>3. \A j \in 1..Len(C) : C[j] = Regular \/ Spoken(C[j])
    BY <1>1, <1>6 DEF Like
  <2>4. PICK K, h : PrintsAs(C, W, K, h)
    BY <1>6, <2>2, <2>3, CallsPrint
  <2>5. u = t \o W
    BY <2>2
  <2>. QED  BY <1>6, <2>1, <2>4, <2>5, TextAdded, ZenonT(30)
<1>12. b.buffer = i /\ b.item = m + 1 /\ b = [buffer |-> b.buffer, item |-> b.item]
  <2>1. a = [buffer |-> i, item |-> m]
    BY <1>1 DEF AtItem
  <2>. QED  BY <2>1
<1>13. AtItem(e, b, f, us)
  BY <1>1, <1>2, <1>3, <1>6, <1>9, <1>12 DEF AtItem
<1>14. Converted(g, us, u)
  BY <1>6, <1>9, <1>10, <1>11 DEF Converted
<1>. QED  BY <1>13, <1>14 DEF Parsing

(* ----- the text is read ----------------------------------------------------------------- *)

(* r is what the second text's parser makes of the call c.                   *)
Heard(c, r) == Stripped(r) = Stripped(c) /\ (c.op # "pluginFunction" \/ c = Empty => r = c)

(* The calls rs have been read from the lines of t before the l-th.           *)
ReadUpTo(q, t, ps, l, rs) ==
  /\ TextOf(q, t, ps) /\ l \in 1..(Len(t) + 1)
  /\ Sequence(rs) /\ Len(rs) = q[l - 1]
  /\ \A j \in 1..Len(rs) : Heard(ps[j], rs[j])

(* The calls that a statement is read as.                                    *)
ReadsAs(t, l, W) ==
  /\ Sequence(W) /\ Len(W) = Ahead(t, l) /\ W[Ahead(t, l)] = CallOf(t[l])
  /\ Opens(t, l) => W[1] = Regular

(* The calls that CallsRead gives.                                          *)
LEMMA StatementCalls ==
  ASSUME NEW t, NEW l, NEW W, W = (IF Opens(t, l) THEN <<Regular>> ELSE <<>>) \o <<CallOf(t[l])>>
  PROVE  ReadsAs(t, l, W)
<1>1. PICK x, o, z : x = CallOf(t[l]) /\ o = <<x>> /\ z = (IF Opens(t, l) THEN <<Regular>> ELSE <<>>)
  OBVIOUS
<1>2. Sequence(o) /\ Len(o) = 1 /\ o[1] = x
  BY <1>1, OneIs
<1>3. 1 \in 1..1 /\ 0 + 1 = 1 /\ 1 + 1 = 2
  OBVIOUS
<1>4. CASE Opens(t, l)
  <2>1. Sequence(z) /\ Len(z) = 1 /\ z[1] = Regular
    BY <1>1, <1>4, OneIs
  <2>2. IsConcatenated(W, z, 1, o, 1)
    BY <1>1, <1>2, <2>1, Concatenated
  <2>3. Sequence(W) /\ Len(W) = 2 /\ W[1] = Regular /\ W[2] = x
    BY <1>2, <1>3, <2>1, <2>2 DEF IsConcatenated
  <2>. QED  BY <1>1, <1>4, <2>3 DEF ReadsAs, Ahead
<1>5. CASE ~ Opens(t, l)
  <2>1. Sequence(z) /\ Len(z) = 0
    BY <1>1, <1>5, EmptyIs
  <2>2. IsConcatenated(W, z, 0, o, 1)
    <3>1. W = z \o o
      BY <1>1, Zenon
    <3>. QED  BY <1>2, <2>1, <3>1, Concatenated
  <2>3. Sequence(W) /\ Len(W) = 1 /\ W[1] = x
    BY <1>2, <1>3, <2>2 DEF IsConcatenated
  <2>. QED  BY <1>1, <1>5, <2>3 DEF ReadsAs, Ahead
<1>. QED  BY <1>4, <1>5

(* A line that is accepted says what it was printed for.                    *)
LEMMA LineSpoken ==
  ASSUME NEW q, NEW t, NEW ps, NEW l, Line(q, t, ps, l), \A j \in 1..Len(ps) : ps[j] = Regular \/ Spoken(ps[j]),
         Accepted(t[l]), NEW c, c = ps[q[l]]
  PROVE  Heard(c, CallOf(t[l]))
<1>1. c # Regular /\ Spoken(c) /\ t[l] = Statement(c)
  BY DEF Line
<1>. QED  BY <1>1 DEF Spoken, Heard

(* A line that is refused was printed for some call.                        *)
LEMMA LineRefused ==
  ASSUME NEW q, NEW t, NEW ps, NEW l, Line(q, t, ps, l), ~ Accepted(t[l])
  PROVE  \E j \in 1..Len(ps) : ps[j] # Regular /\ ~ Accepted(Statement(ps[j]))
BY DEF Line

(* A line is read: the next one or two calls.                               *)
LEMMA StatementRead ==
  ASSUME NEW q, NEW t, NEW ps, NEW l, NEW rs, ReadUpTo(q, t, ps, l, rs), ~ (l > Len(t)),
         \A j \in 1..Len(ps) : ps[j] = Regular \/ Spoken(ps[j]), Accepted(t[l]),
         NEW W, ReadsAs(t, l, W), NEW us, us = rs \o W
  PROVE  ReadUpTo(q, t, ps, l + 1, us)
<1>1. PICK M, a, m : M = Len(rs) /\ a = Ahead(t, l) /\ m = q[l]
  OBVIOUS
<1>2. Sequence(t) /\ Sequence(ps) /\ Sequence(rs) /\ Sequence(W) /\ TextOf(q, t, ps)
  BY DEF ReadUpTo, ReadsAs, TextOf
<1>3. Len(t) \in Nat /\ Len(ps) \in Nat /\ M \in Nat /\ M = q[l - 1]
  BY <1>1, <1>2, SequenceFacts DEF ReadUpTo
<1>4. l \in 1..Len(t) /\ l + 1 \in 1..(Len(t) + 1) /\ (l + 1) - 1 = l
  BY <1>3 DEF ReadUpTo
<1>5. Line(q, t, ps, l)
  BY <1>2, <1>4 DEF TextOf
<1>6. M + a = m /\ m \in 1..Len(ps) /\ (Opens(t, l) => ps[m - 1] = Regular)
  BY <1>1, <1>3, <1>5 DEF Line
<1>7. a = 1 \/ (a = 2 /\ Opens(t, l))
  BY <1>1 DEF Ahead
<1>8. IsConcatenated(us, rs, M, W, a)
  BY <1>1, <1>2, Concatenated DEF ReadsAs
<1>9. /\ Sequence(us) /\ Len(us) = m
      /\ \A j \in 1..M : us[j] = rs[j]
      /\ \A j \in 1..a : us[M + j] = W[j]
  BY <1>6, <1>8 DEF IsConcatenated
<1>10. Heard(ps[m], us[m])
  <2>1. a \in 1..a
    BY <1>7
  <2>2. us[m] = W[a]
    BY <1>6, <1>9, <2>1
  <2>3. W[a] = CallOf(t[l])
    BY <1>1 DEF ReadsAs
  <2>4. Heard(ps[m], CallOf(t[l]))
    BY <1>1, <1>5, LineSpoken
  <2>. QED  BY <2>2, <2>3, <2>4
<1>11. ASSUME NEW j \in 1..m
       PROVE  Heard(ps[j], us[j])
  <2>1. CASE j \in 1..M
    BY <1>1, <1>9, <2>1 DEF ReadUpTo
  <2>2. CASE j = m
    BY <1>10, <2>2
  <2>3. CASE j \notin 1..M /\ j # m
    <3>1. a = 2 /\ Opens(t, l) /\ j = M + 1 /\ j = m - 1
      BY <1>3, <1>6, <1>7, <2>3
    <3>2. W[1] = Regular
      BY <3>1 DEF ReadsAs
    <3>3. us[j] = Regular
      <4>1. 1 \in 1..a
        BY <3>1
      <4>2. us[M + 1] = W[1]
        BY <1>9, <4>1
      <4>. QED  BY <3>1, <3>2, <4>2, Zenon
    <3>4. ps[j] = Regular
      BY <1>6, <3>1
    <3>. QED  BY <3>3, <3>4 DEF Heard
  <2>. QED  BY <2>1, <2>2, <2>3
<1>. QED  BY <1>1, <1>2, <1>4, <1>9, <1>11 DEF ReadUpTo

(* After the last line every call was read.                                 *)
LEMMA ReadAll ==
  ASSUME NEW q, NEW t, NEW ps, NEW l, NEW rs, ReadUpTo(q, t, ps, l, rs), l > Len(t)
  PROVE  Len(rs) = Len(ps)
<1>1. Len(t) \in Nat
  BY SequenceFacts DEF ReadUpTo, TextOf
<1>2. l - 1 = Len(t)
  BY <1>1 DEF ReadUpTo
<1>. QED  BY <1>2 DEF ReadUpTo, TextOf

(* No more calls are read than were printed.                                *)
LEMMA ReadBounded ==
  ASSUME NEW q, NEW t, NEW ps, NEW l, NEW rs, ReadUpTo(q, t, ps, l, rs)
  PROVE  Len(rs) <= Len(ps)
<1>1. Len(t) \in Nat /\ Len(ps) \in Nat
  BY SequenceFacts DEF ReadUpTo, TextOf
<1>2. PICK i : i = l - 1
  OBVIOUS
<1>3. i = 0 \/ i \in 1..Len(t)
  BY <1>1, <1>2 DEF ReadUpTo
<1>4. Len(rs) = q[i]
  BY <1>2 DEF ReadUpTo
<1>5. q[0] = 0
  BY DEF ReadUpTo, TextOf
<1>6. i \in 1..Len(t) => q[i] \in 1..Len(ps)
  BY DEF ReadUpTo, TextOf, Line
<1>. QED  BY <1>1, <1>3, <1>4, <1>5, <1>6

(* ----- buffers are written --------------------------------------------------------------- *)

(* The check before an addition outside functions.                           *)
LEMMA Flush ==
  ASSUME NEW k, NEW g, NEW p, NEW f, NEW e, NEW n, Written(k, g, p, f, e, n), ~ p.inFunction,
         NoneEmpty(k, f, Len(f)), NEW w, k # "circuit" => w \in Nat /\ w >= 1,
         NEW o, o = (IF Filled(p, w) THEN Rewritten(p) ELSE p),
         NEW b, b = (IF Filled(p, w) THEN Append(f, BufferOf(p, k)) ELSE f)
  PROVE  /\ ~ o.inFunction /\ NoneEmpty(k, b, Len(b))
         /\ \E x : Written(k, g, o, b, x, n)
<1>1. CASE ~ Filled(p, w)
  BY <1>1
<1>2. CASE Filled(p, w)
  <2>1. o = Rewritten(p) /\ b = Append(f, BufferOf(p, k))
    BY <1>2
  <2>2. PICK x : Written(k, g, o, b, x, n)
    BY <2>1, WrittenFlushed
  <2>3. ~ o.inFunction
    <3>1. PrinterIs(p)
      BY DEF Written
    <3>. QED  BY <2>1, <3>1, PrinterRewritten, ZenonT(30)
  <2>4. ASSUME k # "circuit"
        PROVE  p.items # <<>>
    <3>1. w \in Nat /\ w >= 1 /\ p.size = Len(p.items) + (IF p.header THEN 1 ELSE 0)
      BY <2>4 DEF Written, Sized
    <3>2. p.size + Len(p.items) > w
      BY <1>2 DEF Filled
    <3>3. PICK l, z, h : l = Len(p.items) /\ z = p.size /\ h = (IF p.header THEN 1 ELSE 0)
      OBVIOUS
    <3>4. (h = 0 \/ h = 1) /\ z = l + h /\ z + l > w
      BY <3>1, <3>2, <3>3
    <3>5. l # 0
      BY <3>1, <3>4
    <3>6. p.items = <<>> => l = 0
      BY <3>3, EmptyIs
    <3>. QED  BY <3>5, <3>6
  <2>5. NoneEmpty(k, b, Len(b))
    <3>1. PICK L : L = Len(f)
      OBVIOUS
    <3>2. Sequence(f) /\ L \in Nat
      BY <3>1, SequenceFacts DEF Written
    <3>3. IsAppended(b, f, L, BufferOf(p, k))
      BY <2>1, <3>1, <3>2, Appended
    <3>4. BufferOf(p, k).items = p.items
      BY DEF BufferOf
    <3>5. \A i \in 1..(L + 1) : i \in 1..L \/ i = L + 1
      BY <3>2
    <3>6. Len(b) = L + 1 /\ b[L + 1].items = p.items /\ \A i \in 1..L : b[i] = f[i]
      BY <3>3, <3>4 DEF IsAppended
    <3>. QED  BY <2>4, <3>1, <3>5, <3>6 DEF NoneEmpty
  <2>. QED  BY <2>2, <2>3, <2>5
<1>. QED  BY <1>1, <1>2

(* The last buffer.                                                          *)
LEMMA LastFlush ==
  ASSUME NEW k, NEW g, NEW p, NEW f, NEW e, NEW n, Written(k, g, p, f, e, n), ~ p.inFunction,
         NoneEmpty(k, f, Len(f)), NEW o, o = Rewritten(p), NEW b, b = Append(f, BufferOf(p, k))
  PROVE  /\ NoneEmpty(k, b, Len(b) - 1) /\ HeaderGiven(b) /\ HeaderKind(b) = k
         /\ \E x : Filed(k, g, o, b, x)
<1>1. PICK x : Written(k, g, o, b, x, n)
  BY WrittenFlushed
<1>2. /\ ~ o.inFunction /\ o.items = <<>>
  <2>1. PrinterIs(p)
    BY DEF Written
  <2>. QED  BY <2>1, PrinterRewritten
<1>3. PICK L : L = Len(f)
  OBVIOUS
<1>4. Sequence(f) /\ L \in Nat
  BY <1>3, SequenceFacts DEF Written
<1>5. IsAppended(b, f, L, BufferOf(p, k))
  BY <1>3, <1>4, Appended
<1>6. Len(b) = L + 1 /\ L + 1 # 0 /\ (L + 1) - 1 = L /\ \A i \in 1..L : b[i] = f[i]
  BY <1>4, <1>5 DEF IsAppended
<1>7. NoneEmpty(k, b, Len(b) - 1)
  <2>1. NoneEmpty(k, b, L)
    BY <1>3, <1>6 DEF NoneEmpty
  <2>. QED  BY <1>6, <2>1
<1>8. Filed(k, g, o, b, x)
  BY <1>1, <1>2, <1>6, WrittenFiled
<1>9. b[1].header /\ b[1].kind = k
  BY <1>1, <1>6 DEF Headed, Written
<1>10. b # <<>>
  BY <1>6, EmptyIs
<1>. QED  BY <1>7, <1>8, <1>9, <1>10 DEF HeaderGiven, HeaderKind

(* ----- the invariant ------------------------------------------------------------------------ *)

Printing(k, g, p, f) == (\E e, n : Written(k, g, p, f, e, n)) /\ NoneEmpty(k, f, Len(f))

Started(a, ps, t, l, rs) ==
  a = [buffer |-> 1, item |-> 1] /\ ps = <<>> /\ t = <<>> /\ l = 1 /\ rs = <<>>

Reasons(g, why) ==
  /\ why \in Outcomes \ {"no header"}
  /\ why = "undefined" => \E j \in 1..Len(g) : g[j].op = "pluginFunction" /\ g[j] # Empty
  /\ why = "text refused" /\ AllFormed => \E j \in 1..Len(g) : Unreadable(g[j])

InT2f == stage = "t2f" => Printing(kind, given, printer, file) /\ Started(at, parsed, text, line, received)
InF2t ==
  /\ stage # "t2f" => Parsing(kind, given, printer, file, at, parsed, text)
  /\ stage = "f2t" => line = 1 /\ received = <<>>
InRead ==
  stage \in {"read", "done"} =>
    Len(parsed) = Len(given) /\ \E q : ReadUpTo(q, text, parsed, line, received)
InDone == outcome = "converted" => stage = "done" /\ Len(received) = Len(given)

IInv ==
  /\ kind \in {"circuit", "public_in", "private_in"} /\ stage \in {"t2f", "f2t", "read", "done"}
  /\ InT2f /\ InF2t /\ InRead /\ InDone /\ Reasons(given, outcome)

(* At the beginning nothing has been given and nothing written.             *)
LEMMA Beginning ==
  ASSUME NEW k
  PROVE  Printing(k, <<>>, WithHeader, <<>>)
<1>1. PICK g, p, its : g = <<>> /\ p = WithHeader /\ its = <<>>
  OBVIOUS
<1>2. Sequence(g) /\ Len(g) = 0 /\ Sequence(its) /\ Len(its) = 0
  BY <1>1, EmptyIs
<1>3. PrinterIs(p) /\ p.header /\ p.items = its /\ p.size = 1 /\ ~ p.inFunction /\ p.body = <<>>
  BY <1>1, Begun
<1>4. p.inFunction = FALSE /\ p.header = TRUE
  BY <1>3 DEF PrinterIs
<1>5. PICK e : e = [i \in Nat |-> [m \in Nat |-> 0]]
  OBVIOUS
<1>6. e[1][0 + 1] = 0 /\ e[1][1] = 0
  BY <1>5
<1>7. PICK s : s = BuffersOf(g, its)
  OBVIOUS
<1>8. s[1] = its
  <2>1. AreBuffers(s, g, its, 0)
    BY <1>2, <1>7, BuffersAre
  <2>. QED  BY <2>1 DEF AreBuffers
<1>9. Placed(k, e, 1, s, g, 0)
  <2>1. \A i \in 1..1 : i = 1
    OBVIOUS
  <2>2. 1..0 = {} /\ 1..(1 - 1) = {}
    OBVIOUS
  <2>3. 1 \in Nat \ {0} /\ 0 \in Nat /\ 0 <= Len(g)
    BY <1>2
  <2>. QED  BY <1>2, <1>6, <1>8, <2>1, <2>2, <2>3 DEF Placed
<1>10. Balanced(g, 0, FALSE)
  <2>1. \A x : {j \in 1..0 : g[j] = x} = {}
    OBVIOUS
  <2>. QED  BY <2>1, FS_EmptySet DEF Balanced, Count
<1>11. Open(k, g, p, 0) /\ Headed(k, p, g) /\ Sized(k, p)
  BY <1>2, <1>3, <1>4 DEF Open, Headed, Sized
<1>12. Placed(k, e, Len(g) + 1, BuffersOf(g, p.items), g, 0)
  BY <1>2, <1>3, <1>7, <1>9
<1>13. Balanced(g, Len(g), p.inFunction)
  BY <1>2, <1>4, <1>10
<1>14. Len(g) + (IF p.inFunction THEN 1 ELSE 0) <= MaxCalls + 1
  BY <1>2, <1>4, PressAssumption
<1>15. Written(k, g, p, g, e, 0)
  BY <1>2, <1>3, <1>11, <1>12, <1>13, <1>14 DEF Written
<1>16. NoneEmpty(k, g, Len(g))
  <2>1. 1..0 = {}
    OBVIOUS
  <2>. QED  BY <1>2, <2>1 DEF NoneEmpty
<1>. QED  BY <1>1, <1>15, <1>16 DEF Printing

(* ----- every step keeps the invariant -------------------------------------------------------- *)

(* A program stops for a reason.                                            *)
LEMMA StopKept ==
  ASSUME IInv, outcome = "running", NEW why, Stop(why), Reasons(given, why), why # "converted"
  PROVE  IInv'
<1>1. /\ kind' = kind /\ given' = given /\ printer' = printer /\ file' = file /\ at' = at /\ parsed' = parsed
      /\ text' = text /\ line' = line /\ received' = received /\ stage' = stage /\ outcome' = why
  BY DEF Stop, first, second, third
<1>2. InT2f' /\ InF2t'
  BY <1>1 DEF IInv, InT2f, InF2t
<1>3. InRead' /\ InDone' /\ Reasons(given', outcome')
  BY <1>1 DEF IInv, InRead, InDone
<1>. QED  BY <1>1, <1>2, <1>3 DEF IInv

(* A step of the first conversion needs only keep what is written.          *)
LEMMA PrintingKept ==
  ASSUME IInv, Running("t2f"), Printing(kind', given', printer', file'),
         UNCHANGED <<kind, second, third, stage, outcome>>
  PROVE  IInv'
<1>1. /\ kind' = kind /\ at' = at /\ parsed' = parsed /\ text' = text /\ line' = line /\ received' = received
      /\ stage' = "t2f" /\ stage = "t2f" /\ outcome' = "running"
  BY DEF Running, second, third
<1>2. InT2f'
  BY <1>1 DEF IInv, InT2f
<1>3. InF2t' /\ InRead' /\ InDone'
  BY <1>1 DEF InF2t, InRead, InDone
<1>4. Reasons(given', outcome')
  BY <1>1 DEF Reasons, Outcomes
<1>. QED  BY <1>1, <1>2, <1>3, <1>4 DEF IInv

(* Gates.                                                                   *)
LEMMA PrintGateKept ==
  ASSUME IInv, NEW c \in Gates, PrintGate(c)
  PROVE  IInv'
<1>1. Running("t2f") /\ Len(given) + 1 <= MaxCalls /\ kind = "circuit"
  BY DEF PrintGate, Reading
<1>2. CASE TooBig
  <2>1. Stop("function too big")
    BY <1>2 DEF PrintGate
  <2>2. Reasons(given, "function too big")
    BY DEF Reasons, Outcomes
  <2>. QED  BY <1>1, <2>1, <2>2, StopKept DEF Running
<1>3. CASE ~ TooBig
  <2>1. /\ given' = Append(given, c)
        /\ printer' = AddGate(Flushed(SimpleRewriteThreshold), Packed(c, printer.inFunction))
        /\ file' = FileFlushed(SimpleRewriteThreshold)
        /\ UNCHANGED <<kind, second, third, stage, outcome>>
    BY <1>3 DEF PrintGate
  <2>2. Printing("circuit", given, printer, file)
    BY <1>1 DEF IInv, InT2f, Running
  <2>3. PICK e, n : Written("circuit", given, printer, file, e, n)
    BY <2>2 DEF Printing
  <2>4. \E x, q : Written("circuit", given', printer', file', x, q)
    <3>1. CASE printer.inFunction
      <4>1. printer.inFunction = TRUE
        BY <2>3, <3>1 DEF Written, PrinterIs
      <4>2. ~ Filled(printer, SimpleRewriteThreshold)
        BY <1>3, <3>1 DEF TooBig
      <4>3. printer' = AddGate(printer, Packed(c, TRUE)) /\ file' = file
        BY <2>1, <4>1, <4>2 DEF Flushed, FileFlushed
      <4>4. Written("circuit", given', printer', file, e, n)
        BY <1>1, <2>1, <2>3, <3>1, <4>3, GateInside
      <4>. QED  BY <4>3, <4>4
    <3>2. CASE ~ printer.inFunction
      <4>1. printer.inFunction = FALSE
        BY <2>3, <3>2 DEF Written, PrinterIs
      <4>2. PICK o : o = Flushed(SimpleRewriteThreshold)
        OBVIOUS
      <4>3. NoneEmpty("circuit", file, Len(file))
        BY <2>2 DEF Printing
      <4>4. ~ o.inFunction /\ \E x : Written("circuit", given, o, file', x, n)
        BY <1>1, <2>1, <2>3, <3>2, <4>2, <4>3, Flush DEF Flushed, FileFlushed
      <4>5. printer' = AddGate(o, Packed(c, FALSE))
        BY <2>1, <4>1, <4>2
      <4>6. PICK y : Written("circuit", given, o, file', y, n)
        BY <4>4
      <4>. QED  BY <1>1, <2>1, <4>4, <4>5, <4>6, GateOutside
    <3>. QED  BY <3>1, <3>2
  <2>5. Printing(kind', given', printer', file')
    <3>1. kind' = "circuit"
      BY <1>1, <2>1
    <3>. QED  BY <2>4, <3>1 DEF Printing, NoneEmpty
  <2>. QED  BY <1>1, <2>1, <2>5, PrintingKept
<1>. QED  BY <1>2, <1>3

(* The start of a function.                                                 *)
LEMMA StartFunctionKept ==
  ASSUME IInv, NEW name, StartFunction(name)
  PROVE  IInv'
<1>1. /\ Running("t2f") /\ Len(given) + 2 <= MaxCalls /\ kind = "circuit" /\ ~ printer.inFunction
      /\ given' = given \o <<StartOf(name), Regular>>
      /\ printer' = [Flushed(FunctionRewriteThreshold) EXCEPT !.name = name, !.inFunction = TRUE]
      /\ file' = FileFlushed(FunctionRewriteThreshold)
      /\ UNCHANGED <<kind, second, third, stage, outcome>>
  BY DEF StartFunction, Reading
<1>2. Printing("circuit", given, printer, file)
  BY <1>1 DEF IInv, InT2f, Running
<1>3. PICK e, n : Written("circuit", given, printer, file, e, n)
  BY <1>2 DEF Printing
<1>4. PICK o : o = Flushed(FunctionRewriteThreshold)
  OBVIOUS
<1>5. NoneEmpty("circuit", file, Len(file))
  BY <1>2 DEF Printing
<1>6. ~ o.inFunction /\ \E x : Written("circuit", given, o, file', x, n)
  BY <1>1, <1>3, <1>4, <1>5, Flush DEF Flushed, FileFlushed
<1>7. PICK x : Written("circuit", given, o, file', x, n)
  BY <1>6
<1>8. printer' = [o EXCEPT !.name = name, !.inFunction = TRUE]
  BY <1>1, <1>4
<1>9. Written("circuit", given', printer', file', x, n)
  BY <1>1, <1>6, <1>7, <1>8, FunctionStarted
<1>10. Printing(kind', given', printer', file')
  <2>1. kind' = "circuit"
    BY <1>1
  <2>. QED  BY <1>9, <2>1 DEF Printing, NoneEmpty
<1>. QED  BY <1>1, <1>10, PrintingKept

(* The end of a function.                                                   *)
LEMMA EndFunctionKept ==
  ASSUME IInv, EndFunction
  PROVE  IInv'
<1>1. /\ Running("t2f") /\ printer.inFunction /\ given' = Append(given, EndOf) /\ printer' = AddFunction(printer)
      /\ UNCHANGED <<kind, file, second, third, stage, outcome>>
  BY DEF EndFunction
<1>2. Printing(kind, given, printer, file)
  BY <1>1 DEF IInv, InT2f, Running
<1>3. PICK e, n : Written(kind, given, printer, file, e, n)
  BY <1>2 DEF Printing
<1>4. \E x, q : Written(kind, given', printer', file, x, q)
  BY <1>1, <1>3, FunctionEnded
<1>5. Printing(kind', given', printer', file')
  BY <1>1, <1>2, <1>4 DEF Printing
<1>. QED  BY <1>1, <1>5, PrintingKept

(* The binding of a plugin.                                                 *)
LEMMA PluginFunctionKept ==
  ASSUME IInv, NEW name, NEW b \in Bindings, PluginFunction(name, b)
  PROVE  IInv'
<1>1. /\ Running("t2f") /\ Len(given) + 2 <= MaxCalls /\ kind = "circuit" /\ ~ printer.inFunction
      /\ given' = given \o <<StartOf(name), b>>
      /\ printer' = AddPlugin([Flushed(FunctionRewriteThreshold) EXCEPT !.name = name], b)
      /\ file' = FileFlushed(FunctionRewriteThreshold)
      /\ UNCHANGED <<kind, second, third, stage, outcome>>
  BY DEF PluginFunction, Reading
<1>2. Printing("circuit", given, printer, file)
  BY <1>1 DEF IInv, InT2f, Running
<1>3. PICK e, n : Written("circuit", given, printer, file, e, n)
  BY <1>2 DEF Printing
<1>4. PICK o : o = Flushed(FunctionRewriteThreshold)
  OBVIOUS
<1>5. NoneEmpty("circuit", file, Len(file))
  BY <1>2 DEF Printing
<1>6. ~ o.inFunction /\ \E x : Written("circuit", given, o, file', x, n)
  BY <1>1, <1>3, <1>4, <1>5, Flush DEF Flushed, FileFlushed
<1>7. PICK x : Written("circuit", given, o, file', x, n)
  BY <1>6
<1>8. printer' = AddPlugin([o EXCEPT !.name = name], b)
  BY <1>1, <1>4
<1>9. \E y, q : Written("circuit", given', printer', file', y, q)
  BY <1>1, <1>6, <1>7, <1>8, PluginBound
<1>10. Printing(kind', given', printer', file')
  <2>1. kind' = "circuit"
    BY <1>1
  <2>. QED  BY <1>9, <2>1 DEF Printing, NoneEmpty
<1>. QED  BY <1>1, <1>10, PrintingKept

(* The values of a stream.                                                  *)
LEMMA PrintStreamValueKept ==
  ASSUME IInv, NEW v, PrintStreamValue(v)
  PROVE  IInv'
<1>1. /\ Running("t2f") /\ Len(given) + 1 <= MaxCalls /\ kind # "circuit"
      /\ given' = Append(given, Value(v))
      /\ printer' = AddValue(Flushed(SimpleRewriteThreshold), Value(v))
      /\ file' = FileFlushed(SimpleRewriteThreshold)
      /\ UNCHANGED <<kind, second, third, stage, outcome>>
  BY DEF PrintStreamValue, Reading
<1>2. Printing(kind, given, printer, file)
  BY <1>1 DEF IInv, InT2f, Running
<1>3. PICK e, n : Written(kind, given, printer, file, e, n)
  BY <1>2 DEF Printing
<1>4. PICK o, w : o = Flushed(SimpleRewriteThreshold) /\ w = SimpleRewriteThreshold
  OBVIOUS
<1>5. NoneEmpty(kind, file, Len(file))
  BY <1>2 DEF Printing
<1>6. ~ printer.inFunction
  BY <1>1, <1>3 DEF Written, Open
<1>7. w \in Nat /\ w >= 1
  BY <1>4, FlatbufferFileAssumption DEF SimpleRewriteThreshold
<1>8. o = (IF Filled(printer, w) THEN Rewritten(printer) ELSE printer)
  BY <1>4, Zenon DEF Flushed
<1>9. file' = (IF Filled(printer, w) THEN Append(file, BufferOf(printer, kind)) ELSE file)
  BY <1>1, <1>4, Zenon DEF FileFlushed
<1>10. /\ ~ o.inFunction /\ NoneEmpty(kind, file', Len(file'))
       /\ \E x : Written(kind, given, o, file', x, n)
  BY <1>3, <1>5, <1>6, <1>7, <1>8, <1>9, Flush
<1>11. PICK x : Written(kind, given, o, file', x, n)
  BY <1>10
<1>12. printer' = AddValue(o, Value(v))
  BY <1>1, <1>4
<1>13. \E y, q : Written(kind, given', printer', file', y, q)
  BY <1>1, <1>10, <1>11, <1>12, ValueWritten
<1>14. Printing(kind', given', printer', file')
  BY <1>1, <1>10, <1>13 DEF Printing
<1>. QED  BY <1>1, <1>14, PrintingKept

(* Before the first item nothing is converted.                              *)
LEMMA NothingConverted ==
  ASSUME NEW g, Sequence(g)
  PROVE  Converted(g, <<>>, <<>>)
<1>1. PICK s, q : s = <<>> /\ q = [i \in Nat |-> 0]
  OBVIOUS
<1>2. Sequence(s) /\ Len(s) = 0 /\ q[0] = 0 /\ 1..0 = {} /\ Len(g) \in Nat
  BY <1>1, EmptyIs, SequenceFacts
<1>3. TextOf(q, s, s)
  BY <1>2 DEF TextOf
<1>4. Converted(g, s, s)
  BY <1>2, <1>3 DEF Converted
<1>. QED  BY <1>1, <1>4

(* The parser begins at the first item.                                     *)
LEMMA FirstItem ==
  ASSUME NEW k, NEW g, NEW p, NEW f, NEW e, Filed(k, g, p, f, e), NEW a, a = [buffer |-> 1, item |-> 1],
         NEW ps, Len(ps) = 0
  PROVE  AtItem(e, a, f, ps)
<1>1. a.buffer = 1 /\ a.item = 1 /\ e[1][1] = 0 /\ 1 \in 1..Len(f)
  BY DEF Filed
<1>2. Len(f[1].items) \in Nat
  BY <1>1, SequenceFacts DEF Filed
<1>3. 1 \in 1..(Len(f[1].items) + 1)
  BY <1>2
<1>. QED  BY <1>1, <1>3 DEF AtItem

(* The end of the first text: the file is complete and has its header.      *)
LEMMA PrintEndKwKept ==
  ASSUME IInv, PrintEndKw
  PROVE  IInv'
<1>1. /\ stage = "t2f" /\ outcome = "running" /\ ~ printer.inFunction
      /\ file' = Append(file, BufferOf(printer, kind)) /\ printer' = Rewritten(printer)
      /\ stage' = "f2t" /\ kind' = kind /\ given' = given
      /\ at' = at /\ parsed' = parsed /\ text' = text /\ line' = line /\ received' = received
  BY DEF PrintEndKw, Running, second, third
<1>2. Printing(kind, given, printer, file) /\ Started(at, parsed, text, line, received)
  BY <1>1 DEF IInv, InT2f
<1>3. PICK e, n : Written(kind, given, printer, file, e, n)
  BY <1>2 DEF Printing
<1>4. NoneEmpty(kind, file, Len(file))
  BY <1>2 DEF Printing
<1>5. /\ NoneEmpty(kind, file', Len(file') - 1) /\ HeaderGiven(file') /\ HeaderKind(file') = kind
      /\ \E x : Filed(kind, given, printer', file', x)
  BY <1>1, <1>3, <1>4, LastFlush
<1>6. outcome' = "running"
  BY <1>5 DEF PrintEndKw
<1>7. PICK x : Filed(kind, given, printer', file', x)
  BY <1>5
<1>8. AtItem(x, at, file', parsed)
  BY <1>2, <1>7, FirstItem, EmptyIs DEF Started
<1>9. Converted(given, parsed, text)
  BY <1>2, <1>3, NothingConverted DEF Started, Written
<1>10. Parsing(kind, given, printer', file', at, parsed, text)
  BY <1>5, <1>7, <1>8, <1>9 DEF Parsing
<1>11. InF2t'
  BY <1>1, <1>2, <1>10 DEF InF2t, Started
<1>12. InT2f' /\ InRead' /\ InDone'
  BY <1>1, <1>6 DEF InT2f, InRead, InDone
<1>13. Reasons(given', outcome')
  BY <1>6 DEF Reasons, Outcomes
<1>. QED  BY <1>1, <1>11, <1>12, <1>13 DEF IInv

(* A step of the second conversion needs only keep what is parsed.          *)
LEMMA ParsingKept ==
  ASSUME IInv, Running("f2t"), Parsing(kind, given, printer, file, at', parsed', text'),
         UNCHANGED <<kind, first, third, stage, outcome>>
  PROVE  IInv'
<1>1. /\ kind' = kind /\ given' = given /\ printer' = printer /\ file' = file /\ line' = line /\ received' = received
      /\ stage' = "f2t" /\ stage = "f2t" /\ outcome' = "running"
  BY DEF Running, first, third
<1>2. Parsing(kind', given', printer', file', at', parsed', text')
  BY <1>1
<1>3. InF2t'
  BY <1>1, <1>2 DEF IInv, InF2t
<1>4. InT2f' /\ InRead' /\ InDone'
  BY <1>1 DEF InT2f, InRead, InDone
<1>5. Reasons(given', outcome')
  BY <1>1 DEF Reasons, Outcomes
<1>. QED  BY <1>1, <1>3, <1>4, <1>5 DEF IInv

(* Before the first line nothing is read.                                   *)
LEMMA NothingRead ==
  ASSUME NEW q, NEW t, NEW ps, TextOf(q, t, ps), NEW rs, rs = <<>>
  PROVE  ReadUpTo(q, t, ps, 1, rs)
<1>1. Sequence(rs) /\ Len(rs) = 0 /\ 1..0 = {} /\ 1 - 1 = 0
  BY EmptyIs
<1>2. Len(t) \in Nat /\ q[0] = 0
  BY SequenceFacts DEF TextOf
<1>3. 1 \in 1..(Len(t) + 1)
  BY <1>2
<1>4. Len(rs) = q[1 - 1]
  BY <1>1, <1>2
<1>. QED  BY <1>1, <1>3, <1>4 DEF ReadUpTo

(* The end of the second conversion: everything has been parsed.            *)
LEMMA FinishTextKept ==
  ASSUME IInv, Running("f2t"), FinishText, Len(parsed) = Len(given)
  PROVE  IInv'
<1>1. /\ kind' = kind /\ given' = given /\ printer' = printer /\ file' = file /\ line' = line /\ received' = received
      /\ at' = at /\ parsed' = parsed /\ text' = text
      /\ stage' = "read" /\ stage = "f2t" /\ outcome' = "running"
  BY DEF Running, FinishText, first, second, third
<1>2. Parsing(kind, given, printer, file, at, parsed, text) /\ line = 1 /\ received = <<>>
  BY <1>1 DEF IInv, InF2t
<1>3. PICK q : TextOf(q, text, parsed)
  BY <1>2 DEF Parsing, Converted
<1>4. ReadUpTo(q, text, parsed, line, received)
  BY <1>2, <1>3, NothingRead
<1>5. InF2t'
  BY <1>1, <1>2 DEF InF2t
<1>6. InRead'
  BY <1>1, <1>4 DEF InRead
<1>7. InT2f' /\ InDone'
  BY <1>1 DEF InT2f, InDone
<1>8. Reasons(given', outcome')
  BY <1>1 DEF Reasons, Outcomes
<1>. QED  BY <1>1, <1>5, <1>6, <1>7, <1>8 DEF IInv

(* Directives: each is parsed, or overruns for the counts of a plugin.      *)
LEMMA ParseDirectiveKept ==
  ASSUME IInv, ParseDirective
  PROVE  IInv'
<1>1. /\ Running("f2t") /\ kind = "circuit" /\ ~ (at.item > Len(file[at.buffer].items))
      /\ \/ /\ PrintText(CallsOf(Item))
            /\ at' = [at EXCEPT !.item = @ + 1]
            /\ UNCHANGED <<kind, first, third, stage, outcome>>
         \/ ReadsBeyond(Item) /\ Stop("undefined")
  BY DEF ParseDirective, AtEnd, Items
<1>2. Parsing("circuit", given, printer, file, at, parsed, text)
  BY <1>1 DEF IInv, InF2t, Running
<1>3. PICK e : Filed("circuit", given, printer, file, e) /\ AtItem(e, at, file, parsed)
  BY <1>2 DEF Parsing
<1>4. NoneEmpty("circuit", file, Len(file) - 1) /\ Converted(given, parsed, text)
  BY <1>2 DEF Parsing
<1>5. PICK d : d = file[at.buffer].items[at.item]
  OBVIOUS
<1>6. Item = d
  BY <1>5 DEF Item, Items
<1>7. CASE /\ PrintText(CallsOf(Item))
           /\ at' = [at EXCEPT !.item = @ + 1]
           /\ UNCHANGED <<kind, first, third, stage, outcome>>
  <2>1. PICK C : C = CallsOf(d)
    OBVIOUS
  <2>2. parsed' = parsed \o C /\ text' = text \o Lines(Printed(C))
    BY <1>6, <1>7, <2>1 DEF PrintText, Lines
  <2>3. C = ItemCalls("circuit", d)
    BY <2>1 DEF ItemCalls
  <2>4. Parsing("circuit", given, printer, file, at', parsed', text')
    BY <1>1, <1>3, <1>4, <1>5, <1>7, <2>2, <2>3, ItemParsed
  <2>5. Parsing(kind, given, printer, file, at', parsed', text')
    BY <1>1, <2>4
  <2>. QED  BY <1>1, <1>7, <2>5, ParsingKept
<1>8. CASE ReadsBeyond(Item) /\ Stop("undefined")
  <2>1. PICK i, m : i = at.buffer /\ m = at.item
    OBVIOUS
  <2>2. i \in 1..Len(file) /\ m \in 1..Len(file[i].items)
    <3>1. i \in 1..Len(file) /\ m \in 1..(Len(file[i].items) + 1)
      BY <1>3, <2>1 DEF AtItem
    <3>2. Len(file[i].items) \in Nat
      BY <1>3, <3>1, SequenceFacts DEF Filed
    <3>. QED  BY <1>1, <2>1, <3>1, <3>2
  <2>3. ItemAt("circuit", given, e[i][m], d, e[i][m + 1])
    BY <1>3, <1>5, <2>1, <2>2 DEF Filed
  <2>4. \E j \in 1..Len(given) : given[j].op = "pluginFunction" /\ given[j] # Empty
    BY <1>6, <1>8, <2>3 DEF ItemAt, Reasoned
  <2>5. Reasons(given, "undefined")
    BY <2>4 DEF Reasons, Outcomes
  <2>. QED  BY <1>1, <1>8, <2>5, StopKept DEF Running
<1>. QED  BY <1>1, <1>7, <1>8

(* The end of a buffer of a circuit.                                        *)
LEMMA ParseNextBufferKept ==
  ASSUME IInv, ParseNextBuffer
  PROVE  IInv'
<1>1. /\ Running("f2t") /\ kind = "circuit" /\ at.item > Len(file[at.buffer].items)
      /\ IF at.buffer < Len(file)
         THEN /\ at' = [buffer |-> at.buffer + 1, item |-> 1]
              /\ UNCHANGED <<kind, first, parsed, text, third, stage, outcome>>
         ELSE FinishText
  BY DEF ParseNextBuffer, AtEnd, Items
<1>2. Parsing(kind, given, printer, file, at, parsed, text)
  BY <1>1 DEF IInv, InF2t, Running
<1>3. PICK e : Filed(kind, given, printer, file, e) /\ AtItem(e, at, file, parsed)
  BY <1>2 DEF Parsing
<1>4. CASE at.buffer < Len(file)
  <2>1. /\ at' = [buffer |-> at.buffer + 1, item |-> 1] /\ parsed' = parsed /\ text' = text
        /\ UNCHANGED <<kind, first, third, stage, outcome>>
    BY <1>1, <1>4
  <2>2. AtItem(e, at', file, parsed)
    BY <1>1, <1>3, <1>4, <2>1, NextBufferAt
  <2>3. Parsing(kind, given, printer, file, at', parsed', text')
    BY <1>2, <1>3, <2>1, <2>2 DEF Parsing
  <2>. QED  BY <1>1, <2>1, <2>3, ParsingKept
<1>5. CASE ~ (at.buffer < Len(file))
  <2>1. at.buffer = Len(file)
    <3>1. at.buffer \in 1..Len(file) /\ Len(file) \in Nat
      BY <1>3 DEF Filed, AtItem
    <3>. QED  BY <1>5, <3>1
  <2>2. Len(parsed) = Len(given)
    BY <1>1, <1>3, <2>1, AllParsed
  <2>. QED  BY <1>1, <1>5, <2>2, FinishTextKept
<1>. QED  BY <1>4, <1>5

(* A sequence that is not empty has a first element.                        *)
LEMMA NotEmpty ==
  ASSUME NEW s, Sequence(s), s # <<>>
  PROVE  Len(s) \in Nat /\ ~ (1 > Len(s))
<1>1. Len(s) \in Nat /\ s = [i \in 1..Len(s) |-> s[i]]
  BY SequenceFacts
<1>2. Len(s) # 0
  <2>1. SUFFICES ASSUME Len(s) = 0 PROVE FALSE
    OBVIOUS
  <2>2. s = [i \in 1..0 |-> s[i]]
    BY <1>1, <2>1
  <2>3. s = <<>>
    BY <2>2
  <2>. QED  BY <2>3
<1>. QED  BY <1>1, <1>2

(* The values of a stream, and the end of its buffers.                      *)
LEMMA NextValueKept ==
  ASSUME IInv, NextValue
  PROVE  IInv'
<1>1. PICK b : b = IF AtEnd THEN [buffer |-> at.buffer + 1, item |-> 1] ELSE at
  OBVIOUS
<1>2. /\ Running("f2t") /\ kind # "circuit"
      /\ IF (AtEnd /\ at.buffer = Len(file)) \/ file[b.buffer].items = <<>>
         THEN FinishText
         ELSE /\ PrintText(<<file[b.buffer].items[b.item]>>)
              /\ at' = [b EXCEPT !.item = @ + 1]
              /\ UNCHANGED <<kind, first, third, stage, outcome>>
  BY <1>1, Zenon DEF NextValue
<1>3. Parsing(kind, given, printer, file, at, parsed, text)
  BY <1>2 DEF IInv, InF2t, Running
<1>4. PICK e : Filed(kind, given, printer, file, e) /\ AtItem(e, at, file, parsed)
  BY <1>3 DEF Parsing
<1>5. NoneEmpty(kind, file, Len(file) - 1) /\ Converted(given, parsed, text)
  BY <1>3 DEF Parsing
<1>6. AtEnd <=> at.item > Len(file[at.buffer].items)
  BY DEF AtEnd, Items
<1>7. CASE AtEnd /\ at.buffer = Len(file)
  <2>1. Len(parsed) = Len(given)
    BY <1>4, <1>6, <1>7, AllParsed
  <2>. QED  BY <1>2, <1>7, <2>1, FinishTextKept
<1>8. CASE ~ (AtEnd /\ at.buffer = Len(file))
  <2>1. AtItem(e, b, file, parsed)
    <3>1. CASE AtEnd
      <4>1. at.buffer < Len(file)
        <5>1. at.buffer \in 1..Len(file) /\ Len(file) \in Nat
          BY <1>4 DEF Filed, AtItem
        <5>. QED  BY <1>8, <3>1, <5>1
      <4>2. b = [buffer |-> at.buffer + 1, item |-> 1]
        BY <1>1, <3>1
      <4>. QED  BY <1>4, <1>6, <3>1, <4>1, <4>2, NextBufferAt
    <3>2. CASE ~ AtEnd
      BY <1>1, <1>4, <3>2
    <3>. QED  BY <3>1, <3>2
  <2>2. CASE file[b.buffer].items = <<>>
    <3>1. Len(parsed) = Len(given)
      BY <1>2, <1>4, <1>5, <2>1, <2>2, NothingLeft
    <3>. QED  BY <1>2, <2>2, <3>1, FinishTextKept
  <2>3. CASE file[b.buffer].items # <<>>
    <3>1. PICK d, C : d = file[b.buffer].items[b.item] /\ C = <<d>>
      OBVIOUS
    <3>2. /\ PrintText(C) /\ at' = [b EXCEPT !.item = @ + 1]
          /\ UNCHANGED <<kind, first, third, stage, outcome>>
      BY <1>2, <1>8, <2>3, <3>1
    <3>3. parsed' = parsed \o C /\ text' = text \o Lines(Printed(C))
      BY <3>2 DEF PrintText, Lines
    <3>4. C = ItemCalls(kind, d)
      BY <1>2, <3>1 DEF ItemCalls
    <3>5. ~ (b.item > Len(file[b.buffer].items))
      <4>1. CASE AtEnd
        <5>1. b.buffer \in 1..Len(file)
          BY <2>1 DEF AtItem
        <5>2. Sequence(file[b.buffer].items)
          BY <1>4, <5>1 DEF Filed
        <5>3. b.item = 1
          BY <1>1, <4>1
        <5>. QED  BY <2>3, <5>2, <5>3, NotEmpty
      <4>2. CASE ~ AtEnd
        BY <1>1, <1>6, <4>2
      <4>. QED  BY <4>1, <4>2
    <3>6. Parsing(kind, given, printer, file, at', parsed', text')
      BY <1>4, <1>5, <2>1, <3>1, <3>2, <3>3, <3>4, <3>5, ItemParsed
    <3>. QED  BY <1>2, <3>2, <3>6, ParsingKept
  <2>. QED  BY <2>2, <2>3
<1>. QED  BY <1>7, <1>8

(* Statements: each is read, or refused for a conversion without a place.   *)
LEMMA ReadStatementKept ==
  ASSUME IInv, ReadStatement
  PROVE  IInv'
<1>1. /\ Running("read") /\ line <= Len(text)
      /\ IF Accepted(text[line])
         THEN /\ received' = received \o CallsRead(text[line])
              /\ line' = line + 1
              /\ UNCHANGED <<kind, first, second, stage, outcome>>
         ELSE Stop("text refused")
  BY DEF ReadStatement
<1>2. /\ Parsing(kind, given, printer, file, at, parsed, text) /\ Len(parsed) = Len(given)
      /\ \E q : ReadUpTo(q, text, parsed, line, received)
  BY <1>1 DEF IInv, InF2t, InRead, Running
<1>3. PICK q : ReadUpTo(q, text, parsed, line, received)
  BY <1>2
<1>4. Sequence(parsed) /\ \A j \in 1..Len(parsed) : Like(given, j, parsed[j])
  BY <1>2 DEF Parsing, Converted
<1>5. line \in 1..Len(text) /\ ~ (line > Len(text))
  <2>1. line \in 1..(Len(text) + 1) /\ Len(text) \in Nat
    BY <1>3, SequenceFacts DEF ReadUpTo, TextOf
  <2>2. line <= Len(text)
    BY <1>1, Zenon
  <2>. QED  BY <2>1, <2>2
<1>6. CASE Accepted(text[line])
  <2>1. /\ kind' = kind /\ given' = given /\ printer' = printer /\ file' = file
        /\ at' = at /\ parsed' = parsed /\ text' = text /\ line' = line + 1
        /\ stage' = "read" /\ stage = "read" /\ outcome' = "running"
    BY <1>1, <1>6 DEF Running, first, second
  <2>2. PICK W : W = CallsRead(text[line])
    OBVIOUS
  <2>3. ReadsAs(text, line, W)
    <3>1. W = (IF Opens(text, line) THEN <<Regular>> ELSE <<>>) \o <<CallOf(text[line])>>
      BY <2>2 DEF CallsRead, InOpening, Opens
    <3>. QED  BY <3>1, StatementCalls
  <2>4. \A j \in 1..Len(parsed) : parsed[j] = Regular \/ Spoken(parsed[j])
    BY <1>4 DEF Like
  <2>5. received' = received \o W
    BY <1>1, <1>6, <2>2
  <2>6. ReadUpTo(q, text, parsed, line + 1, received')
    BY <1>3, <1>5, <1>6, <2>3, <2>4, <2>5, StatementRead
  <2>7. InRead'
    BY <1>2, <2>1, <2>6 DEF InRead
  <2>8. InF2t' /\ InT2f' /\ InDone'
    BY <1>2, <2>1 DEF InF2t, InT2f, InDone
  <2>9. Reasons(given', outcome')
    BY <2>1 DEF Reasons, Outcomes
  <2>. QED  BY <2>1, <2>7, <2>8, <2>9 DEF IInv
<1>7. CASE ~ Accepted(text[line])
  <2>1. Line(q, text, parsed, line)
    BY <1>3, <1>5 DEF ReadUpTo, TextOf
  <2>2. PICK j \in 1..Len(parsed) : parsed[j] # Regular /\ ~ Accepted(Statement(parsed[j]))
    BY <1>7, <2>1, LineRefused
  <2>3. Like(given, j, parsed[j])
    BY <1>4
  <2>4. AllFormed => Unreadable(given[j])
    BY <2>2, <2>3 DEF Like
  <2>5. Reasons(given, "text refused")
    BY <1>2, <2>4 DEF Reasons, Outcomes
  <2>6. Stop("text refused")
    BY <1>1, <1>7
  <2>. QED  BY <1>1, <2>5, <2>6, StopKept DEF Running
<1>. QED  BY <1>6, <1>7

(* The end of the second text.                                              *)
LEMMA ReadEndKept ==
  ASSUME IInv, ReadEnd
  PROVE  IInv'
<1>1. /\ stage = "read" /\ line > Len(text) /\ stage' = "done" /\ outcome' = "converted"
      /\ kind' = kind /\ given' = given /\ printer' = printer /\ file' = file
      /\ at' = at /\ parsed' = parsed /\ text' = text /\ line' = line /\ received' = received
  BY DEF ReadEnd, Running, first, second, third
<1>2. /\ Parsing(kind, given, printer, file, at, parsed, text) /\ Len(parsed) = Len(given)
      /\ \E q : ReadUpTo(q, text, parsed, line, received)
  BY <1>1 DEF IInv, InF2t, InRead
<1>3. Len(received) = Len(parsed)
  BY <1>1, <1>2, ReadAll
<1>4. InDone'
  BY <1>1, <1>2, <1>3 DEF InDone
<1>5. InT2f' /\ InF2t' /\ InRead'
  BY <1>1, <1>2 DEF InT2f, InF2t, InRead
<1>6. Reasons(given', outcome')
  BY <1>1 DEF Reasons, Outcomes
<1>. QED  BY <1>1, <1>4, <1>5, <1>6 DEF IInv

(* The invariant holds at the beginning.                                    *)
LEMMA Initially == Init => IInv
<1>1. SUFFICES ASSUME NEW k \in {"circuit", "public_in", "private_in"}, Begin(k) PROVE IInv
  BY DEF Init
<1>2. /\ kind = k /\ given = <<>> /\ printer = WithHeader /\ file = <<>>
      /\ Started(at, parsed, text, line, received) /\ stage = "t2f" /\ outcome = "running"
  BY <1>1 DEF Begin, Started
<1>3. Printing(kind, given, printer, file)
  BY <1>2, Beginning
<1>4. InT2f /\ InF2t /\ InRead /\ InDone
  BY <1>2, <1>3 DEF InT2f, InF2t, InRead, InDone
<1>5. Reasons(given, outcome)
  BY <1>2 DEF Reasons, Outcomes
<1>. QED  BY <1>2, <1>4, <1>5 DEF IInv

(* Every step keeps the invariant.                                          *)
LEMMA StepKeeps == IInv /\ [Next]_vars => IInv'
<1>1. SUFFICES ASSUME IInv, [Next]_vars PROVE IInv'
  OBVIOUS
<1>2. CASE UNCHANGED vars
  <2>1. /\ kind' = kind /\ given' = given /\ printer' = printer /\ file' = file /\ at' = at /\ parsed' = parsed
        /\ text' = text /\ line' = line /\ received' = received /\ stage' = stage /\ outcome' = outcome
    BY <1>2 DEF vars, first, second, third
  <2>. QED  BY <1>1, <2>1 DEF IInv, InT2f, InF2t, InRead, InDone
<1>3. CASE Print2Flatbuffer
  <2>1. ASSUME NEW c \in Gates, PrintGate(c) PROVE IInv'
    BY <1>1, <2>1, PrintGateKept
  <2>2. ASSUME StartFunction("f") PROVE IInv'
    BY <1>1, <2>2, StartFunctionKept
  <2>3. ASSUME EndFunction PROVE IInv'
    BY <1>1, <2>3, EndFunctionKept
  <2>4. ASSUME NEW b \in Bindings, PluginFunction("f", b) PROVE IInv'
    BY <1>1, <2>4, PluginFunctionKept
  <2>5. ASSUME NEW v \in Values, PrintStreamValue(v) PROVE IInv'
    BY <1>1, <2>5, PrintStreamValueKept
  <2>6. ASSUME PrintEndKw PROVE IInv'
    BY <1>1, <2>6, PrintEndKwKept
  <2>. QED  BY <1>3, <2>1, <2>2, <2>3, <2>4, <2>5, <2>6 DEF Print2Flatbuffer
<1>4. CASE ParseDirective
  BY <1>1, <1>4, ParseDirectiveKept
<1>5. CASE ParseNextBuffer
  BY <1>1, <1>5, ParseNextBufferKept
<1>6. CASE NextValue
  BY <1>1, <1>6, NextValueKept
<1>7. CASE ReadStatement
  BY <1>1, <1>7, ReadStatementKept
<1>8. CASE ReadEnd
  BY <1>1, <1>8, ReadEndKept
<1>. QED  BY <1>1, <1>2, <1>3, <1>4, <1>5, <1>6, <1>7, <1>8 DEF Next, Proceed

(* The inductive invariant: at each stage, what the buffers, the calls      *)
(* parsed, the text and the calls read stand for among the calls that were  *)
(* given.                                                                   *)
THEOREM IInvHolds == Spec => []IInv
BY Initially, StepKeeps, PTL DEF Spec

(* ----- what follows ---------------------------------------------------------------------------- *)

IsRest(s, r) == Sequence(r) /\ Len(r) = Len(s) /\ \A i \in 1..Len(s) : r[i] = Stripped(s[i])

(* Rest, element by element.                                                *)
LEMMA RestIs ==
  ASSUME NEW s, Sequence(s), NEW r, r = Rest(s)
  PROVE  IsRest(s, r)
<1>1. DOMAIN s = 1..Len(s)
  BY SequenceFacts
<1>2. r = [i \in DOMAIN s |-> r[i]] /\ \A i \in 1..Len(s) : r[i] = Stripped(s[i])
  BY <1>1 DEF Rest
<1>3. Sequence(r) /\ Len(r) = Len(s)
  BY <1>2, MappedIs
<1>. QED  BY <1>2, <1>3 DEF IsRest

(* A prefix but for what the formats lose.                                  *)
LEMMA RestPrefix ==
  ASSUME NEW s, Sequence(s), NEW t, Sequence(t), Len(s) <= Len(t),
         \A i \in 1..Len(s) : Stripped(s[i]) = Stripped(t[i])
  PROVE  IsPrefix(Rest(s), Rest(t))
<1>1. PICK u, v : u = Rest(s) /\ v = Rest(t)
  OBVIOUS
<1>2. IsRest(s, u) /\ IsRest(t, v)
  BY <1>1, RestIs
<1>3. Sequence(u) /\ Sequence(v) /\ Len(u) <= Len(v) /\ Len(u) = Len(s) /\ Len(v) = Len(t)
  BY <1>2 DEF IsRest
<1>4. \A i \in 1..Len(u) : u[i] = v[i]
  <2>1. Len(s) \in Nat /\ Len(t) \in Nat
    BY SequenceFacts
  <2>2. \A i \in 1..Len(s) : i \in 1..Len(t)
    BY <2>1
  <2>. QED  BY <1>2, <1>3, <2>2 DEF IsRest
<1>. QED  BY <1>1, <1>3, <1>4, PrefixIs

(* The invariant implies the types.                                         *)
LEMMA TypesAre == IInv => TypeOK
<1>1. SUFFICES ASSUME IInv PROVE TypeOK
  OBVIOUS
<1>2. /\ kind \in {"circuit", "public_in", "private_in"} /\ stage \in {"t2f", "f2t", "read", "done"}
      /\ outcome \in Outcomes
  BY <1>1 DEF IInv, Reasons
<1>3. CASE stage = "t2f"
  <2>1. PICK e, n : Written(kind, given, printer, file, e, n)
    BY <1>1, <1>3 DEF IInv, InT2f, Printing
  <2>2. Started(at, parsed, text, line, received)
    BY <1>1, <1>3 DEF IInv, InT2f
  <2>3. Len(file) \in Nat /\ Len(given) \in Nat /\ Len(text) = 0
    BY <2>1, <2>2, SequenceFacts, EmptyIs DEF Written, Started
  <2>4. at.buffer = 1 /\ at.item = 1 /\ line = 1
    BY <2>2 DEF Started
  <2>5. at.buffer \in 1..(Len(file) + 1) /\ at.item \in Nat \ {0} /\ line \in 1..(Len(text) + 1)
    BY <2>3, <2>4
  <2>6. Len(given) <= MaxCalls + 1
    BY <2>1, <2>3, PressAssumption DEF Written
  <2>7. printer.inFunction \/ printer.body = <<>>
    BY <2>1 DEF Written, Open
  <2>. QED  BY <1>2, <2>5, <2>6, <2>7 DEF TypeOK
<1>4. CASE stage # "t2f"
  <2>1. Parsing(kind, given, printer, file, at, parsed, text)
    BY <1>1, <1>4 DEF IInv, InF2t
  <2>2. PICK e : Filed(kind, given, printer, file, e) /\ AtItem(e, at, file, parsed)
    BY <2>1 DEF Parsing
  <2>3. Len(given) <= MaxCalls + 1 /\ (printer.inFunction \/ printer.body = <<>>)
    BY <2>2 DEF Filed
  <2>4. at.buffer \in 1..Len(file) /\ Len(file) \in Nat /\ at.item \in 1..(Len(file[at.buffer].items) + 1)
    BY <2>2 DEF Filed, AtItem
  <2>5. Len(file[at.buffer].items) \in Nat
    BY <2>2, <2>4, SequenceFacts DEF Filed
  <2>6. at.buffer \in 1..(Len(file) + 1) /\ at.item \in Nat \ {0}
    BY <2>4, <2>5
  <2>7. line \in 1..(Len(text) + 1)
    <3>1. CASE stage = "f2t"
      <4>1. line = 1
        BY <1>1, <3>1 DEF IInv, InF2t
      <4>2. Len(text) \in Nat
        BY <2>1, SequenceFacts DEF Parsing, Converted, TextOf
      <4>. QED  BY <4>1, <4>2
    <3>2. CASE stage # "f2t"
      BY <1>1, <1>2, <1>4, <3>2 DEF IInv, InRead, ReadUpTo
    <3>. QED  BY <3>1, <3>2
  <2>. QED  BY <1>2, <2>3, <2>6, <2>7 DEF TypeOK
<1>. QED  BY <1>3, <1>4

(* What has been read of the second text is what the first conversion gave.   *)
LEMMA ReceivedIs ==
  ASSUME IInv
  PROVE  /\ Sequence(given) /\ Sequence(parsed) /\ Sequence(received)
         /\ Len(parsed) <= Len(given) /\ Len(received) <= Len(parsed)
         /\ \A j \in 1..Len(parsed) : stage # "t2f" /\ Like(given, j, parsed[j])
         /\ \A j \in 1..Len(received) : Heard(parsed[j], received[j])
<1>1. CASE stage = "t2f"
  <2>1. PICK e, n : Written(kind, given, printer, file, e, n)
    BY <1>1 DEF IInv, InT2f, Printing
  <2>2. parsed = <<>> /\ received = <<>>
    BY <1>1 DEF IInv, InT2f, Started
  <2>3. Sequence(given) /\ Len(given) \in Nat
    BY <2>1, SequenceFacts DEF Written
  <2>4. Sequence(parsed) /\ Sequence(received) /\ Len(parsed) = 0 /\ Len(received) = 0 /\ 1..0 = {}
    BY <2>2, EmptyIs
  <2>. QED  BY <2>3, <2>4
<1>2. CASE stage # "t2f"
  <2>1. Parsing(kind, given, printer, file, at, parsed, text)
    BY <1>2 DEF IInv, InF2t
  <2>2. /\ Sequence(given) /\ Sequence(parsed) /\ Len(parsed) <= Len(given) /\ Len(parsed) \in Nat
        /\ \A j \in 1..Len(parsed) : Like(given, j, parsed[j])
    BY <2>1, SequenceFacts DEF Parsing, Converted, Filed
  <2>3. CASE stage = "f2t"
    <3>1. received = <<>>
      BY <2>3 DEF IInv, InF2t
    <3>2. Sequence(received) /\ Len(received) = 0 /\ 1..0 = {}
      BY <3>1, EmptyIs
    <3>. QED  BY <1>2, <2>2, <3>2
  <2>4. CASE stage # "f2t"
    <3>1. PICK q : ReadUpTo(q, text, parsed, line, received)
      BY <1>2, <2>4 DEF IInv, InRead
    <3>2. Len(received) <= Len(parsed)
      BY <3>1, ReadBounded
    <3>. QED  BY <1>2, <2>2, <3>1, <3>2 DEF ReadUpTo
  <2>. QED  BY <2>3, <2>4
<1>. QED  BY <1>1, <1>2

(* The invariant implies NothingMoved.                                      *)
LEMMA NothingMovedIs == IInv => NothingMoved
<1>1. SUFFICES ASSUME IInv PROVE NothingMoved
  OBVIOUS
<1>2. /\ Sequence(given) /\ Sequence(parsed) /\ Sequence(received)
      /\ Len(parsed) <= Len(given) /\ Len(received) <= Len(parsed)
      /\ \A j \in 1..Len(parsed) : Like(given, j, parsed[j])
      /\ \A j \in 1..Len(received) : Heard(parsed[j], received[j])
  BY <1>1, ReceivedIs
<1>3. Len(given) \in Nat /\ Len(parsed) \in Nat /\ Len(received) \in Nat
  BY <1>2, SequenceFacts
<1>4. \A j \in 1..Len(parsed) : Stripped(parsed[j]) = Stripped(given[j])
  BY <1>2 DEF Like
<1>5. \A j \in 1..Len(received) : Stripped(received[j]) = Stripped(given[j])
  <2>1. \A j \in 1..Len(received) : j \in 1..Len(parsed)
    BY <1>2, <1>3
  <2>. QED  BY <1>2, <1>4, <2>1 DEF Heard
<1>6. Len(received) <= Len(given)
  BY <1>2, <1>3
<1>7. IsPrefix(Rest(parsed), Rest(given)) /\ IsPrefix(Rest(received), Rest(given))
  BY <1>2, <1>4, <1>5, <1>6, RestPrefix
<1>8. stage \in {"read", "done"} => Len(parsed) = Len(given)
  BY <1>1 DEF IInv, InRead
<1>9. outcome = "converted" => Len(received) = Len(given)
  BY <1>1 DEF IInv, InDone
<1>. QED  BY <1>1, <1>7, <1>8, <1>9, TypesAre DEF NothingMoved

(* The invariant implies MeaningKept.                                       *)
LEMMA MeaningKeptIs == IInv => MeaningKept
<1>1. SUFFICES ASSUME IInv, outcome = "converted", \A k \in DOMAIN given : Kept(k)
               PROVE  Meanings(received) = Meanings(given)
  BY DEF MeaningKept
<1>2. /\ Sequence(given) /\ Sequence(parsed) /\ Sequence(received)
      /\ Len(parsed) <= Len(given) /\ Len(received) <= Len(parsed)
      /\ \A j \in 1..Len(parsed) : Like(given, j, parsed[j])
      /\ \A j \in 1..Len(received) : Heard(parsed[j], received[j])
  BY <1>1, ReceivedIs
<1>3. PICK n : n = Len(given)
  OBVIOUS
<1>4. Len(received) = n /\ Len(parsed) = n /\ n \in Nat
  <2>1. Len(received) = n
    BY <1>1, <1>3 DEF IInv, InDone
  <2>2. Len(parsed) \in Nat /\ Len(received) \in Nat /\ n \in Nat
    BY <1>2, <1>3, SequenceFacts
  <2>. QED  BY <1>2, <1>3, <2>1, <2>2
<1>5. DOMAIN given = 1..n /\ DOMAIN received = 1..n
  BY <1>2, <1>3, <1>4, SequenceFacts
<1>6. ASSUME NEW j \in 1..n
      PROVE  Meaning(received[j]) = Meaning(given[j])
  <2>1. KeptAt(given, j)
    <3>1. Kept(j)
      BY <1>1, <1>5
    <3>. QED  BY <3>1, Zenon DEF Kept, KeptAt, InBody, BodyAt
  <2>2. Like(given, j, parsed[j]) /\ Heard(parsed[j], received[j])
    BY <1>2, <1>4
  <2>3. received[j] = parsed[j]
    BY <2>1, <2>2 DEF Like, Heard
  <2>. QED  BY <2>1, <2>2, <2>3 DEF Like
<1>. QED  BY <1>5, <1>6 DEF Meanings

(* ----- functions that are too big ---------------------------------------------------------- *)

(* Half of the buffer is left to a function when it begins, and only its    *)
(* gates take of it.                                                        *)
Roomy(p) ==
  p.inFunction => p.size + Len(p.items) <= (MaxSize \div 2) + Len(p.body)

TooBigOnly == outcome = "function too big" => Len(printer.body) > (MaxSize - Slack) - (MaxSize \div 2)

Room == Roomy(printer) /\ TooBigOnly

(* A step that opens no function and stops for none.                        *)
LEMMA RoomElsewhere ==
  ASSUME ~ printer'.inFunction, outcome' # "function too big"
  PROVE  Room'
BY DEF Room, Roomy, TooBigOnly

LEMMA RoomKept ==
  ASSUME Room, printer' = printer, outcome' # "function too big"
  PROVE  Room'
BY DEF Room, Roomy, TooBigOnly

(* A gate, which in a function takes of its half.                           *)
LEMMA PrintGateRoom ==
  ASSUME IInv, Room, NEW c \in Gates, PrintGate(c)
  PROVE  Room'
<1>1. Running("t2f") /\ kind = "circuit"
  BY DEF PrintGate, Reading
<1>2. PICK e, n : Written("circuit", given, printer, file, e, n)
  BY <1>1 DEF IInv, InT2f, Running, Printing
<1>3. PrinterIs(printer) /\ Open("circuit", given, printer, n)
  BY <1>2 DEF Written
<1>4. PICK s, l, b, half : /\ s = printer.size /\ l = Len(printer.items) /\ b = Len(printer.body)
                           /\ half = MaxSize \div 2
  OBVIOUS
<1>5. s \in Nat /\ l \in Nat /\ half \in Nat /\ MaxSize \in Nat /\ Slack \in Nat
  BY <1>3, <1>4, SequenceFacts, FlatbufferFileAssumption DEF PrinterIs
<1>6. CASE ~ printer.inFunction
  <2>1. PICK o : o = Flushed(SimpleRewriteThreshold)
    OBVIOUS
  <2>2. PrinterIs(o) /\ ~ o.inFunction /\ o.body = <<>>
    BY <1>3, <1>6, <2>1, PrinterRewritten DEF Flushed, Open
  <2>3. printer' = AddGate(o, Packed(c, printer.inFunction)) /\ UNCHANGED outcome
    BY <1>6, <2>1 DEF PrintGate, TooBig
  <2>4. ~ printer'.inFunction
    BY <2>2, <2>3, GateAdded DEF ItemAdded
  <2>. QED  BY <1>1, <2>3, <2>4, RoomElsewhere DEF Running
<1>7. CASE printer.inFunction
  <2>1. Sequence(printer.body) /\ b \in Nat /\ s + l <= half + b
    <3>1. Sequence(printer.body)
      BY <1>3, <1>7 DEF Open, OpenAt
    <3>. QED  BY <1>4, <1>7, <3>1, SequenceFacts DEF Room, Roomy
  <2>2. CASE TooBig
    <3>1. s + l > MaxSize - Slack
      BY <1>4, <2>2 DEF TooBig, Filled, SimpleRewriteThreshold
    <3>2. b > (MaxSize - Slack) - half
      BY <1>5, <2>1, <3>1
    <3>3. printer' = printer
      BY <2>2 DEF PrintGate, Stop, first
    <3>. QED  BY <1>4, <3>2, <3>3 DEF Room, Roomy, TooBigOnly
  <2>3. CASE ~ TooBig
    <3>1. ~ Filled(printer, SimpleRewriteThreshold)
      BY <1>7, <2>3 DEF TooBig
    <3>2. printer' = AddGate(printer, Packed(c, printer.inFunction)) /\ UNCHANGED outcome
      BY <2>3, <3>1 DEF PrintGate, Flushed
    <3>3. PICK x : printer' = AddGate(printer, x)
      BY <3>2
    <3>4. /\ printer'.size = s + 1 /\ printer'.items = printer.items
          /\ printer'.body = Append(printer.body, x)
      BY <1>3, <1>4, <1>7, <3>3, BodyAdded
    <3>5. Len(printer'.body) = b + 1
      BY <1>4, <2>1, <3>4, Appended DEF IsAppended
    <3>6. (s + 1) + l <= half + (b + 1)
      BY <1>5, <2>1
    <3>7. Roomy(printer')
      BY <1>4, <3>4, <3>5, <3>6 DEF Roomy
    <3>8. outcome' # "function too big"
      BY <1>1, <3>2 DEF Running
    <3>. QED  BY <3>7, <3>8 DEF Room, Roomy, TooBigOnly
  <2>. QED  BY <2>2, <2>3
<1>. QED  BY <1>6, <1>7

(* A function begins in a buffer that is at most half full.                 *)
LEMMA StartFunctionRoom ==
  ASSUME IInv, NEW name, StartFunction(name)
  PROVE  Room'
<1>1. /\ Running("t2f") /\ kind = "circuit" /\ ~ printer.inFunction /\ UNCHANGED outcome
      /\ printer' = [Flushed(FunctionRewriteThreshold) EXCEPT !.name = name, !.inFunction = TRUE]
  BY DEF StartFunction, Reading
<1>2. PICK e, n : Written("circuit", given, printer, file, e, n)
  BY <1>1 DEF IInv, InT2f, Running, Printing
<1>3. PrinterIs(printer) /\ printer.body = <<>>
  BY <1>1, <1>2 DEF Written, Open
<1>4. PICK o, half : o = Flushed(FunctionRewriteThreshold) /\ half = MaxSize \div 2
  OBVIOUS
<1>5. half \in Nat
  BY <1>4, FlatbufferFileAssumption
<1>6. PrinterIs(o) /\ o.body = <<>> /\ o.size + Len(o.items) <= half
  <2>1. CASE Filled(printer, FunctionRewriteThreshold)
    <3>1. PrinterIs(o) /\ o.body = <<>> /\ o.size = 0 /\ o.items = <<>>
      BY <1>3, <1>4, <2>1, PrinterRewritten DEF Flushed
    <3>2. Len(o.items) = 0
      BY <3>1, EmptyIs
    <3>. QED  BY <1>5, <3>1, <3>2
  <2>2. CASE ~ Filled(printer, FunctionRewriteThreshold)
    <3>1. o = printer
      BY <1>4, <2>2 DEF Flushed
    <3>2. PICK s, l : s = printer.size /\ l = Len(printer.items)
      OBVIOUS
    <3>3. s \in Nat /\ l \in Nat
      BY <1>3, <3>2, SequenceFacts DEF PrinterIs
    <3>4. ~ (s + l > half)
      BY <1>4, <2>2, <3>2 DEF Filled, FunctionRewriteThreshold
    <3>5. s + l <= half
      BY <1>5, <3>3, <3>4
    <3>. QED  BY <1>3, <3>1, <3>2, <3>5
  <2>. QED  BY <2>1, <2>2
<1>7. printer' = [o EXCEPT !.name = name, !.inFunction = TRUE]
  BY <1>1, <1>4
<1>8. /\ printer'.body = o.body /\ printer'.items = o.items /\ printer'.size = o.size
  BY <1>6, <1>7 DEF PrinterIs, PrinterFields
<1>9. PICK q : q = o.size + Len(o.items)
  OBVIOUS
<1>10. q \in Nat /\ q <= half + 0
  BY <1>5, <1>6, <1>9, SequenceFacts DEF PrinterIs
<1>11. Len(printer'.body) = 0
  BY <1>6, <1>8, EmptyIs
<1>12. printer'.size + Len(printer'.items) <= (MaxSize \div 2) + Len(printer'.body)
  BY <1>4, <1>8, <1>9, <1>10, <1>11
<1>. QED  BY <1>1, <1>12 DEF Room, Roomy, TooBigOnly, Running

(* The steps of the first conversion that end or open no function.          *)
LEMMA OtherRoom ==
  ASSUME IInv,
         \/ EndFunction
         \/ \E b \in Bindings : PluginFunction("f", b)
         \/ \E v \in Values : PrintStreamValue(v)
         \/ PrintEndKw
  PROVE  Room'
<1>1. Running("t2f")
  BY DEF EndFunction, PluginFunction, PrintStreamValue, PrintEndKw, Reading
<1>2. PICK e, n : Written(kind, given, printer, file, e, n)
  BY <1>1 DEF IInv, InT2f, Running, Printing
<1>3. PrinterIs(printer) /\ Open(kind, given, printer, n)
  BY <1>2 DEF Written
<1>4. ASSUME NEW w, NEW o, o = Flushed(w), ~ printer.inFunction
      PROVE  PrinterIs(o) /\ ~ o.inFunction /\ o.body = <<>>
  <2>1. printer.body = <<>>
    BY <1>3, <1>4 DEF Open
  <2>2. CASE Filled(printer, w)
    <3>1. o = Rewritten(printer)
      BY <1>4, <2>2 DEF Flushed
    <3>2. PrinterIs(printer)
      BY <1>3
    <3>3. PrinterIs(o) /\ o.inFunction = printer.inFunction /\ o.body = printer.body
      BY <3>1, <3>2, PrinterRewritten
    <3>. QED  BY <1>4, <2>1, <3>3
  <2>3. CASE ~ Filled(printer, w)
    <3>1. o = printer
      BY <1>4, <2>3 DEF Flushed
    <3>. QED  BY <1>3, <1>4, <2>1, <3>1
  <2>. QED  BY <2>2, <2>3
<1>5. CASE EndFunction
  <2>1. Sequence(printer.body)
    BY <1>3, <1>5 DEF EndFunction, Open, OpenAt
  <2>2. Len(printer.body) \in Nat
    BY <2>1, SequenceFacts
  <2>3. ~ printer'.inFunction
    BY <1>3, <1>5, <2>2, FunctionAdded DEF EndFunction, ItemAdded
  <2>4. outcome' = outcome
    BY <1>5 DEF EndFunction
  <2>. QED  BY <1>1, <2>3, <2>4, RoomElsewhere DEF Running
<1>6. ASSUME NEW b \in Bindings, PluginFunction("f", b)
      PROVE  Room'
  <2>1. PICK o : o = Flushed(FunctionRewriteThreshold)
    OBVIOUS
  <2>2. printer' = AddPlugin([o EXCEPT !.name = "f"], b) /\ ~ printer.inFunction /\ outcome' = outcome
    BY <1>6, <2>1 DEF PluginFunction
  <2>3. PrinterIs(o) /\ ~ o.inFunction /\ o.body = <<>>
    BY <1>4, <2>1, <2>2
  <2>4. ~ printer'.inFunction
    BY <2>2, <2>3, PluginAdded DEF ItemAdded
  <2>. QED  BY <1>1, <2>2, <2>4, RoomElsewhere DEF Running
<1>7. ASSUME NEW v \in Values, PrintStreamValue(v)
      PROVE  Room'
  <2>1. PICK o : o = Flushed(SimpleRewriteThreshold)
    OBVIOUS
  <2>2. printer' = AddValue(o, Value(v)) /\ kind # "circuit" /\ outcome' = outcome
    BY <1>7, <2>1 DEF PrintStreamValue
  <2>3. PrinterIs(o) /\ ~ o.inFunction /\ o.body = <<>>
    BY <1>3, <1>4, <2>1, <2>2 DEF Open
  <2>4. ~ printer'.inFunction
    BY <2>2, <2>3, ValueAdded DEF ItemAdded
  <2>. QED  BY <1>1, <2>2, <2>4, RoomElsewhere DEF Running
<1>8. CASE PrintEndKw
  <2>1. ~ printer'.inFunction
    BY <1>3, <1>8, PrinterRewritten DEF PrintEndKw
  <2>2. outcome' # "function too big"
    BY <1>8 DEF PrintEndKw
  <2>. QED  BY <2>1, <2>2, RoomElsewhere
<1>. QED  BY <1>5, <1>6, <1>7, <1>8

(* Every step leaves a function its half.                                   *)
LEMMA RoomStep == IInv /\ Room /\ [Next]_vars => Room'
<1>1. SUFFICES ASSUME IInv, Room, [Next]_vars PROVE Room'
  OBVIOUS
<1>2. CASE UNCHANGED vars
  <2>1. printer' = printer /\ outcome' = outcome
    BY <1>2 DEF vars, first
  <2>. QED  BY <1>1, <2>1 DEF Room, Roomy, TooBigOnly
<1>3. CASE Print2Flatbuffer
  <2>1. ASSUME NEW c \in Gates, PrintGate(c) PROVE Room'
    BY <1>1, <2>1, PrintGateRoom
  <2>2. ASSUME StartFunction("f") PROVE Room'
    BY <1>1, <2>2, StartFunctionRoom
  <2>. QED  BY <1>1, <1>3, <2>1, <2>2, OtherRoom DEF Print2Flatbuffer
<1>4. CASE Proceed
  <2>1. printer' = printer
    BY <1>4 DEF Proceed, ParseDirective, ParseNextBuffer, NextValue, FinishText, ReadStatement, ReadEnd,
                Stop, first
  <2>2. outcome' # "function too big"
    BY <1>4 DEF Proceed, ParseDirective, ParseNextBuffer, NextValue, FinishText, ReadStatement, ReadEnd,
                Stop, Running
  <2>. QED  BY <1>1, <2>1, <2>2, RoomKept
<1>. QED  BY <1>1, <1>2, <1>3, <1>4 DEF Next

LEMMA RoomFirst == Init => Room
<1>1. SUFFICES ASSUME NEW k, Begin(k) PROVE Room
  BY DEF Init
<1>2. ~ printer.inFunction
  BY <1>1 DEF Begin, WithHeader, EmptyPrinter
<1>. QED  BY <1>1, <1>2 DEF Begin, Room, Roomy, TooBigOnly

(* The invariants imply StopsForReason.                                     *)
LEMMA StopsForReasonIs == AllFormed /\ IInv /\ Room => StopsForReason
<1>1. SUFFICES ASSUME AllFormed, IInv, Room PROVE StopsForReason
  OBVIOUS
<1>2. DOMAIN given = 1..Len(given)
  BY <1>1, ReceivedIs, SequenceFacts
<1>3. outcome = "text refused" => \E j \in 1..Len(given) : Unreadable(given[j])
  BY <1>1, Zenon DEF IInv, Reasons
<1>4. outcome = "undefined" => \E j \in 1..Len(given) : given[j].op = "pluginFunction" /\ given[j] # Empty
  BY <1>1, Zenon DEF IInv, Reasons
<1>5. outcome # "no header"
  BY <1>1, Zenon DEF IInv, Reasons
<1>6. outcome = "function too big" => Len(printer.body) > (MaxSize - Slack) - (MaxSize \div 2)
  BY <1>1, Zenon DEF Room, TooBigOnly
<1>. QED  BY <1>2, <1>3, <1>4, <1>5, <1>6, Zenon DEF StopsForReason, Unreadable, Empty

(* Whatever the buffers' sizes and the calls, each conversion makes the calls *)
(* of the first text, in their order, none lost and none repeated: what       *)
(* FlatbufferPrinter writes over buffers Parser reads whole.                 *)
THEOREM NothingIsMoved == Spec => []NothingMoved
BY IInvHolds, NothingMovedIs, PTL

(* The calls of a circuit without plugins that ask for inputs and without     *)
(* conversions modulo in functions mean the same after both conversions.     *)
THEOREM MeaningIsKept == Spec => []MeaningKept
BY IInvHolds, MeaningKeptIs, PTL

(* When a copy to one wire is of one wire, which TypeInterpreter's copyMulti   *)
(* demands of a circuit (in_total of TypeInterpreter.t.h:346), a program      *)
(* stops for no other reason than the three that StopsForReason knows: above  *)
(* all no function of up to half a buffer's gates, less the slack, is too     *)
(* big, whatever was printed before it.                                      *)
THEOREM StopsHaveReasons ==
  ASSUME \A c \in Gates : WellFormed(c)
  PROVE  Spec => []StopsForReason
<1>1. AllFormed
  BY DEF AllFormed
<1>2. IInv /\ Room => StopsForReason
  BY <1>1, StopsForReasonIs
<1>. QED  BY <1>2, IInvHolds, RoomFirst, RoomStep, PTL DEF Spec
===============================================================================
