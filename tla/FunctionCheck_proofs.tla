------------------------ MODULE FunctionCheck_proofs ------------------------
(***************************************************************************)
(* The scope, and the check of a function's body before it: proofs for     *)
(* every number of wires, ranges, parameters and mapped wires.             *)
(*                                                                         *)
(* The scope is correct. Two invariants carry its proofs. AssignOnce says  *)
(* why no wire is assigned twice: four operations mark wires, and assign   *)
(* and findOutputs test that theirs are free, but the outputs of a call    *)
(* are marked long after the test, and mapInputs makes no test. Layout     *)
(* says what the memory looks like after any sequence of calls. The first  *)
(* part is about the operations of WireRanges: each keeps the layout of    *)
(* the ranges. They stay sorted, none starts inside a declared or mapped   *)
(* one (Shape), every active wire lies in the range that findRange gives,  *)
(* and no cell holds anything else (Cells). Most operations replace one    *)
(* range by several, which SpliceShape and SpliceCells reason about once;  *)
(* deleteRange erases ranges and the outputs of a call are written in      *)
(* place. The second part is about the steps of Scope; all that a lookup   *)
(* relies on follows from the layout.                                      *)
(*                                                                         *)
(* typeCheck is right about the scope, for every layout of its memory: its *)
(* sets of wires are the scope's (TablesAgree), its allocations are the    *)
(* ranges that the scope declared or mapped (Match), and so what it finds  *)
(* within an allocation the scope finds within a range, and refuses        *)
(* nothing of a body that was accepted (AcceptedIsEvaluated). This is the  *)
(* third part.                                                             *)
(***************************************************************************)
EXTENDS FunctionCheck, FiniteSetTheorems, SequenceTheorems, WellFoundedInduction, TLAPS

-----------------------------------------------------------------------------
(* Induction over data: a set of numbers that is not empty has a least      *)
(* member, among others the numbers for which a claim fails.                *)

(* A nonempty set of natural numbers has a least member.                    *)
LEMMA LeastNat ==
  ASSUME NEW T, T \subseteq Nat, T # {}
  PROVE  \E x \in T : \A y \in T : x <= y
<1> DEFINE R == OpToRel(<, Nat)
<1>1. \E x \in T : \A y \in T : ~(<<y, x>> \in R)
  BY NatLessThanWellFounded, WFMin
<1>2. \A x, y \in Nat : <<y, x>> \in R <=> y < x
  BY DEF OpToRel
<1> HIDE DEF R
<1>3. PICK x \in T : \A y \in T : ~(<<y, x>> \in R)
  BY <1>1, Zenon
<1>4. ASSUME NEW y \in T
      PROVE  x <= y
  <2>1. x \in Nat /\ y \in Nat
    OBVIOUS
  <2>2. ~(y < x)
    BY <1>2, <1>3, <2>1
  <2>. QED  BY <2>1, <2>2
<1>. QED  BY <1>4

(* A nonempty set of integers with a lower bound has a least member.        *)
LEMMA LeastInt ==
  ASSUME NEW T, T \subseteq Int, T # {},
         NEW b \in Int, \A x \in T : b <= x
  PROVE  \E x \in T : \A y \in T : x <= y
<1> DEFINE Above == {n \in Nat : b + n \in T}
<1>1. PICK x \in T : TRUE
  OBVIOUS
<1>2. x - b \in Nat /\ b + (x - b) = x
  BY <1>1
<1>3. Above \subseteq Nat /\ Above # {}
  BY <1>1, <1>2
<1>4. PICK n \in Above : \A m \in Above : n <= m
  BY <1>3, LeastNat, Zenon
<1>5. ASSUME NEW y \in T
      PROVE  b + n <= y
  <2>1. y - b \in Nat /\ b + (y - b) = y
    OBVIOUS
  <2>2. y - b \in Above
    BY <2>1
  <2>3. n <= y - b
    BY <1>4, <2>2
  <2>. QED  BY <2>1, <2>3, n \in Nat
<1>. QED  BY <1>4, <1>5

(* A nonempty set of integers with an upper bound has a greatest member.    *)
LEMMA GreatestInt ==
  ASSUME NEW T, T \subseteq Int, T # {},
         NEW b \in Int, \A x \in T : x <= b
  PROVE  \E x \in T : \A y \in T : y <= x
<1> DEFINE Below == {n \in Nat : b - n \in T}
<1>1. PICK x \in T : TRUE
  OBVIOUS
<1>2. b - x \in Nat /\ b - (b - x) = x
  BY <1>1
<1>3. Below \subseteq Nat /\ Below # {}
  BY <1>1, <1>2
<1>4. PICK n \in Below : \A m \in Below : n <= m
  BY <1>3, LeastNat, Zenon
<1>5. ASSUME NEW y \in T
      PROVE  y <= b - n
  <2>1. b - y \in Nat /\ b - (b - y) = y
    OBVIOUS
  <2>2. b - y \in Below
    BY <2>1
  <2>3. n <= b - y
    BY <1>4, <2>2
  <2>. QED  BY <2>1, <2>3, n \in Nat
<1>. QED  BY <1>4, <1>5

(* f holds the states that N rounds of a loop go through.                   *)
Iterates(f, N, start, step) ==
  \A n \in 0..N : f[n] = IF n = 0 THEN start ELSE step[f[n - 1]]

(* A function that iterates a step from a start exists: what the recursive  *)
(* definition of the states of a loop defines.                              *)
LEMMA IterationExists ==
  ASSUME NEW S, NEW start \in S, NEW step \in [S -> S], NEW N \in Nat
  PROVE  \E f \in [0..N -> S] : Iterates(f, N, start, step)
<1> DEFINE Good(f, n) ==
      /\ f \in [0..n -> S]
      /\ f[0] = start
      /\ \A k \in 1..n : f[k] = step[f[k - 1]]
    Failed == {n \in Nat : ~ \E f : Good(f, n)}
<1>1. Failed = {}
  <2>1. SUFFICES ASSUME Failed # {}
                 PROVE  FALSE
    OBVIOUS
  <2>2. PICK n \in Failed : \A m \in Failed : n <= m
    BY <2>1, LeastNat, Failed \subseteq Nat, Zenon
  <2>3. CASE n = 0
    <3>1. Good([k \in 0..0 |-> start], 0)
      OBVIOUS
    <3>. QED  BY <2>3, <3>1, <2>2
  <2>4. CASE n # 0
    <3>1. n \in Nat /\ n - 1 \in Nat /\ ~(n <= n - 1)
      BY <2>4
    <3>2. PICK f : Good(f, n - 1)
      BY <3>1, <2>2
    <3> DEFINE g == [k \in 0..n |-> IF k < n THEN f[k] ELSE step[f[n - 1]]]
    <3>3. \A k \in 0..(n - 1) : f[k] \in S /\ k \in 0..n /\ k < n
      BY <3>1, <3>2
    <3>4. g \in [0..n -> S]
      <4>1. step[f[n - 1]] \in S
        BY <3>3, <3>1, n - 1 \in 0..(n - 1)
      <4>2. ASSUME NEW k \in 0..n
            PROVE  (IF k < n THEN f[k] ELSE step[f[n - 1]]) \in S
        BY <4>1, <3>3, <3>1
      <4>. QED  BY <4>2
    <3>5. g[0] = start
      BY <3>1, <3>2
    <3>6. ASSUME NEW k \in 1..n
          PROVE  g[k] = step[g[k - 1]]
      <4>1. k - 1 \in 0..n /\ k - 1 < n /\ k \in 0..n
        BY <3>1
      <4>2. g[k - 1] = f[k - 1]
        BY <4>1
      <4>3. CASE k < n
        BY <4>1, <4>2, <4>3, <3>2, k \in 1..(n - 1), <3>1
      <4>4. CASE ~(k < n)
        BY <4>1, <4>2, <4>4, k = n, <3>1
      <4>. QED  BY <4>3, <4>4
    <3>7. Good(g, n)
      BY <3>4, <3>5, <3>6
    <3>. QED  BY <3>7, <2>2
  <2>. QED  BY <2>3, <2>4
<1>2. PICK f : Good(f, N)
  BY <1>1
<1>3. ASSUME NEW n \in 0..N
      PROVE  f[n] = IF n = 0 THEN start ELSE step[f[n - 1]]
  BY <1>2, n # 0 => n \in 1..N
<1>. QED  BY <1>2, <1>3 DEF Iterates
-----------------------------------------------------------------------------
(***************************************************************************)
(* The layout of the memory. The range of a wire is the last one that      *)
(* starts at or below it: what findRange finds.                            *)
(***************************************************************************)
IsRangeOf(rs, w, i) ==
  /\ i \in DOMAIN rs
  /\ rs[i].offset <= w
  /\ \A j \in DOMAIN rs : j > i => rs[j].offset > w

(* A range ends within the wire index type; an empty one, which a cut at    *)
(* the very end of a range leaves, does not start at wire 0.                *)
Sized(r) ==
  /\ 1 <= r.offset + Len(r.mem) /\ r.offset + Len(r.mem) <= MaxWire + 1
  /\ r.canGrow => r.kind = "grown"

(* The ranges are sorted; nothing starts inside a declared or mapped one; a *)
(* grown range starts at a wire that was assigned; the mapped ranges are    *)
(* those below the first local wire.                                        *)
Shape(rs, given, first) ==
  /\ rs \in Seq(RangeType)
  /\ \A i \in DOMAIN rs : Sized(rs[i])
  /\ \A i, j \in DOMAIN rs : i <= j => rs[i].offset <= rs[j].offset
  /\ \A i, j \in DOMAIN rs : i < j /\ rs[i].kind # "grown"
                               => rs[i].offset + Len(rs[i].mem) <= rs[j].offset
  /\ \A i \in DOMAIN rs : rs[i].kind = "grown" => rs[i].offset \in given
  /\ \A i \in DOMAIN rs : rs[i].kind = "mapped"
                            => rs[i].offset + Len(rs[i].mem) <= first

(* Every active wire lies in its range, and a cell that is not raw holds    *)
(* the active wire it is the cell of.                                       *)
HeldIn(rs, w, i) ==
  /\ IsRangeOf(rs, w, i)
  /\ w - rs[i].offset < Len(rs[i].mem)
  /\ CellOf(rs[i], w) = w

Cells(rs, held) ==
  /\ \A w \in held : \E i \in DOMAIN rs : HeldIn(rs, w, i)
  /\ \A i \in DOMAIN rs : \A k \in DOMAIN rs[i].mem :
       rs[i].mem[k] # Raw => /\ rs[i].offset + k - 1 \in held
                             /\ HeldIn(rs, rs[i].offset + k - 1, i)

(* The sizes are numbers, and the marks of a cell are not.                  *)
LEMMA Numbers ==
  /\ MaxWire \in Nat
  /\ DefaultSize \in Nat /\ DefaultSize > 1
  /\ Raw \notin Int /\ Garbage \notin Int /\ Raw # Garbage
BY LayoutAssumption

(* What a member of a sequence of ranges is.                                *)
LEMMA RangeFacts ==
  ASSUME NEW rs \in Seq(RangeType), NEW i \in DOMAIN rs
  PROVE  /\ DOMAIN rs = 1..Len(rs) /\ Len(rs) \in Nat /\ i \in Int
         /\ rs[i] \in RangeType
         /\ rs[i].offset \in Nat /\ rs[i].offset <= MaxWire
         /\ rs[i].kind \in {"new", "mapped", "grown"}
         /\ rs[i].canGrow \in BOOLEAN
         /\ rs[i].mem \in Seq(Cell)
         /\ Len(rs[i].mem) \in Nat /\ DOMAIN rs[i].mem = 1..Len(rs[i].mem)
<1>1. DOMAIN rs = 1..Len(rs) /\ Len(rs) \in Nat
  OBVIOUS
<1>2. rs[i] \in RangeType
  BY <1>1
<1>. QED  BY <1>1, <1>2, Numbers DEF RangeType, Wire

(* offset + length - 1 does not wrap.                                       *)
LEMMA EndIs ==
  ASSUME NEW r \in RangeType, Sized(r)
  PROVE  End(r) = r.offset + Len(r.mem) - 1 /\ End(r) \in 0..MaxWire
<1> DEFINE x == r.offset + Len(r.mem)
           b == MaxWire + 1
<1>1. r.offset \in Nat /\ Len(r.mem) \in Nat
  BY Numbers DEF RangeType, Wire
<1>2. x \in Nat /\ b \in Nat /\ b > 0 /\ 1 <= x /\ x <= b
  BY <1>1, Numbers DEF Sized
<1>3. End(r) = (x - 1 + b) % b
  BY <1>1, <1>2, Numbers DEF End
<1> HIDE DEF x, b
<1>4. \A c, d \in Int : d > 0 /\ 0 <= c /\ c < d => (c + d) % d = c
  <2>1. SUFFICES ASSUME NEW c \in Int, NEW d \in Int, d > 0, 0 <= c, c < d
                 PROVE  (c + d) % d = c
    OBVIOUS
  <2> DEFINE q == (c + d) \div d
             m == (c + d) % d
  <2>2. q \in Int /\ m \in Int /\ 0 <= m /\ m < d /\ c + d = d * q + m
    BY <2>1
  <2> HIDE DEF q, m
  <2>3. ~(q <= 0)
    <3>1. q <= 0 => d * q <= 0
      BY <2>1, <2>2
    <3>. QED  BY <2>1, <2>2, <3>1
  <2>4. ~(q >= 2)
    <3>1. q >= 2 => d * q >= d * 2
      BY <2>1, <2>2
    <3>. QED  BY <2>1, <2>2, <3>1
  <2>5. q = 1
    BY <2>2, <2>3, <2>4
  <2>6. d * q = d
    BY <2>1, <2>5
  <2>7. m = c
    BY <2>1, <2>2, <2>6
  <2>. QED  BY <2>7 DEF m
<1>5. End(r) = x - 1
  BY <1>2, <1>3, <1>4
<1>6. x - 1 \in 0..MaxWire
  BY <1>2, Numbers DEF b
<1>. QED  BY <1>1, <1>5, <1>6 DEF x

(* The range that findRange finds for a wire that some range starts below.  *)
LEMMA FindRangeIs ==
  ASSUME NEW rs \in Seq(RangeType), NEW w \in Int
  PROVE  /\ \A i \in DOMAIN rs : IsRangeOf(rs, w, i) => FindRange(rs, w) = i
         /\ (\E j \in DOMAIN rs : rs[j].offset <= w)
              => IsRangeOf(rs, w, FindRange(rs, w))
         /\ ~(\E j \in DOMAIN rs : rs[j].offset <= w) => FindRange(rs, w) = 1
<1> DEFINE below == {i \in DOMAIN rs : rs[i].offset <= w}
<1>1. below \subseteq Int /\ Len(rs) \in Int /\ \A i \in below : i <= Len(rs)
  BY RangeFacts
<1>2. \A j \in DOMAIN rs : rs[j].offset \in Int
  BY RangeFacts
<1>3. ASSUME below # {}
      PROVE  IsRangeOf(rs, w, FindRange(rs, w))
  <2>1. \E i \in below : \A j \in below : j <= i
    BY <1>1, <1>3, GreatestInt, Zenon
  <2> DEFINE m == CHOOSE i \in below : \A j \in below : j <= i
  <2>2. m \in below /\ \A j \in below : j <= m
    BY <2>1
  <2>3. FindRange(rs, w) = m
    BY <1>3 DEF FindRange
  <2> HIDE DEF m
  <2>. QED  BY <1>1, <1>2, <2>2, <2>3 DEF IsRangeOf
<1>4. ASSUME NEW i \in DOMAIN rs, IsRangeOf(rs, w, i)
      PROVE  FindRange(rs, w) = i
  <2>1. i \in below
    BY <1>4 DEF IsRangeOf
  <2>2. IsRangeOf(rs, w, FindRange(rs, w))
    BY <1>3, <2>1
  <2> DEFINE m == FindRange(rs, w)
  <2> HIDE DEF m
  <2>3. m \in DOMAIN rs /\ m \in Int /\ i \in Int /\ rs[m].offset \in Int /\ rs[i].offset \in Int
    BY <2>2, RangeFacts DEF IsRangeOf, m
  <2>4. ~(m > i) /\ ~(i > m)
    BY <1>4, <2>2, <2>3 DEF IsRangeOf, m
  <2>. QED  BY <2>3, <2>4 DEF m
<1>5. below = {} => FindRange(rs, w) = 1
  BY DEF FindRange
<1>. QED  BY <1>3, <1>4, <1>5

(* Two ranges of a wire are the same range.                                 *)
LEMMA RangeOfUnique ==
  ASSUME NEW rs \in Seq(RangeType), NEW w \in Int, NEW i, NEW j,
         IsRangeOf(rs, w, i), IsRangeOf(rs, w, j)
  PROVE  i = j
BY FindRangeIs DEF IsRangeOf

-----------------------------------------------------------------------------
(***************************************************************************)
(* Replacing a range by several: what a splice keeps.                      *)
(***************************************************************************)

(* Two ranges of the same wires, whatever their cells hold.                 *)
SameSpan(r, s) ==
  /\ r.offset = s.offset /\ r.kind = s.kind
  /\ Len(r.mem) = Len(s.mem)
  /\ r.canGrow => s.canGrow

(* q is rs with the ranges b put in after the i-th; the first i may have    *)
(* other cells.                                                             *)
IsSplice(q, rs, i, b) ==
  /\ q \in Seq(RangeType) /\ rs \in Seq(RangeType) /\ b \in Seq(RangeType)
  /\ i \in 0..Len(rs)
  /\ Len(q) = Len(rs) + Len(b)
  /\ \A j \in 1..i : SameSpan(q[j], rs[j])
  /\ \A j \in 1..Len(b) : q[i + j] = b[j]
  /\ \A j \in (i + 1)..Len(rs) : q[j + Len(b)] = rs[j]

(* The kinds and spans of the ranges do not depend on their cells.          *)
LEMMA SpanShape ==
  ASSUME NEW rs, NEW given, NEW given2, NEW first, NEW q \in Seq(RangeType),
         Shape(rs, given, first), given \subseteq given2,
         DOMAIN q = DOMAIN rs, \A i \in DOMAIN rs : SameSpan(q[i], rs[i])
  PROVE  /\ Shape(q, given2, first)
         /\ \A w \in Int : \A i : IsRangeOf(rs, w, i) => IsRangeOf(q, w, i)
<1>1. \A i \in DOMAIN rs : Sized(q[i])
  BY DEF Shape, Sized, SameSpan
<1>. QED  BY <1>1 DEF Shape, SameSpan, IsRangeOf

(* Where the members of a spliced sequence come from.                       *)
LEMMA SpliceIndex ==
  ASSUME NEW q, NEW rs, NEW i, NEW b, IsSplice(q, rs, i, b), NEW j \in DOMAIN q
  PROVE  \/ j \in 1..i
         \/ j - i \in 1..Len(b) /\ q[j] = b[j - i]
         \/ j - Len(b) \in (i + 1)..Len(rs) /\ q[j] = rs[j - Len(b)]
<1>1. /\ j \in Int /\ i \in Int /\ Len(b) \in Nat /\ Len(rs) \in Nat
      /\ 1 <= j /\ j <= Len(rs) + Len(b) /\ 0 <= i /\ i <= Len(rs)
  BY DEF IsSplice
<1>2. CASE j <= i
  BY <1>1, <1>2
<1>3. CASE i < j /\ j <= i + Len(b)
  <2>1. j - i \in 1..Len(b) /\ i + (j - i) = j
    BY <1>1, <1>3
  <2>. QED  BY <2>1 DEF IsSplice
<1>4. CASE i + Len(b) < j
  <2>1. j - Len(b) \in (i + 1)..Len(rs) /\ (j - Len(b)) + Len(b) = j
    BY <1>1, <1>4
  <2>. QED  BY <2>1 DEF IsSplice
<1>. QED  BY <1>1, <1>2, <1>3, <1>4

(* What the ranges put in must satisfy for the shape to be kept.            *)
Fits(r, rs, i, given) ==
  /\ Sized(r) /\ r.kind # "mapped"
  /\ r.kind = "grown" => r.offset \in given
  /\ \A j \in 1..i : /\ rs[j].offset <= r.offset
                     /\ rs[j].kind # "grown"
                          => rs[j].offset + Len(rs[j].mem) <= r.offset
  /\ \A j \in (i + 1)..Len(rs) : /\ r.offset <= rs[j].offset
                                 /\ r.kind # "grown"
                                      => r.offset + Len(r.mem) <= rs[j].offset

(* A splice of ranges that fit keeps the shape.                             *)
LEMMA SpliceShape ==
  ASSUME NEW q, NEW rs, NEW i, NEW b, IsSplice(q, rs, i, b),
         NEW given, NEW given2, NEW first,
         Shape(rs, given, first), given \subseteq given2,
         \A k \in 1..Len(b) : Fits(b[k], rs, i, given2),
         \A k, m \in 1..Len(b) :
           k < m => /\ b[k].offset <= b[m].offset
                    /\ b[k].kind # "grown"
                         => b[k].offset + Len(b[k].mem) <= b[m].offset
  PROVE  Shape(q, given2, first)
<1> DEFINE n == Len(b)
<1>1. /\ i \in Int /\ n \in Nat /\ Len(rs) \in Nat /\ Len(q) \in Nat
      /\ 0 <= i /\ i <= Len(rs) /\ Len(q) = Len(rs) + n
      /\ DOMAIN q = 1..Len(q) /\ DOMAIN rs = 1..Len(rs)
  BY DEF IsSplice
<1>2. \A j \in 1..i : j \in DOMAIN rs /\ SameSpan(q[j], rs[j])
  BY <1>1 DEF IsSplice
<1>3. \A j \in (i + 1)..Len(rs) : j \in DOMAIN rs
  BY <1>1
<1>4. \A j \in DOMAIN rs : /\ rs[j].offset \in Nat /\ Len(rs[j].mem) \in Nat /\ Sized(rs[j])
                           /\ j \in Int
  BY RangeFacts DEF Shape, IsSplice
<1>5. \A k \in 1..n : b[k].offset \in Nat /\ Len(b[k].mem) \in Nat /\ k \in DOMAIN b
  BY RangeFacts DEF IsSplice
<1>6. ASSUME NEW j \in DOMAIN q
      PROVE  /\ Sized(q[j])
             /\ q[j].kind = "grown" => q[j].offset \in given2
             /\ q[j].kind = "mapped" => q[j].offset + Len(q[j].mem) <= first
  <2>1. CASE j \in 1..i
    BY <1>2, <1>4, <2>1 DEF Shape, Sized, SameSpan
  <2>2. CASE j - i \in 1..n /\ q[j] = b[j - i]
    BY <2>2 DEF Fits
  <2>3. CASE j - n \in (i + 1)..Len(rs) /\ q[j] = rs[j - n]
    BY <1>3, <1>4, <2>3 DEF Shape
  <2>. QED  BY <2>1, <2>2, <2>3, SpliceIndex
<1>7. ASSUME NEW j \in DOMAIN q, NEW m \in DOMAIN q, j < m
      PROVE  /\ q[j].offset <= q[m].offset
             /\ q[j].kind # "grown" => q[j].offset + Len(q[j].mem) <= q[m].offset
  <2>0. j \in Int /\ m \in Int
    BY <1>1
  <2>1. CASE j \in 1..i
    <3>1. CASE m \in 1..i
      BY <1>2, <1>7, <2>1, <3>1 DEF Shape, SameSpan
    <3>2. CASE m - i \in 1..n /\ q[m] = b[m - i]
      BY <1>2, <2>1, <3>2 DEF Fits, SameSpan
    <3>3. CASE m - n \in (i + 1)..Len(rs) /\ q[m] = rs[m - n]
      <4>1. j \in DOMAIN rs /\ m - n \in DOMAIN rs /\ j < m - n
        BY <1>1, <2>0, <2>1, <3>3
      <4>. QED  BY <1>2, <2>1, <3>3, <4>1 DEF Shape, SameSpan
    <3>. QED  BY <3>1, <3>2, <3>3, SpliceIndex
  <2>2. CASE j - i \in 1..n /\ q[j] = b[j - i]
    <3>1. CASE m \in 1..i
      BY <1>1, <1>7, <2>0, <2>2, <3>1
    <3>2. CASE m - i \in 1..n /\ q[m] = b[m - i]
      BY <1>1, <1>7, <2>0, <2>2, <3>2
    <3>3. CASE m - n \in (i + 1)..Len(rs) /\ q[m] = rs[m - n]
      BY <2>2, <3>3 DEF Fits
    <3>. QED  BY <3>1, <3>2, <3>3, SpliceIndex
  <2>3. CASE j - n \in (i + 1)..Len(rs) /\ q[j] = rs[j - n]
    <3>1. CASE m \in 1..i
      BY <1>1, <1>7, <2>0, <2>3, <3>1
    <3>2. CASE m - i \in 1..n /\ q[m] = b[m - i]
      BY <1>1, <1>7, <2>0, <2>3, <3>2
    <3>3. CASE m - n \in (i + 1)..Len(rs) /\ q[m] = rs[m - n]
      BY <1>1, <1>3, <1>7, <2>0, <2>3, <3>3 DEF Shape
    <3>. QED  BY <3>1, <3>2, <3>3, SpliceIndex
  <2>. QED  BY <2>1, <2>2, <2>3, SpliceIndex
<1>8. \A j \in DOMAIN q : q[j].offset \in Nat /\ j \in Int
  BY RangeFacts DEF IsSplice
<1>9. \A j, m \in DOMAIN q : j <= m => q[j].offset <= q[m].offset
  <2>1. ASSUME NEW j \in DOMAIN q, NEW m \in DOMAIN q, j <= m
        PROVE  q[j].offset <= q[m].offset
    <3>1. j = m \/ j < m
      BY <1>8, <2>1
    <3>. QED  BY <1>7, <1>8, <3>1
  <2>. QED  BY <2>1
<1>. QED  BY <1>6, <1>7, <1>9 DEF Shape, IsSplice

(* Where the wires are found after a splice.                                *)
LEMMA SpliceRangeOf ==
  ASSUME NEW q, NEW rs, NEW i, NEW b, IsSplice(q, rs, i, b), NEW w \in Int
  PROVE  /\ \A j \in 1..i : IsRangeOf(rs, w, j) /\ (\A k \in 1..Len(b) : b[k].offset > w)
                              => IsRangeOf(q, w, j)
         /\ \A j \in (i + 1)..Len(rs) : IsRangeOf(rs, w, j)
                                          => IsRangeOf(q, w, j + Len(b))
         /\ \A k \in 1..Len(b) :
              /\ b[k].offset <= w
              /\ \A m \in 1..Len(b) : m > k => b[m].offset > w
              /\ \A m \in (i + 1)..Len(rs) : rs[m].offset > w
              => IsRangeOf(q, w, i + k)
<1> DEFINE n == Len(b)
<1>1. /\ i \in Int /\ n \in Nat /\ Len(rs) \in Nat /\ Len(q) \in Nat
      /\ 0 <= i /\ i <= Len(rs) /\ Len(q) = Len(rs) + n
      /\ DOMAIN q = 1..Len(q) /\ DOMAIN rs = 1..Len(rs)
  BY DEF IsSplice
<1>2. ASSUME NEW j \in 1..i, IsRangeOf(rs, w, j), \A k \in 1..n : b[k].offset > w
      PROVE  IsRangeOf(q, w, j)
  <2>1. q[j].offset = rs[j].offset /\ j \in DOMAIN q /\ j \in Int
    BY <1>1 DEF IsSplice, SameSpan
  <2>2. ASSUME NEW m \in DOMAIN q, m > j
        PROVE  q[m].offset > w
    <3>1. CASE m \in 1..i
      BY <1>1, <1>2, <2>2, <3>1, SMTT(30) DEF IsSplice, SameSpan, IsRangeOf
    <3>2. CASE m - i \in 1..n /\ q[m] = b[m - i]
      BY <1>2, <3>2
    <3>3. CASE m - n \in (i + 1)..Len(rs) /\ q[m] = rs[m - n]
      <4>1. m - n \in DOMAIN rs /\ m - n > j
        BY <1>1, <2>1, <3>3
      <4>. QED  BY <1>2, <3>3, <4>1 DEF IsRangeOf
    <3>. QED  BY <3>1, <3>2, <3>3, SpliceIndex
  <2>. QED  BY <1>2, <2>1, <2>2 DEF IsRangeOf
<1>3. ASSUME NEW j \in (i + 1)..Len(rs), IsRangeOf(rs, w, j)
      PROVE  IsRangeOf(q, w, j + n)
  <2>1. q[j + n] = rs[j] /\ j + n \in DOMAIN q /\ j \in Int
    BY <1>1 DEF IsSplice
  <2>2. ASSUME NEW m \in DOMAIN q, m > j + n
        PROVE  q[m].offset > w
    <3>1. m - n \in (i + 1)..Len(rs) /\ m - n > j /\ (m - n) + n = m
      BY <1>1, <2>1, <2>2
    <3>2. q[m] = rs[m - n]
      BY <3>1 DEF IsSplice
    <3>. QED  BY <1>1, <1>3, <3>1, <3>2 DEF IsRangeOf
  <2>. QED  BY <1>3, <2>1, <2>2 DEF IsRangeOf
<1>4. ASSUME NEW k \in 1..n, b[k].offset <= w,
             \A m \in 1..n : m > k => b[m].offset > w,
             \A m \in (i + 1)..Len(rs) : rs[m].offset > w
      PROVE  IsRangeOf(q, w, i + k)
  <2>1. q[i + k] = b[k] /\ i + k \in DOMAIN q /\ k \in Int
    BY <1>1 DEF IsSplice
  <2>2. ASSUME NEW m \in DOMAIN q, m > i + k
        PROVE  q[m].offset > w
    <3>1. CASE m \in 1..i
      BY <1>1, <2>1, <2>2, <3>1
    <3>2. CASE m - i \in 1..n /\ q[m] = b[m - i]
      BY <1>1, <1>4, <2>1, <2>2, <3>2
    <3>3. CASE m - n \in (i + 1)..Len(rs) /\ q[m] = rs[m - n]
      BY <1>4, <3>3
    <3>. QED  BY <3>1, <3>2, <3>3, SpliceIndex
  <2>. QED  BY <1>4, <2>1, <2>2 DEF IsRangeOf
<1>. QED  BY <1>2, <1>3, <1>4

(* What a range that holds a wire looks like.                               *)
LEMMA HeldFacts ==
  ASSUME NEW rs, NEW given, NEW first, NEW held, Shape(rs, given, first),
         Cells(rs, held), held \subseteq Int, NEW w \in Int, NEW i, HeldIn(rs, w, i)
  PROVE  /\ i \in DOMAIN rs /\ i \in Int
         /\ rs[i].offset \in Nat /\ rs[i].offset <= w
         /\ w < rs[i].offset + Len(rs[i].mem)
         /\ w - rs[i].offset + 1 \in DOMAIN rs[i].mem
         /\ rs[i].mem[w - rs[i].offset + 1] = w
         /\ \A j \in DOMAIN rs : j > i => rs[j].offset > w
<1>1. i \in DOMAIN rs /\ rs \in Seq(RangeType)
  BY DEF HeldIn, IsRangeOf, Shape
<1>2. /\ rs[i].offset \in Nat /\ Len(rs[i].mem) \in Nat /\ i \in Int
      /\ DOMAIN rs[i].mem = 1..Len(rs[i].mem)
  BY <1>1, RangeFacts
<1>. QED  BY <1>1, <1>2, SMTT(30) DEF HeldIn, IsRangeOf, CellOf

(* A range of other cells holds what they hold.                             *)
HoldsIn(r, w) ==
  /\ r.offset <= w /\ w < r.offset + Len(r.mem)
  /\ r.mem[w - r.offset + 1] = w

(* A splice that keeps what the cut range held keeps the cells.             *)
LEMMA SpliceCells ==
  ASSUME NEW q, NEW rs, NEW i, NEW b, IsSplice(q, rs, i, b),
         NEW given, NEW first, Shape(rs, given, first),
         NEW held \in SUBSET Int, NEW held2 \in SUBSET Int,
         Cells(rs, held), held \subseteq held2,
         \A j \in 1..i : \A k \in DOMAIN q[j].mem :
           q[j].mem[k] # Raw =>
             /\ q[j].mem[k] = rs[j].mem[k]
             /\ \A m \in 1..Len(b) : b[m].offset > q[j].offset + k - 1,
         \A m \in 1..Len(b) : \A k \in DOMAIN b[m].mem :
           b[m].mem[k] # Raw =>
             LET w == b[m].offset + k - 1
             IN  /\ w \in held2 /\ b[m].mem[k] = w
                 /\ \A p \in 1..Len(b) : p > m => b[p].offset > w
                 /\ \A p \in (i + 1)..Len(rs) : rs[p].offset > w,
         \A w \in held : \A j \in 1..i :
           HeldIn(rs, w, j) =>
             \/ /\ q[j].mem[w - q[j].offset + 1] = w
                /\ \A m \in 1..Len(b) : b[m].offset > w
             \/ \E m \in 1..Len(b) : HoldsIn(b[m], w),
         \A w \in held2 \ held : \E m \in 1..Len(b) : HoldsIn(b[m], w)
  PROVE  Cells(q, held2)
<1> DEFINE n == Len(b)
<1>1. /\ i \in Int /\ n \in Nat /\ Len(rs) \in Nat /\ Len(q) \in Nat
      /\ 0 <= i /\ i <= Len(rs) /\ Len(q) = Len(rs) + n
      /\ DOMAIN q = 1..Len(q) /\ DOMAIN rs = 1..Len(rs) /\ DOMAIN b = 1..n
  BY DEF IsSplice
<1>2. \A j \in 1..i : j \in DOMAIN rs /\ SameSpan(q[j], rs[j]) /\ j \in DOMAIN q
  BY <1>1 DEF IsSplice
<1>3. \A j \in (i + 1)..Len(rs) : /\ q[j + n] = rs[j] /\ j + n \in DOMAIN q
                                  /\ j \in DOMAIN rs
  BY <1>1 DEF IsSplice
<1>4. \A m \in 1..n : q[i + m] = b[m] /\ i + m \in DOMAIN q
  BY <1>1 DEF IsSplice
<1>5. \A m \in 1..n : /\ b[m].offset \in Nat /\ Len(b[m].mem) \in Nat
                      /\ DOMAIN b[m].mem = 1..Len(b[m].mem)
  BY <1>1, RangeFacts DEF IsSplice
<1>6. \A j \in DOMAIN rs : /\ rs[j].offset \in Nat /\ Len(rs[j].mem) \in Nat
                           /\ DOMAIN rs[j].mem = 1..Len(rs[j].mem)
  BY <1>1, RangeFacts DEF IsSplice
<1>7. \A j \in DOMAIN q : /\ q[j].offset \in Nat /\ Len(q[j].mem) \in Nat
                          /\ DOMAIN q[j].mem = 1..Len(q[j].mem)
  BY <1>1, RangeFacts DEF IsSplice
<1>8. ASSUME NEW w \in held2, NEW m \in 1..n, HoldsIn(b[m], w)
      PROVE  HeldIn(q, w, i + m)
  <2> DEFINE k == w - b[m].offset + 1
  <2>1. k \in DOMAIN b[m].mem /\ b[m].offset + k - 1 = w /\ w \in Int
    BY <1>5, <1>8 DEF HoldsIn
  <2>2. b[m].mem[k] # Raw
    BY <1>8, <2>1, Numbers DEF HoldsIn
  <2> HIDE DEF k
  <2>3. /\ \A p \in 1..n : p > m => b[p].offset > w
        /\ \A p \in (i + 1)..Len(rs) : rs[p].offset > w
    BY <2>1, <2>2
  <2>4. IsRangeOf(q, w, i + m)
    BY <1>8, <2>1, <2>3, SpliceRangeOf, SMTT(30) DEF HoldsIn
  <2>5. q[i + m] = b[m] /\ b[m].offset \in Nat /\ Len(b[m].mem) \in Nat /\ w \in Int
    BY <1>4, <1>5, <2>1
  <2>. QED  BY <1>8, <2>4, <2>5 DEF HeldIn, HoldsIn, CellOf
<1>9. ASSUME NEW w \in held, NEW j \in 1..i, HeldIn(rs, w, j),
             q[j].mem[w - q[j].offset + 1] = w, \A m \in 1..n : b[m].offset > w
      PROVE  HeldIn(q, w, j)
  <2>1. IsRangeOf(q, w, j)
    BY <1>9, SpliceRangeOf DEF HeldIn
  <2>. QED  BY <1>2, <1>9, <2>1 DEF HeldIn, CellOf, SameSpan
<1>10. ASSUME NEW w \in Int, NEW j \in (i + 1)..Len(rs), HeldIn(rs, w, j)
       PROVE  HeldIn(q, w, j + n)
  BY <1>3, <1>10, SpliceRangeOf DEF HeldIn, CellOf
<1>11. ASSUME NEW w \in held2
       PROVE  \E j \in DOMAIN q : HeldIn(q, w, j)
  <2>1. CASE \E m \in 1..n : HoldsIn(b[m], w)
    BY <1>4, <1>8, <2>1
  <2>2. CASE w \in held /\ ~(\E m \in 1..n : HoldsIn(b[m], w))
    <3>1. PICK j \in DOMAIN rs : HeldIn(rs, w, j)
      BY <2>2 DEF Cells
    <3>2. CASE j \in 1..i
      BY <1>2, <1>9, <2>2, <3>1, <3>2
    <3>3. CASE j \in (i + 1)..Len(rs)
      BY <1>3, <1>10, <2>2, <3>1, <3>3
    <3>. QED  BY <1>1, <3>2, <3>3
  <2>. QED  BY <2>1, <2>2
<1>12. ASSUME NEW j \in DOMAIN q, NEW k \in DOMAIN q[j].mem, q[j].mem[k] # Raw
       PROVE  q[j].offset + k - 1 \in held2 /\ HeldIn(q, q[j].offset + k - 1, j)
  <2> DEFINE w == q[j].offset + k - 1
  <2>0. w \in Int /\ k \in Int /\ k = w - q[j].offset + 1 /\ j \in Int
    BY <1>1, <1>7, SMTT(30)
  <2>1. CASE j \in 1..i
    <3>1. /\ q[j].offset = rs[j].offset /\ k \in DOMAIN rs[j].mem
          /\ q[j].mem[k] = rs[j].mem[k] /\ \A m \in 1..n : b[m].offset > w
      BY <1>2, <1>6, <1>7, <1>12, <2>1 DEF SameSpan
    <3>2. w \in held /\ HeldIn(rs, w, j)
      BY <1>2, <1>12, <2>1, <3>1 DEF Cells
    <3>3. q[j].mem[w - q[j].offset + 1] = w
      BY <2>0, <3>1, <3>2 DEF HeldIn, CellOf
    <3>. QED  BY <1>9, <2>1, <3>1, <3>2, <3>3
  <2>2. CASE j - i \in 1..n /\ q[j] = b[j - i]
    <3> DEFINE m == j - i
    <3>1. m \in 1..n /\ q[j] = b[m] /\ i + m = j
      BY <1>1, <2>0, <2>2
    <3> HIDE DEF m
    <3>2. w \in held2 /\ b[m].mem[k] = w
      BY <1>12, <3>1
    <3>3. HoldsIn(b[m], w)
      BY <1>5, <2>0, <3>1, <3>2, SMTT(30) DEF HoldsIn
    <3>. QED  BY <1>8, <3>1, <3>2, <3>3
  <2>3. CASE j - n \in (i + 1)..Len(rs) /\ q[j] = rs[j - n]
    <3> DEFINE m == j - n
    <3>1. m \in (i + 1)..Len(rs) /\ q[j] = rs[m] /\ m + n = j /\ m \in DOMAIN rs
      BY <1>1, <1>3, <2>0, <2>3
    <3> HIDE DEF m
    <3>2. w \in held /\ HeldIn(rs, w, m)
      BY <1>12, <3>1 DEF Cells
    <3>. QED  BY <1>10, <3>1, <3>2
  <2>. QED  BY <2>1, <2>2, <2>3, SpliceIndex
<1>. QED  BY <1>11, <1>12 DEF Cells

-----------------------------------------------------------------------------
(***************************************************************************)
(* assign: a small range, a cell of a range, or a reallocation.            *)
(***************************************************************************)

(***************************************************************************)
(* assign.                                                                 *)
(***************************************************************************)

(* The range that a single assignment creates.                              *)
LEMMA SmallRangeIs ==
  ASSUME NEW w \in 0..MaxWire
  PROVE  /\ SmallRange(w) \in RangeType
         /\ SmallRange(w).offset = w /\ SmallRange(w).kind = "grown"
         /\ Sized(SmallRange(w))
         /\ Len(SmallRange(w).mem) \in Nat /\ Len(SmallRange(w).mem) >= 1
         /\ DOMAIN SmallRange(w).mem = 1..Len(SmallRange(w).mem)
         /\ SmallRange(w).mem[1] = w
         /\ \A k \in DOMAIN SmallRange(w).mem : k # 1 => SmallRange(w).mem[k] = Raw
<1> DEFINE raw == RawCells(DefaultSize - 1)
           mem == <<w>> \o raw
<1>1. w \in Cell /\ Raw \in Cell /\ w \in Nat
  BY Numbers DEF Cell, Wire
<1>2. <<w>> \in Seq(Cell) /\ Len(<<w>>) = 1
  BY <1>1
<1>3. raw \in Seq(Cell) /\ Len(raw) = DefaultSize - 1
  <2>1. raw \in [1..(DefaultSize - 1) -> Cell] /\ DefaultSize - 1 \in Nat
    BY <1>1, Numbers DEF RawCells
  <2>. QED  BY <2>1
<1>4. \A k \in 1..(DefaultSize - 1) : raw[k] = Raw
  BY DEF RawCells
<1> HIDE DEF raw
<1>5. /\ mem \in Seq(Cell) /\ Len(mem) = DefaultSize
      /\ \A k \in 1..DefaultSize : mem[k] = IF k = 1 THEN w ELSE raw[k - 1]
  <2>1. 1 + (DefaultSize - 1) = DefaultSize
    BY Numbers
  <2>2. /\ mem \in Seq(Cell) /\ Len(mem) = Len(<<w>>) + Len(raw)
        /\ \A k \in 1..(Len(<<w>>) + Len(raw)) :
             mem[k] = IF k <= Len(<<w>>) THEN <<w>>[k] ELSE raw[k - Len(<<w>>)]
    BY <1>2, <1>3, ConcatProperties
  <2>3. \A k \in 1..DefaultSize : k <= 1 => k = 1
    BY Numbers
  <2> HIDE DEF mem
  <2>. QED  BY <1>2, <1>3, <2>1, <2>2, <2>3
<1>6. DOMAIN mem = 1..DefaultSize /\ mem[1] = w /\ \A k \in 1..DefaultSize : k # 1 => mem[k] = Raw
  BY <1>4, <1>5, Numbers
<1> HIDE DEF mem
<1>7. CASE MaxWire - DefaultSize < w
  <2>1. SmallRange(w) = [offset |-> w, kind |-> "grown", canGrow |-> FALSE, mem |-> <<w>>]
    BY <1>7 DEF SmallRange, GrownRangeOf
  <2>. QED  BY <1>1, <1>2, <2>1, Numbers DEF RangeType, Sized, Wire
<1>8. CASE ~(MaxWire - DefaultSize < w)
  <2>1. SmallRange(w) = [offset |-> w, kind |-> "grown", canGrow |-> TRUE, mem |-> mem]
    BY <1>8 DEF SmallRange, GrownRangeOf, mem, raw
  <2>. QED  BY <1>1, <1>5, <1>6, <1>8, <2>1, Numbers DEF RangeType, Sized, Wire
<1>. QED  BY <1>7, <1>8

(* Inserting a range replaces none.                                         *)
LEMMA InsertIsSplice ==
  ASSUME NEW rs \in Seq(RangeType), NEW i \in 0..Len(rs), NEW r \in RangeType
  PROVE  /\ IsSplice(InsertAt(rs, i + 1, r), rs, i, <<r>>)
         /\ \A j \in 1..i : InsertAt(rs, i + 1, r)[j] = rs[j]
         /\ i = 0 => IsSplice(<<r>> \o rs, rs, i, <<r>>)
<1> DEFINE one == <<r>>
           left == SubSeq(rs, 1, i)
           right == SubSeq(rs, i + 1, Len(rs))
<1>1. one \in Seq(RangeType) /\ Len(one) = 1 /\ one[1] = r
  OBVIOUS
<1>2. Len(rs) \in Nat /\ i \in Int /\ 0 <= i /\ i <= Len(rs)
  OBVIOUS
<1>3. /\ left \in Seq(RangeType) /\ Len(left) = i
      /\ \A k \in 1..i : left[k] = rs[k]
  BY <1>2, SubSeqProperties
<1>4. /\ right \in Seq(RangeType) /\ Len(right) = Len(rs) - i
      /\ \A k \in 1..(Len(rs) - i) : right[k] = rs[i + k]
  BY <1>2, SubSeqProperties
<1>5. InsertAt(rs, i + 1, r) = (left \o one) \o right
  <2>1. (i + 1) - 1 = i
    BY <1>2
  <2>. QED  BY <2>1, Zenon DEF InsertAt
<1> HIDE DEF one, left, right
<1> DEFINE lr == left \o one
<1>6. /\ lr \in Seq(RangeType) /\ Len(lr) = i + 1
      /\ \A k \in 1..(i + 1) : lr[k] = IF k <= i THEN left[k] ELSE one[k - i]
  <2>1. /\ lr \in Seq(RangeType) /\ Len(lr) = Len(left) + Len(one)
        /\ \A k \in 1..(Len(left) + Len(one)) :
             lr[k] = IF k <= Len(left) THEN left[k] ELSE one[k - Len(left)]
    BY <1>1, <1>3, ConcatProperties
  <2> HIDE DEF lr
  <2>. QED  BY <1>1, <1>3, <2>1
<1> HIDE DEF lr
<1>7. /\ lr \o right \in Seq(RangeType) /\ Len(lr \o right) = Len(rs) + 1
      /\ \A k \in 1..(Len(rs) + 1) :
           (lr \o right)[k] = IF k <= i + 1 THEN lr[k] ELSE right[k - (i + 1)]
  <2> DEFINE q == lr \o right
  <2>1. /\ q \in Seq(RangeType) /\ Len(q) = Len(lr) + Len(right)
        /\ \A k \in 1..(Len(lr) + Len(right)) :
             q[k] = IF k <= Len(lr) THEN lr[k] ELSE right[k - Len(lr)]
    BY <1>4, <1>6, ConcatProperties
  <2>2. (i + 1) + (Len(rs) - i) = Len(rs) + 1
    BY <1>2
  <2> HIDE DEF q
  <2>3. /\ q \in Seq(RangeType) /\ Len(q) = Len(rs) + 1
        /\ \A k \in 1..(Len(rs) + 1) :
             q[k] = IF k <= i + 1 THEN lr[k] ELSE right[k - (i + 1)]
    BY <1>4, <1>6, <2>1, <2>2
  <2>. QED  BY <2>3 DEF q
<1>8. IsSplice(lr \o right, rs, i, one) /\ \A j \in 1..i : (lr \o right)[j] = rs[j]
  <2> DEFINE q == lr \o right
  <2> HIDE DEF q
  <2>1. /\ q \in Seq(RangeType) /\ Len(q) = Len(rs) + 1
        /\ \A k \in 1..(Len(rs) + 1) :
             q[k] = IF k <= i + 1 THEN lr[k] ELSE right[k - (i + 1)]
    BY <1>7 DEF q
  <2>2. \A j \in 1..i : q[j] = rs[j]
    BY <1>2, <1>3, <1>6, <2>1
  <2>3. \A j \in 1..1 : q[i + j] = one[j]
    BY <1>1, <1>2, <1>6, <2>1
  <2>4. ASSUME NEW j \in (i + 1)..Len(rs)
        PROVE  q[j + 1] = rs[j]
    <3>1. j + 1 \in 1..(Len(rs) + 1) /\ ~(j + 1 <= i + 1) /\ j - i \in 1..(Len(rs) - i)
          /\ (j + 1) - (i + 1) = j - i /\ i + (j - i) = j
      BY <1>2
    <3>. QED  BY <1>4, <2>1, <3>1
  <2>. QED  BY <1>1, <1>2, <2>1, <2>2, <2>3, <2>4 DEF IsSplice, SameSpan, q
<1>9. ASSUME i = 0
      PROVE  IsSplice(one \o rs, rs, i, one)
  <2> DEFINE q == one \o rs
  <2>1. /\ q \in Seq(RangeType) /\ Len(q) = 1 + Len(rs)
        /\ \A k \in 1..(1 + Len(rs)) : q[k] = IF k <= 1 THEN one[k] ELSE rs[k - 1]
    BY <1>1, ConcatProperties, SMTT(30)
  <2> HIDE DEF q
  <2>2. \A j \in 1..1 : q[0 + j] = one[j]
    BY <1>2, <2>1
  <2>3. ASSUME NEW j \in 1..Len(rs)
        PROVE  q[j + 1] = rs[j]
    <3>1. j + 1 \in 1..(1 + Len(rs)) /\ ~(j + 1 <= 1) /\ (j + 1) - 1 = j
      BY <1>2
    <3>. QED  BY <2>1, <3>1
  <2>. QED  BY <1>1, <1>2, <1>9, <2>1, <2>2, <2>3 DEF IsSplice, SameSpan, q
<1>. QED  BY <1>5, <1>8, <1>9 DEF lr, one

(* The range where the code looks for wire w: the last that starts at or    *)
(* below it, unless there is none.                                          *)
LEMMA Position ==
  ASSUME NEW rs, NEW given, NEW first, Shape(rs, given, first), NEW w \in Int
  PROVE  LET i == FindRange(rs, w)
         IN  /\ \/ rs = <<>>
                \/ rs # <<>> /\ w < rs[1].offset
                \/ rs # <<>> /\ ~(w < rs[1].offset) /\ IsRangeOf(rs, w, i)
             /\ rs # <<>> => 1 \in DOMAIN rs
             /\ rs # <<>> /\ w < rs[1].offset =>
                  \A j \in DOMAIN rs : rs[j].offset > w
<1>1. rs \in Seq(RangeType) /\ DOMAIN rs = 1..Len(rs) /\ Len(rs) \in Nat
  BY DEF Shape
<1>2. rs # <<>> => 1 \in DOMAIN rs
  BY <1>1
<1>3. \A j \in DOMAIN rs : rs[j].offset \in Nat /\ 1 <= j
  BY <1>1, RangeFacts
<1>4. rs # <<>> => \A j \in DOMAIN rs : rs[1].offset <= rs[j].offset
  BY <1>2, <1>3 DEF Shape
<1>5. rs # <<>> /\ ~(w < rs[1].offset) => IsRangeOf(rs, w, FindRange(rs, w))
  <2>1. ASSUME rs # <<>>, ~(w < rs[1].offset)
        PROVE  \E j \in DOMAIN rs : rs[j].offset <= w
    BY <1>2, <1>3, <2>1
  <2>. QED  BY <1>1, <2>1, FindRangeIs
<1>6. rs # <<>> /\ w < rs[1].offset => \A j \in DOMAIN rs : rs[j].offset > w
  BY <1>2, <1>3, <1>4
<1>. QED  BY <1>2, <1>5, <1>6

(* Inserting a range for wire w after the i-th, where it belongs.           *)
LEMMA InsertSmall ==
  ASSUME NEW q, NEW rs, NEW given, NEW first, NEW held \in SUBSET Int,
         Shape(rs, given, first), Cells(rs, held), NEW w \in 0..MaxWire,
         NEW i \in 0..Len(rs), IsSplice(q, rs, i, <<SmallRange(w)>>),
         \A j \in 1..i : q[j] = rs[j],
         \A j \in 1..i : rs[j].offset <= w,
         \A j \in (i + 1)..Len(rs) : rs[j].offset > w,
         i > 0 => w >= rs[i].offset + Len(rs[i].mem)
  PROVE  /\ Shape(q, given \cup {w}, first)
         /\ Cells(q, held \cup {w})
<1> DEFINE b == <<SmallRange(w)>>
<1>1. Len(b) = 1 /\ b[1] = SmallRange(w) /\ \A m \in 1..1 : m = 1
  OBVIOUS
<1>2. w \in Nat /\ i \in Int /\ Len(rs) \in Nat /\ DOMAIN rs = 1..Len(rs) /\ 0 <= i /\ i <= Len(rs)
  BY Numbers DEF Shape
<1>3. \A j \in 1..i : j \in DOMAIN rs
  BY <1>2
<1>4. \A j \in DOMAIN rs : /\ rs[j].offset \in Nat /\ Len(rs[j].mem) \in Nat
                           /\ DOMAIN rs[j].mem = 1..Len(rs[j].mem)
  BY RangeFacts DEF Shape
<1> HIDE DEF b
<1>5. ASSUME NEW j \in 1..i, NEW x, HeldIn(rs, x, j), x \in Int
      PROVE  x < w
  <2>1. /\ x < rs[j].offset + Len(rs[j].mem)
        /\ \A k \in DOMAIN rs : k > j => rs[k].offset > x
    BY <1>5, HeldFacts
  <2>2. CASE j = i
    BY <1>2, <1>3, <1>4, <1>5, <2>1, <2>2
  <2>3. CASE j < i
    <3>1. i \in 1..i /\ i \in DOMAIN rs
      BY <1>2, <2>3
    <3>2. rs[i].offset > x
      BY <2>1, <2>3, <3>1
    <3>. QED  BY <1>2, <1>4, <1>5, <3>1, <3>2
  <2>. QED  BY <1>2, <2>2, <2>3
<1>6. Shape(q, given \cup {w}, first)
  <2>1. Fits(b[1], rs, i, given \cup {w})
    <3>1. ASSUME NEW j \in 1..i, rs[j].kind # "grown"
          PROVE  rs[j].offset + Len(rs[j].mem) <= w
      <4>1. CASE j = i
        BY <1>2, <1>3, <1>4, <4>1
      <4>2. CASE j < i
        <5>1. i \in 1..i /\ i \in DOMAIN rs /\ j \in DOMAIN rs
          BY <1>2, <1>3, <4>2
        <5>2. rs[j].offset + Len(rs[j].mem) <= rs[i].offset
          BY <3>1, <4>2, <5>1 DEF Shape
        <5>. QED  BY <1>2, <1>4, <5>1, <5>2, SMTT(30)
      <4>. QED  BY <1>2, <4>1, <4>2
    <3>2. \A j \in (i + 1)..Len(rs) : w <= rs[j].offset
      BY <1>2, <1>4
    <3>. QED  BY <1>1, <3>1, <3>2, SmallRangeIs DEF Fits
  <2>2. IsSplice(q, rs, i, b)
    BY DEF b
  <2>3. \A k \in 1..Len(b) : Fits(b[k], rs, i, given \cup {w})
    BY <1>1, <2>1
  <2>4. \A k, m \in 1..Len(b) :
          k < m => /\ b[k].offset <= b[m].offset
                   /\ b[k].kind # "grown"
                        => b[k].offset + Len(b[k].mem) <= b[m].offset
    BY <1>1
  <2> DEFINE given2 == given \cup {w}
  <2>5. given \subseteq given2
    OBVIOUS
  <2>6. \A k \in 1..Len(b) : Fits(b[k], rs, i, given2)
    BY <2>3
  <2> HIDE DEF given2
  <2>7. Shape(q, given2, first)
    BY <2>2, <2>4, <2>5, <2>6, SpliceShape
  <2>. QED  BY <2>7 DEF given2
<1>7. Cells(q, held \cup {w})
  <2>1. IsSplice(q, rs, i, b)
    BY DEF b
  <2>2. ASSUME NEW j \in 1..i, NEW k \in DOMAIN q[j].mem, q[j].mem[k] # Raw
        PROVE  /\ q[j].mem[k] = rs[j].mem[k]
               /\ \A m \in 1..Len(b) : b[m].offset > q[j].offset + k - 1
    <3>1. q[j] = rs[j] /\ j \in DOMAIN rs /\ k \in DOMAIN rs[j].mem /\ k \in Int
      BY <1>3, <1>4
    <3>2. HeldIn(rs, rs[j].offset + k - 1, j)
      BY <2>2, <3>1 DEF Cells
    <3>3. rs[j].offset + k - 1 \in Int
      BY <1>4, <3>1
    <3>4. rs[j].offset + k - 1 < w
      BY <1>5, <3>2, <3>3, Zenon
    <3>. QED  BY <1>1, <1>2, <3>1, <3>3, <3>4, SmallRangeIs
  <2>3. ASSUME NEW m \in 1..Len(b), NEW k \in DOMAIN b[m].mem, b[m].mem[k] # Raw
        PROVE  LET x == b[m].offset + k - 1
               IN  /\ x \in held \cup {w} /\ b[m].mem[k] = x
                   /\ \A p \in 1..Len(b) : p > m => b[p].offset > x
                   /\ \A p \in (i + 1)..Len(rs) : rs[p].offset > x
    <3>1. m = 1 /\ b[m] = SmallRange(w)
      BY <1>1
    <3>2. k = 1 /\ b[m].mem[k] = w /\ b[m].offset + k - 1 = w
      BY <1>2, <2>3, <3>1, SmallRangeIs
    <3>. QED  BY <1>1, <3>1, <3>2
  <2>4. ASSUME NEW x \in held, NEW j \in 1..i, HeldIn(rs, x, j)
        PROVE  /\ q[j].mem[x - q[j].offset + 1] = x
               /\ \A m \in 1..Len(b) : b[m].offset > x
    <3>1. x < w /\ x \in Int
      BY <1>5, <2>4
    <3>2. q[j].mem[x - q[j].offset + 1] = x
      BY <2>4 DEF HeldIn, CellOf
    <3>. QED  BY <1>1, <1>2, <3>1, <3>2, SmallRangeIs
  <2>5. ASSUME NEW x \in (held \cup {w}) \ held
        PROVE  \E m \in 1..Len(b) : HoldsIn(b[m], x)
    <3>1. x = w
      OBVIOUS
    <3>2. HoldsIn(b[1], w)
      <4>1. w - w + 1 = 1
        BY <1>2
      <4>2. /\ b[1] = SmallRange(w) /\ SmallRange(w).offset = w
            /\ Len(SmallRange(w).mem) \in Nat /\ Len(SmallRange(w).mem) >= 1
            /\ SmallRange(w).mem[1] = w /\ w \in Int
        BY <1>1, <1>2, SmallRangeIs
      <4>. QED  BY <4>1, <4>2 DEF HoldsIn
    <3>. QED  BY <1>1, <3>1, <3>2
  <2>6. held \cup {w} \in SUBSET Int
    BY <1>2
  <2>. QED  BY <2>1, <2>2, <2>3, <2>4, <2>5, <2>6, SpliceCells, SMTT(30)
<1>. QED  BY <1>6, <1>7

(* Ranges that change in place: their cells, and where they end.            *)
LEMMA UpdateCells ==
  ASSUME NEW rs \in Seq(RangeType), NEW q \in Seq(RangeType),
         DOMAIN q = DOMAIN rs, \A j \in DOMAIN rs : q[j].offset = rs[j].offset,
         NEW held \in SUBSET Int,
         \A j \in DOMAIN q : \A k \in DOMAIN q[j].mem :
           q[j].mem[k] # Raw =>
             LET x == q[j].offset + k - 1
             IN  q[j].mem[k] = x /\ x \in held /\ IsRangeOf(rs, x, j),
         \A x \in held : \E j \in DOMAIN rs : IsRangeOf(rs, x, j) /\ HoldsIn(q[j], x)
  PROVE  Cells(q, held)
<1>1. \A j \in DOMAIN q : /\ q[j].offset \in Nat /\ Len(q[j].mem) \in Nat
                          /\ DOMAIN q[j].mem = 1..Len(q[j].mem)
  BY RangeFacts
<1>2. \A x, j : IsRangeOf(rs, x, j) => IsRangeOf(q, x, j)
  BY DEF IsRangeOf
<1>3. ASSUME NEW x \in held
      PROVE  \E j \in DOMAIN q : HeldIn(q, x, j)
  <2>1. PICK j \in DOMAIN rs : IsRangeOf(rs, x, j) /\ HoldsIn(q[j], x)
    OBVIOUS
  <2>. QED  BY <1>1, <1>2, <2>1 DEF HeldIn, HoldsIn, CellOf
<1>4. ASSUME NEW j \in DOMAIN q, NEW k \in DOMAIN q[j].mem, q[j].mem[k] # Raw
      PROVE  q[j].offset + k - 1 \in held /\ HeldIn(q, q[j].offset + k - 1, j)
  <2> DEFINE x == q[j].offset + k - 1
  <2>1. q[j].mem[k] = x /\ x \in held /\ IsRangeOf(q, x, j)
    BY <1>2, <1>4
  <2>2. x - q[j].offset + 1 = k /\ x - q[j].offset < Len(q[j].mem)
    BY <1>1
  <2> HIDE DEF x
  <2>3. HeldIn(q, x, j)
    BY <2>1, <2>2 DEF HeldIn, CellOf
  <2>. QED  BY <2>1, <2>3 DEF x
<1>. QED  BY <1>3, <1>4 DEF Cells

(* The one range that changes is the i-th, which is where w is looked for.  *)
LEMMA UpdateOne ==
  ASSUME NEW rs, NEW given, NEW first, NEW held \in SUBSET Int,
         Shape(rs, given, first), Cells(rs, held),
         NEW w \in 0..MaxWire, NEW i, IsRangeOf(rs, w, i),
         NEW r \in RangeType, SameSpan(r, rs[i]) \/ (r.kind = "grown" /\ rs[i].kind = "grown"),
         r.offset = rs[i].offset, Sized(r),
         HoldsIn(r, w),
         \A k \in DOMAIN r.mem :
           r.mem[k] # Raw =>
             LET x == r.offset + k - 1
             IN  r.mem[k] = x /\ x \in held \cup {w} /\ IsRangeOf(rs, x, i),
         \A x \in held : HeldIn(rs, x, i) => HoldsIn(r, x)
  PROVE  /\ Shape([rs EXCEPT ![i] = r], given \cup {w}, first)
         /\ Cells([rs EXCEPT ![i] = r], held \cup {w})
<1>0. ASSUME NEW x \in held, NEW j, HeldIn(rs, x, j)
      PROVE  /\ rs[j].offset <= x /\ x < rs[j].offset + Len(rs[j].mem)
             /\ rs[j].mem[x - rs[j].offset + 1] = x
  <2>1. /\ j \in DOMAIN rs /\ rs[j].offset \in Nat /\ Len(rs[j].mem) \in Nat
        /\ x \in Int
    BY <1>0, RangeFacts DEF HeldIn, IsRangeOf, Shape
  <2>. QED  BY <1>0, <2>1 DEF HeldIn, IsRangeOf, CellOf
<1> DEFINE q == [rs EXCEPT ![i] = r]
<1>1. rs \in Seq(RangeType) /\ i \in DOMAIN rs /\ DOMAIN rs = 1..Len(rs)
  BY DEF Shape, IsRangeOf
<1>2. /\ q \in Seq(RangeType) /\ DOMAIN q = DOMAIN rs /\ q[i] = r
      /\ \A j \in DOMAIN rs : j # i => q[j] = rs[j]
  BY <1>1
<1> HIDE DEF q
<1>3. \A j \in DOMAIN rs : q[j].offset = rs[j].offset
  BY <1>2
<1>4. Shape(q, given \cup {w}, first)
  <2>1. \A j \in DOMAIN q : /\ q[j].kind = rs[j].kind
                            /\ q[j].kind # "grown" => Len(q[j].mem) = Len(rs[j].mem)
    BY <1>1, <1>2 DEF SameSpan
  <2>2. \A j \in DOMAIN q : Sized(q[j])
    BY <1>2 DEF Shape
  <2>3. /\ \A j, m \in DOMAIN q : j <= m => q[j].offset <= q[m].offset
        /\ \A j, m \in DOMAIN q : j < m /\ q[j].kind # "grown"
                                    => q[j].offset + Len(q[j].mem) <= q[m].offset
        /\ \A j \in DOMAIN q : q[j].kind = "grown" => q[j].offset \in given \cup {w}
        /\ \A j \in DOMAIN q : q[j].kind = "mapped"
                                  => q[j].offset + Len(q[j].mem) <= first
    BY <1>2, <1>3, <2>1 DEF Shape
  <2>. QED  BY <1>2, <2>2, <2>3 DEF Shape
<1>5. Cells(q, held \cup {w})
  <2>1. ASSUME NEW j \in DOMAIN q, NEW k \in DOMAIN q[j].mem, q[j].mem[k] # Raw
        PROVE  LET x == q[j].offset + k - 1
               IN  q[j].mem[k] = x /\ x \in held \cup {w} /\ IsRangeOf(rs, x, j)
    <3>1. CASE j = i
      BY <1>2, <2>1, <3>1
    <3>2. CASE j # i
      <4> DEFINE x == rs[j].offset + k - 1
      <4>1. q[j] = rs[j] /\ k \in DOMAIN rs[j].mem /\ k \in Int /\ rs[j].offset \in Nat
        BY <1>1, <1>2, <2>1, <3>2, RangeFacts
      <4>2. x \in held /\ HeldIn(rs, x, j)
        BY <1>2, <2>1, <4>1 DEF Cells
      <4>3. k = x - rs[j].offset + 1
        BY <4>1
      <4> HIDE DEF x
      <4>4. rs[j].mem[k] = x /\ IsRangeOf(rs, x, j)
        BY <4>2, <4>3 DEF HeldIn, CellOf
      <4>. QED  BY <4>1, <4>2, <4>4 DEF x
    <3>. QED  BY <3>1, <3>2
  <2>2. ASSUME NEW x \in held \cup {w}
        PROVE  \E j \in DOMAIN rs : IsRangeOf(rs, x, j) /\ HoldsIn(q[j], x)
    <3>1. CASE x = w
      BY <1>1, <1>2, <3>1
    <3>2. CASE x \in held
      <4>1. PICK j \in DOMAIN rs : HeldIn(rs, x, j)
        BY <3>2 DEF Cells
      <4>2. CASE j = i
        BY <1>1, <1>2, <3>2, <4>1, <4>2 DEF HeldIn
      <4>3. CASE j # i
        <5>1. /\ rs[j].offset <= x /\ x < rs[j].offset + Len(rs[j].mem)
              /\ rs[j].mem[x - rs[j].offset + 1] = x
          BY <1>0, <3>2, <4>1
        <5>2. q[j] = rs[j] /\ IsRangeOf(rs, x, j)
          BY <1>2, <4>1, <4>3 DEF HeldIn
        <5>3. HoldsIn(q[j], x)
          BY <5>1, <5>2 DEF HoldsIn
        <5>. QED  BY <5>2, <5>3
      <4>. QED  BY <4>2, <4>3
    <3>. QED  BY <3>1, <3>2
  <2>3. held \cup {w} \in SUBSET Int
    <3>1. w \in Int /\ \A x \in held : x \in Int
      BY Numbers
    <3>. QED  BY <3>1, Zenon
  <2> DEFINE held2 == held \cup {w}
  <2>4. /\ \A j \in DOMAIN q : \A k \in DOMAIN q[j].mem :
             q[j].mem[k] # Raw =>
               LET x == q[j].offset + k - 1
               IN  q[j].mem[k] = x /\ x \in held2 /\ IsRangeOf(rs, x, j)
        /\ \A x \in held2 : \E j \in DOMAIN rs : IsRangeOf(rs, x, j) /\ HoldsIn(q[j], x)
    BY <2>1, <2>2
  <2>5. held2 \in SUBSET Int
    BY <2>3
  <2> HIDE DEF held2
  <2>6. Cells(q, held2)
    BY <1>1, <1>2, <1>3, <2>4, <2>5, UpdateCells
  <2>. QED  BY <2>6 DEF held2
<1>. QED  BY <1>4, <1>5 DEF q

(* A range that may grow reaches beyond its end, and not beyond the type.   *)
LEMMA GrowthLastIs ==
  ASSUME NEW r \in RangeType, Sized(r)
  PROVE  /\ GrowthLast(r) \in Nat /\ GrowthLast(r) <= MaxWire
<1>1. r.offset \in Nat /\ Len(r.mem) \in Nat /\ r.offset <= MaxWire
  BY Numbers DEF RangeType, Wire
<1>2. Len(r.mem) \div 2 \in Nat
  <2>1. \A x \in Nat : x \div 2 \in Nat
    OBVIOUS
  <2>. QED  BY <1>1, <2>1
<1> DEFINE half == Len(r.mem) \div 2
           amount == Len(r.mem) + half
<1> HIDE DEF half
<1>3. amount \in Nat
  <2>1. half \in Nat
    BY <1>2 DEF half
  <2>. QED  BY <1>1, <2>1
<1>4. GrowthLast(r) = IF MaxWire - amount > r.offset THEN r.offset + amount ELSE MaxWire
  BY DEF GrowthLast, half
<1> HIDE DEF amount
<1>. QED  BY <1>1, <1>3, <1>4, Numbers

(* A growable range is reallocated to reach wire w, short of the next one.  *)
LEMMA GrowKeeps ==
  ASSUME NEW rs, NEW given, NEW first, NEW held \in SUBSET Int,
         Shape(rs, given, first), Cells(rs, held),
         NEW w \in 0..MaxWire, NEW i, IsRangeOf(rs, w, i),
         ~Covers(rs[i], w), Growable(rs[i], w)
  PROVE  /\ Shape(Grow(rs, held, i, w), given \cup {w}, first)
         /\ Cells(Grow(rs, held, i, w), held \cup {w})
<1> DEFINE r == rs[i]
           newLast == IF i < Len(rs) /\ GrowthLast(r) >= rs[i + 1].offset
                      THEN rs[i + 1].offset - 1 ELSE GrowthLast(r)
           cell(x) == IF x = w THEN w
                      ELSE IF x \in held /\ x <= End(r) THEN MovedFrom(CellOf(r, x))
                      ELSE Raw
           mem == [k \in 1..(newLast - r.offset + 1) |-> cell(r.offset + k - 1)]
           grown == [r EXCEPT !.mem = mem]
<1>1. /\ rs \in Seq(RangeType) /\ i \in DOMAIN rs /\ DOMAIN rs = 1..Len(rs)
      /\ i \in Int /\ Len(rs) \in Nat
      /\ r \in RangeType /\ Sized(r) /\ r.kind = "grown"
      /\ r.offset \in Nat /\ Len(r.mem) \in Nat /\ r.offset <= w
      /\ w \in Nat
  BY RangeFacts, Numbers DEF Shape, IsRangeOf, Growable, Sized
<1>2. /\ End(r) = r.offset + Len(r.mem) - 1 /\ End(r) < w
      /\ w < GrowthLast(r) /\ GrowthLast(r) \in Nat /\ GrowthLast(r) <= MaxWire
  BY <1>1, EndIs, GrowthLastIs DEF Covers, Growable
<1>3. /\ newLast \in Nat /\ w <= newLast /\ newLast <= MaxWire
      /\ \A j \in DOMAIN rs : j > i => rs[j].offset > newLast
  <2>1. CASE i < Len(rs)
    <3>1. i + 1 \in DOMAIN rs /\ rs[i + 1].offset \in Nat /\ rs[i + 1].offset > w
      BY <1>1, <2>1, RangeFacts DEF IsRangeOf
    <3>2. \A j \in DOMAIN rs : j > i => rs[i + 1].offset <= rs[j].offset /\ rs[j].offset \in Nat
      BY <1>1, <3>1, RangeFacts, SMTT(30) DEF Shape
    <3>3. newLast \in Nat /\ w <= newLast /\ newLast <= MaxWire /\ newLast < rs[i + 1].offset
      <4>1. CASE GrowthLast(r) >= rs[i + 1].offset
        <5>1. newLast = rs[i + 1].offset - 1
          BY <2>1, <4>1
        <5> HIDE DEF newLast
        <5>. QED  BY <1>1, <1>2, <3>1, <4>1, <5>1, Numbers, SMTT(30)
      <4>2. CASE ~(GrowthLast(r) >= rs[i + 1].offset)
        <5>1. newLast = GrowthLast(r)
          BY <4>2
        <5> HIDE DEF newLast
        <5>. QED  BY <1>1, <1>2, <3>1, <4>2, <5>1, Numbers
      <4>. QED  BY <4>1, <4>2
    <3> HIDE DEF newLast
    <3>. QED  BY <3>1, <3>2, <3>3
  <2>2. CASE ~(i < Len(rs))
    <3>1. newLast = GrowthLast(r)
      BY <2>2
    <3>2. \A j \in DOMAIN rs : ~(j > i)
      BY <1>1, <2>2
    <3>. QED  BY <1>1, <1>2, <3>1, <3>2
  <2>. QED  BY <2>1, <2>2
<1>4. Grow(rs, held, i, w) = [rs EXCEPT ![i] = grown]
  BY DEF Grow
<1> HIDE DEF newLast
<1>5. \A x \in Int : r.offset <= x /\ x <= newLast => IsRangeOf(rs, x, i)
  <2>1. ASSUME NEW x \in Int, r.offset <= x, x <= newLast, NEW j \in DOMAIN rs, j > i
        PROVE  rs[j].offset > x
    BY <1>1, <1>3, <2>1, RangeFacts
  <2>. QED  BY <1>1, <2>1 DEF IsRangeOf
<1>6. ASSUME NEW x \in held, r.offset <= x, x <= End(r)
      PROVE  HeldIn(rs, x, i) /\ CellOf(r, x) = x
  <2>1. x \in Int /\ x <= newLast
    BY <1>2, <1>3, <1>1, <1>6
  <2>2. IsRangeOf(rs, x, i)
    BY <1>5, <1>6, <2>1
  <2>3. PICK j \in DOMAIN rs : HeldIn(rs, x, j)
    BY DEF Cells
  <2>4. j = i
    BY <1>1, <2>1, <2>2, <2>3, RangeOfUnique DEF HeldIn
  <2>. QED  BY <2>3, <2>4 DEF HeldIn
<1>7. ASSUME NEW x \in Int, r.offset <= x, x <= newLast
      PROVE  /\ cell(x) \in Cell
             /\ cell(x) # Raw => cell(x) = x /\ x \in held \cup {w}
             /\ x \in held /\ x <= End(r) => cell(x) = x
  <2>1. w \in Cell /\ Raw \in Cell /\ x \in Cell
    BY <1>1, <1>3, <1>7, Numbers DEF Cell, Wire
  <2>2. CASE x = w
    BY <1>1, <2>1, <2>2, Numbers
  <2>3. CASE x # w /\ x \in held /\ x <= End(r)
    <3>1. CellOf(r, x) = x /\ x # Raw
      BY <1>6, <1>7, <2>3, Numbers
    <3>. QED  BY <2>1, <2>3, <3>1 DEF MovedFrom
  <2>4. CASE x # w /\ ~(x \in held /\ x <= End(r))
    BY <2>1, <2>4
  <2>. QED  BY <2>2, <2>3, <2>4
<1> HIDE DEF cell
<1> DEFINE n == newLast - r.offset + 1
<1>8. n \in Nat /\ w - r.offset + 1 \in 1..n /\ r.offset + n = newLast + 1
  BY <1>1, <1>3, SMTT(30)
<1>9. ASSUME NEW k \in 1..n
      PROVE  r.offset + k - 1 \in Int /\ r.offset <= r.offset + k - 1 /\ r.offset + k - 1 <= newLast
  BY <1>1, <1>3
<1>10. mem \in Seq(Cell) /\ Len(mem) = n /\ DOMAIN mem = 1..n
  <2>1. \A k \in 1..n : cell(r.offset + k - 1) \in Cell
    BY <1>7, <1>9
  <2>2. mem \in [1..n -> Cell]
    BY <2>1
  <2> HIDE DEF n, mem
  <2>. QED  BY <1>8, <2>2
<1>11. \A k \in 1..n : mem[k] = cell(r.offset + k - 1)
  OBVIOUS
<1> HIDE DEF n, mem
<1>12. /\ grown \in RangeType /\ grown.offset = r.offset /\ grown.kind = "grown"
       /\ grown.mem = mem /\ grown.canGrow = r.canGrow
  BY <1>1, <1>10 DEF RangeType
<1> HIDE DEF grown
<1>13. Sized(grown)
  <2>1. Len(grown.mem) = n /\ grown.offset = r.offset
    BY <1>10, <1>12
  <2>2. r.offset + n = newLast + 1
    BY <1>8
  <2>. QED  BY <1>3, <1>12, <2>1, <2>2, Numbers DEF Sized
<1>14. ASSUME NEW x \in held \cup {w}, r.offset <= x, x <= newLast, x = w \/ x <= End(r)
       PROVE  HoldsIn(grown, x)
  <2>1. x \in Int /\ x - r.offset + 1 \in 1..n /\ r.offset + (x - r.offset + 1) - 1 = x
    <3>1. x \in Int
      BY <1>1
    <3>. QED  BY <1>1, <1>3, <1>14, <3>1, SMTT(30) DEF n
  <2>2. cell(x) = x
    BY <1>7, <1>14, <2>1 DEF cell
  <2>3. mem[x - r.offset + 1] = x
    BY <1>11, <2>1, <2>2
  <2>4. x < r.offset + n
    BY <1>3, <1>8, <1>14, <2>1
  <2>. QED  BY <1>10, <1>12, <1>14, <2>3, <2>4 DEF HoldsIn
<1>15. \A k \in DOMAIN grown.mem :
         grown.mem[k] # Raw =>
           LET x == grown.offset + k - 1
           IN  grown.mem[k] = x /\ x \in held \cup {w} /\ IsRangeOf(rs, x, i)
  BY <1>5, <1>7, <1>9, <1>10, <1>11, <1>12
<1>16. \A x \in held : HeldIn(rs, x, i) => HoldsIn(grown, x)
  <2>1. ASSUME NEW x \in held, HeldIn(rs, x, i)
        PROVE  HoldsIn(grown, x)
    <3>1. x \in Int /\ r.offset <= x /\ x <= End(r)
      BY <1>1, <1>2, <2>1 DEF HeldIn, IsRangeOf
    <3>2. x <= newLast
      BY <1>1, <1>2, <1>3, <3>1
    <3>. QED  BY <1>14, <3>1, <3>2
  <2>. QED  BY <2>1
<1>17. HoldsIn(grown, w)
  BY <1>1, <1>3, <1>14
<1>18. /\ Shape([rs EXCEPT ![i] = grown], given \cup {w}, first)
       /\ Cells([rs EXCEPT ![i] = grown], held \cup {w})
  BY <1>1, <1>12, <1>13, <1>15, <1>16, <1>17, UpdateOne
<1>. QED  BY <1>4, <1>18

(* Writing a cell that a range covers keeps the layout.                     *)
LEMMA SetCellKeeps ==
  ASSUME NEW rs, NEW given, NEW first, NEW held \in SUBSET Int,
         Shape(rs, given, first), Cells(rs, held),
         NEW w \in 0..MaxWire, NEW i, IsRangeOf(rs, w, i), Covers(rs[i], w)
  PROVE  /\ Shape([rs EXCEPT ![i] = SetCell(rs[i], w, w)], given \cup {w}, first)
         /\ Cells([rs EXCEPT ![i] = SetCell(rs[i], w, w)], held \cup {w})
<1> DEFINE r == SetCell(rs[i], w, w)
           p == w - rs[i].offset + 1
<1>1. /\ rs \in Seq(RangeType) /\ i \in DOMAIN rs /\ rs[i] \in RangeType /\ Sized(rs[i])
      /\ rs[i].offset \in Nat /\ rs[i].mem \in Seq(Cell) /\ Len(rs[i].mem) \in Nat
      /\ DOMAIN rs[i].mem = 1..Len(rs[i].mem) /\ rs[i].offset <= w
      /\ w \in Nat
  BY RangeFacts, Numbers DEF Shape, IsRangeOf
<1>2. End(rs[i]) = rs[i].offset + Len(rs[i].mem) - 1
  BY <1>1, EndIs
<1>3. p \in DOMAIN rs[i].mem /\ w < rs[i].offset + Len(rs[i].mem)
  BY <1>1, <1>2 DEF Covers
<1>4. w \in Cell /\ w # Raw
  BY Numbers DEF Cell, Wire
<1>5. /\ r = [rs[i] EXCEPT !.mem = [rs[i].mem EXCEPT ![p] = w]]
  BY DEF SetCell
<1> DEFINE m == [rs[i].mem EXCEPT ![p] = w]
<1> HIDE DEF p
<1>6. /\ m \in Seq(Cell) /\ Len(m) = Len(rs[i].mem) /\ DOMAIN m = DOMAIN rs[i].mem
      /\ m[p] = w /\ \A k \in DOMAIN m : k # p => m[k] = rs[i].mem[k]
  BY <1>1, <1>3, <1>4, ExceptSeq
<1> HIDE DEF m
<1>7. r = [rs[i] EXCEPT !.mem = m]
  BY <1>5 DEF m
<1>8. /\ r \in RangeType /\ r.offset = rs[i].offset /\ r.kind = rs[i].kind
      /\ r.canGrow = rs[i].canGrow /\ r.mem = m
  BY <1>1, <1>6, <1>7 DEF RangeType
<1> HIDE DEF r
<1>9. SameSpan(r, rs[i]) /\ Sized(r)
  BY <1>1, <1>6, <1>8 DEF SameSpan, Sized
<1>10. HoldsIn(r, w)
  BY <1>1, <1>3, <1>6, <1>8 DEF HoldsIn, p
<1>11. ASSUME NEW k \in DOMAIN r.mem, r.mem[k] # Raw
       PROVE  LET x == r.offset + k - 1
              IN  r.mem[k] = x /\ x \in held \cup {w} /\ IsRangeOf(rs, x, i)
  <2>1. k \in Int /\ k \in DOMAIN rs[i].mem
    BY <1>1, <1>6, <1>8
  <2>2. CASE k = p
    BY <1>1, <1>6, <1>8, <2>2 DEF p
  <2>3. CASE k # p
    <3> DEFINE x == rs[i].offset + k - 1
    <3>1. rs[i].mem[k] # Raw /\ r.mem[k] = rs[i].mem[k]
      BY <1>6, <1>8, <1>11, <2>3
    <3>2. x \in held /\ HeldIn(rs, x, i)
      BY <1>1, <2>1, <3>1 DEF Cells
    <3>3. k = x - rs[i].offset + 1
      BY <1>1, <2>1
    <3> HIDE DEF x
    <3>4. rs[i].mem[k] = x /\ IsRangeOf(rs, x, i)
      BY <3>2, <3>3 DEF HeldIn, CellOf
    <3>. QED  BY <1>8, <3>1, <3>2, <3>4 DEF x
  <2>. QED  BY <2>2, <2>3
<1>12. ASSUME NEW x \in held, HeldIn(rs, x, i)
       PROVE  HoldsIn(r, x)
  <2>0. x \in Int
    OBVIOUS
  <2>1. x \in Int /\ rs[i].offset <= x /\ x < rs[i].offset + Len(rs[i].mem)
        /\ rs[i].mem[x - rs[i].offset + 1] = x
    BY <1>1, <1>12, <2>0 DEF HeldIn, IsRangeOf, CellOf
  <2>2. x - rs[i].offset + 1 \in DOMAIN m
    BY <1>1, <1>6, <2>1, SMTT(30)
  <2>3. m[x - rs[i].offset + 1] = x
    <3>1. CASE x = w
      BY <1>6, <3>1 DEF p
    <3>2. CASE x # w
      <4>1. x - rs[i].offset + 1 # p
        BY <1>1, <2>1, <3>2 DEF p
      <4>. QED  BY <1>6, <2>1, <2>2, <4>1
    <3>. QED  BY <3>1, <3>2
  <2>. QED  BY <1>6, <1>8, <2>1, <2>3 DEF HoldsIn
<1>. QED  BY <1>8, <1>9, <1>10, <1>11, <1>12, UpdateOne DEF r

(* assign keeps the layout exact, and the wire is held from then on.        *)
LEMMA AssignKeeps ==
  ASSUME NEW rs, NEW given, NEW first, NEW held \in SUBSET Int,
         Shape(rs, given, first), Cells(rs, held), NEW w \in 0..MaxWire
  PROVE  /\ Shape(AssignCell(rs, held, w), given \cup {w}, first)
         /\ Cells(AssignCell(rs, held, w), held \cup {w})
<1> DEFINE i == FindRange(rs, w)
<1>1. /\ rs \in Seq(RangeType) /\ Len(rs) \in Nat /\ DOMAIN rs = 1..Len(rs)
      /\ w \in Nat /\ SmallRange(w) \in RangeType
      /\ rs # <<>> => 1 \in DOMAIN rs /\ rs[1].offset \in Nat
  <2>1. rs \in Seq(RangeType) /\ Len(rs) \in Nat /\ DOMAIN rs = 1..Len(rs)
    BY DEF Shape
  <2>2. rs # <<>> => 1 \in DOMAIN rs
    BY <2>1
  <2>. QED  BY <2>1, <2>2, RangeFacts, SmallRangeIs, Numbers
<1>2. CASE rs = <<>> \/ w < rs[1].offset
  <2>1. AssignCell(rs, held, w) = <<SmallRange(w)>> \o rs
    BY <1>2 DEF AssignCell
  <2>2. 0 \in 0..Len(rs) /\ IsSplice(<<SmallRange(w)>> \o rs, rs, 0, <<SmallRange(w)>>)
    BY <1>1, InsertIsSplice
  <2>3. \A j \in (0 + 1)..Len(rs) : rs[j].offset > w
    BY <1>1, <1>2, Position
  <2>4. \A j \in 1..0 : FALSE
    OBVIOUS
  <2> DEFINE q == <<SmallRange(w)>> \o rs
  <2> HIDE DEF q
  <2>5. Shape(q, given \cup {w}, first) /\ Cells(q, held \cup {w})
    <3>1. IsSplice(q, rs, 0, <<SmallRange(w)>>)
      BY <2>2 DEF q
    <3>2. /\ \A j \in 1..0 : q[j] = rs[j]
          /\ \A j \in 1..0 : rs[j].offset <= w
          /\ 0 > 0 => w >= rs[0].offset + Len(rs[0].mem)
      BY <2>4
    <3>. QED  BY <2>2, <2>3, <3>1, <3>2, InsertSmall
  <2>. QED  BY <2>1, <2>5 DEF q
<1>3. CASE ~(rs = <<>> \/ w < rs[1].offset)
  <2>1. IsRangeOf(rs, w, i)
    BY <1>1, <1>3, Position
  <2>2. CASE Covers(rs[i], w)
    <3>1. AssignCell(rs, held, w) = [rs EXCEPT ![i] = SetCell(rs[i], w, w)]
      BY <1>3, <2>2 DEF AssignCell
    <3> HIDE DEF i
    <3> DEFINE q == [rs EXCEPT ![i] = SetCell(rs[i], w, w)]
    <3>2. Shape(q, given \cup {w}, first) /\ Cells(q, held \cup {w})
      BY <2>1, <2>2, SetCellKeeps
    <3> HIDE DEF q
    <3>. QED  BY <3>1, <3>2 DEF q
  <2>3. CASE ~Covers(rs[i], w) /\ Growable(rs[i], w)
    <3>1. AssignCell(rs, held, w) = Grow(rs, held, i, w)
      BY <1>3, <2>3 DEF AssignCell
    <3> HIDE DEF i
    <3>. QED  BY <2>1, <2>3, <3>1, GrowKeeps
  <2>4. CASE ~Covers(rs[i], w) /\ ~Growable(rs[i], w)
    <3> DEFINE q == InsertAt(rs, i + 1, SmallRange(w))
    <3>1. AssignCell(rs, held, w) = q
      BY <1>3, <2>4 DEF AssignCell
    <3>2. /\ i \in DOMAIN rs /\ i \in 0..Len(rs) /\ i \in Int /\ rs[i].offset <= w
          /\ \A j \in DOMAIN rs : j > i => rs[j].offset > w
      BY <1>1, <2>1 DEF IsRangeOf
    <3> HIDE DEF i
    <3>3. IsSplice(q, rs, i, <<SmallRange(w)>>)
      BY <1>1, <3>2, InsertIsSplice
    <3>4. \A j \in 1..i : q[j] = rs[j]
      BY <1>1, <3>2, InsertIsSplice
    <3> HIDE DEF q
    <3>5. ASSUME NEW j \in 1..i
          PROVE  rs[j].offset <= w
      <4>1. j \in DOMAIN rs /\ j <= i
        BY <1>1, <3>2
      <4>2. rs[j].offset <= rs[i].offset
        BY <3>2, <4>1 DEF Shape
      <4>. QED  BY <1>1, <3>2, <4>1, <4>2, RangeFacts
    <3>6. \A j \in (i + 1)..Len(rs) : rs[j].offset > w
      BY <1>1, <3>2
    <3>7. w >= rs[i].offset + Len(rs[i].mem)
      <4>1. /\ rs[i] \in RangeType /\ Sized(rs[i]) /\ rs[i].offset \in Nat
            /\ Len(rs[i].mem) \in Nat
        BY <1>1, <3>2, RangeFacts DEF Shape
      <4>2. End(rs[i]) = rs[i].offset + Len(rs[i].mem) - 1
        BY <4>1, EndIs
      <4>. QED  BY <1>1, <2>4, <3>2, <4>1, <4>2 DEF Covers
    <3>. QED  BY <3>1, <3>2, <3>3, <3>4, <3>5, <3>6, <3>7, InsertSmall
  <2>. QED  BY <2>2, <2>3, <2>4
<1>. QED  BY <1>2, <1>3

-----------------------------------------------------------------------------
(***************************************************************************)
(* forRange: the members of a set in ascending order, and the intervals it *)
(* consists of.                                                            *)
(***************************************************************************)

(***************************************************************************)
(* The enumeration of a bounded set of numbers in ascending order.         *)
(***************************************************************************)

(* The ascending order of a finite set of numbers.                          *)
LEMMA AscendingIs ==
  ASSUME NEW a \in Int, NEW b \in Int, NEW S \in SUBSET (a..b)
  PROVE  /\ Cardinality(S) \in Nat
         /\ Ascending(S) \in [1..Cardinality(S) -> S]
         /\ \A x \in S : \E k \in 1..Cardinality(S) : Ascending(S)[k] = x
         /\ \A j, k \in 1..Cardinality(S) : j < k => Ascending(S)[j] < Ascending(S)[k]
<1> DEFINE Below(w) == {v \in S : v < w}
           rank(w) == Cardinality(Below(w))
           n == Cardinality(S)
<1>1. IsFiniteSet(S) /\ n \in Nat
  BY FS_Interval, FS_Subset, FS_CardinalityType
<1>2. \A w : IsFiniteSet(Below(w)) /\ rank(w) \in Nat
  BY <1>1, FS_Subset, FS_CardinalityType
<1>3. \A v \in S : v \in Int
  OBVIOUS
<1>4. ASSUME NEW v \in S, NEW w \in S, v < w
      PROVE  rank(v) < rank(w)
  <2>1. Below(v) \in SUBSET Below(w)
    <3>1. ASSUME NEW u \in S, u < v
          PROVE  u < w
      <4>1. u \in Int /\ v \in Int /\ w \in Int
        BY <1>3
      <4>. QED  BY <1>4, <3>1, <4>1
    <3>. QED  BY <3>1
  <2>2. v \in Below(w) /\ v \notin Below(v)
    BY <1>3, <1>4
  <2> HIDE DEF Below
  <2>3. rank(v) <= rank(w) /\ rank(v) # rank(w)
    BY <1>2, <2>1, <2>2, FS_Subset
  <2>. QED  BY <1>2, <2>3
<1>5. ASSUME NEW w \in S
      PROVE  rank(w) \in 0..(n - 1)
  <2>1. Below(w) \in SUBSET S /\ w \notin Below(w)
    BY <1>3
  <2> HIDE DEF Below
  <2>2. rank(w) <= n /\ rank(w) # n
    BY <1>1, <2>1, FS_Subset
  <2>. QED  BY <1>1, <1>2, <2>2
<1> HIDE DEF rank
<1>6. ASSUME NEW v \in S, NEW w \in S, rank(v) = rank(w)
      PROVE  v = w
  <2>1. v \in Int /\ w \in Int /\ rank(v) \in Nat
    BY <1>2, <1>3
  <2>2. ~(v < w) /\ ~(w < v)
    BY <1>4, <1>6, <2>1
  <2>. QED  BY <2>1, <2>2
<1> DEFINE f == [w \in S |-> rank(w)]
<1>7. f \in Injection(S, 0..(n - 1))
  BY <1>5, <1>6 DEF Injection, IsInjective
<1>8. IsFiniteSet(0..(n - 1)) /\ Cardinality(0..(n - 1)) = n
  <2>1. 0 \in Int /\ n - 1 \in Int /\ (0 > n - 1 <=> n = 0) /\ (n - 1) - 0 + 1 = n
    BY <1>1
  <2>. QED  BY <2>1, FS_Interval
<1>9. f \in Surjection(S, 0..(n - 1))
  BY <1>7, <1>8, FS_Injection
<1>10. \A k \in 1..n : \E w \in S : rank(w) = k - 1
  <2>1. ASSUME NEW k \in 1..n
        PROVE  \E w \in S : rank(w) = k - 1
    <3>1. k - 1 \in 0..(n - 1)
      BY <1>1
    <3>. QED  BY <1>9, <3>1 DEF Surjection
  <2>. QED  BY <2>1
<1> DEFINE asc == Ascending(S)
<1>11. asc = [k \in 1..n |-> CHOOSE w \in S : rank(w) = k - 1]
  BY DEF Ascending, rank
<1> HIDE DEF asc, n
<1>12. \A k \in 1..n : asc[k] \in S /\ rank(asc[k]) = k - 1
  BY <1>10, <1>11
<1>13. asc \in [1..n -> S]
  BY <1>11, <1>12
<1>14. ASSUME NEW x \in S
       PROVE  \E k \in 1..n : asc[k] = x
  <2>1. rank(x) + 1 \in 1..n /\ (rank(x) + 1) - 1 = rank(x)
    BY <1>1, <1>5
  <2>2. asc[rank(x) + 1] \in S /\ rank(asc[rank(x) + 1]) = rank(x)
    BY <1>12, <2>1
  <2>. QED  BY <1>6, <2>1, <2>2
<1>15. ASSUME NEW j \in 1..n, NEW k \in 1..n, j < k
       PROVE  asc[j] < asc[k]
  <2>1. /\ asc[j] \in S /\ rank(asc[j]) = j - 1
        /\ asc[k] \in S /\ rank(asc[k]) = k - 1
    BY <1>12
  <2>2. j \in Int /\ k \in Int /\ asc[j] \in Int /\ asc[k] \in Int
    <3>1. asc[j] \in Int /\ asc[k] \in Int
      BY <1>3, <2>1
    <3>2. n \in Nat
      BY <1>1 DEF n
    <3>. QED  BY <3>1, <3>2
  <2>3. asc[j] # asc[k]
    BY <1>15, <2>1, <2>2
  <2>4. ~(asc[k] < asc[j])
    <3>1. asc[k] < asc[j] => k - 1 < j - 1
      BY <1>4, <2>1
    <3>. QED  BY <1>15, <2>2, <3>1
  <2>. QED  BY <2>2, <2>3, <2>4
<1>. QED  BY <1>1, <1>13, <1>14, <1>15 DEF asc, n

(* The intervals of a set of numbers within f..l: each lies in the set, in  *)
(* ascending order, and together they hold all of it that is there.         *)
LEMMA PiecesIs ==
  ASSUME NEW S \in SUBSET Int, NEW f \in Int, NEW l \in Int, f <= l
  PROVE  LET ps == Pieces(S, f, l)
         IN  /\ ps \in Seq([first : Int, last : Int])
             /\ \A k \in DOMAIN ps :
                  /\ f <= ps[k].first /\ ps[k].first <= ps[k].last /\ ps[k].last <= l
                  /\ ps[k].first .. ps[k].last \subseteq S
             /\ \A j, k \in DOMAIN ps : j < k => ps[j].last < ps[k].first
             /\ \A w \in S \cap (f..l) :
                  \E k \in DOMAIN ps : ps[k].first <= w /\ w <= ps[k].last
<1> DEFINE held == S \cap (f..l)
           firsts == {w \in held : w - 1 \notin held}
           Run(w, x) == w <= x /\ x + 1 \notin held /\ w..x \subseteq held
           lastOf(w) == CHOOSE x \in held : Run(w, x)
           order == Ascending(firsts)
           n == Cardinality(firsts)
           ps == Pieces(S, f, l)
<1>1. held \in SUBSET (f..l) /\ held \in SUBSET Int /\ \A x \in held : f <= x /\ x <= l
  OBVIOUS
<1>2. ASSUME NEW w \in held
      PROVE  \E x \in held : Run(w, x)
  <2> DEFINE T == {x \in held : w <= x /\ w..x \subseteq held}
  <2>1. T \subseteq Int /\ T # {} /\ \A x \in T : x <= l
    <3>1. w \in T
      BY <1>1
    <3>. QED  BY <1>1, <3>1
  <2>2. PICK x \in T : \A y \in T : y <= x
    BY <2>1, GreatestInt, Zenon
  <2>3. x + 1 \notin held
    <3>1. SUFFICES ASSUME x + 1 \in held
                   PROVE  FALSE
      OBVIOUS
    <3>2. x \in Int /\ w \in Int /\ w <= x /\ w..x \subseteq held
      BY <1>1
    <3>3. w..(x + 1) \subseteq held
      BY <3>1, <3>2
    <3>4. x + 1 \in T
      BY <3>1, <3>2, <3>3
    <3>. QED  BY <2>2, <3>2, <3>4
  <2>. QED  BY <2>2, <2>3
<1>3. \A w \in held : lastOf(w) \in held /\ Run(w, lastOf(w))
  BY <1>2
<1>4. ASSUME NEW w \in held
      PROVE  \E y \in firsts : y <= w /\ y..w \subseteq held
  <2> DEFINE T == {y \in held : y <= w /\ y..w \subseteq held}
  <2>1. T \subseteq Int /\ T # {} /\ \A x \in T : f <= x
    <3>1. w \in T
      BY <1>1
    <3>. QED  BY <1>1, <3>1
  <2>2. PICK y \in T : \A x \in T : y <= x
    BY <2>1, LeastInt, Zenon
  <2>3. y - 1 \notin held
    <3>1. SUFFICES ASSUME y - 1 \in held
                   PROVE  FALSE
      OBVIOUS
    <3>2. y \in Int /\ w \in Int /\ y <= w /\ y..w \subseteq held
      BY <1>1
    <3>3. (y - 1)..w \subseteq held
      BY <3>1, <3>2
    <3>4. y - 1 \in T
      BY <3>1, <3>2, <3>3
    <3>. QED  BY <2>2, <3>2, <3>4
  <2>. QED  BY <2>2, <2>3
<1>5. ps = [k \in DOMAIN order |-> [first |-> order[k], last |-> lastOf(order[k])]]
  <2>1. ~(f > l)
    OBVIOUS
  <2>. QED  BY <2>1, Zenon DEF Pieces
<1>6. firsts \in SUBSET (f..l) /\ firsts \subseteq held
  BY <1>1
<1> HIDE DEF lastOf, order, firsts, held, ps
<1>7. /\ n \in Nat /\ order \in [1..n -> firsts]
      /\ \A x \in firsts : \E k \in 1..n : order[k] = x
      /\ \A j, k \in 1..n : j < k => order[j] < order[k]
  <2> HIDE DEF n
  <2>1. /\ Cardinality(firsts) \in Nat
        /\ Ascending(firsts) \in [1..Cardinality(firsts) -> firsts]
        /\ \A x \in firsts : \E k \in 1..Cardinality(firsts) : Ascending(firsts)[k] = x
        /\ \A j, k \in 1..Cardinality(firsts) :
             j < k => Ascending(firsts)[j] < Ascending(firsts)[k]
    BY <1>6, AscendingIs
  <2>. QED  BY <2>1 DEF order, n
<1> HIDE DEF n
<1>8. \A k \in 1..n : order[k] \in firsts /\ order[k] \in held /\ order[k] \in Int
  BY <1>1, <1>6, <1>7
<1>9. /\ DOMAIN ps = 1..n
      /\ \A k \in 1..n : ps[k].first = order[k] /\ ps[k].last = lastOf(order[k])
  BY <1>5, <1>7
<1>10. \A k \in 1..n : ps[k].last \in held /\ ps[k].last \in Int /\ Run(ps[k].first, ps[k].last)
  BY <1>1, <1>3, <1>8, <1>9
<1>11. ps \in Seq([first : Int, last : Int])
  <2>1. ps \in [1..n -> [first : Int, last : Int]]
    <3>1. \A k \in 1..n : lastOf(order[k]) \in Int /\ order[k] \in Int
      BY <1>1, <1>3, <1>8
    <3>2. ps = [k \in 1..n |-> [first |-> order[k], last |-> lastOf(order[k])]]
      BY <1>5, <1>7
    <3>. QED  BY <3>1, <3>2
  <2> DEFINE R == [first : Int, last : Int]
  <2>2. ps \in [1..n -> R] /\ n \in Nat
    BY <1>7, <2>1
  <2> HIDE DEF R
  <2>3. ps \in Seq(R)
    BY <2>2
  <2>. QED  BY <2>3 DEF R
<1>12. ASSUME NEW k \in 1..n
       PROVE  /\ f <= ps[k].first /\ ps[k].first <= ps[k].last /\ ps[k].last <= l
              /\ ps[k].first .. ps[k].last \subseteq S
  BY <1>1, <1>8, <1>9, <1>10 DEF held
<1>13. ASSUME NEW j \in 1..n, NEW k \in 1..n, j < k
       PROVE  ps[j].last < ps[k].first
  <2>1. order[j] < order[k] /\ order[j] \in Int /\ order[k] \in Int /\ order[k] - 1 \notin held
    BY <1>7, <1>8, <1>13 DEF firsts
  <2>2. ps[j].last \in Int /\ order[j] .. ps[j].last \subseteq held
    BY <1>9, <1>10
  <2>3. ~(order[k] <= ps[j].last)
    <3>1. order[k] <= ps[j].last => order[k] - 1 \in order[j] .. ps[j].last
      BY <2>1, <2>2
    <3>. QED  BY <2>1, <2>2, <3>1
  <2>. QED  BY <1>9, <2>1, <2>2, <2>3
<1>14. ASSUME NEW w \in held
       PROVE  \E k \in 1..n : ps[k].first <= w /\ w <= ps[k].last
  <2>1. PICK y \in firsts : y <= w /\ y..w \subseteq held
    BY <1>4
  <2>2. PICK k \in 1..n : order[k] = y
    BY <1>7
  <2>3. /\ ps[k].first = y /\ ps[k].last \in Int /\ y <= ps[k].last
        /\ ps[k].last + 1 \notin held /\ y \in Int /\ w \in Int
    BY <1>1, <1>8, <1>9, <1>10, <2>2
  <2>4. ~(ps[k].last < w)
    <3>1. ps[k].last < w => ps[k].last + 1 \in y..w
      BY <2>3
    <3>. QED  BY <2>1, <2>3, <3>1
  <2>. QED  BY <2>1, <2>3, <2>4
<1>. QED  BY <1>9, <1>11, <1>12, <1>13, <1>14 DEF ps, held

-----------------------------------------------------------------------------
(***************************************************************************)
(* newRange: the created range, and the pieces of the range it cuts.       *)
(***************************************************************************)

(***************************************************************************)
(* newRange.                                                               *)
(***************************************************************************)

(* The length of an interval does not wrap below the type's last number.    *)
LEMMA LengthIs ==
  ASSUME NEW f \in Nat, NEW l \in Nat, f <= l, l < MaxWire
  PROVE  LengthOf(f, l) = 1 + l - f
<1> DEFINE n == 1 + l - f
<1>1. n \in Nat /\ n < MaxWire + 1 /\ MaxWire + 1 \in Nat
  BY Numbers
<1>2. LengthOf(f, l) = n % (MaxWire + 1)
  BY DEF LengthOf
<1>3. \A a, b \in Nat : a < b => a % b = a
  OBVIOUS
<1> HIDE DEF n
<1>4. n % (MaxWire + 1) = n
  BY <1>1, <1>3
<1>. QED  BY <1>2, <1>4 DEF n

(* What newRange puts in for f..l, when it does not clash with the ranges.  *)
LEMMA CreatedIs ==
  ASSUME NEW f \in Nat, NEW l \in Nat, f <= l, l < MaxWire
  PROVE  LET r == NewRangeOf(f, RawCells(LengthOf(f, l)))
         IN  /\ r \in RangeType /\ Sized(r)
             /\ r.offset = f /\ r.kind = "new"
             /\ Len(r.mem) = 1 + l - f
             /\ \A k \in DOMAIN r.mem : r.mem[k] = Raw
<1> DEFINE n == LengthOf(f, l)
           mem == RawCells(n)
           r == NewRangeOf(f, mem)
<1>1. n = 1 + l - f /\ n \in Nat
  BY LengthIs
<1> HIDE DEF n
<1>2. mem \in Seq(Cell) /\ Len(mem) = n /\ \A k \in DOMAIN mem : mem[k] = Raw
  <2>1. Raw \in Cell
    BY DEF Cell
  <2>2. mem \in [1..n -> Cell] /\ \A k \in 1..n : mem[k] = Raw
    BY <2>1 DEF RawCells
  <2> HIDE DEF mem
  <2>. QED  BY <1>1, <2>2
<1> HIDE DEF mem
<1>3. r = [offset |-> f, kind |-> "new", canGrow |-> FALSE, mem |-> mem]
  BY DEF NewRangeOf
<1>4. f \in Wire
  BY Numbers DEF Wire
<1>5. r \in RangeType /\ r.offset = f /\ r.kind = "new" /\ r.canGrow = FALSE /\ r.mem = mem
  BY <1>2, <1>3, <1>4 DEF RangeType
<1> HIDE DEF r
<1>6. Sized(r)
  <2>1. r.offset + Len(r.mem) = l + 1
    BY <1>1, <1>2, <1>5
  <2>. QED  BY <1>5, <2>1, Numbers DEF Sized
<1>. QED  BY <1>1, <1>2, <1>5, <1>6 DEF r, mem, n

(* A new range ends before the next range starts, and starts after a        *)
(* declared or mapped one that starts below it ends.                        *)
LEMMA NoClash ==
  ASSUME NEW rs, NEW given, NEW first \in Int, Shape(rs, given, first),
         NEW f \in Nat, NEW l \in Nat, f <= l, rs # <<>>,
         ~NewRangeClashes(rs, given, first, f, l)
  PROVE  /\ \A j \in DOMAIN rs : rs[j].offset > f => rs[j].offset > l
         /\ \A j \in DOMAIN rs : rs[j].offset <= f /\ rs[j].kind # "grown"
                                   => rs[j].offset + Len(rs[j].mem) <= f
         /\ given \cap (f..l) = {}
<1> DEFINE i == FindRange(rs, f)
<1>1. /\ rs \in Seq(RangeType) /\ DOMAIN rs = 1..Len(rs) /\ Len(rs) \in Nat
      /\ 1 \in DOMAIN rs
  BY DEF Shape
<1>2. \A j \in DOMAIN rs : /\ rs[j].offset \in Nat /\ Len(rs[j].mem) \in Nat /\ j \in Int
                           /\ rs[j].kind \in {"new", "mapped", "grown"}
                           /\ rs[j] \in RangeType /\ Sized(rs[j])
                           /\ End(rs[j]) = rs[j].offset + Len(rs[j].mem) - 1
  BY <1>1, RangeFacts, EndIs DEF Shape
<1>3. f >= first /\ given \cap (f..l) = {}
  BY DEF NewRangeClashes
<1>4. ASSUME NEW j \in DOMAIN rs, rs[j].offset > f, rs[j].kind # "new"
      PROVE  rs[j].offset > l
  <2>1. CASE rs[j].kind = "grown"
    <3>1. rs[j].offset \in given
      BY <2>1 DEF Shape
    <3>. QED  BY <1>2, <1>3, <1>4, <3>1
  <2>2. CASE rs[j].kind = "mapped"
    <3>1. rs[j].offset + Len(rs[j].mem) <= first
      BY <2>2 DEF Shape
    <3>. QED  BY <1>2, <1>3, <1>4, <3>1
  <2>. QED  BY <1>2, <1>4, <2>1, <2>2
<1>5. CASE f < rs[1].offset
  <2>1. ~(l >= rs[1].offset /\ rs[1].kind = "new")
    BY <1>5 DEF NewRangeClashes
  <2>2. rs[1].offset > l
    BY <1>1, <1>2, <1>4, <1>5, <2>1
  <2>3. \A j \in DOMAIN rs : rs[1].offset <= rs[j].offset
    BY <1>1 DEF Shape
  <2>. QED  BY <1>1, <1>2, <1>3, <1>5, <2>2, <2>3
<1>6. CASE ~(f < rs[1].offset)
  <2>1. IsRangeOf(rs, f, i)
    BY <1>1, <1>6, Position
  <2>2. /\ ~(i < Len(rs) /\ l >= rs[i + 1].offset /\ rs[i + 1].kind = "new")
        /\ ~(f <= End(rs[i]) /\ rs[i].kind = "new")
    BY <1>1, <1>2, <1>6 DEF NewRangeClashes
  <2>3. i \in DOMAIN rs /\ rs[i].offset <= f /\ \A j \in DOMAIN rs : j > i => rs[j].offset > f
    BY <2>1 DEF IsRangeOf
  <2> HIDE DEF i
  <2>4. ASSUME NEW j \in DOMAIN rs, rs[j].offset > f
        PROVE  rs[j].offset > l
    <3>1. j > i
      <4>1. j <= i => rs[j].offset <= rs[i].offset
        BY <2>3 DEF Shape
      <4>. QED  BY <1>2, <2>3, <2>4, <4>1
    <3>2. i + 1 \in DOMAIN rs /\ i < Len(rs) /\ i + 1 <= j /\ i + 1 > i
      BY <1>1, <1>2, <2>3, <3>1
    <3>3. rs[i + 1].offset > f /\ rs[i + 1].offset <= rs[j].offset
      BY <2>3, <3>2 DEF Shape
    <3>4. rs[i + 1].offset > l
      BY <1>2, <1>4, <2>2, <3>2, <3>3
    <3>. QED  BY <1>2, <3>2, <3>3, <3>4
  <2>5. ASSUME NEW j \in DOMAIN rs, rs[j].offset <= f, rs[j].kind # "grown"
        PROVE  rs[j].offset + Len(rs[j].mem) <= f
    <3>1. CASE rs[j].kind = "mapped"
      <4>1. rs[j].offset + Len(rs[j].mem) <= first
        BY <3>1 DEF Shape
      <4>. QED  BY <1>2, <1>3, <4>1
    <3>2. CASE rs[j].kind = "new" /\ j = i
      BY <1>2, <2>2, <2>3, <3>2
    <3>3. CASE j # i
      <4>1. j < i
        BY <1>2, <2>3, <2>5, <3>3
      <4>2. rs[j].offset + Len(rs[j].mem) <= rs[i].offset
        BY <2>3, <2>5, <4>1 DEF Shape
      <4>. QED  BY <1>2, <2>3, <4>2
    <3>. QED  BY <1>2, <2>5, <3>1, <3>2, <3>3
  <2>. QED  BY <1>3, <2>4, <2>5
<1>. QED  BY <1>5, <1>6

(* The pieces that a new range cuts off the i-th range: the wires above its *)
(* last one, l, that are held there. A cut at the very end of the range may *)
(* leave an empty piece.                                                    *)
CutOff(ps, rs, held, i, l) ==
  /\ ps \in Seq([first : Int, last : Int])
  /\ ps # <<>> => l < rs[i].offset + Len(rs[i].mem)
  /\ \A k \in DOMAIN ps :
       /\ l < ps[k].first /\ ps[k].first <= ps[k].last + 1
       /\ ps[k].first \in held
       /\ ps[k].last < rs[i].offset + Len(rs[i].mem)
       /\ \A w \in ps[k].first .. ps[k].last : w \in held /\ HeldIn(rs, w, i)
       /\ \A j \in DOMAIN rs : j > i => ps[k].first <= rs[j].offset
  /\ \A j, k \in DOMAIN ps : j < k => ps[j].last < ps[k].first
  /\ \A w \in held : HeldIn(rs, w, i) /\ w > l =>
       \E k \in DOMAIN ps : ps[k].first <= w /\ w <= ps[k].last

(* The pieces of a cut range are the intervals of its wires after the cut.  *)
LEMMA CutPiecesAre ==
  ASSUME NEW rs, NEW given, NEW first, NEW held \in SUBSET (0..MaxWire),
         Shape(rs, given, first), Cells(rs, held), held \subseteq given,
         NEW i \in DOMAIN rs, NEW l \in Nat, rs[i].offset <= l, l \notin held,
         \A j \in DOMAIN rs : j > i => rs[j].offset > l,
         \A w \in held : l < w /\ w <= End(rs[i])
                           => \A j \in DOMAIN rs : j > i => rs[j].offset > w
  PROVE  CutOff(CutPieces(rs, held, i, l), rs, held, i, l)
<1> DEFINE ps == CutPieces(rs, held, i, l)
           e == End(rs[i])
<1>1. /\ rs \in Seq(RangeType) /\ rs[i].offset \in Nat /\ Len(rs[i].mem) \in Nat
      /\ e = rs[i].offset + Len(rs[i].mem) - 1 /\ e \in Nat
      /\ \A j \in DOMAIN rs : rs[j].offset \in Nat /\ j \in Int
  BY RangeFacts, EndIs DEF Shape
<1>2. held \in SUBSET Int /\ l + 1 \in Int
  BY Numbers
<1> HIDE DEF e
<1>3. ASSUME NEW w \in held, l < w, w <= e
      PROVE  HeldIn(rs, w, i)
  <2>1. w \in Int /\ rs[i].offset <= w
    <3>1. w \in Int
      BY <1>2
    <3>. QED  BY <1>1, <1>3, <3>1
  <2>2. IsRangeOf(rs, w, i)
    BY <1>3, <2>1 DEF IsRangeOf, e
  <2>3. PICK j \in DOMAIN rs : HeldIn(rs, w, j)
    BY DEF Cells
  <2>4. j = i
    BY <1>1, <2>1, <2>2, <2>3, RangeOfUnique DEF HeldIn
  <2>. QED  BY <2>3, <2>4
<1>4. ASSUME NEW w \in held, HeldIn(rs, w, i)
      PROVE  w \in Int /\ w <= e
  <2>1. w \in Int
    BY <1>2
  <2>. QED  BY <1>1, <1>4, <2>1 DEF HeldIn
<1>5. CASE l < e
  <2>1. l + 1 <= e /\ l <= e /\ e \in Int
    BY <1>1, <1>5
  <2>2. ps = Pieces(held, l + 1, e)
    BY <2>1 DEF CutPieces, e
  <2> HIDE DEF ps
  <2>3. /\ ps \in Seq([first : Int, last : Int])
        /\ \A k \in DOMAIN ps :
             /\ l + 1 <= ps[k].first /\ ps[k].first <= ps[k].last /\ ps[k].last <= e
             /\ ps[k].first .. ps[k].last \subseteq held
        /\ \A j, k \in DOMAIN ps : j < k => ps[j].last < ps[k].first
        /\ \A w \in held \cap ((l + 1)..e) :
             \E k \in DOMAIN ps : ps[k].first <= w /\ w <= ps[k].last
    BY <1>2, <2>1, <2>2, PiecesIs
  <2>4. \A k \in DOMAIN ps : ps[k].first \in Int /\ ps[k].last \in Int
    <3> DEFINE R == [first : Int, last : Int]
    <3>1. ps \in Seq(R)
      BY <2>3
    <3>2. \A p \in R : p.first \in Int /\ p.last \in Int
      OBVIOUS
    <3> HIDE DEF R
    <3>. QED  BY <3>1, <3>2
  <2>5. ASSUME NEW k \in DOMAIN ps
        PROVE  /\ l < ps[k].first /\ ps[k].first <= ps[k].last + 1
               /\ ps[k].first \in held
               /\ ps[k].last < rs[i].offset + Len(rs[i].mem)
               /\ \A w \in ps[k].first .. ps[k].last : w \in held /\ HeldIn(rs, w, i)
               /\ \A j \in DOMAIN rs : j > i => ps[k].first <= rs[j].offset
    <3>0. /\ l + 1 <= ps[k].first /\ ps[k].first <= ps[k].last /\ ps[k].last <= e
          /\ ps[k].first .. ps[k].last \subseteq held
          /\ ps[k].first \in Int /\ ps[k].last \in Int
      BY <2>3, <2>4
    <3> DEFINE u == ps[k].first
               v == ps[k].last
               z == rs[i].offset + Len(rs[i].mem)
    <3>5. e = z - 1 /\ z \in Int
      BY <1>1
    <3> HIDE DEF u, v, z
    <3>6. l + 1 <= u /\ u <= v /\ v <= e /\ u \in Int /\ v \in Int
      BY <3>0 DEF u, v
    <3>7. l < u /\ u <= v + 1 /\ v < z /\ u \in u..v
      BY <3>5, <3>6
    <3>1. l < ps[k].first /\ ps[k].first <= ps[k].last + 1
          /\ ps[k].last < rs[i].offset + Len(rs[i].mem)
          /\ ps[k].first \in ps[k].first .. ps[k].last
      BY <3>7 DEF u, v, z
    <3>2. ASSUME NEW w \in ps[k].first .. ps[k].last
          PROVE  w \in held /\ l < w /\ w <= e
      <4>1. w \in held
        BY <3>0
      <4>2. w \in Int /\ ps[k].first <= w /\ w <= ps[k].last
        BY <3>0
      <4>. QED  BY <1>1, <3>0, <4>1, <4>2
    <3>3. ps[k].first \in held /\ l < ps[k].first /\ ps[k].first <= e
      BY <3>1, <3>2
    <3>4. \A j \in DOMAIN rs : j > i => ps[k].first <= rs[j].offset
      BY <1>1, <2>4, <3>3 DEF e
    <3>. QED  BY <1>3, <3>1, <3>2, <3>3, <3>4
  <2>6. ASSUME NEW w \in held, HeldIn(rs, w, i), w > l
        PROVE  \E k \in DOMAIN ps : ps[k].first <= w /\ w <= ps[k].last
    BY <1>1, <1>4, <2>3, <2>6
  <2>7. l < rs[i].offset + Len(rs[i].mem)
    BY <1>1, <1>5
  <2>. QED  BY <2>3, <2>5, <2>6, <2>7 DEF ps, CutOff
<1>6. CASE l = e
  <2>1. l + 1 > e /\ ~(l + 1 <= e) /\ l <= e
    BY <1>1, <1>6
  <2> DEFINE firsts == IF held \cap {l + 1, e} # {} THEN {l + 1} ELSE {}
             order == Ascending(firsts)
  <2>2. ps = Pieces(held, l + 1, e)
    BY <2>1 DEF CutPieces, e
  <2>3. ps = [k \in DOMAIN order |-> [first |-> order[k], last |-> e]]
    BY <2>1, <2>2, Zenon DEF Pieces
  <2>4. firsts \in SUBSET ((l + 1)..(l + 1)) /\ l + 1 \in Int
    OBVIOUS
  <2>5. \A x \in firsts : x = l + 1 /\ x \in held
    BY <1>6
  <2> HIDE DEF firsts, ps
  <2>6. /\ Cardinality(firsts) \in Nat
        /\ order \in [1..Cardinality(firsts) -> firsts]
        /\ \A j, k \in 1..Cardinality(firsts) : j < k => order[j] < order[k]
    BY <2>4, AscendingIs
  <2> DEFINE n == Cardinality(firsts)
  <2> HIDE DEF order, n
  <2>7. /\ DOMAIN ps = 1..n
        /\ \A k \in DOMAIN ps : /\ ps[k].first = l + 1 /\ ps[k].last = e
                                /\ ps[k].first \in held
    BY <2>3, <2>5, <2>6 DEF n
  <2>8. ps \in Seq([first : Int, last : Int])
    <3> DEFINE R == [first : Int, last : Int]
    <3>1. \A k \in 1..n : [first |-> order[k], last |-> e] \in R
      BY <1>1, <1>2, <2>3, <2>7
    <3>2. ps \in [1..n -> R] /\ n \in Nat
      BY <2>3, <2>6, <2>7, <3>1 DEF n
    <3> HIDE DEF R
    <3>3. ps \in Seq(R)
      BY <3>2
    <3>. QED  BY <3>3 DEF R
  <2>9. \A j, k \in DOMAIN ps : ~(j < k)
    <3>1. ASSUME NEW j \in 1..n, NEW k \in 1..n, j < k
          PROVE  FALSE
      <4>1. order[j] < order[k] /\ order[j] \in firsts /\ order[k] \in firsts
        BY <2>6, <3>1 DEF n
      <4>2. order[j] = l + 1 /\ order[k] = l + 1
        BY <2>5, <4>1
      <4>. QED  BY <1>2, <4>1, <4>2
    <3>. QED  BY <2>7, <3>1
  <2>10. ASSUME NEW k \in DOMAIN ps
         PROVE  /\ l < ps[k].first /\ ps[k].first <= ps[k].last + 1
                /\ ps[k].first \in held
                /\ ps[k].last < rs[i].offset + Len(rs[i].mem)
                /\ ps[k].first .. ps[k].last = {}
                /\ \A j \in DOMAIN rs : j > i => ps[k].first <= rs[j].offset
    <3>1. ps[k].first = l + 1 /\ ps[k].last = e /\ ps[k].first \in held
      BY <2>7
    <3> DEFINE u == ps[k].first
               v == ps[k].last
               z == rs[i].offset + Len(rs[i].mem)
    <3>2. e = z - 1 /\ z \in Int /\ l \in Int
      BY <1>1, <1>2
    <3> HIDE DEF u, v, z
    <3>3. u = l + 1 /\ v = e
      BY <3>1 DEF u, v
    <3>4. l < u /\ u <= v + 1 /\ v < z /\ u..v = {}
      BY <1>6, <3>2, <3>3
    <3>5. \A j \in DOMAIN rs : j > i => ps[k].first <= rs[j].offset
      <4> SUFFICES ASSUME NEW j \in DOMAIN rs, j > i
                   PROVE  ps[k].first <= rs[j].offset
        OBVIOUS
      <4>1. rs[j].offset \in Nat /\ rs[j].offset > l
        BY <1>1
      <4>. QED  BY <3>1, <4>1
    <3>6. l < ps[k].first /\ ps[k].first <= ps[k].last + 1
          /\ ps[k].last < rs[i].offset + Len(rs[i].mem)
      BY <3>4, Zenon DEF u, v, z
    <3>7. ps[k].first .. ps[k].last = {}
      BY <3>4 DEF u, v
    <3>. QED  BY <3>1, <3>5, <3>6, <3>7, Zenon
  <2>11. \A w \in held : ~(HeldIn(rs, w, i) /\ w > l)
    <3>1. ASSUME NEW w \in held, HeldIn(rs, w, i), w > l
          PROVE  FALSE
      <4>1. w \in Int /\ w <= e
        BY <1>4, <3>1, Zenon
      <4>2. l \in Int /\ e \in Int
        BY <1>1
      <4>. QED  BY <1>6, <3>1, <4>1, <4>2
    <3>. QED  BY <3>1, Zenon
  <2>12. l < rs[i].offset + Len(rs[i].mem)
    BY <1>1, <1>6
  <2>. QED  BY <2>8, <2>9, <2>10, <2>11, <2>12 DEF ps, CutOff
<1>7. CASE e < l
  <2>1. ps = <<>>
    BY <1>1, <1>7 DEF CutPieces, e
  <2>2. \A w \in held : ~(HeldIn(rs, w, i) /\ w > l)
    <3>1. ASSUME NEW w \in held, HeldIn(rs, w, i), w > l
          PROVE  FALSE
      <4>1. w \in Int /\ w <= e
        BY <1>4, <3>1, Zenon
      <4>2. l \in Int /\ e \in Int
        BY <1>1
      <4>. QED  BY <1>7, <3>1, <4>1, <4>2
    <3>. QED  BY <3>1, Zenon
  <2>. QED  BY <2>1, <2>2 DEF CutOff
<1>. QED  BY <1>1, <1>5, <1>6, <1>7

(* The members of two sequences, one after the other.                       *)
LEMMA ConcatIs ==
  ASSUME NEW S, NEW a \in Seq(S), NEW b \in Seq(S), NEW s, s = a \o b
  PROVE  /\ s \in Seq(S) /\ Len(s) = Len(a) + Len(b)
         /\ \A k \in 1..Len(a) : s[k] = a[k]
         /\ \A k \in 1..Len(b) : s[Len(a) + k] = b[k]
<1>1. /\ s \in Seq(S) /\ Len(s) = Len(a) + Len(b)
      /\ \A k \in 1..(Len(a) + Len(b)) :
           s[k] = IF k <= Len(a) THEN a[k] ELSE b[k - Len(a)]
  BY ConcatProperties
<1>2. Len(a) \in Nat /\ Len(b) \in Nat
  OBVIOUS
<1>3. \A k \in 1..Len(a) : s[k] = a[k]
  BY <1>1, <1>2
<1>4. ASSUME NEW k \in 1..Len(b)
      PROVE  s[Len(a) + k] = b[k]
  <2>1. /\ Len(a) + k \in 1..(Len(a) + Len(b)) /\ ~(Len(a) + k <= Len(a))
        /\ (Len(a) + k) - Len(a) = k
    BY <1>2
  <2>. QED  BY <1>1, <2>1
<1>. QED  BY <1>1, <1>3, <1>4

(* The range of the wires of one piece: they keep their values.             *)
LEMMA PieceRangeIs ==
  ASSUME NEW r \in RangeType, NEW p \in [first : Int, last : Int],
         p.first \in 1..MaxWire, p.first <= p.last + 1, p.last < MaxWire + 1,
         \A w \in p.first .. p.last : CellOf(r, w) = w
  PROVE  LET q == PieceRange(r, p)
         IN  /\ q \in RangeType /\ Sized(q)
             /\ q.offset = p.first /\ q.kind = "grown"
             /\ Len(q.mem) = 1 + p.last - p.first
             /\ DOMAIN q.mem = 1..(1 + p.last - p.first)
             /\ \A k \in DOMAIN q.mem : q.mem[k] = p.first + k - 1
<1> DEFINE n == 1 + p.last - p.first
           mem == [k \in 1..n |-> MovedFrom(CellOf(r, p.first + k - 1))]
           q == PieceRange(r, p)
<1>1. p.first \in Nat /\ p.last \in Int /\ n \in Nat /\ p.first + n = p.last + 1
      /\ p.first <= MaxWire
  BY Numbers
<1>2. ASSUME NEW k \in 1..n
      PROVE  mem[k] = p.first + k - 1 /\ mem[k] \in Cell
  <2> DEFINE w == p.first + k - 1
  <2>1. w \in p.first .. p.last /\ w \in Int /\ 0 <= w /\ w <= MaxWire
    BY <1>1, Numbers
  <2>2. CellOf(r, w) = w /\ w # Raw
    BY <2>1, Numbers
  <2>3. mem[k] = MovedFrom(CellOf(r, w))
    OBVIOUS
  <2>4. w \in Cell
    BY <2>1, Numbers DEF Cell, Wire
  <2> HIDE DEF w, mem
  <2>5. mem[k] = w
    BY <2>2, <2>3 DEF MovedFrom
  <2>. QED  BY <2>4, <2>5 DEF w
<1>3. mem \in [1..n -> Cell]
  BY <1>2
<1>4. q = [offset |-> p.first, kind |-> "grown", canGrow |-> TRUE, mem |-> mem]
  BY DEF PieceRange, GrownRangeOf
<1> HIDE DEF mem, n
<1>5. mem \in Seq(Cell) /\ Len(mem) = n /\ DOMAIN mem = 1..n
  BY <1>1, <1>3
<1>6. p.first \in Wire
  BY DEF Wire
<1>7. /\ q \in RangeType /\ q.offset = p.first /\ q.kind = "grown" /\ q.canGrow = TRUE
      /\ q.mem = mem
  BY <1>4, <1>5, <1>6 DEF RangeType
<1> HIDE DEF q
<1>8. Sized(q)
  <2>1. q.offset + Len(q.mem) = p.last + 1 /\ p.last + 1 \in Int
    BY <1>1, <1>5, <1>7
  <2>. QED  BY <1>1, <1>7, <2>1, Numbers DEF Sized
<1>. QED  BY <1>2, <1>5, <1>7, <1>8 DEF q, n

(* The i-th range without the wires of the pieces.                          *)
LEMMA CutRangeIs ==
  ASSUME NEW r \in RangeType, NEW ps
  PROVE  LET q == CutRange(r, ps)
         IN  /\ q \in RangeType /\ SameSpan(q, r)
             /\ DOMAIN q.mem = DOMAIN r.mem
             /\ \A k \in DOMAIN r.mem :
                  /\ q.mem[k] # Raw => q.mem[k] = r.mem[k]
                  /\ \/ q.mem[k] = r.mem[k]
                     \/ \E p \in DOMAIN ps :
                          r.offset + k - 1 \in ps[p].first .. ps[p].last
                  /\ (\E p \in DOMAIN ps :
                        r.offset + k - 1 \in ps[p].first .. ps[p].last)
                     => q.mem[k] = Raw
<1> DEFINE cutOff(k) == \E p \in DOMAIN ps : r.offset + k - 1 \in ps[p].first .. ps[p].last
           mem == [k \in DOMAIN r.mem |-> IF cutOff(k) THEN Raw ELSE r.mem[k]]
           q == CutRange(r, ps)
<1>1. r.mem \in Seq(Cell) /\ Len(r.mem) \in Nat /\ DOMAIN r.mem = 1..Len(r.mem)
      /\ r.mem \in [1..Len(r.mem) -> Cell] /\ Raw \in Cell
  BY DEF RangeType, Cell
<1> HIDE DEF cutOff
<1>2. mem \in [1..Len(r.mem) -> Cell]
  BY <1>1
<1>3. DOMAIN mem = DOMAIN r.mem
  OBVIOUS
<1>4. \A k \in DOMAIN r.mem : mem[k] = IF cutOff(k) THEN Raw ELSE r.mem[k]
  OBVIOUS
<1>5. q = [r EXCEPT !.mem = mem]
  BY Zenon DEF CutRange, cutOff
<1> HIDE DEF mem
<1>6. mem \in Seq(Cell) /\ Len(mem) = Len(r.mem)
  BY <1>1, <1>2
<1>7. /\ q \in RangeType /\ q.mem = mem /\ q.offset = r.offset /\ q.kind = r.kind
      /\ q.canGrow = r.canGrow
  BY <1>5, <1>6 DEF RangeType
<1> HIDE DEF q
<1>8. SameSpan(q, r)
  BY <1>6, <1>7 DEF SameSpan
<1>9. \A k \in DOMAIN r.mem : /\ q.mem[k] # Raw => q.mem[k] = r.mem[k]
                              /\ q.mem[k] = r.mem[k] \/ cutOff(k)
                              /\ cutOff(k) => q.mem[k] = Raw
  BY <1>4, <1>7
<1>. QED  BY <1>3, <1>7, <1>8, <1>9 DEF q, cutOff

(* The sequence that newRange leaves when it cuts the i-th range into c: the *)
(* new range r and the pieces pr come after it.                              *)
PutIn(r, pr) == <<r>> \o pr

CutBy(rs, i, c, r, pr) ==
  SubSeq(rs, 1, i - 1) \o <<c>> \o <<r>> \o pr \o SubSeq(rs, i + 1, Len(rs))

(* A cut replaces the range by itself, the created range and the pieces.    *)
LEMMA CutIsSplice ==
  ASSUME NEW rs \in Seq(RangeType), NEW i \in 1..Len(rs), NEW c \in RangeType,
         SameSpan(c, rs[i]), NEW r \in RangeType, NEW pr \in Seq(RangeType)
  PROVE  /\ IsSplice(CutBy(rs, i, c, r, pr), rs, i, PutIn(r, pr))
         /\ CutBy(rs, i, c, r, pr)[i] = c
         /\ \A j \in 1..(i - 1) : CutBy(rs, i, c, r, pr)[j] = rs[j]
         /\ Len(PutIn(r, pr)) = 1 + Len(pr) /\ PutIn(r, pr)[1] = r
         /\ \A k \in 1..Len(pr) : PutIn(r, pr)[1 + k] = pr[k]
<1> DEFINE left == SubSeq(rs, 1, i - 1)
           right == SubSeq(rs, i + 1, Len(rs))
           cc == <<c>>
           rr == <<r>>
           b == rr \o pr
           s1 == left \o cc
           s2 == s1 \o rr
           s3 == s2 \o pr
           q == s3 \o right
           n == Len(pr)
<1>1. /\ cc \in Seq(RangeType) /\ Len(cc) = 1 /\ cc[1] = c
      /\ rr \in Seq(RangeType) /\ Len(rr) = 1 /\ rr[1] = r
  OBVIOUS
<1>2. Len(rs) \in Nat /\ i \in Int /\ 1 <= i /\ i <= Len(rs) /\ n \in Nat
  OBVIOUS
<1>3. /\ left \in Seq(RangeType) /\ Len(left) = i - 1
      /\ \A k \in 1..(i - 1) : left[k] = rs[k]
  <2>1. \A k \in 1..(i - 1) : rs[k] \in RangeType
    BY <1>2
  <2>2. i - 1 \in Int /\ (1 <= i - 1 \/ i = 1)
    BY <1>2
  <2>. QED  BY <1>2, <2>1, <2>2, SubSeqProperties
<1>4. /\ right \in Seq(RangeType) /\ Len(right) = Len(rs) - i
      /\ \A k \in 1..(Len(rs) - i) : right[k] = rs[i + k]
  BY <1>2, SubSeqProperties
<1> HIDE DEF left, right, cc, rr, n
<1>5. /\ b \in Seq(RangeType) /\ Len(b) = 1 + n
      /\ b[1] = r /\ \A k \in 1..n : b[1 + k] = pr[k]
  <2>0. rr \in Seq(RangeType) /\ pr \in Seq(RangeType)
    BY <1>1
  <2>1. /\ b \in Seq(RangeType) /\ Len(b) = Len(rr) + Len(pr)
        /\ \A k \in 1..Len(rr) : b[k] = rr[k]
        /\ \A k \in 1..Len(pr) : b[Len(rr) + k] = pr[k]
    BY <2>0, ConcatIs
  <2> HIDE DEF b
  <2>. QED  BY <1>1, <1>2, <2>1 DEF n
<1> HIDE DEF b
<1>6. /\ s1 \in Seq(RangeType) /\ Len(s1) = i
      /\ \A k \in 1..(i - 1) : s1[k] = left[k]
      /\ s1[i] = c
  <2>0. left \in Seq(RangeType) /\ cc \in Seq(RangeType)
    BY <1>1, <1>3
  <2>1. /\ s1 \in Seq(RangeType) /\ Len(s1) = Len(left) + Len(cc)
        /\ \A k \in 1..Len(left) : s1[k] = left[k]
        /\ \A k \in 1..Len(cc) : s1[Len(left) + k] = cc[k]
    BY <2>0, ConcatIs
  <2> HIDE DEF s1
  <2>. QED  BY <1>1, <1>2, <1>3, <2>1
<1> HIDE DEF s1
<1>7. /\ s2 \in Seq(RangeType) /\ Len(s2) = i + 1
      /\ \A k \in 1..i : s2[k] = s1[k]
      /\ s2[i + 1] = r
  <2>0. s1 \in Seq(RangeType) /\ rr \in Seq(RangeType)
    BY <1>1, <1>6
  <2>1. /\ s2 \in Seq(RangeType) /\ Len(s2) = Len(s1) + Len(rr)
        /\ \A k \in 1..Len(s1) : s2[k] = s1[k]
        /\ \A k \in 1..Len(rr) : s2[Len(s1) + k] = rr[k]
    BY <2>0, ConcatIs
  <2> HIDE DEF s2
  <2>. QED  BY <1>1, <1>2, <1>6, <2>1
<1> HIDE DEF s2
<1>8. /\ s3 \in Seq(RangeType) /\ Len(s3) = (i + 1) + n
      /\ \A k \in 1..(i + 1) : s3[k] = s2[k]
      /\ \A k \in 1..n : s3[(i + 1) + k] = pr[k]
  <2>0. s2 \in Seq(RangeType) /\ pr \in Seq(RangeType)
    BY <1>7
  <2>1. /\ s3 \in Seq(RangeType) /\ Len(s3) = Len(s2) + Len(pr)
        /\ \A k \in 1..Len(s2) : s3[k] = s2[k]
        /\ \A k \in 1..Len(pr) : s3[Len(s2) + k] = pr[k]
    BY <2>0, ConcatIs
  <2> HIDE DEF s3
  <2>. QED  BY <1>2, <1>7, <2>1 DEF n
<1> HIDE DEF s3
<1>9. /\ q \in Seq(RangeType) /\ Len(q) = ((i + 1) + n) + (Len(rs) - i)
      /\ \A k \in 1..((i + 1) + n) : q[k] = s3[k]
      /\ \A k \in 1..(Len(rs) - i) : q[((i + 1) + n) + k] = right[k]
  <2>0. s3 \in Seq(RangeType) /\ right \in Seq(RangeType)
    BY <1>4, <1>8
  <2>1. /\ q \in Seq(RangeType) /\ Len(q) = Len(s3) + Len(right)
        /\ \A k \in 1..Len(s3) : q[k] = s3[k]
        /\ \A k \in 1..Len(right) : q[Len(s3) + k] = right[k]
    BY <2>0, ConcatIs
  <2> HIDE DEF q
  <2>. QED  BY <1>2, <1>4, <1>8, <2>1
<1> HIDE DEF q
<1>10. /\ Len(q) = Len(rs) + Len(b) /\ Len(q) = Len(rs) + n + 1
       /\ ((i + 1) + n) + (Len(rs) - i) = Len(rs) + n + 1
  BY <1>2, <1>5, <1>9
<1>11. ASSUME NEW k \in 1..(i - 1)
       PROVE  q[k] = rs[k]
  <2>1. k \in 1..((i + 1) + n) /\ k \in 1..(i + 1) /\ k \in 1..i
    BY <1>2
  <2>. QED  BY <1>3, <1>6, <1>7, <1>8, <1>9, <2>1
<1>12. q[i] = c
  <2>1. i \in 1..((i + 1) + n) /\ i \in 1..(i + 1) /\ i \in 1..i
    BY <1>2
  <2>. QED  BY <1>6, <1>7, <1>8, <1>9, <2>1
<1>13. q[i + 1] = r
  <2>1. i + 1 \in 1..((i + 1) + n) /\ i + 1 \in 1..(i + 1)
    BY <1>2
  <2>. QED  BY <1>7, <1>8, <1>9, <2>1
<1>14. ASSUME NEW k \in 1..n
       PROVE  q[i + (k + 1)] = pr[k]
  <2>1. (i + 1) + k \in 1..((i + 1) + n) /\ i + (k + 1) = (i + 1) + k
    BY <1>2
  <2>. QED  BY <1>8, <1>9, <2>1
<1>15. ASSUME NEW j \in 1..Len(b)
       PROVE  q[i + j] = b[j]
  <2>1. CASE j = 1
    BY <1>5, <1>13, <2>1
  <2>2. CASE j # 1
    <3>1. j - 1 \in 1..n /\ (j - 1) + 1 = j /\ 1 + (j - 1) = j
      BY <1>2, <1>5, <2>2
    <3>2. q[i + ((j - 1) + 1)] = pr[j - 1] /\ b[1 + (j - 1)] = pr[j - 1]
      BY <1>5, <1>14, <3>1
    <3>. QED  BY <3>1, <3>2
  <2>. QED  BY <2>1, <2>2
<1>16. ASSUME NEW j \in (i + 1)..Len(rs)
       PROVE  q[j + Len(b)] = rs[j]
  <2>1. /\ j + Len(b) = ((i + 1) + n) + (j - i)
        /\ j - i \in 1..(Len(rs) - i) /\ i + (j - i) = j
    BY <1>2, <1>5, SMTT(30)
  <2>. QED  BY <1>4, <1>9, <2>1
<1>17. \A j \in 1..i : SameSpan(q[j], rs[j])
  <2>1. \A j \in 1..i : j = i \/ j \in 1..(i - 1)
    BY <1>2
  <2>. QED  BY <1>11, <1>12, <2>1 DEF SameSpan
<1>18. IsSplice(q, rs, i, b)
  BY <1>2, <1>5, <1>9, <1>10, <1>15, <1>16, <1>17 DEF IsSplice
<1>. QED  BY <1>5, <1>11, <1>12, <1>18
          DEF CutBy, PutIn, q, s3, s2, s1, b, left, right, cc, rr, n

(* What newRange is called with: the wires are free, they stop before the   *)
(* end of the wire index type, and the cut reaches no wire of a later range.*)
LEMMA NewRangeFront ==
  ASSUME NEW rs, NEW given, NEW first \in Int, NEW held \in SUBSET (0..MaxWire),
         Shape(rs, given, first), Cells(rs, held),
         NEW f \in Nat, NEW l \in Nat, f <= l, l < MaxWire,
         \A j \in DOMAIN rs : rs[j].offset > l
  PROVE  LET r == NewRangeOf(f, RawCells(LengthOf(f, l)))
         IN  /\ Shape(<<r>> \o rs, given, first) /\ Cells(<<r>> \o rs, held)
             /\ IsSplice(<<r>> \o rs, rs, 0, <<r>>)
<1> DEFINE r == NewRangeOf(f, RawCells(LengthOf(f, l)))
           b == <<r>>
           q == b \o rs
<1>1. /\ r \in RangeType /\ Sized(r) /\ r.offset = f /\ r.kind = "new"
      /\ Len(r.mem) = 1 + l - f /\ \A k \in DOMAIN r.mem : r.mem[k] = Raw
  BY CreatedIs
<1> HIDE DEF r
<1>2. rs \in Seq(RangeType) /\ Len(rs) \in Nat /\ DOMAIN rs = 1..Len(rs) /\ 0 \in 0..Len(rs)
  BY DEF Shape
<1>3. Len(b) = 1 /\ b[1] = r /\ \A m \in 1..1 : m = 1
  OBVIOUS
<1>4. IsSplice(q, rs, 0, b)
  BY <1>1, <1>2, InsertIsSplice
<1> HIDE DEF b, q
<1>5. \A j \in DOMAIN rs : rs[j].offset \in Nat
  BY RangeFacts DEF Shape
<1>6. Fits(b[1], rs, 0, given)
  <2>1. \A j \in (0 + 1)..Len(rs) : r.offset <= rs[j].offset
                               /\ r.offset + Len(r.mem) <= rs[j].offset
    BY <1>1, <1>2, <1>5
  <2>2. \A j \in 1..0 : FALSE
    OBVIOUS
  <2>. QED  BY <1>1, <1>3, <2>1, <2>2 DEF Fits
<1>7. Shape(q, given, first)
  <2>1. \A k \in 1..Len(b) : Fits(b[k], rs, 0, given)
    BY <1>3, <1>6
  <2>2. \A k, m \in 1..Len(b) :
          k < m => /\ b[k].offset <= b[m].offset
                   /\ b[k].kind # "grown"
                        => b[k].offset + Len(b[k].mem) <= b[m].offset
    BY <1>3
  <2>. QED  BY <1>4, <2>1, <2>2, SpliceShape
<1>8. Cells(q, held)
  <2>1. \A j \in 1..0 : FALSE
    OBVIOUS
  <2>2. ASSUME NEW m \in 1..Len(b), NEW k \in DOMAIN b[m].mem, b[m].mem[k] # Raw
        PROVE  FALSE
    BY <1>1, <1>3, <2>2
  <2>3. held \in SUBSET Int /\ held \ held = {}
    BY Numbers
  <2>. QED  BY <1>4, <2>1, <2>2, <2>3, SpliceCells
<1>. QED  BY <1>4, <1>7, <1>8 DEF q, b, r

(* newRange within or above the i-th range.                                 *)
AfterCut(rs, held, i, f, l) ==
  LET pieces == CutPieces(rs, held, i, l)
  IN  CutBy(rs, i, CutRange(rs[i], pieces), NewRangeOf(f, RawCells(LengthOf(f, l))),
            [p \in DOMAIN pieces |-> PieceRange(rs[i], pieces[p])])

(* A range created inside or after another one keeps the layout.            *)
LEMMA NewRangeCut ==
  ASSUME NEW rs, NEW given, NEW first \in Int, NEW held \in SUBSET (0..MaxWire),
         Shape(rs, given, first), Cells(rs, held), held \subseteq given,
         NEW f \in Nat, NEW l \in Nat, f <= l, l < MaxWire,
         NEW i, IsRangeOf(rs, f, i), given \cap (f..l) = {},
         \A j \in DOMAIN rs : j > i => rs[j].offset > l,
         \A j \in DOMAIN rs : rs[j].offset <= f /\ rs[j].kind # "grown"
                                => rs[j].offset + Len(rs[j].mem) <= f,
         \A w \in held : l < w /\ w <= End(rs[i])
                           => \A j \in DOMAIN rs : j > i => rs[j].offset > w
  PROVE  /\ Shape(AfterCut(rs, held, i, f, l), given, first)
         /\ Cells(AfterCut(rs, held, i, f, l), held)
         /\ \E b : /\ IsSplice(AfterCut(rs, held, i, f, l), rs, i, b)
                  /\ 1 \in 1..Len(b)
                  /\ b[1] = NewRangeOf(f, RawCells(LengthOf(f, l)))
                  /\ \A k \in 1..Len(b) : k = 1 \/ b[k].kind = "grown"
<1> DEFINE r == NewRangeOf(f, RawCells(LengthOf(f, l)))
           ps == CutPieces(rs, held, i, l)
           c == CutRange(rs[i], ps)
           pr == [p \in DOMAIN ps |-> PieceRange(rs[i], ps[p])]
           b == PutIn(r, pr)
           q == CutBy(rs, i, c, r, pr)
           n == Len(ps)
<1>1. /\ r \in RangeType /\ Sized(r) /\ r.offset = f /\ r.kind = "new"
      /\ Len(r.mem) = 1 + l - f /\ \A k \in DOMAIN r.mem : r.mem[k] = Raw
  BY CreatedIs
<1> HIDE DEF r
<1>2. /\ rs \in Seq(RangeType) /\ Len(rs) \in Nat /\ DOMAIN rs = 1..Len(rs)
      /\ i \in DOMAIN rs /\ i \in 1..Len(rs) /\ i \in Int /\ rs[i] \in RangeType
      /\ rs[i].offset <= f /\ l \notin held /\ held \in SUBSET Int
  <2>1. l \in f..l
    OBVIOUS
  <2>. QED  BY <2>1, Numbers DEF Shape, IsRangeOf
<1>3. \A j \in DOMAIN rs : /\ rs[j].offset \in Nat /\ Len(rs[j].mem) \in Nat
                           /\ DOMAIN rs[j].mem = 1..Len(rs[j].mem) /\ j \in Int
  BY <1>2, RangeFacts
<1>4. /\ ps \in Seq([first : Int, last : Int])
      /\ \A k \in DOMAIN ps :
                  /\ l < ps[k].first /\ ps[k].first <= ps[k].last + 1
                  /\ ps[k].first \in held
                  /\ ps[k].last < rs[i].offset + Len(rs[i].mem)
                  /\ \A w \in ps[k].first .. ps[k].last : w \in held /\ HeldIn(rs, w, i)
                  /\ \A j \in DOMAIN rs : j > i => ps[k].first <= rs[j].offset
      /\ \A j, k \in DOMAIN ps : j < k => ps[j].last < ps[k].first
      /\ \A w \in held : HeldIn(rs, w, i) /\ w > l =>
                  \E k \in DOMAIN ps : ps[k].first <= w /\ w <= ps[k].last
  <2>1. rs[i].offset <= l
    BY <1>2, <1>3
  <2>2. CutOff(ps, rs, held, i, l)
    BY <1>2, <2>1, CutPiecesAre
  <2> HIDE DEF ps
  <2>. QED  BY <2>2 DEF CutOff
<1> HIDE DEF ps
<1>5. n \in Nat /\ DOMAIN ps = 1..n
  BY <1>4
<1>6. ASSUME NEW k \in 1..n
      PROVE  /\ ps[k].first \in Int /\ ps[k].last \in Int /\ k \in Int
             /\ pr[k] \in RangeType /\ Sized(pr[k])
             /\ pr[k].offset = ps[k].first /\ pr[k].kind = "grown"
             /\ DOMAIN pr[k].mem = 1..(1 + ps[k].last - ps[k].first)
             /\ \A x \in DOMAIN pr[k].mem : pr[k].mem[x] = ps[k].first + x - 1
             /\ Len(pr[k].mem) = 1 + ps[k].last - ps[k].first
  <2> DEFINE p == ps[k]
  <2>0. k \in DOMAIN ps
    BY <1>5
  <2>1. p \in [first : Int, last : Int] /\ pr[k] = PieceRange(rs[i], p)
    <3> DEFINE R == [first : Int, last : Int]
    <3>1. ps \in Seq(R)
      BY <1>4
    <3> HIDE DEF R
    <3>2. ps[k] \in R
      BY <2>0, <3>1
    <3>. QED  BY <2>0, <3>2 DEF R
  <2>2. l < p.first /\ p.first <= p.last + 1 /\ p.first \in held
        /\ p.last < rs[i].offset + Len(rs[i].mem)
        /\ \A w \in p.first .. p.last : HeldIn(rs, w, i)
    <3>1. k \in DOMAIN ps
      BY <1>5
    <3>. QED  BY <1>4, <3>1, Zenon
  <2> HIDE DEF p
  <2>3. p.first \in 1..MaxWire
    BY <2>1, <2>2, Numbers
  <2>4. p.last < MaxWire + 1
    <3>1. rs[i].offset + Len(rs[i].mem) <= MaxWire + 1
      BY <1>2 DEF Shape, Sized
    <3>. QED  BY <1>2, <1>3, <2>1, <2>2, <3>1, Numbers, SMTT(30)
  <2>5. \A w \in p.first .. p.last : CellOf(rs[i], w) = w
    BY <2>2 DEF HeldIn
  <2>6. LET s == PieceRange(rs[i], p)
         IN  /\ s \in RangeType /\ Sized(s)
             /\ s.offset = p.first /\ s.kind = "grown"
             /\ Len(s.mem) = 1 + p.last - p.first
             /\ DOMAIN s.mem = 1..(1 + p.last - p.first)
             /\ \A x \in DOMAIN s.mem : s.mem[x] = p.first + x - 1
    BY <1>2, <2>1, <2>2, <2>3, <2>4, <2>5, PieceRangeIs
  <2>7. p.first \in Int /\ p.last \in Int /\ k \in Int
    BY <2>1
  <2> HIDE DEF pr
  <2>. QED  BY <2>1, <2>6, <2>7 DEF p
<1>7. pr \in Seq(RangeType) /\ Len(pr) = n
  <2>1. pr = [p \in 1..n |-> PieceRange(rs[i], ps[p])]
    BY <1>5
  <2>2. \A p \in 1..n : PieceRange(rs[i], ps[p]) \in RangeType
    BY <1>5, <1>6
  <2>. QED  BY <1>5, <2>1, <2>2
<1> HIDE DEF pr, n
<1>8. /\ c \in RangeType /\ SameSpan(c, rs[i])
      /\ DOMAIN c.mem = DOMAIN rs[i].mem
      /\ \A k \in DOMAIN rs[i].mem :
           /\ c.mem[k] # Raw => c.mem[k] = rs[i].mem[k]
           /\ \/ c.mem[k] = rs[i].mem[k]
              \/ \E p \in DOMAIN ps :
                   rs[i].offset + k - 1 \in ps[p].first .. ps[p].last
           /\ (\E p \in DOMAIN ps :
                 rs[i].offset + k - 1 \in ps[p].first .. ps[p].last)
              => c.mem[k] = Raw
  BY <1>2, CutRangeIs
<1> HIDE DEF c
<1>9. /\ IsSplice(q, rs, i, b)
      /\ q[i] = c /\ \A j \in 1..(i - 1) : q[j] = rs[j]
      /\ Len(b) = 1 + n /\ b[1] = r
      /\ \A k \in 1..n : b[1 + k] = pr[k]
  <2>1. /\ IsSplice(q, rs, i, b)
        /\ q[i] = c /\ \A j \in 1..(i - 1) : q[j] = rs[j]
        /\ Len(b) = 1 + Len(pr) /\ b[1] = r
        /\ \A k \in 1..Len(pr) : b[1 + k] = pr[k]
    <3>1. c \in RangeType /\ SameSpan(c, rs[i]) /\ r \in RangeType
          /\ pr \in Seq(RangeType) /\ i \in 1..Len(rs) /\ rs \in Seq(RangeType)
      BY <1>1, <1>2, <1>7, <1>8
    <3>. QED  BY <3>1, CutIsSplice, SMTT(30)
  <2>. QED  BY <1>7, <2>1, Zenon
<1> HIDE DEF q, b
<1>10. ASSUME NEW j \in 1..i
       PROVE  /\ j \in DOMAIN rs /\ j \in Int /\ rs[j].offset <= rs[i].offset /\ rs[j].offset <= f
              /\ rs[j].kind # "grown" => rs[j].offset + Len(rs[j].mem) <= f
              /\ j = i \/ (j \in 1..(i - 1) /\ j < i)
  <2>1. j \in DOMAIN rs /\ j <= i /\ j \in Int /\ (j = i \/ (j \in 1..(i - 1) /\ j < i))
    BY <1>2
  <2>2. rs[j].offset <= rs[i].offset
    BY <1>2, <2>1 DEF Shape
  <2>3. rs[j].offset <= f
    BY <1>2, <1>3, <2>1, <2>2
  <2>. QED  BY <2>1, <2>2, <2>3
<1>11. ASSUME NEW m \in 1..Len(b)
       PROVE  m = 1 \/ (m - 1 \in 1..n /\ b[m] = pr[m - 1])
  <2>1. CASE m # 1
    <3>1. m - 1 \in 1..n /\ 1 + (m - 1) = m
      BY <1>5, <1>9, <2>1
    <3>2. b[1 + (m - 1)] = pr[m - 1]
      BY <1>9, <3>1
    <3>. QED  BY <3>1, <3>2
  <2>. QED  BY <2>1
<1>12. ASSUME NEW m \in 1..Len(b)
       PROVE  b[m].offset \in Int /\ b[m].offset >= f /\ (m # 1 => b[m].offset > l)
  <2>1. CASE m = 1
    BY <1>1, <1>9, <2>1
  <2>2. CASE m # 1
    <3>1. m - 1 \in 1..n /\ b[m] = pr[m - 1]
      BY <1>11, <2>2
    <3>2. b[m].offset = ps[m - 1].first /\ ps[m - 1].first \in Int
      BY <1>6, <3>1
    <3>3. l < ps[m - 1].first
      BY <1>4, <1>5, <3>1
    <3>. QED  BY <3>2, <3>3
  <2>. QED  BY <2>1, <2>2
<1>13. ASSUME NEW m \in 1..Len(b)
       PROVE  Fits(b[m], rs, i, given)
  <2>1. CASE m = 1
    <3>1. ASSUME NEW j \in (i + 1)..Len(rs)
          PROVE  l < rs[j].offset /\ rs[j].offset \in Nat
      <4>1. j \in DOMAIN rs /\ j > i
        BY <1>2
      <4>2. rs[j].offset > l
        BY <4>1
      <4>. QED  BY <1>3, <4>1, <4>2
    <3>2. \A j \in (i + 1)..Len(rs) : f <= rs[j].offset /\ f + (1 + l - f) <= rs[j].offset
      BY <3>1
    <3>. QED  BY <1>1, <1>9, <1>10, <2>1, <3>2 DEF Fits
  <2>2. CASE m # 1
    <3> DEFINE k == m - 1
    <3>1. k \in 1..n /\ b[m] = pr[k] /\ k \in DOMAIN ps
      BY <1>5, <1>11, <2>2
    <3> HIDE DEF k
    <3>2. /\ Sized(pr[k]) /\ pr[k].kind = "grown" /\ pr[k].offset = ps[k].first
          /\ ps[k].first \in Int /\ l < ps[k].first /\ ps[k].first \in given
      BY <1>4, <1>6, <3>1
    <3>3. \A j \in (i + 1)..Len(rs) : j \in DOMAIN rs /\ j > i
      BY <1>2
    <3>4. \A j \in (i + 1)..Len(rs) : ps[k].first <= rs[j].offset
      BY <1>4, <3>1, <3>3
    <3>5. ASSUME NEW j \in 1..i
          PROVE  /\ rs[j].offset <= ps[k].first
                 /\ rs[j].kind # "grown" => rs[j].offset + Len(rs[j].mem) <= ps[k].first
      <4>1. f <= ps[k].first
        BY <3>2
      <4>. QED  BY <1>3, <1>10, <3>2, <4>1
    <3>. QED  BY <3>1, <3>2, <3>4, <3>5 DEF Fits
  <2>. QED  BY <2>1, <2>2
<1>14. ASSUME NEW k \in 1..Len(b), NEW m \in 1..Len(b), k < m
       PROVE  /\ b[k].offset <= b[m].offset
              /\ b[k].kind # "grown" => b[k].offset + Len(b[k].mem) <= b[m].offset
  <2>1. m # 1
    BY <1>14
  <2>2. CASE k = 1
    BY <1>1, <1>9, <1>12, <2>1, <2>2
  <2>3. CASE k # 1
    <3> DEFINE k1 == k - 1
               m1 == m - 1
    <3>1. k1 \in 1..n /\ m1 \in 1..n /\ k1 < m1 /\ b[k] = pr[k1] /\ b[m] = pr[m1]
      BY <1>11, <1>14, <2>1, <2>3
    <3> HIDE DEF k1, m1
    <3>2. /\ ps[k1].last < ps[m1].first /\ ps[k1].first <= ps[k1].last + 1
      BY <1>4, <1>5, <3>1
    <3>3. /\ ps[k1].first \in Int /\ ps[k1].last \in Int /\ ps[m1].first \in Int
          /\ pr[k1].offset = ps[k1].first /\ pr[k1].kind = "grown"
          /\ pr[m1].offset = ps[m1].first
      BY <1>6, <3>1
    <3>4. ps[k1].first <= ps[m1].first
      BY <3>2, <3>3
    <3>. QED  BY <3>1, <3>3, <3>4
  <2>. QED  BY <2>2, <2>3
<1>15. Shape(q, given, first)
  BY <1>9, <1>13, <1>14, SpliceShape
(* A held wire of the first i ranges is below f, or lies in a piece.        *)
<1>16. ASSUME NEW w \in held, NEW j \in 1..i, HeldIn(rs, w, j)
       PROVE  \/ w < f
              \/ j = i /\ w > l /\ \E k \in 1..n : ps[k].first <= w /\ w <= ps[k].last
  <2>1. w \in Int /\ w \in given
    BY <1>2
  <2>2. CASE j = i
    <3>1. w < f \/ w > l
      BY <2>1
    <3>. QED  BY <1>4, <1>5, <1>16, <2>2, <3>1
  <2>3. CASE j # i
    <3>1. i > j
      BY <1>10, <2>3
    <3>2. rs[i].offset > w
      BY <1>2, <1>16, <3>1 DEF HeldIn, IsRangeOf
    <3>. QED  BY <1>2, <1>3, <2>1, <3>2
  <2>. QED  BY <2>2, <2>3
<1>17. ASSUME NEW j \in 1..i, NEW k \in DOMAIN q[j].mem, q[j].mem[k] # Raw
       PROVE  /\ q[j].mem[k] = rs[j].mem[k]
              /\ \A m \in 1..Len(b) : b[m].offset > q[j].offset + k - 1
  <2> DEFINE w == rs[j].offset + k - 1
  <2>1. /\ k \in DOMAIN rs[j].mem /\ q[j].mem[k] = rs[j].mem[k] /\ q[j].offset = rs[j].offset
        /\ j = i => q[j] = c
    <3>1. CASE j = i
      <4>1. q[j] = c /\ c.offset = rs[j].offset
        BY <1>8, <1>9, <3>1 DEF SameSpan
      <4>. QED  BY <1>8, <1>17, <3>1, <4>1
    <3>2. CASE j \in 1..(i - 1) /\ j < i
      BY <1>9, <1>17, <3>2
    <3>. QED  BY <1>10, <3>1, <3>2
  <2>2. w \in held /\ HeldIn(rs, w, j)
    BY <1>10, <1>17, <2>1 DEF Cells
  <2>3. w < f
    <3>1. ASSUME j = i, NEW p \in 1..n, ps[p].first <= w, w <= ps[p].last
          PROVE  FALSE
      <4>1. ps[p].first \in Int /\ ps[p].last \in Int /\ w \in Int
        BY <1>2, <1>6, <2>2
      <4> HIDE DEF w
      <4>2. w \in ps[p].first .. ps[p].last /\ p \in DOMAIN ps
        BY <1>5, <3>1, <4>1
      <4>3. c.mem[k] = Raw
        BY <1>8, <2>1, <3>1, <4>2 DEF w
      <4>. QED  BY <1>17, <2>1, <3>1, <4>3
    <3> HIDE DEF w
    <3>. QED  BY <1>16, <2>2, <3>1
  <2>4. w \in Int
    BY <1>2, <2>2
  <2> HIDE DEF w
  <2>5. \A m \in 1..Len(b) : b[m].offset > w
    BY <1>12, <2>3, <2>4
  <2>. QED  BY <2>1, <2>5 DEF w
<1>18. ASSUME NEW m \in 1..Len(b), NEW k \in DOMAIN b[m].mem, b[m].mem[k] # Raw
       PROVE  LET w == b[m].offset + k - 1
              IN  /\ w \in held /\ b[m].mem[k] = w
                  /\ \A p \in 1..Len(b) : p > m => b[p].offset > w
                  /\ \A p \in (i + 1)..Len(rs) : rs[p].offset > w
  <2> DEFINE w == b[m].offset + k - 1
             m1 == m - 1
  <2>1. m # 1
    BY <1>1, <1>9, <1>18
  <2>2. m1 \in 1..n /\ b[m] = pr[m1] /\ m1 \in DOMAIN ps
    BY <1>5, <1>11, <2>1
  <2> HIDE DEF m1
  <2>3. /\ ps[m1].first \in Int /\ ps[m1].last \in Int
        /\ k \in 1..(1 + ps[m1].last - ps[m1].first)
        /\ b[m].offset = ps[m1].first /\ b[m].mem[k] = ps[m1].first + k - 1
    BY <1>6, <2>2
  <2>4. /\ w = ps[m1].first + k - 1 /\ b[m].mem[k] = w /\ w \in Int
        /\ ps[m1].first <= w /\ w <= ps[m1].last /\ w \in ps[m1].first .. ps[m1].last
    BY <2>3, SMTT(30)
  <2> HIDE DEF w
  <2>5. w \in held /\ HeldIn(rs, w, i)
    BY <1>4, <2>2, <2>4
  <2>6. ASSUME NEW p \in 1..Len(b), p > m
        PROVE  b[p].offset > w
    <3> DEFINE p1 == p - 1
    <3>1. p # 1 /\ m1 < p1
      BY <2>1, <2>6 DEF m1
    <3>2. p1 \in 1..n /\ b[p] = pr[p1]
      BY <1>11, <3>1
    <3> HIDE DEF p1
    <3>3. ps[m1].last < ps[p1].first /\ ps[p1].first \in Int /\ b[p].offset = ps[p1].first
      BY <1>4, <1>5, <1>6, <2>2, <3>1, <3>2
    <3>. QED  BY <2>3, <2>4, <3>3
  <2>7. \A p \in (i + 1)..Len(rs) : p \in DOMAIN rs /\ p > i
    BY <1>2
  <2>8. \A p \in (i + 1)..Len(rs) : rs[p].offset > w
    BY <2>5, <2>7 DEF HeldIn, IsRangeOf
  <2>. QED  BY <2>4, <2>5, <2>6, <2>8 DEF w
<1>19. ASSUME NEW w \in held, NEW j \in 1..i, HeldIn(rs, w, j)
       PROVE  \/ /\ q[j].mem[w - q[j].offset + 1] = w
                 /\ \A m \in 1..Len(b) : b[m].offset > w
              \/ \E m \in 1..Len(b) : HoldsIn(b[m], w)
  <2>1. w \in Int /\ rs[j].offset \in Nat
    BY <1>2, <1>3, <1>10
  <2>2. CASE w < f
    <3>1. \A m \in 1..Len(b) : b[m].offset > w
      BY <1>12, <2>1, <2>2
    <3>2. CASE j = i
      <4> DEFINE k == w - rs[i].offset + 1
      <4>1. q[j] = c /\ q[j].offset = rs[i].offset
        BY <1>8, <1>9, <3>2 DEF SameSpan
      <4>2. k \in DOMAIN rs[i].mem /\ rs[i].mem[k] = w /\ rs[i].offset + k - 1 = w
        <5>1. HeldIn(rs, w, i)
          BY <1>19, <3>2
        <5>2. w - rs[i].offset + 1 \in DOMAIN rs[i].mem
              /\ rs[i].mem[w - rs[i].offset + 1] = w
          BY <1>2, <2>1, <5>1, HeldFacts
        <5>. QED  BY <1>2, <1>3, <2>1, <5>2, SMTT(30)
      <4>3. ASSUME NEW p \in DOMAIN ps, w \in ps[p].first .. ps[p].last
            PROVE  FALSE
        <5>1. l < ps[p].first /\ ps[p].first \in Int
          BY <1>4, <1>5, <1>6
        <5>. QED  BY <2>1, <2>2, <4>3, <5>1
      <4> HIDE DEF k
      <4>4. c.mem[k] = rs[i].mem[k]
        BY <1>8, <4>2, <4>3
      <4>. QED  BY <3>1, <4>1, <4>2, <4>4 DEF k
    <3>3. CASE j \in 1..(i - 1)
      <4>1. q[j] = rs[j]
        BY <1>9, <3>3
      <4>. QED  BY <1>19, <3>1, <4>1 DEF HeldIn, CellOf
    <3>. QED  BY <1>10, <3>2, <3>3
  <2>3. CASE \E k \in 1..n : ps[k].first <= w /\ w <= ps[k].last
    <3>1. PICK k \in 1..n : ps[k].first <= w /\ w <= ps[k].last
      BY <2>3
    <3> DEFINE m == 1 + k
    <3>2. m \in 1..Len(b) /\ b[m] = pr[k]
      BY <1>5, <1>9
    <3> HIDE DEF m
    <3>3. /\ ps[k].first \in Int /\ ps[k].last \in Int /\ pr[k].offset = ps[k].first
          /\ DOMAIN pr[k].mem = 1..(1 + ps[k].last - ps[k].first)
          /\ \A x \in DOMAIN pr[k].mem : pr[k].mem[x] = ps[k].first + x - 1
          /\ Len(pr[k].mem) = 1 + ps[k].last - ps[k].first
      BY <1>6
    <3> DEFINE x == w - ps[k].first + 1
    <3>4. x \in 1..(1 + ps[k].last - ps[k].first) /\ ps[k].first + x - 1 = w
      <4> DEFINE a == ps[k].first
                 z == ps[k].last
      <4>1. a \in Int /\ z \in Int /\ a <= w /\ w <= z /\ x = w - a + 1
        BY <3>1, <3>3
      <4> HIDE DEF a, z, x
      <4>2. x \in 1..(1 + z - a) /\ a + x - 1 = w
        BY <2>1, <4>1
      <4>. QED  BY <4>2 DEF a, z
    <3>5. w < ps[k].first + (1 + ps[k].last - ps[k].first)
      <4> DEFINE a == ps[k].first
                 z == ps[k].last
      <4>1. a \in Int /\ z \in Int /\ w <= z
        BY <3>1, <3>3
      <4> HIDE DEF a, z
      <4>2. w < a + (1 + z - a)
        BY <2>1, <4>1
      <4>. QED  BY <4>2 DEF a, z
    <3> HIDE DEF x
    <3>6. pr[k].mem[x] = w
      BY <3>3, <3>4
    <3>7. HoldsIn(b[m], w)
      BY <3>1, <3>2, <3>3, <3>5, <3>6 DEF HoldsIn, x
    <3>. QED  BY <3>2, <3>7
  <2>. QED  BY <1>16, <1>19, <2>2, <2>3
<1>20. Cells(q, held)
  <2>1. held \ held = {} /\ held \subseteq held
    OBVIOUS
  <2>. QED  BY <1>2, <1>9, <1>17, <1>18, <1>19, <2>1, SpliceCells, SMTT(60)
<1>21. 1 \in 1..Len(b)
  BY <1>5, <1>9
<1>22. q = AfterCut(rs, held, i, f, l)
  BY DEF q, c, pr, r, ps, AfterCut
<1>23. \A k \in 1..Len(b) : k = 1 \/ b[k].kind = "grown"
  BY <1>6, <1>11
<1>. QED  BY <1>9, <1>15, <1>20, <1>21, <1>22, <1>23 DEF r

(* A range of q is one of rs or one of b.                                   *)
Outcome(q, rs, b) ==
  \A m \in DOMAIN q : \/ \E j \in DOMAIN rs : SameSpan(q[m], rs[j])
                      \/ \E k \in 1..Len(b) : q[m] = b[k]

(* Every range is still there after some are put in, and so are the new     *)
(* ones, and no other.                                                      *)
LEMMA SpliceSpans ==
  ASSUME NEW q, NEW rs, NEW i, NEW b, IsSplice(q, rs, i, b)
  PROVE  /\ \A j \in DOMAIN rs : \E m \in DOMAIN q : SameSpan(q[m], rs[j])
         /\ \A k \in 1..Len(b) : \E m \in DOMAIN q : q[m] = b[k]
         /\ Outcome(q, rs, b)
<1>1. /\ i \in Int /\ Len(b) \in Nat /\ Len(rs) \in Nat /\ Len(q) = Len(rs) + Len(b)
      /\ 0 <= i /\ i <= Len(rs)
      /\ DOMAIN q = 1..Len(q) /\ DOMAIN rs = 1..Len(rs)
  BY DEF IsSplice
<1>2. ASSUME NEW j \in DOMAIN rs
      PROVE  \E m \in DOMAIN q : SameSpan(q[m], rs[j])
  <2>1. CASE j \in 1..i
    <3>1. j \in DOMAIN q /\ SameSpan(q[j], rs[j])
      BY <1>1, <2>1 DEF IsSplice
    <3>. QED  BY <3>1
  <2>2. CASE j \in (i + 1)..Len(rs)
    <3>1. j + Len(b) \in DOMAIN q /\ q[j + Len(b)] = rs[j]
      BY <1>1, <2>2 DEF IsSplice
    <3>2. SameSpan(q[j + Len(b)], rs[j])
      BY <3>1 DEF SameSpan
    <3>. QED  BY <3>1, <3>2
  <2>. QED  BY <1>1, <2>1, <2>2
<1>3. ASSUME NEW k \in 1..Len(b)
      PROVE  \E m \in DOMAIN q : q[m] = b[k]
  <2>1. i + k \in DOMAIN q /\ q[i + k] = b[k]
    BY <1>1 DEF IsSplice
  <2>. QED  BY <2>1
<1>4. ASSUME NEW m \in DOMAIN q
      PROVE  \/ \E j \in DOMAIN rs : SameSpan(q[m], rs[j])
             \/ \E k \in 1..Len(b) : q[m] = b[k]
  <2>1. CASE m \in 1..i
    <3>1. m \in DOMAIN rs /\ SameSpan(q[m], rs[m])
      BY <1>1, <2>1 DEF IsSplice
    <3>. QED  BY <3>1
  <2>2. CASE m - i \in 1..Len(b) /\ q[m] = b[m - i]
    BY <2>2
  <2>3. CASE m - Len(b) \in (i + 1)..Len(rs) /\ q[m] = rs[m - Len(b)]
    <3>1. m - Len(b) \in DOMAIN rs /\ SameSpan(q[m], rs[m - Len(b)])
      BY <1>1, <2>3 DEF SameSpan
    <3>. QED  BY <3>1
  <2>. QED  BY <2>1, <2>2, <2>3, SpliceIndex
<1>. QED  BY <1>2, <1>3, <1>4 DEF Outcome

(* A range of q is one of rs, the declared range of f..l or a grown one.    *)
Declares(q, rs, f, l) ==
  \A m \in DOMAIN q : \/ \E j \in DOMAIN rs : SameSpan(q[m], rs[j])
                      \/ q[m].kind = "grown"
                      \/ /\ q[m].offset = f /\ q[m].kind = "new"
                         /\ Len(q[m].mem) = 1 + l - f

(* newRange, when the new range cuts no wires of a later range off: the     *)
(* layout is kept, the new range is there, and every other one still is.    *)
LEMMA AddNewRangeKeeps ==
  ASSUME NEW rs, NEW given, NEW first \in Int, NEW held \in SUBSET (0..MaxWire),
         Shape(rs, given, first), Cells(rs, held), held \subseteq given,
         NEW f \in Nat, NEW l \in Nat, f <= l, l < MaxWire,
         ~NewRangeClashes(rs, given, first, f, l),
         rs # <<>> /\ f >= rs[1].offset /\ FindRange(rs, f) < Len(rs)
           => ~(\E w \in held : /\ l < w /\ w <= End(rs[FindRange(rs, f)])
                                /\ w >= rs[FindRange(rs, f) + 1].offset)
  PROVE  LET q == AddNewRange(rs, held, f, l)
         IN  /\ Shape(q, given, first) /\ Cells(q, held)
             /\ \A j \in DOMAIN rs : \E m \in DOMAIN q : SameSpan(q[m], rs[j])
             /\ \E m \in DOMAIN q : /\ q[m].offset = f /\ q[m].kind = "new"
                                    /\ Len(q[m].mem) = 1 + l - f
             /\ Declares(q, rs, f, l)
<1> DEFINE i == FindRange(rs, f)
           r == NewRangeOf(f, RawCells(LengthOf(f, l)))
           q == AddNewRange(rs, held, f, l)
<1>1. r.offset = f /\ r.kind = "new" /\ Len(r.mem) = 1 + l - f
  BY CreatedIs
<1>2. /\ rs \in Seq(RangeType) /\ Len(rs) \in Nat /\ DOMAIN rs = 1..Len(rs)
      /\ \A j \in DOMAIN rs : rs[j].offset \in Nat
  BY RangeFacts DEF Shape
<1>3. /\ \/ rs = <<>>
         \/ rs # <<>> /\ f < rs[1].offset
         \/ rs # <<>> /\ ~(f < rs[1].offset) /\ IsRangeOf(rs, f, i)
      /\ rs # <<>> => 1 \in DOMAIN rs
      /\ rs # <<>> /\ f < rs[1].offset =>
           \A j \in DOMAIN rs : rs[j].offset > f
  BY Position
<1> HIDE DEF r, i
<1>4. rs # <<>> =>
         /\ \A j \in DOMAIN rs : rs[j].offset > f => rs[j].offset > l
         /\ \A j \in DOMAIN rs : rs[j].offset <= f /\ rs[j].kind # "grown"
                                   => rs[j].offset + Len(rs[j].mem) <= f
         /\ given \cap (f..l) = {}
  BY NoClash
<1>5. CASE rs = <<>> \/ f < rs[1].offset
  <2> DEFINE b == <<r>>
  <2>1. q = b \o rs
    BY <1>5 DEF AddNewRange, r
  <2>2. \A j \in DOMAIN rs : rs[j].offset > l
    BY <1>2, <1>3, <1>4, <1>5
  <2>3. Shape(b \o rs, given, first) /\ Cells(b \o rs, held) /\ IsSplice(b \o rs, rs, 0, b)
    BY <2>2, NewRangeFront DEF r
  <2>4. Len(b) = 1 /\ b[1] = r
    OBVIOUS
  <2> HIDE DEF b, q
  <2>5. /\ \A j \in DOMAIN rs : \E m \in DOMAIN q : SameSpan(q[m], rs[j])
        /\ \E m \in DOMAIN q : q[m] = b[1]
        /\ Outcome(q, rs, b)
    <3>1. IsSplice(q, rs, 0, b) /\ 1 \in 1..Len(b)
      BY <2>1, <2>3, <2>4
    <3>2. \A k \in 1..Len(b) : \E m \in DOMAIN q : q[m] = b[k]
      BY <3>1, SpliceSpans
    <3>3. (\A j \in DOMAIN rs : \E m \in DOMAIN q : SameSpan(q[m], rs[j]))
          /\ Outcome(q, rs, b)
      BY <3>1, SpliceSpans
    <3>. QED  BY <3>1, <3>2, <3>3
  <2>6. Declares(q, rs, f, l)
    <3>1. \A k \in 1..Len(b) : b[k] = r
      BY <2>4
    <3>2. \A m \in DOMAIN q : (\E j \in DOMAIN rs : SameSpan(q[m], rs[j])) \/ q[m] = r
      BY <2>5, <3>1 DEF Outcome
    <3>. QED  BY <1>1, <3>2 DEF Declares
  <2>. QED  BY <1>1, <2>1, <2>3, <2>4, <2>5, <2>6 DEF q
<1>6. CASE rs # <<>> /\ ~(f < rs[1].offset)
  <2> DEFINE s == AfterCut(rs, held, i, f, l)
  <2>1. q = s
    BY <1>6 DEF AddNewRange, AfterCut, CutBy, r, i
  <2>2. IsRangeOf(rs, f, i)
    BY <1>3, <1>6
  <2>3. i \in DOMAIN rs /\ i \in Int /\ rs[i].offset <= f
    BY <1>2, <2>2 DEF IsRangeOf
  <2>4. \A j \in DOMAIN rs : j > i => rs[j].offset > l
    BY <1>4, <1>6, <2>2 DEF IsRangeOf
  <2>5. ASSUME NEW w \in held, l < w, w <= End(rs[i]),
               NEW j \in DOMAIN rs, j > i
        PROVE  rs[j].offset > w
    <3>1. i + 1 \in DOMAIN rs /\ i < Len(rs) /\ i + 1 <= j
      BY <1>2, <2>3, <2>5
    <3>2. f >= rs[1].offset
      BY <1>2, <1>3, <1>6
    <3>3. ~(w >= rs[i + 1].offset)
      BY <1>6, <2>5, <3>1, <3>2 DEF i
    <3>4. rs[i + 1].offset <= rs[j].offset
      BY <3>1 DEF Shape
    <3>. QED  BY <1>2, <3>1, <3>3, <3>4, Numbers
  <2>6. /\ given \cap (f..l) = {}
        /\ \A j \in DOMAIN rs : rs[j].offset <= f /\ rs[j].kind # "grown"
                                  => rs[j].offset + Len(rs[j].mem) <= f
    BY <1>4, <1>6
  <2>7. Shape(s, given, first) /\ Cells(s, held)
        /\ \E b : /\ IsSplice(s, rs, i, b) /\ 1 \in 1..Len(b) /\ b[1] = r
                 /\ \A k \in 1..Len(b) : k = 1 \/ b[k].kind = "grown"
    BY <2>2, <2>4, <2>5, <2>6, NewRangeCut DEF r
  <2> HIDE DEF s, q
  <2>8. PICK b : /\ IsSplice(s, rs, i, b) /\ 1 \in 1..Len(b) /\ b[1] = r
                 /\ \A k \in 1..Len(b) : k = 1 \/ b[k].kind = "grown"
    BY <2>7
  <2>9. /\ \A j \in DOMAIN rs : \E m \in DOMAIN q : SameSpan(q[m], rs[j])
        /\ \E m \in DOMAIN q : q[m] = b[1]
        /\ Outcome(q, rs, b)
    BY <2>1, <2>8, SpliceSpans
  <2>10. Declares(q, rs, f, l)
    BY <1>1, <2>8, <2>9 DEF Outcome, Declares
  <2>. QED  BY <1>1, <2>1, <2>7, <2>8, <2>9, <2>10 DEF q
<1>. QED  BY <1>5, <1>6

-----------------------------------------------------------------------------
(***************************************************************************)
(* deleteRange: what it reaches, what it destroys and which ranges it      *)
(* erases.                                                                 *)
(***************************************************************************)

(* The least member of a set of integers.                                   *)
LEMMA MinIs ==
  ASSUME NEW S \in SUBSET Int, S # {}, NEW b \in Int, \A x \in S : b <= x
  PROVE  Min(S) \in S /\ \A y \in S : Min(S) <= y
<1>1. \E x \in S : \A y \in S : x <= y
  BY LeastInt
<1>. QED  BY <1>1 DEF Min

(* The last wire that a deletion reaches in a range, by what bounds it.     *)
LEMMA LastInIs ==
  ASSUME NEW rs \in Seq(RangeType), NEW i \in DOMAIN rs, Sized(rs[i]), NEW l \in Nat,
         NEW w \in Int
  PROVE  /\ LastIn(rs, i, l) \in Int
         /\ w <= LastIn(rs, i, l) <=>
              /\ w <= l
              /\ rs[i].kind # "new" => /\ w < rs[i].offset + Len(rs[i].mem)
                                       /\ i < Len(rs) => w < rs[i + 1].offset
<1>1. /\ DOMAIN rs = 1..Len(rs) /\ Len(rs) \in Nat /\ i \in Int
      /\ rs[i].offset \in Nat /\ Len(rs[i].mem) \in Nat
      /\ End(rs[i]) = rs[i].offset + Len(rs[i].mem) - 1 /\ End(rs[i]) \in Int
  BY RangeFacts, EndIs
<1>2. CASE rs[i].kind = "new"
  BY <1>2 DEF LastIn
<1>3. CASE rs[i].kind # "new"
  <2> DEFINE below == IF i < Len(rs) THEN {rs[i + 1].offset - 1} ELSE {}
             S == {End(rs[i]), l} \cup below
  <2>1. i < Len(rs) => i + 1 \in DOMAIN rs /\ rs[i + 1].offset \in Nat
    <3>1. i < Len(rs) => i + 1 \in DOMAIN rs
      BY <1>1
    <3>. QED  BY <3>1, RangeFacts
  <2>2. S \in SUBSET Int /\ S # {} /\ \A x \in S : 0 - 1 <= x
    BY <1>1, <2>1, SMTT(30)
  <2>3. LastIn(rs, i, l) = Min(S)
    BY <1>3 DEF LastIn
  <2>4. l \in S /\ End(rs[i]) \in S /\ (i < Len(rs) => rs[i + 1].offset - 1 \in S)
    OBVIOUS
  <2>5. \A x \in S : \/ x = l \/ x = End(rs[i])
                     \/ i < Len(rs) /\ x = rs[i + 1].offset - 1
    OBVIOUS
  <2> HIDE DEF S
  <2>6. Min(S) \in S /\ \A y \in S : Min(S) <= y
    <3>1. 0 - 1 \in Int
      OBVIOUS
    <3>. QED  BY <2>2, <3>1, MinIs
  <2> DEFINE m == Min(S)
             e == End(rs[i])
             n == rs[i + 1].offset
             z == rs[i].offset + Len(rs[i].mem)
  <2>7. e = z - 1 /\ e \in Int /\ z \in Int /\ (i < Len(rs) => n \in Nat)
    BY <1>1, <2>1
  <2>8. /\ m <= l /\ m <= e /\ (i < Len(rs) => m <= n - 1) /\ m \in Int
        /\ m = l \/ m = e \/ (i < Len(rs) /\ m = n - 1)
    BY <2>2, <2>4, <2>5, <2>6
  <2> HIDE DEF m, e, n, z
  <2>9. w <= m <=> w <= l /\ w < z /\ (i < Len(rs) => w < n)
    BY <2>7, <2>8
  <2>. QED  BY <1>3, <2>3, <2>8, <2>9 DEF m, n, z
<1>. QED  BY <1>2, <1>3

(* The last wire that is deleted.                                           *)
LEMMA LastDeletedIs ==
  ASSUME NEW rs \in Seq(RangeType), NEW f \in Nat, NEW l \in Nat
  PROVE  \/ Unmatched(rs, f, l) = {} /\ LastDeleted(rs, f, l) = l
         \/ \E m \in Unmatched(rs, f, l) :
              /\ \A u \in Unmatched(rs, f, l) : m <= u
              /\ m = FindRange(rs, f) => LastDeleted(rs, f, l) = f - 1
              /\ m # FindRange(rs, f) => LastDeleted(rs, f, l) = rs[m].offset - 1
<1> DEFINE U == Unmatched(rs, f, l)
<1>1. U \in SUBSET Int /\ \A u \in U : 1 <= u
  BY DEF Unmatched, Touched
<1> HIDE DEF U
<1>2. CASE U = {}
  BY <1>2 DEF U, LastDeleted
<1>3. CASE U # {}
  <2>1. Min(U) \in U /\ \A u \in U : Min(U) <= u
    <3>1. 1 \in Int
      OBVIOUS
    <3>. QED  BY <1>1, <1>3, <3>1, MinIs
  <2>2. LastDeleted(rs, f, l) = IF Min(U) = FindRange(rs, f) THEN f - 1
                                ELSE rs[Min(U)].offset - 1
    BY <1>3 DEF U, LastDeleted
  <2>. QED  BY <2>1, <2>2 DEF U
<1>. QED  BY <1>2, <1>3

(* A wire of a range that the deletion goes through is deleted if it is     *)
(* within what the deletion reaches there; none of another range is.        *)
LEMMA DeletedIs ==
  ASSUME NEW rs, NEW given, NEW first, Shape(rs, given, first),
         NEW f \in Nat, NEW l \in Nat, IsRangeOf(rs, f, FindRange(rs, f)),
         NEW w \in Int, NEW j, IsRangeOf(rs, w, j), w < rs[j].offset + Len(rs[j].mem)
  PROVE  /\ j \in Visited(rs, f, l) =>
              (w \in f..LastDeleted(rs, f, l) <=> w \in f..LastIn(rs, j, l))
         /\ j \notin Visited(rs, f, l) => w \notin f..LastDeleted(rs, f, l)
<1> DEFINE i == FindRange(rs, f)
           d == LastDeleted(rs, f, l)
           U == Unmatched(rs, f, l)
           e == LastIn(rs, j, l)
<1>1. /\ rs \in Seq(RangeType) /\ Len(rs) \in Nat /\ DOMAIN rs = 1..Len(rs)
      /\ i \in DOMAIN rs /\ i \in Int /\ rs[i].offset <= f
      /\ \A k \in DOMAIN rs : k > i => rs[k].offset > f
      /\ j \in DOMAIN rs /\ j \in Int /\ rs[j].offset <= w
      /\ \A k \in DOMAIN rs : k > j => rs[k].offset > w
      /\ \A k \in DOMAIN rs : k \in Int
  BY DEF Shape, IsRangeOf
<1>2. \A k \in DOMAIN rs : rs[k].offset \in Nat
  BY <1>1, RangeFacts
<1>3. /\ \A u \in U : u \in DOMAIN rs /\ i <= u /\ rs[u].offset <= l
      /\ j \in Visited(rs, f, l) <=>
           j \in Touched(rs, f, l) /\ \A u \in U : j < u
      /\ j \in Touched(rs, f, l) <=> i <= j /\ rs[j].offset <= l
  BY <1>1 DEF Unmatched, Touched, Visited
<1>4. \/ U = {} /\ d = l
      \/ \E m \in U : /\ \A u \in U : m <= u
                      /\ m = i => d = f - 1
                      /\ m # i => d = rs[m].offset - 1
  BY <1>1, LastDeletedIs
<1>5. w <= e <=> /\ w <= l
                 /\ rs[j].kind # "new" => /\ w < rs[j].offset + Len(rs[j].mem)
                                          /\ j < Len(rs) => w < rs[j + 1].offset
  <2>1. Sized(rs[j])
    BY <1>1 DEF Shape
  <2>. QED  BY <1>1, <2>1, LastInIs
<1>11. e \in Int
  <2>1. Sized(rs[j])
    BY <1>1 DEF Shape
  <2>. QED  BY <1>1, <2>1, LastInIs
<1>6. w <= e <=> w <= l
  <2>1. j < Len(rs) => w < rs[j + 1].offset
    <3>1. j < Len(rs) => j + 1 \in DOMAIN rs /\ j + 1 > j
      BY <1>1
    <3>. QED  BY <1>1, <1>2, <3>1
  <2>. QED  BY <1>5, <2>1
<1> HIDE DEF U, d, i, e
<1>7. (d \in Int /\ d <= l) \/ (d = f - 1 /\ U # {})
  BY <1>1, <1>2, <1>3, <1>4, SMTT(30)
<1>8. ASSUME j \in Visited(rs, f, l)
      PROVE  w <= d /\ f <= w <=> w <= l /\ f <= w
  <2>1. CASE U = {}
    BY <1>4, <2>1
  <2>2. CASE U # {}
    <3>1. PICK m \in U : /\ \A u \in U : m <= u
                         /\ m # i => d = rs[m].offset - 1
      BY <1>4, <2>2
    <3>2. j < m /\ i <= j /\ m \in DOMAIN rs /\ m \in Int /\ rs[m].offset <= l
      BY <1>1, <1>3, <1>8, <3>1
    <3>3. m # i /\ m > j
      BY <1>1, <3>2
    <3>4. d = rs[m].offset - 1 /\ rs[m].offset > w /\ rs[m].offset \in Nat
      BY <1>1, <1>2, <3>1, <3>2, <3>3
    <3>. QED  BY <3>2, <3>4
  <2>. QED  BY <2>1, <2>2
<1>9. ASSUME j \notin Visited(rs, f, l), f <= w, w <= d
      PROVE  FALSE
  <2>1. w <= l
    BY <1>7, <1>9
  <2>2. i <= j
    <3>1. ~(i > j)
      BY <1>1, <1>2, <1>9
    <3>. QED  BY <1>1, <3>1
  <2>3. j \in Touched(rs, f, l)
    BY <1>1, <1>2, <1>3, <2>1, <2>2
  <2>4. PICK u \in U : ~(j < u)
    BY <1>3, <1>9, <2>3
  <2>5. PICK m \in U : /\ \A v \in U : m <= v
                       /\ m = i => d = f - 1
                       /\ m # i => d = rs[m].offset - 1
    BY <1>4, <2>4
  <2>6. m \in DOMAIN rs /\ u \in DOMAIN rs /\ m <= u /\ m \in Int /\ u \in Int
    BY <1>1, <1>3, <2>4, <2>5
  <2>7. m <= j
    BY <1>1, <2>4, <2>6
  <2>8. rs[m].offset <= rs[j].offset
    BY <1>1, <2>6, <2>7 DEF Shape
  <2>9. d = rs[m].offset - 1
    BY <1>9, <2>5
  <2>. QED  BY <1>1, <1>2, <1>9, <2>6, <2>8, <2>9
<1>10. d \in Int /\ e \in Int
  <2>1. \A m \in U : rs[m].offset - 1 \in Int
    BY <1>2, <1>3
  <2>. QED  BY <1>4, <1>11, <2>1
<1>. QED  BY <1>6, <1>8, <1>9, <1>10 DEF d, e

(* A range that a deletion keeps.                                           *)
LEMMA AfterDeleteIs ==
  ASSUME NEW rs \in Seq(RangeType), NEW i \in DOMAIN rs, NEW f, NEW l
  PROVE  LET q == AfterDelete(rs, i, f, l)
         IN  /\ q \in RangeType /\ SameSpan(q, rs[i])
             /\ DOMAIN q.mem = DOMAIN rs[i].mem
             /\ \A k \in DOMAIN rs[i].mem :
                  q.mem[k] = IF rs[i].offset + k - 1 \in f..LastIn(rs, i, l)
                             THEN Raw ELSE rs[i].mem[k]
<1> DEFINE r == rs[i]
           gone(k) == r.offset + k - 1 \in f..LastIn(rs, i, l)
           mem == [k \in DOMAIN r.mem |-> IF gone(k) THEN Raw ELSE r.mem[k]]
           q == AfterDelete(rs, i, f, l)
<1>0. r \in RangeType
  BY RangeFacts
<1>1. q = [r EXCEPT !.mem = mem, !.canGrow = FALSE]
  BY Zenon DEF AfterDelete
<1> HIDE DEF r, gone
<1>2. r.mem \in Seq(Cell) /\ Len(r.mem) \in Nat /\ DOMAIN r.mem = 1..Len(r.mem)
      /\ r.mem \in [1..Len(r.mem) -> Cell] /\ Raw \in Cell
  BY <1>0 DEF RangeType, Cell
<1>3. mem \in [1..Len(r.mem) -> Cell]
  BY <1>2
<1>4. DOMAIN mem = DOMAIN r.mem
  OBVIOUS
<1>5. \A k \in DOMAIN r.mem : mem[k] = IF gone(k) THEN Raw ELSE r.mem[k]
  OBVIOUS
<1> HIDE DEF mem, q
<1>6. mem \in Seq(Cell) /\ Len(mem) = Len(r.mem)
  BY <1>2, <1>3
<1>7. /\ q \in RangeType /\ q.mem = mem /\ q.offset = r.offset /\ q.kind = r.kind
      /\ q.canGrow = FALSE
  BY <1>0, <1>1, <1>6 DEF RangeType
<1>8. SameSpan(q, r)
  BY <1>6, <1>7 DEF SameSpan
<1>. QED  BY <1>4, <1>5, <1>7, <1>8 DEF q, gone, r

(* A range that is freed holds no wire but those that are deleted.          *)
LEMMA FreedIs ==
  ASSUME NEW rs, NEW given, NEW first, NEW held \in SUBSET Int,
         Shape(rs, given, first), Cells(rs, held),
         NEW f \in Nat, NEW l \in Nat,
         NEW i \in Visited(rs, f, l), Freed(rs, held, i, f, l),
         NEW w \in held, HeldIn(rs, w, i)
  PROVE  w \in f..LastIn(rs, i, l)
<1> DEFINE e == End(rs[i])
           o == rs[i].offset
<1>1. /\ rs \in Seq(RangeType) /\ Len(rs) \in Nat /\ DOMAIN rs = 1..Len(rs)
      /\ i \in DOMAIN rs /\ i \in Int /\ w \in Int /\ Sized(rs[i])
      /\ i \in Touched(rs, f, l) /\ i \notin Unmatched(rs, f, l)
  <2>1. i \in Touched(rs, f, l) /\ (i \in Unmatched(rs, f, l) => i < i) /\ i \in DOMAIN rs
    BY DEF Visited, Touched
  <2>2. rs \in Seq(RangeType) /\ Len(rs) \in Nat /\ DOMAIN rs = 1..Len(rs)
    BY DEF Shape
  <2>3. i \in Int
    BY <2>1, <2>2
  <2>. QED  BY <2>1, <2>2, <2>3 DEF Shape
<1>2. /\ rs[i].offset \in Nat /\ Len(rs[i].mem) \in Nat
      /\ End(rs[i]) = rs[i].offset + Len(rs[i].mem) - 1 /\ End(rs[i]) \in Int
  BY <1>1, RangeFacts, EndIs
<1>3. rs[i].offset <= w /\ w < rs[i].offset + Len(rs[i].mem)
      /\ \A j \in DOMAIN rs : j > i => rs[j].offset > w
  BY <1>1, HeldFacts
<1>4. /\ LastIn(rs, i, l) \in Int
      /\ w <= LastIn(rs, i, l) <=>
              /\ w <= l
              /\ rs[i].kind # "new" => /\ w < rs[i].offset + Len(rs[i].mem)
                                       /\ i < Len(rs) => w < rs[i + 1].offset
  BY <1>1, LastInIs
<1>5. o \in Nat /\ e \in Int /\ o <= w /\ w <= e
  <2> DEFINE z == Len(rs[i].mem)
  <2>1. e = o + z - 1 /\ o \in Nat /\ e \in Int /\ z \in Nat /\ o <= w /\ w < o + z
    BY <1>2, <1>3
  <2> HIDE DEF e, o, z
  <2>. QED  BY <1>1, <2>1
<1>6. CASE rs[i].kind = "new"
  <2>1. f = o /\ l = e
    BY <1>1, <1>6 DEF Unmatched
  <2>. QED  BY <1>1, <1>4, <1>5, <1>6, <2>1
<1>7. CASE rs[i].kind # "new"
  <2> DEFINE left == held \ (f .. LastIn(rs, i, l))
             limit == IF i < Len(rs) /\ e > rs[i + 1].offset
                      THEN rs[i + 1].offset - 1 ELSE e
  <2>1. left \cap ((o .. limit) \cup {o, limit}) = {}
    BY <1>7 DEF Freed, Emptied
  <2>2. w <= limit /\ limit \in Int
    <3>1. i < Len(rs) => i + 1 \in DOMAIN rs /\ i + 1 > i
      BY <1>1
    <3>2. i < Len(rs) => rs[i + 1].offset > w /\ rs[i + 1].offset \in Nat
      BY <1>1, <1>3, <3>1, RangeFacts
    <3> HIDE DEF e
    <3>. QED  BY <1>1, <1>5, <3>2
  <2> HIDE DEF limit, e, o
  <2>3. w \in o..limit
    BY <1>1, <1>5, <2>2
  <2> HIDE DEF left
  <2>4. w \notin left
    BY <2>1, <2>3
  <2>. QED  BY <2>4 DEF left
<1>. QED  BY <1>6, <1>7

(* deleteRange: the ranges that stay keep their order, and their cells hold *)
(* the wires that are left.                                                 *)
LEMMA DeleteKeeps ==
  ASSUME NEW rs, NEW given, NEW first, NEW held \in SUBSET (0..MaxWire),
         Shape(rs, given, first), Cells(rs, held),
         NEW f \in Nat, NEW l \in Nat, f \in held
  PROVE  /\ Shape(DeleteCells(rs, held, f, l), given, first)
         /\ Cells(DeleteCells(rs, held, f, l), held \ (f..LastDeleted(rs, f, l)))
<1> DEFINE V == Visited(rs, f, l)
           K == {i \in DOMAIN rs : i \in V => ~Freed(rs, held, i, f, l)}
           kept == Ascending(K)
           n == Cardinality(K)
           D == f..LastDeleted(rs, f, l)
           held2 == held \ D
           R(j) == IF j \in V THEN AfterDelete(rs, j, f, l) ELSE rs[j]
           q == DeleteCells(rs, held, f, l)
<1>1. /\ rs \in Seq(RangeType) /\ Len(rs) \in Nat /\ DOMAIN rs = 1..Len(rs)
      /\ held \in SUBSET Int
  BY Numbers DEF Shape
<1>2. /\ n \in Nat /\ kept \in [1..n -> K]
      /\ \A x \in K : \E k \in 1..n : kept[k] = x
      /\ \A j, k \in 1..n : j < k => kept[j] < kept[k]
  <2> DEFINE a == 1
             b == Len(rs)
  <2>1. K \in SUBSET (a..b) /\ a \in Int /\ b \in Int
    BY <1>1
  <2> HIDE DEF K, a, b
  <2>2. /\ Cardinality(K) \in Nat
        /\ Ascending(K) \in [1..Cardinality(K) -> K]
        /\ \A x \in K : \E k \in 1..Cardinality(K) : Ascending(K)[k] = x
        /\ \A j, k \in 1..Cardinality(K) : j < k => Ascending(K)[j] < Ascending(K)[k]
    BY <2>1, AscendingIs
  <2>. QED  BY <2>2
<1>3. q = [k \in DOMAIN kept |-> R(kept[k])]
  BY Zenon DEF DeleteCells
<1>4. \A j \in K : j \in DOMAIN rs /\ j \in Int /\ (j \in V => ~Freed(rs, held, j, f, l))
  BY <1>1
<1>5. \A j \in DOMAIN rs : (j \in V /\ Freed(rs, held, j, f, l)) \/ j \in K
  OBVIOUS
<1> HIDE DEF kept, n, q, K
<1>6. DOMAIN q = 1..n /\ \A k \in 1..n : q[k] = R(kept[k]) /\ kept[k] \in K
  BY <1>2, <1>3
(* What becomes of a range that is kept.                                    *)
<1>7. ASSUME NEW j \in DOMAIN rs
      PROVE  /\ R(j) \in RangeType /\ SameSpan(R(j), rs[j])
             /\ DOMAIN R(j).mem = DOMAIN rs[j].mem
             /\ \A k \in DOMAIN rs[j].mem :
                  R(j).mem[k] = IF /\ j \in V
                                   /\ rs[j].offset + k - 1 \in f..LastIn(rs, j, l)
                                THEN Raw ELSE rs[j].mem[k]
  <2>1. CASE j \in V
    <3>1. LET s == AfterDelete(rs, j, f, l)
          IN  /\ s \in RangeType /\ SameSpan(s, rs[j])
              /\ DOMAIN s.mem = DOMAIN rs[j].mem
              /\ \A k \in DOMAIN rs[j].mem :
                   s.mem[k] = IF rs[j].offset + k - 1 \in f..LastIn(rs, j, l)
                              THEN Raw ELSE rs[j].mem[k]
      BY <1>1, AfterDeleteIs
    <3>2. R(j) = AfterDelete(rs, j, f, l)
      BY <2>1
    <3> HIDE DEF R
    <3>. QED  BY <2>1, <3>1, <3>2
  <2>2. CASE j \notin V
    <3>1. R(j) = rs[j]
      BY <2>2
    <3> HIDE DEF R
    <3>2. rs[j] \in RangeType
      BY <1>1, RangeFacts
    <3>. QED  BY <2>2, <3>1, <3>2 DEF SameSpan
  <2>. QED  BY <2>1, <2>2
<1> HIDE DEF R
<1>8. ASSUME NEW k \in 1..n
      PROVE  /\ kept[k] \in K /\ kept[k] \in DOMAIN rs /\ kept[k] \in Int /\ k \in Int
             /\ q[k] = R(kept[k]) /\ SameSpan(q[k], rs[kept[k]])
             /\ q[k] \in RangeType
             /\ DOMAIN q[k].mem = DOMAIN rs[kept[k]].mem
  BY <1>4, <1>6, <1>7
<1>9. q \in Seq(RangeType)
  <2>1. q \in [1..n -> RangeType]
    BY <1>3, <1>6, <1>8
  <2>. QED  BY <1>2, <2>1
<1>10. Shape(q, given, first)
  <2>1. \A k \in 1..n : /\ Sized(rs[kept[k]])
                        /\ rs[kept[k]].kind = "grown" => rs[kept[k]].offset \in given
                        /\ rs[kept[k]].kind = "mapped"
                             => rs[kept[k]].offset + Len(rs[kept[k]].mem) <= first
    BY <1>8 DEF Shape
  <2>2. \A j, k \in 1..n : j < k =>
          /\ rs[kept[j]].offset <= rs[kept[k]].offset
          /\ rs[kept[j]].kind # "grown"
               => rs[kept[j]].offset + Len(rs[kept[j]].mem) <= rs[kept[k]].offset
    <3>1. ASSUME NEW j \in 1..n, NEW k \in 1..n, j < k
          PROVE  kept[j] < kept[k] /\ kept[j] <= kept[k]
                 /\ kept[j] \in DOMAIN rs /\ kept[k] \in DOMAIN rs
      BY <1>2, <1>8, <3>1
    <3>. QED  BY <3>1 DEF Shape
  <2>3. \A k \in 1..n : Sized(q[k])
    BY <1>8, <2>1 DEF Sized, SameSpan
  <2>4. ASSUME NEW j \in 1..n, NEW k \in 1..n, j <= k
        PROVE  q[j].offset <= q[k].offset
    <3>1. CASE j = k
      <4>1. q[j].offset \in Int
        BY <1>8 DEF RangeType, Wire
      <4>. QED  BY <3>1, <4>1
    <3>2. CASE j < k
      BY <1>8, <2>2, <3>2 DEF SameSpan
    <3>. QED  BY <2>4, <3>1, <3>2
  <2>5. ASSUME NEW j \in 1..n, NEW k \in 1..n, j < k, q[j].kind # "grown"
        PROVE  q[j].offset + Len(q[j].mem) <= q[k].offset
    BY <1>8, <2>2, <2>5 DEF SameSpan
  <2>6. \A k \in 1..n : /\ q[k].kind = "grown" => q[k].offset \in given
                        /\ q[k].kind = "mapped"
                             => q[k].offset + Len(q[k].mem) <= first
    BY <1>8, <2>1 DEF SameSpan
  <2>. QED  BY <1>6, <1>9, <2>3, <2>4, <2>5, <2>6 DEF Shape
<1>11. ASSUME NEW k \in 1..n, NEW w \in Int, IsRangeOf(rs, w, kept[k])
       PROVE  IsRangeOf(q, w, k)
  <2>1. rs[kept[k]].offset <= w /\ \A j \in DOMAIN rs : j > kept[k] => rs[j].offset > w
    BY <1>11 DEF IsRangeOf
  <2>2. q[k].offset <= w
    BY <1>8, <2>1 DEF SameSpan
  <2>3. ASSUME NEW j \in 1..n, j > k
        PROVE  q[j].offset > w
    <3>1. k < j
      BY <1>8, <2>3
    <3>2. kept[k] < kept[j] /\ kept[j] \in DOMAIN rs /\ kept[j] \in Int /\ kept[k] \in Int
      BY <1>2, <1>8, <3>1
    <3>3. kept[j] > kept[k]
      BY <3>2
    <3>4. rs[kept[j]].offset > w
      BY <2>1, <3>2, <3>3
    <3>. QED  BY <1>8, <3>4 DEF SameSpan
  <2>. QED  BY <1>6, <2>2, <2>3 DEF IsRangeOf
<1>12. IsRangeOf(rs, f, FindRange(rs, f))
  <2>1. PICK j \in DOMAIN rs : HeldIn(rs, f, j)
    BY DEF Cells
  <2>2. j \in DOMAIN rs /\ rs[j].offset <= f /\ f \in Int
    BY <2>1 DEF HeldIn, IsRangeOf
  <2>. QED  BY <1>1, <2>2, FindRangeIs
(* Which of the wires of a range are deleted.                               *)
<1>13. ASSUME NEW w \in held, NEW j, HeldIn(rs, w, j)
       PROVE  /\ w \in D <=> j \in V /\ w \in f..LastIn(rs, j, l)
              /\ w \notin D => j \in K
  <2>1. /\ w \in Int /\ IsRangeOf(rs, w, j) /\ j \in DOMAIN rs
        /\ w < rs[j].offset + Len(rs[j].mem)
    BY <1>1, <1>13, HeldFacts DEF HeldIn
  <2>2. /\ j \in V => (w \in D <=> w \in f..LastIn(rs, j, l))
        /\ j \notin V => w \notin D
    BY <1>12, <2>1, DeletedIs
  <2>3. ASSUME j \in V, Freed(rs, held, j, f, l)
        PROVE  w \in f..LastIn(rs, j, l)
    BY <1>1, <1>13, <2>3, FreedIs
  <2>. QED  BY <1>5, <2>1, <2>2, <2>3
<1> HIDE DEF V, D
<1>14. ASSUME NEW w \in held2
       PROVE  \E k \in DOMAIN q : HeldIn(q, w, k)
  <2>1. w \in held /\ w \notin D /\ w \in Int
    BY <1>1
  <2>2. PICK j \in DOMAIN rs : HeldIn(rs, w, j)
    BY <2>1 DEF Cells
  <2>3. j \in K /\ ~(j \in V /\ w \in f..LastIn(rs, j, l))
    BY <1>13, <2>1, <2>2
  <2>4. PICK k \in 1..n : kept[k] = j
    BY <1>2, <2>3
  <2>5. /\ rs[j].offset \in Nat /\ w < rs[j].offset + Len(rs[j].mem)
        /\ w - rs[j].offset + 1 \in DOMAIN rs[j].mem
        /\ rs[j].mem[w - rs[j].offset + 1] = w /\ IsRangeOf(rs, w, j)
        /\ w - rs[j].offset < Len(rs[j].mem)
    BY <1>1, <2>1, <2>2, HeldFacts DEF HeldIn
  <2> DEFINE x == w - rs[j].offset + 1
  <2>6. rs[j].offset + x - 1 = w
    BY <2>1, <2>5
  <2> HIDE DEF x
  <2>7. R(j).mem[x] = w
    BY <1>7, <2>3, <2>5, <2>6 DEF x
  <2>8. q[k] = R(j) /\ SameSpan(q[k], rs[j]) /\ IsRangeOf(q, w, k) /\ k \in DOMAIN q
    BY <1>6, <1>8, <1>11, <2>1, <2>4, <2>5
  <2>9. w - q[k].offset < Len(q[k].mem) /\ CellOf(q[k], w) = w
    BY <2>5, <2>7, <2>8 DEF SameSpan, CellOf, x
  <2>. QED  BY <2>8, <2>9 DEF HeldIn
<1>15. ASSUME NEW k \in DOMAIN q, NEW x \in DOMAIN q[k].mem, q[k].mem[x] # Raw
       PROVE  /\ q[k].offset + x - 1 \in held2
              /\ HeldIn(q, q[k].offset + x - 1, k)
  <2> DEFINE j == kept[k]
             w == rs[j].offset + x - 1
  <2>1. /\ k \in 1..n /\ j \in K /\ j \in DOMAIN rs /\ q[k] = R(j) /\ SameSpan(q[k], rs[j])
        /\ x \in DOMAIN rs[j].mem
    BY <1>6, <1>8
  <2>2. q[k].offset + x - 1 = w
    BY <2>1 DEF SameSpan
  <2> HIDE DEF j, w
  <2>3. ~(j \in V /\ w \in f..LastIn(rs, j, l)) /\ q[k].mem[x] = rs[j].mem[x]
    BY <1>7, <1>15, <2>1 DEF w
  <2>4. w \in held /\ HeldIn(rs, w, j)
    BY <1>15, <2>1, <2>3 DEF Cells, w
  <2>5. w \notin D /\ w \in Int
    BY <1>1, <1>13, <2>3, <2>4
  <2>6. IsRangeOf(q, w, k)
    BY <1>11, <2>1, <2>4, <2>5 DEF HeldIn, j
  <2>7. w - q[k].offset < Len(q[k].mem)
    BY <2>1, <2>4 DEF HeldIn, SameSpan
  <2>8. CellOf(q[k], w) = w
    <3>1. rs[j].mem[w - rs[j].offset + 1] = w
      BY <2>4 DEF HeldIn, CellOf
    <3>2. w - rs[j].offset + 1 = x
      <4>1. rs[j].offset \in Nat /\ x \in Int
        BY <1>1, <2>1, RangeFacts
      <4>. QED  BY <4>1 DEF w
    <3>3. q[k].offset = rs[j].offset
      BY <2>1 DEF SameSpan
    <3>. QED  BY <2>3, <3>1, <3>2, <3>3 DEF CellOf
  <2>. QED  BY <2>2, <2>4, <2>5, <2>6, <2>7, <2>8 DEF HeldIn
<1>16. Cells(q, held2)
  BY <1>14, <1>15 DEF Cells
<1>. QED  BY <1>10, <1>16 DEF q, D

-----------------------------------------------------------------------------
(***************************************************************************)
(* Mapped ranges, and the outputs of a call.                               *)
(***************************************************************************)

(* A range mapped after the others, before the body of the function: its    *)
(* cells are raw, or hold wires that are marked with it.                     *)
MapRange(rs, first, mem) == Append(rs, MappedRangeOf(first, mem))

Mappable(rs, given, first, held, mem, given2, held2) ==
  /\ first \in Nat /\ held \in SUBSET Int
  /\ Shape(rs, given, first) /\ Cells(rs, held)
  /\ \A i \in DOMAIN rs : rs[i].kind = "mapped"
  /\ mem \in Seq(Cell) /\ Len(mem) >= 1 /\ first + Len(mem) <= MaxWire
  /\ given \subseteq given2
  /\ held2 \in SUBSET Int /\ held \subseteq held2
  /\ \A w \in held2 \ held : /\ first <= w /\ w < first + Len(mem)
                            /\ mem[w - first + 1] = w
  /\ \A k \in DOMAIN mem : mem[k] # Raw => /\ mem[k] = first + k - 1
                                          /\ first + k - 1 \in held2

(* Mapping a range at the end keeps the layout.                             *)
LEMMA MapKeeps ==
  ASSUME NEW rs, NEW given, NEW first, NEW held, NEW mem, NEW given2, NEW held2,
         Mappable(rs, given, first, held, mem, given2, held2)
  PROVE  /\ Shape(MapRange(rs, first, mem), given2, first + Len(mem))
         /\ Cells(MapRange(rs, first, mem), held2)
         /\ \A i \in DOMAIN MapRange(rs, first, mem) :
              MapRange(rs, first, mem)[i].kind = "mapped"
<1> USE DEF Mappable
<1> DEFINE r == MappedRangeOf(first, mem)
           q == Append(rs, r)
           m == Len(rs) + 1
           z == first + Len(mem)
<1>1. /\ rs \in Seq(RangeType) /\ Len(rs) \in Nat /\ DOMAIN rs = 1..Len(rs)
      /\ Len(mem) \in Nat /\ DOMAIN mem = 1..Len(mem) /\ z \in Nat /\ m \in Nat
  BY DEF Shape
<1>2. /\ r \in RangeType /\ r.offset = first /\ r.mem = mem /\ r.kind = "mapped"
      /\ r.canGrow = FALSE
  <2>1. first \in Wire
    BY <1>1, Numbers DEF Wire
  <2>. QED  BY <2>1 DEF MappedRangeOf, RangeType
<1> HIDE DEF r
<1>3. /\ q \in Seq(RangeType) /\ Len(q) = m /\ DOMAIN q = 1..m
      /\ q[m] = r /\ \A i \in 1..Len(rs) : q[i] = rs[i]
  BY <1>1, <1>2
<1> HIDE DEF q
<1>4. /\ \A i \in DOMAIN q : i = m \/ (i \in DOMAIN rs /\ i < m /\ q[i] = rs[i])
      /\ \A i \in DOMAIN rs : i \in DOMAIN q /\ i < m /\ q[i] = rs[i] /\ i \in Int
      /\ m \in DOMAIN q
  BY <1>1, <1>3
<1>5. \A i \in DOMAIN rs : /\ rs[i].offset \in Nat /\ Len(rs[i].mem) \in Nat
                           /\ DOMAIN rs[i].mem = 1..Len(rs[i].mem)
  BY <1>1, RangeFacts
<1>6. \A i \in DOMAIN rs : rs[i].offset + Len(rs[i].mem) <= first
  BY DEF Shape
<1> HIDE DEF m
<1>7. Sized(r)
  BY <1>1, <1>2, Numbers DEF Sized
<1>8. Shape(q, given2, z)
  <2>1. \A i \in DOMAIN q : Sized(q[i])
    BY <1>3, <1>4, <1>7 DEF Shape
  <2>2. \A i \in DOMAIN q : q[i].kind = "mapped"
    BY <1>2, <1>3, <1>4
  <2>3. \A i \in DOMAIN q : q[i].offset + Len(q[i].mem) <= z
    <3>1. \A i \in DOMAIN rs : rs[i].offset + Len(rs[i].mem) <= z
      BY <1>1, <1>5, <1>6
    <3>2. r.offset + Len(r.mem) <= z
      BY <1>1, <1>2
    <3>. QED  BY <1>3, <1>4, <3>1, <3>2
  <2>4. ASSUME NEW i \in DOMAIN q, NEW j \in DOMAIN q, i <= j
        PROVE  q[i].offset <= q[j].offset
    <3>1. \A k \in DOMAIN rs : rs[k].offset <= first
      BY <1>5, <1>6
    <3>2. CASE j = m
      BY <1>2, <1>3, <1>4, <3>1, <3>2
    <3>3. CASE j # m
      <4>1. i \in DOMAIN rs /\ j \in DOMAIN rs /\ q[i] = rs[i] /\ q[j] = rs[j]
        BY <1>1, <1>4, <2>4, <3>3
      <4>. QED  BY <2>4, <4>1 DEF Shape
    <3>. QED  BY <3>2, <3>3
  <2>5. ASSUME NEW i \in DOMAIN q, NEW j \in DOMAIN q, i < j, q[i].kind # "grown"
        PROVE  q[i].offset + Len(q[i].mem) <= q[j].offset
    <3>1. i \in DOMAIN rs /\ q[i] = rs[i]
      BY <1>1, <1>4, <2>5
    <3>2. CASE j = m
      BY <1>2, <1>3, <1>6, <3>1, <3>2
    <3>3. CASE j # m
      <4>1. j \in DOMAIN rs /\ q[j] = rs[j]
        BY <1>4, <3>3
      <4>. QED  BY <2>5, <3>1, <4>1 DEF Shape
    <3>. QED  BY <3>2, <3>3
  <2>. QED  BY <1>3, <2>1, <2>2, <2>3, <2>4, <2>5 DEF Shape
<1>9. ASSUME NEW w \in Int, NEW i, HeldIn(rs, w, i)
      PROVE  HeldIn(q, w, i)
  <2>1. /\ i \in DOMAIN rs /\ rs[i].offset <= w /\ w < rs[i].offset + Len(rs[i].mem)
        /\ \A j \in DOMAIN rs : j > i => rs[j].offset > w
    BY <1>9, HeldFacts
  <2>2. w < first
    BY <1>1, <1>5, <1>6, <2>1
  <2>3. IsRangeOf(q, w, i)
    BY <1>2, <1>3, <1>4, <2>1, <2>2 DEF IsRangeOf
  <2>. QED  BY <1>4, <1>9, <2>1, <2>3 DEF HeldIn, CellOf
<1>10. ASSUME NEW w \in Int, first <= w, w < first + Len(mem), mem[w - first + 1] = w
       PROVE  HeldIn(q, w, m)
  <2>1. \A j \in DOMAIN q : ~(j > m)
    BY <1>3
  <2>2. IsRangeOf(q, w, m)
    BY <1>2, <1>3, <1>4, <1>10, <2>1 DEF IsRangeOf
  <2>3. w - first < Len(mem)
    BY <1>1, <1>10
  <2>. QED  BY <1>2, <1>3, <1>10, <2>2, <2>3 DEF HeldIn, CellOf
<1>11. Cells(q, held2)
  <2>1. ASSUME NEW w \in held2
        PROVE  \E i \in DOMAIN q : HeldIn(q, w, i)
    <3>1. CASE w \in held
      <4>1. PICK i \in DOMAIN rs : HeldIn(rs, w, i)
        BY <3>1 DEF Cells
      <4>. QED  BY <1>4, <1>9, <4>1
    <3>2. CASE w \notin held
      BY <1>4, <1>10, <3>2
    <3>. QED  BY <3>1, <3>2
  <2>2. ASSUME NEW i \in DOMAIN q, NEW k \in DOMAIN q[i].mem, q[i].mem[k] # Raw
        PROVE  /\ q[i].offset + k - 1 \in held2
               /\ HeldIn(q, q[i].offset + k - 1, i)
    <3>1. CASE i = m
      <4> DEFINE w == first + k - 1
      <4>1. k \in DOMAIN mem /\ mem[k] = w /\ w \in held2 /\ q[i].offset + k - 1 = w
        BY <1>2, <1>3, <2>2, <3>1
      <4>2. k \in Int /\ 1 <= k /\ k <= Len(mem)
        BY <1>1, <4>1
      <4>3. w \in Int /\ first <= w /\ w < first + Len(mem) /\ w - first + 1 = k
        BY <1>1, <4>2
      <4> HIDE DEF w
      <4>4. HeldIn(q, w, m)
        BY <1>10, <4>1, <4>3
      <4>. QED  BY <3>1, <4>1, <4>4
    <3>2. CASE i # m
      <4>1. i \in DOMAIN rs /\ q[i] = rs[i]
        BY <1>4, <3>2
      <4>2. rs[i].offset + k - 1 \in held /\ HeldIn(rs, rs[i].offset + k - 1, i)
        BY <2>2, <4>1 DEF Cells
      <4>. QED  BY <1>9, <4>1, <4>2
    <3>. QED  BY <3>1, <3>2
  <2>. QED  BY <2>1, <2>2 DEF Cells
<1>12. \A i \in DOMAIN q : q[i].kind = "mapped"
  BY <1>2, <1>3, <1>4
<1>. QED  BY <1>8, <1>11, <1>12 DEF q, r, z, MapRange

(* A declared or mapped range is the range of every wire it spans.          *)
LEMMA FixedRangeOf ==
  ASSUME NEW rs, NEW given, NEW first, Shape(rs, given, first),
         NEW i \in DOMAIN rs, rs[i].kind # "grown",
         NEW w \in Int, rs[i].offset <= w, w < rs[i].offset + Len(rs[i].mem)
  PROVE  IsRangeOf(rs, w, i)
<1>1. /\ DOMAIN rs = 1..Len(rs) /\ Len(rs) \in Nat
      /\ \A j \in DOMAIN rs : rs[j].offset \in Nat /\ Len(rs[j].mem) \in Nat /\ j \in Int
  BY RangeFacts DEF Shape
<1>2. ASSUME NEW j \in DOMAIN rs, j > i
      PROVE  rs[j].offset > w
  <2>1. i < j
    BY <1>1, <1>2
  <2>2. rs[i].offset + Len(rs[i].mem) <= rs[j].offset
    BY <2>1 DEF Shape
  <2>. QED  BY <1>1, <2>2
<1>. QED  BY <1>2 DEF IsRangeOf

(* The outputs of a call are written where findOutputs found them.          *)
LEMMA WriteKeeps ==
  ASSUME NEW rs, NEW given, NEW first, NEW held \in SUBSET Int,
         Shape(rs, given, first), Cells(rs, held),
         NEW P \in SUBSET (0..MaxWire),
         \A x \in P : \E i \in DOMAIN rs :
           /\ rs[i].kind # "grown" /\ rs[i].offset <= x
           /\ x < rs[i].offset + Len(rs[i].mem)
  PROVE  /\ Shape(WriteOutputs(rs, [w \in P |-> w]), given \cup P, first)
         /\ Cells(WriteOutputs(rs, [w \in P |-> w]), held \cup P)
<1> DEFINE q == WriteOutputs(rs, [w \in P |-> w])
           writes(i, k) == rs[i].offset + k - 1 \in P /\ rs[i].kind # "grown"
           mem(i) == [k \in DOMAIN rs[i].mem |->
                        IF writes(i, k) THEN rs[i].offset + k - 1 ELSE rs[i].mem[k]]
<1>1. /\ rs \in Seq(RangeType) /\ Len(rs) \in Nat /\ DOMAIN rs = 1..Len(rs)
      /\ P \in SUBSET Int /\ held \cup P \in SUBSET Int /\ given \subseteq given \cup P
  BY Numbers DEF Shape
<1>2. \A i \in DOMAIN rs : /\ rs[i].offset \in Nat /\ Len(rs[i].mem) \in Nat
                           /\ DOMAIN rs[i].mem = 1..Len(rs[i].mem) /\ i \in Int
                           /\ rs[i] \in RangeType
  BY <1>1, RangeFacts
<1>3. q = [i \in DOMAIN rs |-> [rs[i] EXCEPT !.mem = mem(i)]]
  BY DEF WriteOutputs
<1>4. ASSUME NEW i \in DOMAIN rs
      PROVE  /\ q[i] \in RangeType /\ SameSpan(q[i], rs[i])
             /\ DOMAIN q[i].mem = DOMAIN rs[i].mem
             /\ \A k \in DOMAIN rs[i].mem :
                  /\ writes(i, k) => q[i].mem[k] = rs[i].offset + k - 1
                  /\ ~writes(i, k) => q[i].mem[k] = rs[i].mem[k]
  <2> DEFINE r == rs[i]
  <2>1. q[i] = [r EXCEPT !.mem = mem(i)]
    BY <1>3
  <2>2. /\ r \in RangeType /\ r.mem \in Seq(Cell) /\ Len(r.mem) \in Nat
        /\ DOMAIN r.mem = 1..Len(r.mem) /\ \A k \in DOMAIN r.mem : r.mem[k] \in Cell
    BY <1>2 DEF RangeType
  <2>3. ASSUME NEW k \in DOMAIN r.mem
        PROVE  mem(i)[k] \in Cell
    <3>1. writes(i, k) => r.offset + k - 1 \in Cell
      BY DEF Cell, Wire
    <3> HIDE DEF writes
    <3>. QED  BY <2>2, <3>1
  <2>4. /\ DOMAIN mem(i) = DOMAIN r.mem
        /\ \A k \in DOMAIN r.mem :
             /\ writes(i, k) => mem(i)[k] = r.offset + k - 1
             /\ ~writes(i, k) => mem(i)[k] = r.mem[k]
    OBVIOUS
  <2>5. mem(i) \in [1..Len(r.mem) -> Cell]
    BY <2>2, <2>3
  <2> DEFINE mm == mem(i)
  <2> HIDE DEF mm, q, writes
  <2>6. mm \in Seq(Cell) /\ Len(mm) = Len(r.mem)
    BY <2>2, <2>5 DEF mm
  <2>7. q[i] = [r EXCEPT !.mem = mm]
    BY <2>1 DEF mm
  <2> HIDE DEF r, mem
  <2>8. /\ q[i] \in RangeType /\ q[i].mem = mm /\ q[i].offset = r.offset
        /\ q[i].kind = r.kind /\ q[i].canGrow = r.canGrow
    BY <2>2, <2>6, <2>7 DEF RangeType
  <2>9. SameSpan(q[i], r)
    BY <2>6, <2>8 DEF SameSpan
  <2>. QED  BY <2>4, <2>8, <2>9 DEF mm, r
<1>5. DOMAIN q = DOMAIN rs
  BY <1>3
<1> HIDE DEF q
<1>6. q \in Seq(RangeType)
  <2>1. q \in [1..Len(rs) -> RangeType]
    <3> HIDE DEF mem
    <3>. QED  BY <1>1, <1>3, <1>4, <1>5
  <2>. QED  BY <1>1, <2>1
<1> HIDE DEF mem
<1>7. Shape(q, given \cup P, first)
  <2> DEFINE given2 == given \cup P
  <2>1. given \subseteq given2
    OBVIOUS
  <2> HIDE DEF given2
  <2>2. \A i \in DOMAIN rs : SameSpan(q[i], rs[i])
    BY <1>4
  <2>3. Shape(q, given2, first)
    BY <1>5, <1>6, <2>1, <2>2, SpanShape
  <2>. QED  BY <2>3 DEF given2
<1>8. ASSUME NEW j \in DOMAIN q, NEW k \in DOMAIN q[j].mem, q[j].mem[k] # Raw
      PROVE  LET x == q[j].offset + k - 1
             IN  q[j].mem[k] = x /\ x \in held \cup P /\ IsRangeOf(rs, x, j)
  <2> DEFINE x == rs[j].offset + k - 1
  <2>1. /\ j \in DOMAIN rs /\ k \in DOMAIN rs[j].mem /\ q[j].offset = rs[j].offset
        /\ writes(j, k) => q[j].mem[k] = x
        /\ ~writes(j, k) => q[j].mem[k] = rs[j].mem[k]
    BY <1>4, <1>5 DEF SameSpan
  <2>2. CASE writes(j, k)
    <3>1. x \in P /\ rs[j].kind # "grown"
      BY <2>2
    <3>2. rs[j].offset <= x /\ x < rs[j].offset + Len(rs[j].mem) /\ x \in Int
      BY <1>2, <2>1
    <3> HIDE DEF x, writes
    <3>3. IsRangeOf(rs, x, j)
      BY <2>1, <3>1, <3>2, FixedRangeOf
    <3>. QED  BY <2>1, <2>2, <3>1, <3>3 DEF x
  <2>3. CASE ~writes(j, k)
    <3> HIDE DEF writes
    <3>1. rs[j].mem[k] # Raw
      BY <1>8, <2>1, <2>3
    <3>2. x \in held /\ HeldIn(rs, x, j)
      BY <2>1, <3>1 DEF Cells
    <3>3. rs[j].mem[k] = x
      <4>1. rs[j].mem[x - rs[j].offset + 1] = x
        BY <3>2 DEF HeldIn, CellOf
      <4>2. x - rs[j].offset + 1 = k
        BY <1>2, <2>1
      <4>. QED  BY <4>1, <4>2
    <3>. QED  BY <2>1, <2>3, <3>2, <3>3 DEF HeldIn
  <2>. QED  BY <2>2, <2>3
<1>9. ASSUME NEW x \in held \cup P
      PROVE  \E j \in DOMAIN rs : IsRangeOf(rs, x, j) /\ HoldsIn(q[j], x)
  <2>1. x \in Int
    BY <1>1
  <2>2. CASE x \in P
    <3>1. PICK j \in DOMAIN rs : /\ rs[j].kind # "grown" /\ rs[j].offset <= x
                                 /\ x < rs[j].offset + Len(rs[j].mem)
      BY <2>2
    <3>2. IsRangeOf(rs, x, j)
      BY <2>1, <3>1, FixedRangeOf
    <3> DEFINE k == x - rs[j].offset + 1
    <3>3. k \in DOMAIN rs[j].mem /\ rs[j].offset + k - 1 = x
      BY <1>2, <2>1, <3>1
    <3> HIDE DEF k
    <3>4. writes(j, k)
      BY <2>2, <3>1, <3>3
    <3> HIDE DEF writes
    <3>5. q[j].mem[k] = x
      BY <1>4, <3>3, <3>4
    <3>6. HoldsIn(q[j], x)
      BY <1>4, <3>1, <3>5 DEF HoldsIn, SameSpan, k
    <3>. QED  BY <3>2, <3>6
  <2>3. CASE x \notin P
    <3>1. x \in held
      BY <2>3
    <3>2. PICK j \in DOMAIN rs : HeldIn(rs, x, j)
      BY <3>1 DEF Cells
    <3>3. /\ rs[j].offset <= x /\ x < rs[j].offset + Len(rs[j].mem)
          /\ x - rs[j].offset + 1 \in DOMAIN rs[j].mem
          /\ rs[j].mem[x - rs[j].offset + 1] = x
      BY <2>1, <3>2, HeldFacts
    <3> DEFINE k == x - rs[j].offset + 1
    <3>4. rs[j].offset + k - 1 = x
      BY <1>2, <2>1
    <3> HIDE DEF k
    <3>5. ~writes(j, k)
      BY <2>3, <3>4
    <3> HIDE DEF writes
    <3>6. q[j].mem[k] = x
      BY <1>4, <3>3, <3>5 DEF k
    <3>7. HoldsIn(q[j], x)
      BY <1>4, <3>3, <3>6 DEF HoldsIn, SameSpan, k
    <3>. QED  BY <3>2, <3>7 DEF HeldIn
  <2>. QED  BY <2>2, <2>3
<1>10. \A j \in DOMAIN rs : q[j].offset = rs[j].offset
  BY <1>4 DEF SameSpan
<1>11. Cells(q, held \cup P)
  <2> DEFINE held2 == held \cup P
  <2> HIDE DEF writes
  <2>1. held2 \in SUBSET Int
    BY <1>1
  <2>2. \A j \in DOMAIN q : \A k \in DOMAIN q[j].mem :
           q[j].mem[k] # Raw =>
             LET x == q[j].offset + k - 1
             IN  q[j].mem[k] = x /\ x \in held2 /\ IsRangeOf(rs, x, j)
    BY <1>8
  <2>3. \A x \in held2 : \E j \in DOMAIN rs : IsRangeOf(rs, x, j) /\ HoldsIn(q[j], x)
    BY <1>9
  <2> HIDE DEF held2
  <2>4. Cells(q, held2)
    BY <1>1, <1>5, <1>6, <1>10, <2>1, <2>2, <2>3, UpdateCells
  <2>. QED  BY <2>4 DEF held2
<1>. QED  BY <1>7, <1>11 DEF q

-----------------------------------------------------------------------------
(***************************************************************************)
(* findRange, and the lookups.                                             *)
(***************************************************************************)

(* Half of the numbers from low to high: at least one, and not all of them. *)
LEMMA HalfIs ==
  ASSUME NEW low \in Int, NEW high \in Int, low < high
  PROVE  LET mid == low + ((1 + high - low) \div 2)
         IN  mid \in Int /\ low < mid /\ mid <= high
<1> DEFINE d == 1 + high - low
<1>1. d \in Nat /\ d >= 2
  OBVIOUS
<1>2. \A x \in Nat : x >= 2 => x \div 2 \in Int /\ 1 <= x \div 2 /\ x \div 2 <= x - 1
  OBVIOUS
<1>3. d \div 2 \in Int /\ 1 <= d \div 2 /\ d \div 2 <= d - 1
  BY <1>1, <1>2
<1> DEFINE h == d \div 2
<1>4. h \in Int /\ 1 <= h /\ h <= high - low
  BY <1>3
<1> HIDE DEF h
<1>5. low + h \in Int /\ low < low + h /\ low + h <= high
  BY <1>4
<1>. QED  BY <1>5 DEF h

(* The binary search finds the position that its assertion demands.         *)
THEOREM BinarySearchIs ==
  ASSUME NEW rs \in Seq(RangeType), rs # <<>>, NEW w \in Int,
         \A i, j \in DOMAIN rs : i <= j => rs[i].offset <= rs[j].offset
  PROVE  BinarySearch(rs, w) = FindRange(rs, w)
<1> DEFINE L == Len(rs)
           mid(b) == b.low + ((1 + b.high - b.low) \div 2)
           Round(b) == IF b.low = b.high THEN b
                       ELSE IF GoesLow(rs[mid(b)], w) THEN [low |-> b.low, high |-> mid(b) - 1]
                       ELSE [low |-> mid(b), high |-> b.high]
           start == [low |-> 1, high |-> L]
           Bounds == [low : 1..L, high : 1..L]
           S == {b \in Bounds : b.low <= b.high}
           Steps(f) == f = [n \in 0..L |-> IF n = 0 THEN start ELSE Round(f[n - 1])]
           after == CHOOSE f : Steps(f)
           Good(b, n) == /\ b \in S
                         /\ b.low = b.high \/ b.high - b.low + n <= L - 1
                         /\ b.low = 1 \/ rs[b.low].offset <= w
                         /\ \A j \in DOMAIN rs : j > b.high => rs[j].offset > w
<1>1. L \in Nat /\ L >= 1 /\ DOMAIN rs = 1..L /\ \A j \in 1..L : rs[j].offset \in Nat
  <2>1. L \in Nat /\ L >= 1 /\ DOMAIN rs = 1..L
    OBVIOUS
  <2>. QED  BY <2>1, RangeFacts
<1>2. BinarySearch(rs, w) = after[L].low
  BY Zenon DEF BinarySearch
<1> HIDE DEF L
<1>3. ASSUME NEW b \in S
      PROVE  /\ b.low \in 1..L /\ b.high \in 1..L /\ b.low <= b.high
             /\ b.low \in Int /\ b.high \in Int
  BY <1>1
<1>4. ASSUME NEW x \in 1..L, NEW y \in 1..L, x <= y
      PROVE  /\ [low |-> x, high |-> y] \in S
             /\ [low |-> x, high |-> y].low = x /\ [low |-> x, high |-> y].high = y
  BY <1>4
<1>5. start \in S /\ start.low = 1 /\ start.high = L
  BY <1>1, <1>4
<1> HIDE DEF start, S
<1>6. ASSUME NEW b \in S, b.low # b.high
      PROVE  mid(b) \in Int /\ b.low < mid(b) /\ mid(b) <= b.high
             /\ mid(b) \in 1..L /\ mid(b) - 1 \in 1..L
  <2>1. b.low \in Int /\ b.high \in Int /\ b.low < b.high
    BY <1>3, <1>6
  <2>2. mid(b) \in Int /\ b.low < mid(b) /\ mid(b) <= b.high
    BY <2>1, HalfIs
  <2> HIDE DEF mid
  <2>. QED  BY <1>1, <1>3, <2>2
<1> HIDE DEF mid
<1>7. ASSUME NEW b \in S
      PROVE  Round(b) \in S
  <2>1. CASE b.low = b.high
    BY <2>1
  <2>2. CASE b.low # b.high
    <3>1. [low |-> b.low, high |-> mid(b) - 1] \in S
      BY <1>3, <1>4, <1>6, <2>2
    <3>2. [low |-> mid(b), high |-> b.high] \in S
      BY <1>3, <1>4, <1>6, <2>2
    <3>. QED  BY <2>2, <3>1, <3>2
  <2>. QED  BY <2>1, <2>2
<1> HIDE DEF Round
<1>8. Steps(after)
  <2> DEFINE step == [b \in S |-> Round(b)]
  <2>1. step \in [S -> S]
    BY <1>7
  <2>2. \A b \in S : step[b] = Round(b)
    OBVIOUS
  <2> HIDE DEF step
  <2>3. \E f \in [0..L -> S] : Iterates(f, L, start, step)
    BY <1>1, <1>5, <2>1, IterationExists, Zenon
  <2>4. PICK f \in [0..L -> S] : Iterates(f, L, start, step)
    BY <2>3, Zenon
  <2>5. ASSUME NEW n \in 0..L
        PROVE  f[n] = IF n = 0 THEN start ELSE Round(f[n - 1])
    <3>1. f[n] = IF n = 0 THEN start ELSE step[f[n - 1]]
      BY <2>4 DEF Iterates
    <3>2. n # 0 => f[n - 1] \in S
      BY <1>1
    <3>. QED  BY <2>2, <3>1, <3>2
  <2>6. Steps(f)
    BY <2>5
  <2> HIDE DEF Steps
  <2>. QED  BY <2>6, Zenon
<1> HIDE DEF after
<1>9. after[0] = start /\ \A n \in 1..L : after[n] = Round(after[n - 1])
  <2>1. \A n \in 0..L : after[n] = IF n = 0 THEN start ELSE Round(after[n - 1])
    BY <1>8
  <2>. QED  BY <1>1, <2>1
(* The invariant of the loop.                                               *)
<1>10. Good(start, 0)
  BY <1>1, <1>5
<1>11. ASSUME NEW b, NEW n \in Nat, Good(b, n)
       PROVE  Good(Round(b), n + 1)
  <2>1. b \in S
    BY <1>11
  <2>2. CASE b.low = b.high
    BY <1>11, <2>2 DEF Round
  <2>3. CASE b.low # b.high
    <3> DEFINE m == mid(b)
               low == b.low
               high == b.high
    <3>1. /\ m \in Int /\ low < m /\ m <= high /\ m \in 1..L /\ m - 1 \in 1..L
          /\ low \in 1..L /\ high \in 1..L /\ low \in Int /\ high \in Int
          /\ high - low + n <= L - 1
          /\ low = 1 \/ rs[low].offset <= w
          /\ \A j \in DOMAIN rs : j > high => rs[j].offset > w
      BY <1>3, <1>6, <1>11, <2>1, <2>3
    <3>2. Round(b) = IF GoesLow(rs[m], w) THEN [low |-> low, high |-> m - 1]
                     ELSE [low |-> m, high |-> high]
      BY <2>3 DEF Round
    <3> HIDE DEF m, low, high
    <3>3. CASE GoesLow(rs[m], w)
      <4> DEFINE c == [low |-> low, high |-> m - 1]
      <4>1. c \in S /\ c.low = low /\ c.high = m - 1
        BY <1>4, <3>1
      <4> HIDE DEF c
      <4>2. (m - 1) - low + (n + 1) <= L - 1
        BY <1>1, <3>1
      <4>3. ASSUME NEW j \in DOMAIN rs, j > m - 1
            PROVE  rs[j].offset > w
        <5>1. m <= j /\ m \in DOMAIN rs
          BY <1>1, <3>1, <4>3
        <5>2. rs[m].offset <= rs[j].offset /\ rs[m].offset > w
          BY <3>3, <5>1 DEF GoesLow
        <5>. QED  BY <1>1, <5>1, <5>2
      <4>4. Good(c, n + 1)
        BY <3>1, <4>1, <4>2, <4>3
      <4>. QED  BY <3>2, <3>3, <4>4 DEF c
    <3>4. CASE ~GoesLow(rs[m], w)
      <4> DEFINE c == [low |-> m, high |-> high]
      <4>1. c \in S /\ c.low = m /\ c.high = high
        BY <1>4, <3>1
      <4> HIDE DEF c
      <4>2. high - m + (n + 1) <= L - 1
        BY <1>1, <3>1
      <4>3. rs[m].offset <= w
        BY <1>1, <3>1, <3>4 DEF GoesLow
      <4>4. Good(c, n + 1)
        BY <3>1, <4>1, <4>2, <4>3
      <4>. QED  BY <3>2, <3>4, <4>4 DEF c
    <3>. QED  BY <3>3, <3>4
  <2>. QED  BY <2>2, <2>3
<1> HIDE DEF Good
<1>12. Good(after[L], L)
  <2> DEFINE Bad == {n \in 0..L : ~Good(after[n], n)}
  <2>1. SUFFICES ASSUME Bad # {}
                 PROVE  FALSE
    BY <1>1
  <2>2. PICK n \in Bad : \A k \in Bad : n <= k
    <3>1. Bad \subseteq Nat
      BY <1>1
    <3>. QED  BY <2>1, <3>1, LeastNat
  <2>3. n \in 0..L /\ ~Good(after[n], n)
    OBVIOUS
  <2>4. CASE n = 0
    BY <1>9, <1>10, <2>3, <2>4
  <2>5. CASE n # 0
    <3>1. n - 1 \in 0..L /\ n - 1 \in Nat /\ n \in 1..L /\ ~(n <= n - 1) /\ (n - 1) + 1 = n
      BY <1>1, <2>3, <2>5
    <3>2. Good(after[n - 1], n - 1)
      BY <2>2, <3>1
    <3>3. Good(Round(after[n - 1]), (n - 1) + 1)
      BY <1>11, <3>1, <3>2
    <3>. QED  BY <1>9, <2>3, <3>1, <3>3
  <2>. QED  BY <2>4, <2>5
<1> DEFINE p == after[L].low
<1>13. /\ p \in 1..L /\ p \in Int
       /\ p = 1 \/ rs[p].offset <= w
       /\ \A j \in DOMAIN rs : j > p => rs[j].offset > w
  <2> DEFINE z == after[L]
  <2>1. Good(z, L)
    BY <1>12
  <2> HIDE DEF z
  <2>2. /\ z \in S
        /\ z.low = z.high \/ z.high - z.low + L <= L - 1
        /\ z.low = 1 \/ rs[z.low].offset <= w
        /\ \A j \in DOMAIN rs : j > z.high => rs[j].offset > w
    BY <2>1 DEF Good
  <2>3. z.low \in 1..L /\ z.high \in 1..L /\ z.low <= z.high /\ z.low \in Int /\ z.high \in Int
    BY <1>3, <2>1 DEF Good
  <2>4. z.low = z.high
    BY <1>1, <2>1, <2>3 DEF Good
  <2>. QED  BY <2>2, <2>3, <2>4 DEF z
<1> HIDE DEF p
<1>14. CASE rs[p].offset <= w
  <2>1. IsRangeOf(rs, w, p) /\ p \in DOMAIN rs
    BY <1>1, <1>13, <1>14 DEF IsRangeOf
  <2>. QED  BY <1>2, <2>1, FindRangeIs DEF p
<1>15. CASE ~(rs[p].offset <= w)
  <2>1. p = 1
    BY <1>13, <1>15
  <2>2. ASSUME NEW j \in DOMAIN rs, rs[j].offset <= w
        PROVE  FALSE
    <3>1. j = 1 \/ j > 1
      BY <1>1
    <3>2. j = 1
      BY <1>1, <1>13, <2>1, <2>2, <3>1
    <3>. QED  BY <1>15, <2>1, <2>2, <3>2
  <2>. QED  BY <1>2, <2>1, <2>2, FindRangeIs DEF p
<1>. QED  BY <1>14, <1>15

(* The lookups find what the layout holds.                                  *)
LEMMA LookupIs ==
  ASSUME NEW rs, NEW given, NEW first, NEW held \in SUBSET Int,
         Shape(rs, given, first), Cells(rs, held), NEW w \in held
  PROVE  /\ FindRange(rs, w) \in DOMAIN rs
         /\ rs[FindRange(rs, w)].offset <= w
         /\ w - rs[FindRange(rs, w)].offset < Len(rs[FindRange(rs, w)].mem)
         /\ Retrieve(rs, w) = w
<1>1. PICK i \in DOMAIN rs : HeldIn(rs, w, i)
  BY DEF Cells
<1>2. w \in Int /\ rs \in Seq(RangeType)
  BY DEF Shape
<1>3. FindRange(rs, w) = i
  BY <1>1, <1>2, FindRangeIs DEF HeldIn
<1>. QED  BY <1>1, <1>3 DEF HeldIn, IsRangeOf, Retrieve

(* The values that the gates see of a scope's memory.                       *)
LEMMA StoreIs ==
  ASSUME NEW rs, NEW given, NEW first, NEW held \in SUBSET Int,
         Shape(rs, given, first), Cells(rs, held)
  PROVE  [w \in held |-> Retrieve(rs, w)] = [w \in held |-> w]
BY LookupIs

(***************************************************************************)
(* The steps of Scope.                                                     *)
(***************************************************************************)

(* The bounds of a program, and of the type that numbers its wires.         *)
LEMMA ProgramNumbers ==
  /\ MaxWire \in Nat /\ MaxArg \in Nat /\ MaxArg <= MaxWire
  /\ MaxMapped \in Nat /\ MaxMapped <= MaxArg
BY LayoutAssumption, ProgramAssumption DEF Wire

(* While inputs and outputs are mapped, only wires below firstLocal are     *)
(* assigned and no call is under way; the outputs found for a call stay     *)
(* free until it returns.                                                   *)
AssignOnce ==
  /\ firstLocal \in Nat
  /\ phase # "body" => /\ \A w \in assigned : w \in Int /\ w < firstLocal
                       /\ pending = {}
  /\ PendingWires \cap assigned = {}

(* The wires marked by mapInputs are new.                                   *)
LEMMA MapInputsStep ==
  ASSUME AssignOnce, NEW n \in 1..MaxMapped, MapInputs(n)
  PROVE  AssignOnce'
<1> DEFINE inputs == firstLocal .. (firstLocal + n - 1)
<1>1. /\ assigned' = assigned \cup inputs /\ active' = active \cup inputs
      /\ firstLocal' = firstLocal + n /\ pending' = pending
      /\ phase \in {"outputs", "inputs"}
  BY DEF MapInputs, Mark
<1>2. /\ \A w \in assigned : w \in Int /\ w < firstLocal
      /\ pending = {} /\ firstLocal \in Nat /\ n \in Nat
  BY <1>1, ProgramAssumption, LayoutAssumption DEF AssignOnce
<1>3. inputs \cap assigned = {}
  BY <1>2
<1>4. \A w \in assigned' : w \in Int /\ w < firstLocal'
  BY <1>1, <1>2
<1>5. AssignOnce'
  BY <1>1, <1>2, <1>4 DEF AssignOnce, PendingWires
<1>. QED  BY <1>1, <1>3, <1>5

(* One action of the scope, whichever it is.                                *)
LEMMA ScopeStep ==
  ASSUME AssignOnce, Next
  PROVE  AssignOnce'
<1>1. ASSUME NEW n \in 1..MaxMapped, MapOutputs(n)
      PROVE  AssignOnce'
  <2>1. n \in Nat
    BY ProgramAssumption, LayoutAssumption DEF Wire
  <2>. QED  BY <1>1, <2>1 DEF MapOutputs, AssignOnce, PendingWires
<1>2. ASSUME NEW n \in 1..MaxMapped, MapInputs(n)
      PROVE  AssignOnce'
  BY <1>2, MapInputsStep
<1>3. CASE BeginBody
  BY <1>3 DEF BeginBody, AssignOnce, PendingWires
<1>4. ASSUME NEW w \in Arg, Assign(w)
      PROVE  AssignOnce'
  <2>1. CASE Refuse("alreadyExists")
    BY <2>1 DEF Refuse, AssignOnce, PendingWires
  <2>2. CASE /\ Free(w) /\ Mark({w})
             /\ UNCHANGED <<firstLocal, phase, pending, err>>
    <3>1. phase = "body" /\ pending = {}
      BY <1>4 DEF Assign, Ready
    <3>2. PendingWires' = {}
      BY <2>2, <3>1 DEF PendingWires
    <3>. QED  BY <2>2, <3>1, <3>2 DEF Free, Mark, AssignOnce
  <2>. QED  BY <1>4, <2>1, <2>2 DEF Assign
<1>5. ASSUME NEW f \in Arg, NEW l \in Arg, NewRange(f, l)
      PROVE  AssignOnce'
  BY <1>5 DEF NewRange, Refuse, AssignOnce, PendingWires
<1>6. ASSUME NEW f \in Arg, NEW l \in Arg, DeleteRange(f, l)
      PROVE  AssignOnce'
  <2>1. CASE Refuse(DeleteError(ranges, assigned, active, firstLocal, f, l))
    BY <2>1 DEF Refuse, AssignOnce, PendingWires
  <2>2. CASE /\ active' = active \ (f .. LastDeleted(ranges, f, l))
             /\ UNCHANGED <<assigned, firstLocal, phase, pending>>
    BY <2>2 DEF AssignOnce, PendingWires
  <2>. QED  BY <1>6, <2>1, <2>2 DEF DeleteRange
<1>7. ASSUME NEW f \in Arg, NEW l \in Arg, FindOutputs(f, l)
      PROVE  AssignOnce'
  <2>1. CASE Refuse("alreadyExists")
    BY <2>1 DEF Refuse, AssignOnce, PendingWires
  <2>2. CASE /\ assigned \cap (f..l) = {}
             /\ pending' = pending \cup {[first |-> f, last |-> l]}
             /\ UNCHANGED <<assigned, active, firstLocal, phase, err>>
    <3>1. PendingWires' = PendingWires \cup (f..l)
      <4> DEFINE p == [first |-> f, last |-> l]
      <4>1. pending' = pending \cup {p} /\ p.first .. p.last = f..l
        BY <2>2
      <4> HIDE DEF p
      <4>2. ASSUME NEW x
            PROVE  x \in PendingWires' <=> x \in PendingWires \/ x \in f..l
        BY <4>1 DEF PendingWires
      <4>. QED  BY <4>2
    <3>2. phase = "body"
      BY <1>7 DEF FindOutputs
    <3>. QED  BY <2>2, <3>1, <3>2 DEF AssignOnce
  <2>. QED  BY <1>7, <2>1, <2>2 DEF FindOutputs
<1>8. CASE ReturnOutputs
  <2>1. /\ assigned' = assigned \cup PendingWires /\ active' = active \cup PendingWires
        /\ pending' = {} /\ UNCHANGED <<firstLocal, phase>> /\ pending # {}
    BY <1>8 DEF ReturnOutputs, Mark
  <2>2. phase = "body" /\ PendingWires' = {}
    BY <2>1 DEF AssignOnce, PendingWires
  <2>. QED  BY <2>1, <2>2 DEF AssignOnce
<1>. QED  BY <1>1, <1>2, <1>3, <1>4, <1>5, <1>6, <1>7, <1>8 DEF Next

-----------------------------------------------------------------------------
(***************************************************************************)
(* The layout is an invariant.                                             *)
(***************************************************************************)

(* The outputs of the call under way lie in declared or mapped ranges.      *)
PendingHeld ==
  \A p \in pending :
    \E i \in DOMAIN ranges :
      /\ ranges[i].kind # "grown"
      /\ ranges[i].offset <= p.first
      /\ p.last < ranges[i].offset + Len(ranges[i].mem)

(* The marks of the wires, and the state of the calls.                      *)
Marks ==
  /\ assigned \subseteq Arg
  /\ active \subseteq assigned
  /\ firstLocal \in 0..MaxMapped
  /\ phase \in {"outputs", "inputs", "body"}
  /\ pending \subseteq [first : Arg, last : Arg]
  /\ err \in Error \cup {"success"}

(* The layout of a scope: the invariant that every call keeps.              *)
Layout ==
  /\ Marks
  /\ AssignOnce
  /\ Shape(ranges, assigned, firstLocal)
  /\ Cells(ranges, active)
  /\ PendingHeld
  /\ phase # "body" => \A i \in DOMAIN ranges : ranges[i].kind = "mapped"

(* The wires of a program are numbers of the wire index type.               *)
LEMMA ArgFacts ==
  ASSUME NEW w \in Arg
  PROVE  w \in Nat /\ w \in Int /\ w \in 0..MaxWire /\ w <= MaxArg
BY ProgramNumbers DEF Arg

(* The outputs of the call under way are wires of the program.              *)
LEMMA PendingFacts ==
  ASSUME Marks
  PROVE  /\ PendingWires \in SUBSET Arg
         /\ \A p \in pending : p.first \in Arg /\ p.last \in Arg
         /\ \A w \in PendingWires : \E p \in pending : p.first <= w /\ w <= p.last
<1>1. \A p \in [first : Arg, last : Arg] : p.first \in Arg /\ p.last \in Arg
  OBVIOUS
<1>2. \A p \in pending : p.first \in Arg /\ p.last \in Arg
  BY <1>1 DEF Marks
<1>3. ASSUME NEW w \in PendingWires
      PROVE  w \in Arg /\ \E p \in pending : p.first <= w /\ w <= p.last
  <2>1. PICK p \in pending : w \in p.first .. p.last
    BY DEF PendingWires
  <2>2. p.first \in Arg /\ p.last \in Arg
    BY <1>2
  <2>. QED  BY <2>1, <2>2, ProgramNumbers DEF Arg
<1>. QED  BY <1>2, <1>3

(* What the calls do to the marks.                                          *)
LEMMA MarksStep ==
  ASSUME Marks, Next
  PROVE  Marks'
<1>1. ASSUME NEW n \in 1..MaxMapped, MapOutputs(n)
      PROVE  Marks'
  BY <1>1, ProgramNumbers DEF MapOutputs, Marks
<1>2. ASSUME NEW n \in 1..MaxMapped, MapInputs(n)
      PROVE  Marks'
  <2> DEFINE inputs == firstLocal .. (firstLocal + n - 1)
  <2>1. inputs \subseteq Arg /\ firstLocal + n \in 0..MaxMapped
    BY <1>2, ProgramNumbers DEF MapInputs, Marks, Arg
  <2>2. /\ assigned' = assigned \cup inputs /\ active' = active \cup inputs
        /\ firstLocal' = firstLocal + n /\ pending' = pending /\ phase' = "inputs"
        /\ err' = err
    BY <1>2 DEF MapInputs, Mark
  <2> HIDE DEF inputs
  <2>. QED  BY <2>1, <2>2 DEF Marks
<1>3. CASE BeginBody
  BY <1>3 DEF BeginBody, Marks
<1>4. ASSUME NEW w \in Arg, Assign(w)
      PROVE  Marks'
  BY <1>4 DEF Assign, Refuse, Mark, Marks, Error
<1>5. ASSUME NEW f \in Arg, NEW l \in Arg, NewRange(f, l)
      PROVE  Marks'
  BY <1>5 DEF NewRange, Refuse, Marks, Error
<1>6. ASSUME NEW f \in Arg, NEW l \in Arg, DeleteRange(f, l)
      PROVE  Marks'
  <2> DEFINE e == DeleteError(ranges, assigned, active, firstLocal, f, l)
             D == f .. LastDeleted(ranges, f, l)
  <2>1. \/ e \in {"cannotDeleteRemap", "notAssigned", "deleted"} /\ Refuse(e)
        \/ /\ e \in {"success", "unmatchedDelete"}
           /\ active' = active \ D /\ err' = e
           /\ UNCHANGED <<assigned, firstLocal, phase, pending>>
    BY <1>6 DEF DeleteRange
  <2> HIDE DEF e, D
  <2>. QED  BY <2>1 DEF Refuse, Marks, Error
<1>7. ASSUME NEW f \in Arg, NEW l \in Arg, FindOutputs(f, l)
      PROVE  Marks'
  <2>1. [first |-> f, last |-> l] \in [first : Arg, last : Arg]
    OBVIOUS
  <2>2. \/ Refuse("alreadyExists")
        \/ /\ pending' = pending \cup {[first |-> f, last |-> l]}
           /\ UNCHANGED <<assigned, active, firstLocal, phase, err>>
    BY <1>7 DEF FindOutputs
  <2> DEFINE R == [first : Arg, last : Arg]
             p == [first |-> f, last |-> l]
  <2>3. p \in R /\ (Marks <=> /\ assigned \subseteq Arg /\ active \subseteq assigned
                              /\ firstLocal \in 0..MaxMapped
                              /\ phase \in {"outputs", "inputs", "body"}
                              /\ pending \subseteq R /\ err \in Error \cup {"success"})
    BY <2>1 DEF Marks
  <2>4. pending' \subseteq R /\ assigned' = assigned /\ active' = active
        /\ firstLocal' = firstLocal /\ phase' = phase
        /\ err' \in Error \cup {"success"}
    <3>1. "alreadyExists" \in Error
      BY DEF Error
    <3> HIDE DEF R, p
    <3>. QED  BY <2>2, <2>3, <3>1 DEF Refuse, p
  <2>. QED  BY <2>3, <2>4 DEF Marks
<1>8. CASE ReturnOutputs
  <2>1. PendingWires \subseteq Arg
    BY PendingFacts
  <2>2. /\ assigned' = assigned \cup PendingWires /\ active' = active \cup PendingWires
        /\ pending' = {} /\ UNCHANGED <<firstLocal, phase, err>>
    BY <1>8 DEF ReturnOutputs, Mark
  <2>. QED  BY <2>1, <2>2 DEF Marks
<1>. QED  BY <1>1, <1>2, <1>3, <1>4, <1>5, <1>6, <1>7, <1>8 DEF Next

(* The memory that the marks describe.                                      *)
Memory(rs, given, first, held, body, calls) ==
  /\ Shape(rs, given, first)
  /\ Cells(rs, held)
  /\ \A p \in calls :
       \E i \in DOMAIN rs : /\ rs[i].kind # "grown" /\ rs[i].offset <= p.first
                            /\ p.last < rs[i].offset + Len(rs[i].mem)
  /\ ~body => \A i \in DOMAIN rs : rs[i].kind = "mapped"

(* The layout, before and after a step, as a predicate of the state.        *)
LEMMA LayoutIs ==
  /\ Layout <=> /\ Marks /\ AssignOnce
                /\ Memory(ranges, assigned, firstLocal, active, phase = "body", pending)
  /\ Layout' <=> /\ Marks' /\ AssignOnce'
                 /\ Memory(ranges', assigned', firstLocal', active', phase' = "body", pending')
BY DEF Layout, Memory, PendingHeld

(* What the operations need to know of the state.                           *)
LEMMA LayoutFacts ==
  ASSUME Layout
  PROVE  /\ active \in SUBSET (0..MaxWire) /\ active \in SUBSET Int /\ active \subseteq assigned
         /\ firstLocal \in Nat /\ firstLocal \in Int /\ firstLocal <= MaxMapped
         /\ Shape(ranges, assigned, firstLocal) /\ Cells(ranges, active)
         /\ ranges \in Seq(RangeType)
         /\ phase # "body" => pending = {} /\ \A i \in DOMAIN ranges : ranges[i].kind = "mapped"
<1>1. \A w \in Arg : w \in 0..MaxWire /\ w \in Int
  BY ArgFacts
<1>2. active \subseteq Arg /\ active \subseteq assigned /\ firstLocal \in 0..MaxMapped
  BY DEF Layout, Marks
<1>3. firstLocal \in Nat /\ firstLocal \in Int /\ firstLocal <= MaxMapped
  BY <1>2, ProgramNumbers
<1>. QED  BY <1>1, <1>2, <1>3 DEF Layout, AssignOnce, Shape

(* mapOutputs keeps the memory: its cells are raw.                          *)
LEMMA MapOutputsStep ==
  ASSUME Layout, NEW n \in 1..MaxMapped, MapOutputs(n)
  PROVE  Memory(ranges', assigned', firstLocal', active', phase' = "body", pending')
<1> DEFINE mem == RawCells(n)
<1>1. n \in Nat /\ n >= 1 /\ firstLocal + n <= MaxWire
  BY LayoutFacts, ProgramNumbers DEF MapOutputs
<1>2. /\ mem \in Seq(Cell) /\ Len(mem) = n /\ DOMAIN mem = 1..n
      /\ \A k \in DOMAIN mem : mem[k] = Raw
  BY <1>1 DEF RawCells, Cell
<1>3. /\ ranges' = MapRange(ranges, firstLocal, mem)
      /\ firstLocal' = firstLocal + n /\ phase = "outputs"
      /\ UNCHANGED <<assigned, active, phase, pending>>
  BY DEF MapOutputs, MapRange
<1> HIDE DEF mem
<1>4. /\ Shape(MapRange(ranges, firstLocal, mem), assigned, firstLocal + Len(mem))
      /\ Cells(MapRange(ranges, firstLocal, mem), active)
      /\ \A i \in DOMAIN MapRange(ranges, firstLocal, mem) :
           MapRange(ranges, firstLocal, mem)[i].kind = "mapped"
  <2>1. active \subseteq active /\ active \ active = {} /\ assigned \subseteq assigned
    OBVIOUS
  <2>2. \A i \in DOMAIN ranges : ranges[i].kind = "mapped"
    BY <1>3, LayoutFacts
  <2>3. /\ firstLocal \in Nat /\ active \in SUBSET Int
        /\ Shape(ranges, assigned, firstLocal) /\ Cells(ranges, active)
    BY LayoutFacts
  <2>4. Len(mem) >= 1 /\ firstLocal + Len(mem) <= MaxWire
    BY <1>1, <1>2
  <2>5. /\ \A w \in active \ active : /\ firstLocal <= w /\ w < firstLocal + Len(mem)
                                     /\ mem[w - firstLocal + 1] = w
        /\ \A k \in DOMAIN mem : mem[k] # Raw => /\ mem[k] = firstLocal + k - 1
                                                 /\ firstLocal + k - 1 \in active
    BY <1>2
  <2>6. mem \in Seq(Cell)
    BY <1>2
  <2>7. Mappable(ranges, assigned, firstLocal, active, mem, assigned, active)
    BY <2>1, <2>2, <2>3, <2>4, <2>5, <2>6 DEF Mappable
  <2>. QED  BY <2>7, MapKeeps
<1>. QED  BY <1>2, <1>3, <1>4, LayoutFacts DEF Memory

(* mapInputs keeps the memory: each cell holds its wire.                    *)
LEMMA MapInputsMemory ==
  ASSUME Layout, NEW n \in 1..MaxMapped, MapInputs(n)
  PROVE  Memory(ranges', assigned', firstLocal', active', phase' = "body", pending')
<1> DEFINE mem == [k \in 1..n |-> firstLocal + k - 1]
           inputs == firstLocal .. (firstLocal + n - 1)
           held2 == active \cup inputs
           given2 == assigned \cup inputs
<1>1. n \in Nat /\ n >= 1 /\ firstLocal + n <= MaxWire /\ firstLocal \in Nat
  BY LayoutFacts, ProgramNumbers DEF MapInputs
<1>2. /\ mem \in Seq(Cell) /\ Len(mem) = n /\ DOMAIN mem = 1..n
      /\ \A k \in DOMAIN mem : mem[k] = firstLocal + k - 1
  <2>1. \A k \in 1..n : firstLocal + k - 1 \in Cell
    BY <1>1, ProgramNumbers DEF Cell, Wire
  <2>. QED  BY <1>1, <2>1
<1>3. /\ ranges' = MapRange(ranges, firstLocal, mem)
      /\ firstLocal' = firstLocal + n /\ phase # "body" /\ phase' = "inputs"
      /\ assigned' = given2 /\ active' = held2 /\ pending' = pending
  BY DEF MapInputs, Mark, MapRange
<1> HIDE DEF mem
<1>4. /\ assigned \subseteq given2 /\ active \subseteq held2 /\ held2 \in SUBSET Int
  BY <1>1, LayoutFacts
<1>5. ASSUME NEW w \in held2 \ active
      PROVE  /\ firstLocal <= w /\ w < firstLocal + Len(mem)
             /\ mem[w - firstLocal + 1] = w
  <2>1. w \in inputs
    OBVIOUS
  <2>2. w - firstLocal + 1 \in 1..n /\ firstLocal <= w /\ w < firstLocal + n
        /\ firstLocal + (w - firstLocal + 1) - 1 = w
    BY <1>1, <2>1
  <2>. QED  BY <1>2, <2>2
<1>6. \A k \in DOMAIN mem : mem[k] = firstLocal + k - 1 /\ firstLocal + k - 1 \in held2
  BY <1>1, <1>2
<1> HIDE DEF held2, given2
<1>7. \A i \in DOMAIN ranges : ranges[i].kind = "mapped"
  BY <1>3, LayoutFacts
<1>8. /\ Shape(MapRange(ranges, firstLocal, mem), given2, firstLocal + Len(mem))
      /\ Cells(MapRange(ranges, firstLocal, mem), held2)
      /\ \A i \in DOMAIN MapRange(ranges, firstLocal, mem) :
           MapRange(ranges, firstLocal, mem)[i].kind = "mapped"
  <2>1. /\ firstLocal \in Nat /\ active \in SUBSET Int
        /\ Shape(ranges, assigned, firstLocal) /\ Cells(ranges, active)
    BY LayoutFacts
  <2>2. Len(mem) >= 1 /\ firstLocal + Len(mem) <= MaxWire /\ mem \in Seq(Cell)
    BY <1>1, <1>2
  <2>3. Mappable(ranges, assigned, firstLocal, active, mem, given2, held2)
    BY <1>4, <1>5, <1>6, <1>7, <2>1, <2>2 DEF Mappable
  <2>. QED  BY <2>3, MapKeeps
<1>. QED  BY <1>2, <1>3, <1>8, LayoutFacts DEF Memory

(* assign keeps the memory.                                                 *)
LEMMA AssignMemory ==
  ASSUME Layout, NEW w \in Arg, Assign(w)
  PROVE  Memory(ranges', assigned', firstLocal', active', phase' = "body", pending')
<1>1. CASE Refuse("alreadyExists")
  BY <1>1, LayoutIs DEF Refuse
<1>2. CASE /\ ranges' = AssignCell(ranges, active, w) /\ Mark({w})
           /\ UNCHANGED <<firstLocal, phase, pending>>
  <2>1. phase = "body" /\ pending = {}
    BY DEF Assign, Ready
  <2>2. /\ Shape(AssignCell(ranges, active, w), assigned \cup {w}, firstLocal)
        /\ Cells(AssignCell(ranges, active, w), active \cup {w})
    BY ArgFacts, LayoutFacts, AssignKeeps
  <2>. QED  BY <1>2, <2>1, <2>2 DEF Memory, Mark
<1>. QED  BY <1>1, <1>2 DEF Assign

(* A range that is added without a clash keeps the memory.                  *)
LEMMA AddRangeMemory ==
  ASSUME Layout, MaxArg < MaxWire, NEW f \in Arg, NEW l \in Arg, f <= l,
         ~CutsForeign(ranges, f, l),
         ~NewRangeClashes(ranges, assigned, firstLocal, f, l)
  PROVE  LET q == AddNewRange(ranges, active, f, l)
         IN  /\ Shape(q, assigned, firstLocal) /\ Cells(q, active)
             /\ \A j \in DOMAIN ranges : \E m \in DOMAIN q : SameSpan(q[m], ranges[j])
             /\ \E m \in DOMAIN q : /\ q[m].offset = f /\ q[m].kind = "new"
                                    /\ Len(q[m].mem) = 1 + l - f
             /\ Declares(q, ranges, f, l)
<1>1. f \in Nat /\ l \in Nat /\ l < MaxWire
  BY ArgFacts, ProgramNumbers
<1>2. ranges # <<>> /\ f >= ranges[1].offset /\ FindRange(ranges, f) < Len(ranges)
        => ~(\E w \in active : /\ l < w /\ w <= End(ranges[FindRange(ranges, f)])
                               /\ w >= ranges[FindRange(ranges, f) + 1].offset)
  BY DEF CutsForeign
<1>. QED  BY <1>1, <1>2, LayoutFacts, AddNewRangeKeeps

(* newRange keeps the memory.                                               *)
LEMMA NewRangeMemory ==
  ASSUME Layout, AvoidForeign, MaxArg < MaxWire,
         NEW f \in Arg, NEW l \in Arg, NewRange(f, l)
  PROVE  Memory(ranges', assigned', firstLocal', active', phase' = "body", pending')
<1>1. CASE Refuse("alreadyExists")
  BY <1>1, LayoutIs DEF Refuse
<1>2. CASE /\ ~NewRangeClashes(ranges, assigned, firstLocal, f, l)
           /\ ranges' = AddNewRange(ranges, active, f, l)
           /\ UNCHANGED <<assigned, active, firstLocal, phase, pending>>
  <2>1. phase = "body" /\ pending = {} /\ f <= l /\ ~CutsForeign(ranges, f, l)
    BY DEF NewRange, Ready
  <2>2. /\ Shape(AddNewRange(ranges, active, f, l), assigned, firstLocal)
        /\ Cells(AddNewRange(ranges, active, f, l), active)
    BY <1>2, <2>1, AddRangeMemory
  <2>. QED  BY <1>2, <2>1, <2>2 DEF Memory
<1>. QED  BY <1>1, <1>2 DEF NewRange

(* deleteRange keeps the memory, whether it ends early or not.              *)
LEMMA DeleteRangeMemory ==
  ASSUME Layout, NEW f \in Arg, NEW l \in Arg, DeleteRange(f, l)
  PROVE  Memory(ranges', assigned', firstLocal', active', phase' = "body", pending')
<1> DEFINE e == DeleteError(ranges, assigned, active, firstLocal, f, l)
<1>1. CASE Refuse(e)
  BY <1>1, LayoutIs DEF Refuse
<1>2. CASE /\ e \in {"success", "unmatchedDelete"}
           /\ ranges' = DeleteCells(ranges, active, f, l)
           /\ active' = active \ (f .. LastDeleted(ranges, f, l))
           /\ UNCHANGED <<assigned, firstLocal, phase, pending>>
  <2>1. phase = "body" /\ pending = {} /\ f <= l
    BY DEF DeleteRange, Ready
  <2>2. f \in Nat /\ l \in Nat /\ f \in f..l
    BY <2>1, ArgFacts
  <2>3. f \in active
    BY <1>2, <2>2 DEF DeleteError
  <2>4. /\ Shape(DeleteCells(ranges, active, f, l), assigned, firstLocal)
        /\ Cells(DeleteCells(ranges, active, f, l), active \ (f..LastDeleted(ranges, f, l)))
    BY <2>2, <2>3, LayoutFacts, DeleteKeeps
  <2>. QED  BY <1>2, <2>1, <2>4 DEF Memory
<1>. QED  BY <1>1, <1>2 DEF DeleteRange

(* A declared or mapped range that covers f..l, as findOutputs finds it.    *)
LEMMA CoversIs ==
  ASSUME NEW rs, NEW given, NEW first, Shape(rs, given, first),
         NEW f \in Int, NEW l \in Int, CoversOutputs(rs, f, l)
  PROVE  \E i \in DOMAIN rs : /\ rs[i].kind # "grown" /\ rs[i].offset <= f
                              /\ l < rs[i].offset + Len(rs[i].mem)
<1> DEFINE i == FindRange(rs, f)
<1>1. /\ rs \in Seq(RangeType) /\ rs # <<>> /\ rs[i].kind \in {"new", "mapped"}
      /\ rs[i].offset <= f /\ End(rs[i]) >= l
  BY DEF CoversOutputs, Shape
<1>2. i \in DOMAIN rs
  <2>1. i = 1 \/ IsRangeOf(rs, f, i)
    BY <1>1, FindRangeIs
  <2>2. 1 \in DOMAIN rs
    BY <1>1
  <2> HIDE DEF i
  <2>. QED  BY <2>1, <2>2 DEF IsRangeOf
<1> HIDE DEF i
<1>3. /\ End(rs[i]) = rs[i].offset + Len(rs[i].mem) - 1 /\ End(rs[i]) \in Int
      /\ rs[i].offset \in Nat /\ Len(rs[i].mem) \in Nat
  <2>1. rs[i] \in RangeType /\ Sized(rs[i])
    BY <1>1, <1>2, RangeFacts DEF Shape
  <2>. QED  BY <1>1, <1>2, <2>1, RangeFacts, EndIs
<1>4. l < rs[i].offset + Len(rs[i].mem)
  BY <1>1, <1>3
<1>. QED  BY <1>1, <1>2, <1>4

(* findOutputs keeps the memory, and the ranges of earlier outputs.         *)
LEMMA FindOutputsMemory ==
  ASSUME Layout, AvoidForeign, MaxArg < MaxWire,
         NEW f \in Arg, NEW l \in Arg, FindOutputs(f, l)
  PROVE  Memory(ranges', assigned', firstLocal', active', phase' = "body", pending')
<1> DEFINE p == [first |-> f, last |-> l]
<1>1. CASE Refuse("alreadyExists")
  BY <1>1, LayoutIs DEF Refuse
<1>2. CASE /\ NewRangeClashes(ranges, assigned, firstLocal, f, l)
                => CoversOutputs(ranges, f, l)
           /\ ranges' = IF CoversOutputs(ranges, f, l) THEN ranges
                        ELSE AddNewRange(ranges, active, f, l)
           /\ pending' = pending \cup {p}
           /\ UNCHANGED <<assigned, active, firstLocal, phase>>
  <2>1. /\ phase = "body" /\ f <= l
        /\ CutsForeign(ranges, f, l) => CoversOutputs(ranges, f, l)
    BY DEF FindOutputs
  <2>2. p.first = f /\ p.last = l
    OBVIOUS
  <2> HIDE DEF p
  <2>3. Memory(ranges, assigned, firstLocal, active, phase = "body", pending)
    BY LayoutIs
  <2>4. f \in Int /\ l \in Int
    BY ArgFacts
  <2>5. CASE CoversOutputs(ranges, f, l)
    <3>1. \E i \in DOMAIN ranges : /\ ranges[i].kind # "grown" /\ ranges[i].offset <= f
                                   /\ l < ranges[i].offset + Len(ranges[i].mem)
      BY <2>4, <2>5, LayoutFacts, CoversIs
    <3>. QED  BY <1>2, <2>1, <2>2, <2>3, <2>5, <3>1 DEF Memory
  <2>6. CASE ~CoversOutputs(ranges, f, l)
    <3> DEFINE q == AddNewRange(ranges, active, f, l)
    <3>1. /\ Shape(q, assigned, firstLocal) /\ Cells(q, active)
          /\ \A j \in DOMAIN ranges : \E m \in DOMAIN q : SameSpan(q[m], ranges[j])
          /\ \E m \in DOMAIN q : /\ q[m].offset = f /\ q[m].kind = "new"
                                 /\ Len(q[m].mem) = 1 + l - f
      BY <1>2, <2>1, <2>6, AddRangeMemory
    <3>2. ranges' = q
      BY <1>2, <2>6
    <3> HIDE DEF q
    <3>3. ASSUME NEW c \in pending
          PROVE  \E i \in DOMAIN q : /\ q[i].kind # "grown" /\ q[i].offset <= c.first
                                     /\ c.last < q[i].offset + Len(q[i].mem)
      <4>1. PICK j \in DOMAIN ranges : /\ ranges[j].kind # "grown" /\ ranges[j].offset <= c.first
                                       /\ c.last < ranges[j].offset + Len(ranges[j].mem)
        BY <2>3 DEF Memory
      <4>2. PICK m \in DOMAIN q : SameSpan(q[m], ranges[j])
        BY <3>1
      <4>. QED  BY <4>1, <4>2 DEF SameSpan
    <3>4. \E i \in DOMAIN q : /\ q[i].kind # "grown" /\ q[i].offset <= p.first
                              /\ p.last < q[i].offset + Len(q[i].mem)
      <4>1. PICK m \in DOMAIN q : /\ q[m].offset = f /\ q[m].kind = "new"
                                  /\ Len(q[m].mem) = 1 + l - f
        BY <3>1
      <4>2. f <= f /\ l < f + (1 + l - f)
        BY <2>4
      <4>. QED  BY <2>2, <4>1, <4>2
    <3>. QED  BY <1>2, <2>1, <3>1, <3>2, <3>3, <3>4 DEF Memory
  <2>. QED  BY <2>5, <2>6
<1>. QED  BY <1>1, <1>2 DEF FindOutputs

(* The outputs of a call are written into their own cells.                  *)
LEMMA ReturnMemory ==
  ASSUME Layout, ReturnOutputs
  PROVE  Memory(ranges', assigned', firstLocal', active', phase' = "body", pending')
<1> DEFINE P == PendingWires
<1>1. /\ ranges' = WriteOutputs(ranges, [w \in P |-> w])
      /\ assigned' = assigned \cup P /\ active' = active \cup P
      /\ pending' = {} /\ UNCHANGED <<firstLocal, phase>> /\ pending # {}
  BY DEF ReturnOutputs, Mark
<1>2. phase = "body"
  BY <1>1, LayoutFacts
<1>3. P \in SUBSET Arg /\ \A w \in P : \E p \in pending : p.first <= w /\ w <= p.last
  BY PendingFacts DEF Layout
<1>4. P \in SUBSET (0..MaxWire)
  BY <1>3, ArgFacts
<1> HIDE DEF P
<1>5. ASSUME NEW x \in P
      PROVE  \E i \in DOMAIN ranges :
               /\ ranges[i].kind # "grown" /\ ranges[i].offset <= x
               /\ x < ranges[i].offset + Len(ranges[i].mem)
  <2>1. PICK p \in pending : p.first <= x /\ x <= p.last
    BY <1>3
  <2>2. PICK i \in DOMAIN ranges : /\ ranges[i].kind # "grown" /\ ranges[i].offset <= p.first
                                   /\ p.last < ranges[i].offset + Len(ranges[i].mem)
    BY DEF Layout, PendingHeld
  <2>3. p.first \in Int /\ p.last \in Int /\ x \in Int
    <3>1. p.first \in Arg /\ p.last \in Arg /\ x \in Arg
      BY <1>3, PendingFacts DEF Layout
    <3>. QED  BY <3>1, ArgFacts
  <2>4. ranges[i].offset \in Nat /\ Len(ranges[i].mem) \in Nat
    BY LayoutFacts, RangeFacts
  <2> DEFINE o == ranges[i].offset
             z == ranges[i].offset + Len(ranges[i].mem)
             u == p.first
             v == p.last
  <2>5. o <= u /\ v < z /\ u <= x /\ x <= v /\ o \in Int /\ z \in Int /\ u \in Int /\ v \in Int
    BY <2>1, <2>2, <2>3, <2>4
  <2> HIDE DEF o, z, u, v
  <2>6. o <= x /\ x < z
    BY <2>3, <2>5
  <2>. QED  BY <2>2, <2>6 DEF o, z
<1>6. /\ Shape(WriteOutputs(ranges, [w \in P |-> w]), assigned \cup P, firstLocal)
      /\ Cells(WriteOutputs(ranges, [w \in P |-> w]), active \cup P)
  BY <1>4, <1>5, LayoutFacts, WriteKeeps
<1>. QED  BY <1>1, <1>2, <1>6 DEF Memory

(* Every call keeps the layout.                                             *)
LEMMA LayoutStep ==
  ASSUME Layout, AvoidForeign, MaxArg < MaxWire, [Next]_vars
  PROVE  Layout'
<1> DEFINE M == Memory(ranges', assigned', firstLocal', active', phase' = "body", pending')
<1>1. CASE UNCHANGED vars
  <2>1. Marks' /\ AssignOnce'
    BY <1>1 DEF vars, Layout, Marks, AssignOnce, PendingWires
  <2>2. M
    BY <1>1, LayoutIs DEF vars
  <2>. QED  BY <2>1, <2>2, LayoutIs
<1>2. CASE Next
  <2>1. Marks' /\ AssignOnce'
    BY <1>2, MarksStep, ScopeStep DEF Layout
  <2>2. M
    <3>1. ASSUME NEW n \in 1..MaxMapped, MapOutputs(n)
          PROVE  M
      BY <3>1, MapOutputsStep
    <3>2. ASSUME NEW n \in 1..MaxMapped, MapInputs(n)
          PROVE  M
      BY <3>2, MapInputsMemory
    <3>3. CASE BeginBody
      BY <3>3, LayoutIs DEF BeginBody, Memory
    <3>4. ASSUME NEW w \in Arg, Assign(w)
          PROVE  M
      BY <3>4, AssignMemory
    <3>5. ASSUME NEW f \in Arg, NEW l \in Arg, NewRange(f, l)
          PROVE  M
      BY <3>5, NewRangeMemory
    <3>6. ASSUME NEW f \in Arg, NEW l \in Arg, DeleteRange(f, l)
          PROVE  M
      BY <3>6, DeleteRangeMemory
    <3>7. ASSUME NEW f \in Arg, NEW l \in Arg, FindOutputs(f, l)
          PROVE  M
      BY <3>7, FindOutputsMemory
    <3>8. CASE ReturnOutputs
      BY <3>8, ReturnMemory
    <3> HIDE DEF M
    <3>. QED  BY <1>2, <3>1, <3>2, <3>3, <3>4, <3>5, <3>6, <3>7, <3>8 DEF Next
  <2>. QED  BY <2>1, <2>2, LayoutIs
<1>. QED  BY <1>1, <1>2

(* A scope starts with no memory.                                           *)
LEMMA LayoutInit ==
  Init => Layout
<1>1. ASSUME Init
      PROVE  Shape(ranges, assigned, firstLocal) /\ Cells(ranges, active)
  BY <1>1 DEF Init, Shape, Cells
<1>2. Init => Marks
  BY ProgramNumbers DEF Init, Marks
<1>. QED  BY <1>1, <1>2 DEF Init, Layout, AssignOnce, PendingHeld, PendingWires

THEOREM LayoutKept ==
  ASSUME AvoidForeign, MaxArg < MaxWire
  PROVE  Spec => []Layout
<1>1. Layout /\ [Next]_vars => Layout'
  BY LayoutStep
<1>. QED  BY <1>1, LayoutInit, PTL DEF Spec

-----------------------------------------------------------------------------
(***************************************************************************)
(* What the layout gives.                                                  *)
(***************************************************************************)

(* The layout makes the memory exact.                                       *)
LEMMA LayoutExactIs ==
  ASSUME Layout
  PROVE  LayoutExact
<1>1. TypeOK
  BY LayoutFacts DEF TypeOK, Layout, Marks
<1>2. /\ ranges \in Seq(RangeType) /\ DOMAIN ranges = 1..Len(ranges) /\ Len(ranges) \in Nat
      /\ \A i, j \in DOMAIN ranges : i <= j => ranges[i].offset <= ranges[j].offset
  BY LayoutFacts DEF Shape
<1>3. SortedOffsets
  BY <1>2 DEF SortedOffsets
<1>4. FindRangeExact
  <2>1. ASSUME NEW w \in Arg, ranges # <<>>
        PROVE  BinarySearch(ranges, w) = FindRange(ranges, w)
    BY <1>2, <2>1, ArgFacts, BinarySearchIs
  <2>. QED  BY <2>1 DEF FindRangeExact
<1>5. RetrieveExact
  BY LayoutFacts, LookupIs DEF RetrieveExact, Retrieve
<1>6. ConstructedOnce
  <2>1. ASSUME NEW i \in DOMAIN ranges, NEW k \in DOMAIN ranges[i].mem,
               ranges[i].mem[k] # Raw
        PROVE  LET w == ranges[i].offset + k - 1
               IN  ranges[i].mem[k] = w /\ w \in active /\ i = FindRange(ranges, w)
    <3> DEFINE w == ranges[i].offset + k - 1
    <3>1. ranges[i].offset \in Int /\ k \in Int
      BY <1>2, RangeFacts
    <3>2. w \in Int /\ w - ranges[i].offset + 1 = k
      BY <3>1
    <3>3. w \in active /\ HeldIn(ranges, w, i)
      BY <2>1, LayoutFacts DEF Cells
    <3> HIDE DEF w
    <3>4. ranges[i].mem[k] = w
      BY <3>2, <3>3 DEF HeldIn, CellOf
    <3>5. i = FindRange(ranges, w)
      BY <1>2, <3>2, <3>3, FindRangeIs DEF HeldIn
    <3>. QED  BY <3>3, <3>4, <3>5 DEF w
  <2>. QED  BY <2>1 DEF ConstructedOnce
<1>. QED  BY <1>1, <1>3, <1>4, <1>5, <1>6 DEF LayoutExact

(* An interval of inputs that is not refused lies in the range of its first *)
(* wire, and so does each of its wires.                                     *)
LEMMA FindInputsIs ==
  ASSUME Layout, MaxArg < MaxWire, NEW f \in Arg, NEW l \in Arg, f <= l,
         FindInputsError(ranges, assigned, active, f, l) = "success"
  PROVE  /\ InputsInBounds(ranges, f, l)
         /\ \A w \in f..l : CellOf(ranges[FindRange(ranges, f)], w) = w
<1> DEFINE i == FindRange(ranges, f)
           r == ranges[i]
<1>1. f \in Int /\ l \in Int /\ l < MaxWire /\ MaxWire \in Int /\ f \in f..l /\ l \in f..l
  BY ArgFacts, ProgramNumbers
<1>2. /\ f..l \subseteq active
      /\ FixedOrSingle(r, f, l) /\ r.offset <= f
      /\ End(r) >= l \/ MaxWire - Len(r.mem) <= r.offset
  BY DEF FindInputsError
<1>3. active \in SUBSET Int /\ Shape(ranges, assigned, firstLocal) /\ Cells(ranges, active)
  BY LayoutFacts
<1>4. f \in active /\ i \in DOMAIN ranges
  BY <1>1, <1>2, <1>3, LookupIs
<1>5. CASE f = l
  <2>1. l - r.offset < Len(r.mem) /\ CellOf(r, f) = f
    BY <1>3, <1>4, <1>5, LookupIs DEF Retrieve
  <2>2. \A w \in f..l : w = f
    BY <1>1, <1>5
  <2>. QED  BY <2>1, <2>2 DEF InputsInBounds
<1>6. CASE f # l
  <2> HIDE DEF i
  <2>1. /\ r.kind # "grown" /\ ranges \in Seq(RangeType)
        /\ r.offset \in Nat /\ Len(r.mem) \in Nat
        /\ End(r) = r.offset + Len(r.mem) - 1
    BY <1>2, <1>3, <1>4, <1>6, RangeFacts, EndIs DEF FixedOrSingle, Shape
  <2> DEFINE o == r.offset
             n == Len(r.mem)
  <2>2. o \in Int /\ n \in Int /\ o <= f
        /\ (o + n - 1 >= l \/ MaxWire - n <= o)
    BY <1>2, <2>1
  <2>3. l < o + n /\ l - o < n
    <3> HIDE DEF o, n
    <3>. QED  BY <1>1, <2>2
  <2>4. ASSUME NEW w \in f..l
        PROVE  CellOf(r, w) = w
    <3>1. w \in active /\ w \in Int /\ r.offset <= w /\ w < r.offset + Len(r.mem)
      <4>1. w \in Int /\ o <= w /\ w < o + n
        <5> HIDE DEF o, n
        <5>. QED  BY <1>1, <2>2, <2>3
      <4>. QED  BY <1>2, <4>1
    <3>2. IsRangeOf(ranges, w, i)
      BY <1>3, <1>4, <2>1, <3>1, FixedRangeOf
    <3>3. FindRange(ranges, w) = i
      BY <1>4, <2>1, <3>1, <3>2, FindRangeIs
    <3>. QED  BY <1>3, <3>1, <3>3, LookupIs DEF Retrieve
  <2>. QED  BY <2>3, <2>4 DEF InputsInBounds, i
<1>. QED  BY <1>5, <1>6

(* The cells of the outputs of the call under way.                          *)
LEMMA OutputsFreeIs ==
  ASSUME Layout
  PROVE  OutputsFree
<1>1. SUFFICES ASSUME NEW p \in pending
               PROVE  \E i \in DOMAIN ranges :
                        /\ ranges[i].kind \in {"new", "mapped"}
                        /\ \A w \in p.first .. p.last :
                              /\ Covers(ranges[i], w)
                              /\ CellOf(ranges[i], w) = Raw
                              /\ FindRange(ranges, w) = i
  BY DEF OutputsFree
<1>2. PICK i \in DOMAIN ranges : /\ ranges[i].kind # "grown"
                                 /\ ranges[i].offset <= p.first
                                 /\ p.last < ranges[i].offset + Len(ranges[i].mem)
  BY DEF Layout, PendingHeld
<1>3. p.first \in Int /\ p.last \in Int
  <2>1. p.first \in Arg /\ p.last \in Arg
    BY PendingFacts DEF Layout
  <2>. QED  BY <2>1, ArgFacts
<1>4. /\ ranges \in Seq(RangeType) /\ Shape(ranges, assigned, firstLocal)
      /\ Cells(ranges, active) /\ active \subseteq assigned
  BY LayoutFacts
<1>5. /\ ranges[i].offset \in Nat /\ Len(ranges[i].mem) \in Nat
      /\ ranges[i].kind \in {"new", "mapped"}
      /\ DOMAIN ranges[i].mem = 1..Len(ranges[i].mem)
      /\ End(ranges[i]) = ranges[i].offset + Len(ranges[i].mem) - 1
  BY <1>2, <1>4, RangeFacts, EndIs DEF Shape
<1>6. ASSUME NEW w \in p.first .. p.last
      PROVE  /\ Covers(ranges[i], w)
             /\ CellOf(ranges[i], w) = Raw
             /\ FindRange(ranges, w) = i
  <2> DEFINE o == ranges[i].offset
             n == Len(ranges[i].mem)
             u == p.first
             v == p.last
             k == w - o + 1
  <2>1. o \in Int /\ n \in Int /\ u \in Int /\ v \in Int /\ o <= u /\ v < o + n /\ w \in u..v
    BY <1>2, <1>3, <1>5
  <2>2. w \in Int /\ o <= w /\ w < o + n /\ w <= o + n - 1 /\ k \in 1..n /\ o + k - 1 = w
    <3> HIDE DEF o, n, u, v
    <3>. QED  BY <2>1
  <2>3. IsRangeOf(ranges, w, i)
    BY <1>2, <1>4, <2>2, FixedRangeOf
  <2>4. w \notin active
    BY <1>4 DEF Layout, AssignOnce, PendingWires
  <2>5. ranges[i].mem[k] = Raw
    BY <1>4, <1>5, <2>2, <2>4 DEF Cells
  <2>. QED  BY <1>4, <1>5, <2>2, <2>3, <2>5, FindRangeIs DEF Covers, CellOf
<1>. QED  BY <1>5, <1>6

(* The memory of a scope is exact in every state that a program reaches     *)
(* (Scope.t.h:58-363): for every width of the wire index type and every     *)
(* number of wires, ranges and mapped wires, if no wire of the program is   *)
(* the type's last one and no cut reaches the wires of another range.       *)
THEOREM LayoutIsExact ==
  ASSUME AvoidForeign, MaxArg < MaxWire
  PROVE  Spec => []LayoutExact
<1>1. Layout => LayoutExact
  BY LayoutExactIs
<1>. QED  BY <1>1, LayoutKept, PTL

(* The inputs that findInputs accepts lie in consecutive cells from the     *)
(* address that it gives (Scope.t.h:587-627).                               *)
THEOREM InputsAreExact ==
  ASSUME AvoidForeign, MaxArg < MaxWire
  PROVE  Spec => []FindInputsExact
<1>1. Layout => FindInputsExact
  BY FindInputsIs DEF FindInputsExact
<1>. QED  BY <1>1, LayoutKept, PTL

(* The addresses of the outputs of a call stay good and unconstructed until *)
(* it returns, whatever is looked up meanwhile (Scope.t.h:550-585).         *)
THEOREM OutputsStayFree ==
  ASSUME AvoidForeign, MaxArg < MaxWire
  PROVE  Spec => []OutputsFree
<1>1. Layout => OutputsFree
  BY OutputsFreeIs
<1>. QED  BY <1>1, LayoutKept, PTL

-----------------------------------------------------------------------------
(***************************************************************************)
(* The refinement of WireStore.                                            *)
(***************************************************************************)

(* While a call is set up, nothing was refused yet.                         *)
SetUp == phase # "body" => err = "success"

(* Where a deletion ends: at its last wire, below it, or before its first.   *)
LEMMA LastDeletedBound ==
  ASSUME Layout, NEW f \in Arg, NEW l \in Arg
  PROVE  /\ LastDeleted(ranges, f, l) # f - 1
              => LastDeleted(ranges, f, l) \in Int /\ LastDeleted(ranges, f, l) <= l
         /\ Unmatched(ranges, f, l) = {} => LastDeleted(ranges, f, l) = l
<1> DEFINE U == Unmatched(ranges, f, l)
           d == LastDeleted(ranges, f, l)
<1>1. f \in Nat /\ l \in Nat /\ ranges \in Seq(RangeType)
  BY ArgFacts, LayoutFacts
<1>2. \/ U = {} /\ d = l
      \/ \E m \in U : d = f - 1 \/ d = ranges[m].offset - 1
  BY <1>1, LastDeletedIs
<1>3. \A m \in U : m \in DOMAIN ranges /\ ranges[m].offset <= l
  BY DEF Unmatched, Touched
<1>4. \A m \in U : ranges[m].offset \in Nat
  BY <1>1, <1>3, RangeFacts
<1> HIDE DEF U, d
<1>5. d # f - 1 => d \in Int /\ d <= l
  BY <1>1, <1>2, <1>3, <1>4
<1>6. U = {} => d = l
  BY <1>2
<1>. QED  BY <1>5, <1>6 DEF U, d

(* Wires put into a store, and wires taken out of it.                       *)
LEMMA PutIs ==
  ASSUME NEW held, NEW S, NEW s, s = [w \in held |-> w]
  PROVE  [w \in S \cup DOMAIN s |-> IF w \in S THEN w ELSE s[w]]
           = [w \in held \cup S |-> w]
OBVIOUS

(* Wires taken out of a store.                                              *)
LEMMA DropIs ==
  ASSUME NEW held, NEW S, NEW s, s = [w \in held |-> w]
  PROVE  Restrict(s, (DOMAIN s) \ S) = [w \in held \ S |-> w]
BY DEF Restrict

(* Scope is an assign-once store of wires: every call assigns fresh wires,  *)
(* deletes active ones or is refused, and no other wire's value changes,    *)
(* whatever becomes of the ranges (Scope.h, Scope.t.h).                     *)
THEOREM ImplementsWireStore ==
  ASSUME AvoidForeign, MaxArg < MaxWire
  PROVE  Spec => IsWireStore
<1> DEFINE st == [w \in active |-> Retrieve(ranges, w)]
           id == [w \in active |-> w]
<1>1. Init => Store!Init /\ SetUp
  BY DEF Init, Store!Init, SetUp, Store!ValueOf
<1>2. Layout => st = id
  BY LayoutFacts, StoreIs
<1>3. Layout' => st' = id'
  <2>1. Layout' => /\ active' \in SUBSET Int /\ Shape(ranges', assigned', firstLocal')
                   /\ Cells(ranges', active')
    <3>1. \A w \in Arg : w \in Int
      BY ArgFacts
    <3>. QED  BY <3>1 DEF Layout, Marks
  <2>. QED  BY <2>1, StoreIs
<1>4. ASSUME Layout, Layout', SetUp, [Next]_vars
      PROVE  SetUp' /\ [Store!Next]_(Store!storeVars)
  <2>1. st = id /\ st' = id'
    BY <1>2, <1>3, <1>4
  <2>2. ASSUME NEW S, S \subseteq Arg, S \cap assigned = {}, Mark(S), err = "success",
               UNCHANGED err
        PROVE  Store!Next
    <3>1. st' = [w \in S \cup DOMAIN st |-> IF w \in S THEN w ELSE st[w]]
      <4>1. active' = active \cup S
        BY <2>2 DEF Mark
      <4>2. id' = [w \in active \cup S |-> w]
        BY <4>1
      <4> HIDE DEF st
      <4>. QED  BY <2>1, <4>2, PutIs
    <3>2. Store!Assign(S)
      BY <2>2, <3>1 DEF st, Store!Assign, Store!Put, Store!ValueOf, Mark
    <3>. QED  BY <2>2, <3>2 DEF Store!Next
  <2>3. ASSUME NEW S, active' = active \ S
        PROVE  st' = Restrict(st, (DOMAIN st) \ S)
    <3>1. id' = [w \in active \ S |-> w]
      BY <2>3
    <3> HIDE DEF st
    <3>. QED  BY <2>1, <3>1, DropIs
  <2>4. ASSUME UNCHANGED active
        PROVE  UNCHANGED st
    <3>1. id' = id
      BY <2>4
    <3> HIDE DEF st, id
    <3>. QED  BY <2>1, <3>1
  <2>5. ASSUME NEW e, e \in Error, Refuse(e), err = "success"
        PROVE  Store!Next
    BY <2>4, <2>5 DEF Refuse, Store!Refuse, Store!Next
  <2> HIDE DEF st, id
  <2>6. ASSUME UNCHANGED <<active, assigned, err>>
        PROVE  UNCHANGED Store!storeVars
    BY <2>4, <2>6 DEF Store!storeVars, st
  <2>7. ASSUME NEW n \in 1..MaxMapped, MapOutputs(n)
        PROVE  SetUp' /\ UNCHANGED Store!storeVars
    BY <1>4, <2>6, <2>7 DEF MapOutputs, SetUp
  <2>8. ASSUME NEW n \in 1..MaxMapped, MapInputs(n)
        PROVE  SetUp' /\ Store!Next
    <3> DEFINE inputs == firstLocal .. (firstLocal + n - 1)
    <3>1. /\ Mark(inputs) /\ UNCHANGED err /\ phase # "body" /\ phase' = "inputs"
          /\ firstLocal + n <= MaxMapped
      BY <2>8 DEF MapInputs
    <3>2. firstLocal \in Nat /\ n \in Nat /\ \A w \in assigned : w \in Int /\ w < firstLocal
      BY <1>4, <3>1, ProgramNumbers DEF Layout, AssignOnce
    <3>3. inputs \cap assigned = {}
      BY <3>2
    <3>4. inputs \subseteq Arg
      BY <3>1, <3>2, ProgramNumbers DEF Arg
    <3> HIDE DEF inputs
    <3>. QED  BY <1>4, <2>2, <3>1, <3>3, <3>4 DEF SetUp
  <2>9. CASE BeginBody
    BY <1>4, <2>6, <2>9 DEF BeginBody, SetUp
  <2>10. ASSUME NEW w \in Arg, Assign(w)
         PROVE  SetUp' /\ Store!Next
    <3>1. phase = "body" /\ err = "success"
      BY <2>10 DEF Assign, Ready
    <3>2. CASE Refuse("alreadyExists")
      BY <2>5, <3>1, <3>2 DEF Refuse, SetUp, Error
    <3>3. CASE Free(w) /\ Mark({w}) /\ UNCHANGED <<phase, err>>
      BY <2>2, <3>1, <3>3 DEF Free, SetUp
    <3>. QED  BY <2>10, <3>2, <3>3 DEF Assign
  <2>11. ASSUME NEW f \in Arg, NEW l \in Arg, NewRange(f, l)
         PROVE  SetUp' /\ [Store!Next]_(Store!storeVars)
    <3>1. phase = "body" /\ err = "success"
      BY <2>11 DEF NewRange, Ready
    <3>2. CASE Refuse("alreadyExists")
      BY <2>5, <3>1, <3>2 DEF Refuse, SetUp, Error
    <3>3. CASE UNCHANGED <<active, assigned, phase, err>>
      BY <2>6, <3>1, <3>3 DEF SetUp
    <3>. QED  BY <2>11, <3>2, <3>3 DEF NewRange
  <2>12. ASSUME NEW f \in Arg, NEW l \in Arg, DeleteRange(f, l)
         PROVE  SetUp' /\ Store!Next
    <3> DEFINE e == DeleteError(ranges, assigned, active, firstLocal, f, l)
               d == LastDeleted(ranges, f, l)
    <3>1. phase = "body" /\ err = "success" /\ f <= l
      BY <2>12 DEF DeleteRange, Ready
    <3>2. CASE e \in {"cannotDeleteRemap", "notAssigned", "deleted"} /\ Refuse(e)
      BY <2>5, <3>1, <3>2 DEF Refuse, SetUp, Error
    <3>3. CASE /\ e \in {"success", "unmatchedDelete"}
               /\ active' = active \ (f..d) /\ err' = e
               /\ UNCHANGED <<assigned, phase>>
      <4>1. SetUp'
        BY <3>1, <3>3 DEF SetUp
      <4>2. st' = Restrict(st, (DOMAIN st) \ (f..d)) /\ UNCHANGED assigned
        BY <2>3, <3>3
      <4>3. f..l \subseteq active /\ (e = "success" => d = l)
        <5>1. f..l \subseteq active /\ (e = "success" => Unmatched(ranges, f, l) = {})
          BY <3>3 DEF DeleteError
        <5>. QED  BY <1>4, <5>1, LastDeletedBound
      <4>4. CASE e = "success"
        <5>1. DOMAIN st = active
          BY DEF st
        <5>2. Store!Delete(f, l)
          <6>1. st' = Restrict(st, (DOMAIN st) \ (f..l)) /\ f..l \subseteq DOMAIN st
            BY <4>2, <4>3, <4>4, <5>1
          <6>. QED  BY <3>1, <3>3, <4>2, <4>4, <6>1, Zenon
             DEF st, Store!Delete, Store!Drop, Store!Restrict, Restrict
        <5>. QED  BY <3>1, <4>1, <5>2 DEF Store!Next
      <4>5. CASE e = "unmatchedDelete" /\ d \in Arg
        <5>1. Store!RefuseDelete(f, d)
          BY <3>3, <4>2, <4>5, Zenon
           DEF st, Store!RefuseDelete, Store!Drop, Store!Restrict, Restrict
        <5>. QED  BY <3>1, <4>1, <4>5, <5>1 DEF Store!Next
      <4>6. CASE e = "unmatchedDelete" /\ d \notin Arg
        <5>1. f..d = {}
          <6>1. f \in Nat /\ l \in Nat /\ l <= MaxArg /\ MaxArg \in Nat
            BY ArgFacts, ProgramNumbers
          <6>2. d # f - 1 => d \in Int /\ d <= l
            BY <1>4, LastDeletedBound, Zenon
          <6> HIDE DEF d
          <6>3. d \in Int /\ ~(0 <= d)
            BY <4>6, <6>1, <6>2 DEF Arg
          <6>. QED  BY <6>1, <6>3
        <5>2. UNCHANGED active
          BY <3>3, <5>1
        <5>3. Store!Refuse
          BY <2>4, <3>3, <4>6, <5>2 DEF st, Store!Refuse, Error
        <5>. QED  BY <3>1, <4>1, <5>3 DEF Store!Next
      <4>. QED  BY <3>3, <4>4, <4>5, <4>6
    <3>. QED  BY <2>12, <3>2, <3>3 DEF DeleteRange
  <2>13. ASSUME NEW f \in Arg, NEW l \in Arg, FindOutputs(f, l)
         PROVE  SetUp' /\ [Store!Next]_(Store!storeVars)
    <3>1. phase = "body" /\ err = "success"
      BY <2>13 DEF FindOutputs
    <3>2. CASE Refuse("alreadyExists")
      BY <2>5, <3>1, <3>2 DEF Refuse, SetUp, Error
    <3>3. CASE UNCHANGED <<active, assigned, phase, err>>
      BY <2>6, <3>1, <3>3 DEF SetUp
    <3>. QED  BY <2>13, <3>2, <3>3 DEF FindOutputs
  <2>14. CASE ReturnOutputs
    <3>1. PendingWires \subseteq Arg /\ PendingWires \cap assigned = {}
      BY <1>4, PendingFacts DEF Layout, AssignOnce
    <3>2. Mark(PendingWires) /\ err = "success" /\ UNCHANGED <<phase, err>>
      BY <2>14 DEF ReturnOutputs
    <3>. QED  BY <1>4, <2>2, <3>1, <3>2 DEF SetUp
  <2>15. CASE UNCHANGED vars
    BY <1>4, <2>6, <2>15 DEF vars, SetUp
  <2>. QED  BY <1>4, <2>7, <2>8, <2>9, <2>10, <2>11, <2>12, <2>13, <2>14, <2>15 DEF Next
<1>5. Init => Layout
  BY LayoutInit
<1>6. Layout /\ [Next]_vars => Layout'
  BY LayoutStep
<1>7. Layout /\ Layout' /\ SetUp /\ [Next]_vars => SetUp' /\ [Store!Next]_(Store!storeVars)
  BY <1>4
<1> HIDE DEF st, id
<1>. QED  BY <1>1, <1>5, <1>6, <1>7, PTL DEF Spec, IsWireStore, Store!Spec

-----------------------------------------------------------------------------
(* typeCheck, and the scope that evaluates what it accepted.                *)

(* Marking the same wires on both sides, in every action that evaluates.    *)
LEMMA IntervalsMark ==
  ASSUME CheckAgrees, accepted, err = "success",
         NEW outs, NEW ins, NEW cells,
         MarkChecked(OutputWires(outs)), EvaluateIntervals(outs, ins, cells)
  PROVE  CheckAgrees'
<1>1. CASE Refuse("alreadyExists") \/ Refuse("discontiguous")
  BY <1>1 DEF Refuse, CheckAgrees
<1>2. CASE Mark(OutputWires(outs))
  BY <1>2 DEF Mark, MarkChecked, CheckAgrees
<1>3. QED
  BY <1>1, <1>2 DEF EvaluateIntervals

(* The same for a conversion, which looks its inputs up first.              *)
LEMMA ConversionMarks ==
  ASSUME CheckAgrees, accepted, err = "success",
         NEW out, NEW in, NEW cells,
         MarkChecked(WiresOf(out)), EvaluateConversion(out, in, cells)
  PROVE  CheckAgrees'
<1>1. CASE Refuse("alreadyExists") \/ Refuse("discontiguous")
  BY <1>1 DEF Refuse, CheckAgrees
<1>2. CASE Mark(WiresOf(out))
  BY <1>2 DEF Mark, MarkChecked, CheckAgrees
<1>3. QED
  BY <1>1, <1>2 DEF EvaluateConversion

LEMMA OneOutput ==
  ASSUME NEW p PROVE OutputWires(<<p>>) = WiresOf(p)
<1>1. Len(<<p>>) = 1 /\ <<p>>[1] = p
  OBVIOUS
<1>2. 1..1 = {1}
  OBVIOUS
<1>3. QED
  BY <1>1, <1>2 DEF OutputWires, WiresUpTo

(* What a deletion removes from the active wires if it is not refused.      *)
LEMMA DeletionRemoves ==
  ASSUME NEW p, DeleteRange(p.first, p.last), err' = "success"
  PROVE  UNCHANGED assigned /\ active' = active \ WiresOf(p)
<1> DEFINE e == DeleteError(ranges, assigned, active, firstLocal, p.first, p.last)
<1>1. e = "success" /\ active' = active \ (p.first .. LastDeleted(ranges, p.first, p.last))
  BY DEF DeleteRange, Refuse
<1>2. Unmatched(ranges, p.first, p.last) = {}
  BY <1>1 DEF DeleteError
<1>3. LastDeleted(ranges, p.first, p.last) = p.last
  BY <1>2 DEF LastDeleted
<1>4. UNCHANGED assigned
  BY DEF DeleteRange, Refuse
<1>5. QED
  BY <1>1, <1>3, <1>4 DEF WiresOf

(* CheckAgrees, of typeCheck and evaluate (Functions.t.h:322-940), as long  *)
(* as the type of an interval of stream inputs is read where it was written.*)
THEOREM TablesAgree ==
  ASSUME "type" \notin Lenient
  PROVE  CheckSpec => []CheckAgrees
<1>1. CheckInit => CheckAgrees
  BY DEF CheckInit, Init, CheckAgrees
<1>2. CheckAgrees /\ [CheckNext]_allVars => CheckAgrees'
  <2> SUFFICES ASSUME CheckAgrees, [CheckNext]_allVars
               PROVE  CheckAgrees'
    OBVIOUS
  <2>1. ASSUME NEW n \in 1..MaxMapped, OutputParameter(n) \/ InputParameter(n)
        PROVE  CheckAgrees'
    <3>1. CASE OutputParameter(n)
      BY <3>1 DEF OutputParameter, MapOutputs, CheckAgrees
    <3>2. CASE InputParameter(n)
      BY <3>2 DEF InputParameter, MapInputs, Mark, MarkChecked, WiresOf, Parameter,
                  CheckAgrees
    <3>3. QED
      BY <2>1, <3>1, <3>2
  <2>2. CASE StartBody
    BY <2>2 DEF StartBody, BeginBody, checkVars, CheckAgrees
  <2>3. ASSUME NEW out \in Arg, NEW ins, Gate(out, ins)
        PROVE  CheckAgrees'
    <3>1. CASE Reject
      BY <3>1 DEF Reject, CheckAgrees
    <3>2. CASE MarkChecked({out}) /\ EvaluateGate(out, ins)
      BY <2>3, <3>2 DEF Gate, InBody, Ready, EvaluateGate, Assign, Refuse, Mark,
                        MarkChecked, CheckAgrees
    <3>3. QED
      BY <2>3, <3>1, <3>2 DEF Gate
  <2>4. ASSUME NEW p \in Interval, New(p)
        PROVE  CheckAgrees'
    BY <2>4 DEF New, InBody, Ready, Reject, NewRange, Refuse, CheckAgrees
  <2>5. ASSUME NEW p \in Interval, Delete(p)
        PROVE  CheckAgrees'
    <3>1. CASE Reject
      BY <3>1 DEF Reject, CheckAgrees
    <3>2. CASE /\ actives' = actives \ WiresOf(p) /\ UNCHANGED <<assigns, accepted>>
               /\ DeleteRange(p.first, p.last)
      BY <2>5, <3>2, DeletionRemoves DEF Delete, InBody, Ready, CheckAgrees
    <3>3. QED
      BY <2>5, <3>1, <3>2 DEF Delete
  <2>6. ASSUME NEW outs, NEW ins, Call(outs, ins)
        PROVE  CheckAgrees'
    <3>1. CASE Reject
      BY <3>1 DEF Reject, CheckAgrees
    <3>2. CASE MarkChecked(OutputWires(outs)) /\ EvaluateIntervals(outs, ins, OwnCells(outs))
      BY <2>6, <3>2, IntervalsMark DEF Call, InBody, Ready
    <3>3. QED
      BY <2>6, <3>1, <3>2 DEF Call
  <2>7. ASSUME NEW out \in Interval, NEW type \in {"its own", "elsewhere"},
               MultiInput(out, type)
        PROVE  CheckAgrees'
    <3>1. CASE Reject
      BY <3>1 DEF Reject, CheckAgrees
    <3>2. type # "elsewhere"
      BY <2>7 DEF MultiInput
    <3>3. CASE /\ MarkChecked(WiresOf(out))
               /\ EvaluateIntervals(<<out>>, <<>>, OwnCells(<<out>>))
      BY <2>7, <3>3, IntervalsMark, OneOutput DEF MultiInput, InBody, Ready
    <3>4. QED
      BY <2>7, <3>1, <3>2, <3>3 DEF MultiInput
  <2>8. ASSUME NEW out \in Interval, NEW in \in Interval, Convert(out, in)
        PROVE  CheckAgrees'
    <3>1. CASE Reject
      BY <3>1 DEF Reject, CheckAgrees
    <3>2. CASE \E cells : /\ MarkChecked(WiresOf(out))
                          /\ EvaluateConversion(out, in, cells)
      BY <2>8, <3>2, ConversionMarks DEF Convert, InBody, Ready
    <3>3. QED
      BY <2>8, <3>1, <3>2 DEF Convert
  <2>9. CASE UNCHANGED allVars
    BY <2>9 DEF allVars, vars, checkVars, CheckAgrees
  <2>10. QED
    BY <2>1, <2>2, <2>3, <2>4, <2>5, <2>6, <2>7, <2>8, <2>9 DEF CheckNext
<1>3. QED
  BY <1>1, <1>2, PTL DEF CheckSpec

-----------------------------------------------------------------------------
(***************************************************************************)
(* The wires of the fixed ranges, and what each operation does to them.    *)
(***************************************************************************)

(* A sequence of ranges within the wire index type.                         *)
Ranged(rs) == rs \in Seq(RangeType) /\ \A i \in DOMAIN rs : Sized(rs[i])

(* Two ranges of the same kind and the same wires.                          *)
Alike(r, s) ==
  r.offset = s.offset /\ r.kind = s.kind /\ Len(r.mem) = Len(s.mem)

SpanOf(r) == [first |-> r.offset, last |-> r.offset + Len(r.mem) - 1]

(* Every fixed range of q is one of rs.                                     *)
Among(q, rs) ==
  \A m \in DOMAIN q :
    q[m].kind # "grown" => \E j \in DOMAIN rs : Alike(q[m], rs[j])

(* The spans of the fixed ranges, without the wrap of the index type.       *)
LEMMA FixedIs ==
  ASSUME NEW rs, Ranged(rs), NEW p
  PROVE  p \in FixedSpans(rs) <=>
           \E i \in DOMAIN rs : rs[i].kind # "grown" /\ p = SpanOf(rs[i])
<1>1. ASSUME NEW i \in DOMAIN rs
      PROVE  [first |-> rs[i].offset, last |-> End(rs[i])] = SpanOf(rs[i])
  <2>1. rs[i] \in RangeType /\ Sized(rs[i])
    BY RangeFacts DEF Ranged
  <2>2. End(rs[i]) = rs[i].offset + Len(rs[i].mem) - 1
    BY <2>1, EndIs
  <2>. QED  BY <2>2 DEF SpanOf
<1>. QED  BY <1>1, Zenon DEF FixedSpans

(* Fewer fixed ranges have fewer spans.                                     *)
LEMMA AmongFixed ==
  ASSUME NEW q, NEW rs, Ranged(q), Ranged(rs), Among(q, rs)
  PROVE  FixedSpans(q) \subseteq FixedSpans(rs)
<1>1. ASSUME NEW p \in FixedSpans(q)
      PROVE  p \in FixedSpans(rs)
  <2>1. PICK m \in DOMAIN q : q[m].kind # "grown" /\ p = SpanOf(q[m])
    BY FixedIs
  <2>2. PICK j \in DOMAIN rs : Alike(q[m], rs[j])
    BY <2>1 DEF Among
  <2>3. rs[j].kind # "grown" /\ p = SpanOf(rs[j])
    BY <2>1, <2>2 DEF Alike, SpanOf
  <2>. QED  BY <2>3, FixedIs
<1>. QED  BY <1>1

(* Ranges that keep their place, their wires and their kind.                *)
LEMMA UpdateSpans ==
  ASSUME NEW q, NEW rs, Ranged(q), Ranged(rs), DOMAIN q = DOMAIN rs,
         \A j \in DOMAIN rs : \/ Alike(q[j], rs[j])
                              \/ q[j].kind = "grown" /\ rs[j].kind = "grown"
  PROVE  FixedSpans(q) = FixedSpans(rs)
<1>1. Among(q, rs) /\ Among(rs, q)
  BY DEF Among, Alike
<1>2. FixedSpans(q) \subseteq FixedSpans(rs)
  BY <1>1, AmongFixed
<1>3. FixedSpans(rs) \subseteq FixedSpans(q)
  BY <1>1, AmongFixed
<1>. QED  BY <1>2, <1>3

(* Grown ranges put in among the others.                                    *)
LEMMA SpliceFixed ==
  ASSUME NEW q, NEW rs, NEW i, NEW b, Ranged(q), Ranged(rs), IsSplice(q, rs, i, b),
         \A k \in 1..Len(b) : b[k].kind = "grown"
  PROVE  FixedSpans(q) = FixedSpans(rs)
<1>1. /\ \A j \in DOMAIN rs : \E m \in DOMAIN q : SameSpan(q[m], rs[j])
      /\ Outcome(q, rs, b)
  BY SpliceSpans
<1>2. Among(q, rs) /\ Among(rs, q)
  BY <1>1 DEF Outcome, Among, SameSpan, Alike
<1>3. FixedSpans(q) \subseteq FixedSpans(rs)
  BY <1>2, AmongFixed
<1>4. FixedSpans(rs) \subseteq FixedSpans(q)
  BY <1>2, AmongFixed
<1>. QED  BY <1>3, <1>4

(* assign declares no range, and keeps the declared ones.                   *)
LEMMA AssignSpans ==
  ASSUME NEW rs, NEW held, NEW w \in 0..MaxWire,
         Ranged(rs), Ranged(AssignCell(rs, held, w))
  PROVE  FixedSpans(AssignCell(rs, held, w)) = FixedSpans(rs)
<1> DEFINE i == FindRange(rs, w)
           q == AssignCell(rs, held, w)
           b == <<SmallRange(w)>>
<1>1. /\ rs \in Seq(RangeType) /\ Len(rs) \in Nat /\ DOMAIN rs = 1..Len(rs)
      /\ w \in Int /\ SmallRange(w) \in RangeType /\ SmallRange(w).kind = "grown"
  BY SmallRangeIs, Numbers DEF Ranged
<1>2. Len(b) = 1 /\ b[1] = SmallRange(w)
  OBVIOUS
<1>3. \A k \in 1..Len(b) : b[k].kind = "grown"
  BY <1>1, <1>2
<1> HIDE DEF b
<1>4. CASE rs = <<>> \/ w < rs[1].offset
  <2>1. q = b \o rs
    BY <1>4 DEF AssignCell, b
  <2>2. IsSplice(q, rs, 0, b)
    BY <1>1, <2>1, InsertIsSplice DEF b
  <2> HIDE DEF q
  <2>. QED  BY <1>3, <2>2, SpliceFixed DEF q
<1>5. CASE ~(rs = <<>> \/ w < rs[1].offset)
  <2>1. 1 \in DOMAIN rs /\ rs[1].offset \in Int
    <3>1. 1 \in DOMAIN rs
      BY <1>1, <1>5
    <3>. QED  BY <1>1, <3>1, RangeFacts
  <2>2. i \in DOMAIN rs
    <3>1. \E j \in DOMAIN rs : rs[j].offset <= w
      BY <1>1, <1>5, <2>1
    <3>2. IsRangeOf(rs, w, i)
      BY <1>1, <3>1, FindRangeIs
    <3>. QED  BY <3>2 DEF IsRangeOf
  <2>3. rs[i] \in RangeType /\ Sized(rs[i]) /\ i \in 1..Len(rs)
    BY <1>1, <2>2, RangeFacts DEF Ranged
  <2> HIDE DEF i
  <2>4. CASE Covers(rs[i], w)
    <3>1. q = [rs EXCEPT ![i] = SetCell(rs[i], w, w)]
      BY <1>5, <2>4 DEF AssignCell, i
    <3> DEFINE r == SetCell(rs[i], w, w)
    <3>2. Alike(r, rs[i])
      <4> DEFINE m == [rs[i].mem EXCEPT ![w - rs[i].offset + 1] = w]
      <4>1. r = [rs[i] EXCEPT !.mem = m]
        BY DEF SetCell
      <4>2. rs[i].mem \in Seq(Cell) /\ DOMAIN m = DOMAIN rs[i].mem
        BY <2>3 DEF RangeType
      <4>3. Len(m) = Len(rs[i].mem)
        BY <4>2
      <4> HIDE DEF m
      <4>. QED  BY <2>3, <4>1, <4>3 DEF RangeType, Alike
    <3> HIDE DEF r
    <3>3. DOMAIN q = DOMAIN rs /\ \A j \in DOMAIN rs : q[j] = IF j = i THEN r ELSE rs[j]
      BY <2>2, <3>1 DEF r
    <3> HIDE DEF q
    <3>4. \A j \in DOMAIN rs : Alike(q[j], rs[j])
      BY <3>2, <3>3 DEF Alike
    <3>. QED  BY <3>3, <3>4, UpdateSpans DEF q
  <2>5. CASE ~Covers(rs[i], w) /\ Growable(rs[i], w)
    <3>1. q = Grow(rs, held, i, w)
      BY <1>5, <2>5 DEF AssignCell, i
    <3>2. rs[i].kind = "grown"
      BY <2>3, <2>5 DEF Growable, Sized
    <3>3. PICK m : q = [rs EXCEPT ![i].mem = m]
      BY <3>1, Zenon DEF Grow
    <3> HIDE DEF q
    <3>4. DOMAIN q = DOMAIN rs /\ \A j \in DOMAIN rs : j # i => q[j] = rs[j]
      BY <3>3
    <3>5. q[i].kind = "grown"
      BY <2>2, <2>3, <3>2, <3>3 DEF RangeType
    <3>6. \A j \in DOMAIN rs : \/ Alike(q[j], rs[j])
                               \/ q[j].kind = "grown" /\ rs[j].kind = "grown"
      BY <3>2, <3>4, <3>5 DEF Alike
    <3>. QED  BY <3>4, <3>6, UpdateSpans DEF q
  <2>6. CASE ~Covers(rs[i], w) /\ ~Growable(rs[i], w)
    <3>1. q = InsertAt(rs, i + 1, SmallRange(w))
      BY <1>5, <2>6 DEF AssignCell, i
    <3>2. IsSplice(q, rs, i, b)
      <4>1. i \in 0..Len(rs)
        BY <2>3
      <4>. QED  BY <1>1, <3>1, <4>1, InsertIsSplice DEF b
    <3> HIDE DEF q
    <3>. QED  BY <1>3, <3>2, SpliceFixed DEF q
  <2>. QED  BY <2>4, <2>5, <2>6
<1>. QED  BY <1>4, <1>5

(* newRange declares the one range f..l.                                    *)
LEMMA AddSpans ==
  ASSUME NEW q, NEW rs, Ranged(q), Ranged(rs), NEW f \in Nat, NEW l \in Nat, f <= l,
         \A j \in DOMAIN rs : \E m \in DOMAIN q : SameSpan(q[m], rs[j]),
         \E m \in DOMAIN q : /\ q[m].offset = f /\ q[m].kind = "new"
                             /\ Len(q[m].mem) = 1 + l - f,
         Declares(q, rs, f, l)
  PROVE  FixedSpans(q) = FixedSpans(rs) \cup {[first |-> f, last |-> l]}
<1> DEFINE p == [first |-> f, last |-> l]
<1>1. ASSUME NEW m \in DOMAIN q, q[m].offset = f, Len(q[m].mem) = 1 + l - f
      PROVE  SpanOf(q[m]) = p
  <2>1. f + (1 + l - f) - 1 = l
    OBVIOUS
  <2>. QED  BY <1>1, <2>1 DEF SpanOf
<1> HIDE DEF p
<1>2. Among(rs, q)
  BY DEF Among, SameSpan, Alike
<1>3. FixedSpans(rs) \subseteq FixedSpans(q)
  BY <1>2, AmongFixed
<1>4. p \in FixedSpans(q)
  <2>1. PICK m \in DOMAIN q : /\ q[m].offset = f /\ q[m].kind = "new"
                              /\ Len(q[m].mem) = 1 + l - f
    OBVIOUS
  <2>2. q[m].kind # "grown" /\ p = SpanOf(q[m])
    BY <1>1, <2>1
  <2>. QED  BY <2>2, FixedIs
<1>5. ASSUME NEW c \in FixedSpans(q)
      PROVE  c \in FixedSpans(rs) \cup {p}
  <2>1. PICK m \in DOMAIN q : q[m].kind # "grown" /\ c = SpanOf(q[m])
    BY FixedIs
  <2>2. CASE \E j \in DOMAIN rs : SameSpan(q[m], rs[j])
    <3>1. PICK j \in DOMAIN rs : SameSpan(q[m], rs[j])
      BY <2>2
    <3>2. rs[j].kind # "grown" /\ c = SpanOf(rs[j])
      BY <2>1, <3>1 DEF SameSpan, SpanOf
    <3>3. c \in FixedSpans(rs)
      BY <3>2, FixedIs
    <3>. QED  BY <3>3
  <2>3. CASE q[m].offset = f /\ q[m].kind = "new" /\ Len(q[m].mem) = 1 + l - f
    BY <1>1, <2>1, <2>3
  <2>. QED  BY <2>1, <2>2, <2>3 DEF Declares
<1>. QED  BY <1>3, <1>4, <1>5 DEF p

(* The outputs of a call are written in place.                              *)
LEMMA WriteSpans ==
  ASSUME NEW rs, NEW cells, Ranged(rs), Ranged(WriteOutputs(rs, cells))
  PROVE  FixedSpans(WriteOutputs(rs, cells)) = FixedSpans(rs)
<1> DEFINE q == WriteOutputs(rs, cells)
           mem(i) == [k \in DOMAIN rs[i].mem |->
                        LET w == rs[i].offset + k - 1
                        IN  IF w \in DOMAIN cells /\ rs[i].kind # "grown"
                            THEN cells[w] ELSE rs[i].mem[k]]
<1>1. q = [i \in DOMAIN rs |-> [rs[i] EXCEPT !.mem = mem(i)]]
  BY DEF WriteOutputs
<1>2. \A i \in DOMAIN rs : DOMAIN mem(i) = DOMAIN rs[i].mem
  OBVIOUS
<1> HIDE DEF q, mem
<1>3. DOMAIN q = DOMAIN rs
  BY <1>1
<1>4. ASSUME NEW i \in DOMAIN rs
      PROVE  Alike(q[i], rs[i])
  <2>1. q[i] = [rs[i] EXCEPT !.mem = mem(i)]
    BY <1>1
  <2>2. rs[i] \in RangeType
    BY RangeFacts DEF Ranged
  <2>3. q[i].offset = rs[i].offset /\ q[i].kind = rs[i].kind /\ q[i].mem = mem(i)
    BY <2>1, <2>2 DEF RangeType
  <2>4. /\ DOMAIN q[i].mem = 1..Len(q[i].mem) /\ Len(q[i].mem) \in Nat
        /\ DOMAIN rs[i].mem = 1..Len(rs[i].mem) /\ Len(rs[i].mem) \in Nat
    BY <1>3, RangeFacts DEF Ranged, q
  <2> DEFINE a == Len(q[i].mem)
             c == Len(rs[i].mem)
  <2>5. 1..a = 1..c /\ a \in Nat /\ c \in Nat
    BY <1>2, <2>3, <2>4
  <2> HIDE DEF a, c
  <2>6. a = c
    BY <2>5
  <2>. QED  BY <2>3, <2>6 DEF Alike, a, c
<1>. QED  BY <1>3, <1>4, UpdateSpans DEF q

(* A mapped range comes after the others.                                   *)
LEMMA MapSpans ==
  ASSUME NEW rs, NEW first \in Nat, NEW mem, Ranged(rs), Ranged(MapRange(rs, first, mem)),
         NEW n \in Nat, Len(mem) = n
  PROVE  FixedSpans(MapRange(rs, first, mem))
           = FixedSpans(rs) \cup {[first |-> first, last |-> first + n - 1]}
<1> DEFINE r == MappedRangeOf(first, mem)
           q == MapRange(rs, first, mem)
           m == Len(rs) + 1
<1>1. rs \in Seq(RangeType) /\ Len(rs) \in Nat /\ DOMAIN rs = 1..Len(rs)
  BY DEF Ranged
<1>2. r.offset = first /\ r.kind = "mapped" /\ r.mem = mem
  BY DEF MappedRangeOf
<1>3. q = Append(rs, r)
  BY DEF MapRange
<1> HIDE DEF r
<1>4. /\ DOMAIN q = 1..m /\ q[m] = r /\ \A j \in DOMAIN rs : q[j] = rs[j]
  BY <1>1, <1>3
<1> HIDE DEF q
<1>5. /\ \A j \in DOMAIN q : j = m \/ j \in DOMAIN rs
      /\ \A j \in DOMAIN rs : j \in DOMAIN q
      /\ m \in DOMAIN q
  BY <1>1, <1>4
<1>6. SpanOf(q[m]) = [first |-> first, last |-> first + n - 1] /\ q[m].kind # "grown"
  BY <1>2, <1>4 DEF SpanOf
<1>7. ASSUME NEW p
      PROVE  p \in FixedSpans(q) <=> p \in FixedSpans(rs) \/ p = SpanOf(q[m])
  <2>1. p \in FixedSpans(q) <=>
          \E i \in DOMAIN q : q[i].kind # "grown" /\ p = SpanOf(q[i])
    BY FixedIs DEF q
  <2>2. p \in FixedSpans(rs) <=>
          \E i \in DOMAIN rs : rs[i].kind # "grown" /\ p = SpanOf(rs[i])
    BY FixedIs
  <2>. QED  BY <1>4, <1>5, <1>6, <2>1, <2>2
<1>. QED  BY <1>6, <1>7 DEF q

(* deleteRange: the fixed ranges that are left are those it did not free.   *)
LEMMA DeleteSpans ==
  ASSUME NEW rs, NEW held, NEW f, NEW l,
         Ranged(rs), Ranged(DeleteCells(rs, held, f, l)), NEW p
  PROVE  p \in FixedSpans(DeleteCells(rs, held, f, l)) <=>
           \E i \in DOMAIN rs :
             /\ rs[i].kind # "grown" /\ p = SpanOf(rs[i])
             /\ i \in Visited(rs, f, l) => ~Freed(rs, held, i, f, l)
<1> DEFINE V == Visited(rs, f, l)
           K == {i \in DOMAIN rs : i \in V => ~Freed(rs, held, i, f, l)}
           kept == Ascending(K)
           n == Cardinality(K)
           R(j) == IF j \in V THEN AfterDelete(rs, j, f, l) ELSE rs[j]
           q == DeleteCells(rs, held, f, l)
<1>1. rs \in Seq(RangeType) /\ Len(rs) \in Nat /\ DOMAIN rs = 1..Len(rs)
  BY DEF Ranged
<1>2. /\ n \in Nat /\ kept \in [1..n -> K]
      /\ \A x \in K : \E k \in 1..n : kept[k] = x
  <2> DEFINE a == 1
             b == Len(rs)
  <2>1. K \in SUBSET (a..b) /\ a \in Int /\ b \in Int
    BY <1>1
  <2> HIDE DEF K, a, b
  <2>2. /\ Cardinality(K) \in Nat
        /\ Ascending(K) \in [1..Cardinality(K) -> K]
        /\ \A x \in K : \E k \in 1..Cardinality(K) : Ascending(K)[k] = x
        /\ \A j, k \in 1..Cardinality(K) : j < k => Ascending(K)[j] < Ascending(K)[k]
    BY <2>1, AscendingIs
  <2>. QED  BY <2>2
<1>3. q = [k \in DOMAIN kept |-> R(kept[k])]
  BY Zenon DEF DeleteCells
<1>4. /\ \A j \in K : j \in DOMAIN rs /\ (j \in V => ~Freed(rs, held, j, f, l))
      /\ \A j \in DOMAIN rs : (j \in V => ~Freed(rs, held, j, f, l)) => j \in K
  OBVIOUS
<1>5. ASSUME NEW j \in DOMAIN rs
      PROVE  Alike(R(j), rs[j])
  <2>1. CASE j \in V
    <3>1. SameSpan(AfterDelete(rs, j, f, l), rs[j])
      BY <1>1, AfterDeleteIs
    <3>. QED  BY <2>1, <3>1 DEF SameSpan, Alike
  <2>. QED  BY <2>1 DEF Alike
<1> HIDE DEF kept, n, q, K, R, V
<1>6. DOMAIN q = 1..n /\ \A k \in 1..n : q[k] = R(kept[k]) /\ kept[k] \in K
  BY <1>2, <1>3
<1>7. \A k \in 1..n : q[k].kind = rs[kept[k]].kind /\ SpanOf(q[k]) = SpanOf(rs[kept[k]])
  BY <1>4, <1>5, <1>6 DEF Alike, SpanOf
<1>8. p \in FixedSpans(q) <=> \E i \in DOMAIN q : q[i].kind # "grown" /\ p = SpanOf(q[i])
  BY FixedIs DEF q
<1>9. p \in FixedSpans(q) <=> \E i \in K : rs[i].kind # "grown" /\ p = SpanOf(rs[i])
  BY <1>2, <1>6, <1>7, <1>8
<1>10. p \in FixedSpans(q) <=>
         \E i \in DOMAIN rs : /\ rs[i].kind # "grown" /\ p = SpanOf(rs[i])
                              /\ i \in V => ~Freed(rs, held, i, f, l)
  BY <1>4, <1>9
<1>. QED  BY <1>10 DEF q, V

-----------------------------------------------------------------------------
(***************************************************************************)
(* typeCheck's table of allocations.                                       *)
(***************************************************************************)

(* Intervals in order, no two of which meet.                                *)
Table(rows) ==
  /\ rows \in Seq(Interval)
  /\ \A j, k \in DOMAIN rows : j < k => rows[j].last < rows[k].first

(* What an interval is.                                                     *)
LEMMA IntervalFacts ==
  ASSUME NEW p \in Interval
  PROVE  /\ p.first \in Arg /\ p.last \in Arg /\ p.first <= p.last
         /\ p.first \in Nat /\ p.last \in Nat
         /\ p = [first |-> p.first, last |-> p.last]
         /\ WiresOf(p) \subseteq Arg
         /\ \A w : w \in WiresOf(p) <=> w \in Int /\ p.first <= w /\ w <= p.last
<1>1. /\ p.first \in Arg /\ p.last \in Arg /\ p.first <= p.last
      /\ p = [first |-> p.first, last |-> p.last]
  BY DEF Interval
<1>2. p.first \in Nat /\ p.last \in Nat
  BY <1>1, ArgFacts
<1>3. \A w : w \in WiresOf(p) <=> w \in Int /\ p.first <= w /\ w <= p.last
  BY <1>2 DEF WiresOf
<1>4. WiresOf(p) \subseteq Arg
  BY <1>1, <1>2, <1>3, ProgramNumbers DEF Arg
<1>. QED  BY <1>1, <1>2, <1>3, <1>4

(* The rows of a table.                                                     *)
LEMMA TableFacts ==
  ASSUME NEW rows, Table(rows)
  PROVE  /\ Len(rows) \in Nat /\ DOMAIN rows = 1..Len(rows)
         /\ \A k \in DOMAIN rows : /\ rows[k] \in Interval /\ rows[k] \in ToSet(rows) /\ k \in Int
                                 /\ rows[k].first \in Nat /\ rows[k].last \in Nat
                                 /\ rows[k].first <= rows[k].last
         /\ \A a \in ToSet(rows) : a \in Interval /\ \E k \in DOMAIN rows : a = rows[k]
<1>1. Len(rows) \in Nat /\ DOMAIN rows = 1..Len(rows) /\ \A k \in DOMAIN rows : rows[k] \in Interval
  <2>1. rows \in Seq(Interval)
    BY DEF Table
  <2>2. Len(rows) \in Nat /\ DOMAIN rows = 1..Len(rows)
    BY <2>1, LenProperties, Zenon
  <2>3. \A k \in 1..Len(rows) : rows[k] \in Interval
    BY <2>1, ElementOfSeq, Zenon
  <2>. QED  BY <2>2, <2>3, Zenon
<1>2. \A k \in DOMAIN rows : rows[k] \in ToSet(rows)
  BY DEF ToSet
<1>3. \A a \in ToSet(rows) : \E k \in DOMAIN rows : a = rows[k]
  BY DEF ToSet
<1>4. \A a \in ToSet(rows) : a \in Interval
  BY <1>1, <1>3
<1>5. ASSUME NEW k \in DOMAIN rows
      PROVE  rows[k].first \in Nat /\ rows[k].last \in Nat /\ rows[k].first <= rows[k].last
  <2>1. rows[k] \in Interval
    BY <1>1
  <2>. QED  BY <2>1, IntervalFacts
<1>6. \A k \in DOMAIN rows : k \in Int
  BY <1>1
<1>. QED  BY <1>1, <1>2, <1>3, <1>4, <1>5, <1>6, Zenon

(* The rows are in order.                                                   *)
LEMMA TableOrder ==
  ASSUME NEW rows, Table(rows), NEW j \in DOMAIN rows, NEW k \in DOMAIN rows, j < k
  PROVE  rows[j].last < rows[k].first
BY DEF Table

(* The order of four numbers.                                               *)
LEMMA Order4 ==
  ASSUME NEW a \in Int, NEW b \in Int, NEW c \in Int, NEW d \in Int,
         a < b, b <= c, c < d
  PROVE  a < d
OBVIOUS

(* A row put in where it meets none.                                        *)
LEMMA InsertRow ==
  ASSUME NEW rows, Table(rows), NEW p \in Interval, Slots(rows, p) # {}
  PROVE  /\ Table(InsertSlot(rows, p))
         /\ ToSet(InsertSlot(rows, p)) = ToSet(rows) \cup {p}
         /\ \A a \in ToSet(rows) : a.last < p.first \/ p.last < a.first
<1> DEFINE i == CHOOSE k \in Slots(rows, p) : TRUE
           left == SubSeq(rows, 1, i - 1)
           one == <<p>>
           right == SubSeq(rows, i, Len(rows))
           lr == left \o one
           q == lr \o right
           n == Len(rows)
<1>1. Len(rows) = n /\ n \in Nat /\ DOMAIN rows = 1..n
  BY TableFacts
<1>0. rows \in Seq(Interval)
  BY DEF Table
<1>a. \A k \in DOMAIN rows : /\ rows[k] \in Interval /\ rows[k] \in ToSet(rows) /\ k \in Int
                           /\ rows[k].first \in Nat /\ rows[k].last \in Nat
                           /\ rows[k].first <= rows[k].last
  BY TableFacts
<1>2. i \in Slots(rows, p)
  OBVIOUS
<1>3. InsertSlot(rows, p) = q
  BY Zenon DEF InsertSlot, InsertAt
<1> HIDE DEF i, n
<1>b. /\ i \in 1..(n + 1)
      /\ i > 1 => rows[i - 1].last < p.first
      /\ i <= n => rows[i].first > p.last
  <2>1. /\ i \in 1..(Len(rows) + 1)
        /\ i > 1 => rows[i - 1].last < p.first
        /\ i <= Len(rows) => rows[i].first > p.last
    BY <1>2 DEF Slots
  <2>. QED  BY <2>1, Zenon DEF n
<1>4. i \in Int /\ 1 <= i /\ i <= n + 1
  BY <1>1, <1>b
<1>5. p.first \in Nat /\ p.last \in Nat /\ p.first <= p.last
  BY IntervalFacts
(* The rows before and after it.                                            *)
<1>6. ASSUME NEW k \in DOMAIN rows
      PROVE  /\ k < i => rows[k].last < p.first
             /\ k >= i => p.last < rows[k].first
  <2>1. CASE k < i
    <3>1. i - 1 \in DOMAIN rows /\ (k = i - 1 \/ k < i - 1) /\ i > 1
      BY <1>1, <1>4, <2>1
    <3>2. k < i - 1 => rows[k].last < rows[i - 1].first
      BY <3>1 DEF Table
    <3>3. /\ rows[k].last \in Nat /\ rows[i - 1].first \in Nat /\ rows[i - 1].last \in Nat
          /\ rows[i - 1].first <= rows[i - 1].last /\ rows[i - 1].last < p.first
      BY <1>a, <1>b, <3>1
    <3>4. rows[k].last < p.first
      <4>1. CASE k = i - 1
        BY <3>3, <4>1
      <4>2. CASE k < i - 1
        <5>1. rows[k].last < rows[i - 1].first
          BY <3>2, <4>2, Zenon
        <5>2. rows[k].last \in Int /\ rows[i - 1].first \in Int /\ rows[i - 1].last \in Int
              /\ p.first \in Int
          <6>1. \A x \in Nat : x \in Int
            OBVIOUS
          <6>. QED  BY <1>5, <3>3, <6>1, Zenon
        <5>. QED  BY <3>3, <5>1, <5>2, Order4, Zenon
      <4>. QED  BY <3>1, <4>1, <4>2
    <3>5. ~(k >= i)
      BY <1>1, <1>4, <2>1
    <3>. QED  BY <3>4, <3>5
  <2>2. CASE k >= i
    <3>1. i \in DOMAIN rows /\ (k = i \/ i < k)
      BY <1>1, <1>4, <2>2
    <3>2. i < k => rows[i].last < rows[k].first
      BY <3>1 DEF Table
    <3>3. /\ rows[k].first \in Nat /\ rows[i].first \in Nat /\ rows[i].last \in Nat
          /\ rows[i].first <= rows[i].last /\ rows[i].first > p.last
      <4>1. i <= n
        BY <1>1, <1>4, <3>1
      <4>. QED  BY <1>a, <1>b, <3>1, <4>1
    <3>4. p.last < rows[k].first
      <4>1. CASE k = i
        BY <1>5, <3>3, <4>1
      <4>2. CASE i < k
        <5>1. rows[i].last < rows[k].first
          BY <3>2, <4>2, Zenon
        <5>2. rows[k].first \in Int /\ rows[i].first \in Int /\ rows[i].last \in Int
              /\ p.last \in Int /\ p.last < rows[i].first
          <6>1. \A x \in Nat : x \in Int
            OBVIOUS
          <6>2. rows[i].first > p.last => p.last < rows[i].first
            OBVIOUS
          <6>. QED  BY <1>5, <3>3, <6>1, <6>2, Zenon
        <5>. QED  BY <3>3, <5>1, <5>2, Order4, Zenon
      <4>. QED  BY <3>1, <4>1, <4>2
    <3>5. ~(k < i)
      BY <1>1, <1>4, <2>2
    <3>. QED  BY <3>4, <3>5
  <2>. QED  BY <1>1, <1>4, <2>1, <2>2
<1>7. /\ left \in Seq(Interval) /\ Len(left) = i - 1
      /\ \A k \in 1..(i - 1) : left[k] = rows[k]
  <2> DEFINE m == i - 1
  <2>1. m \in Int /\ 0 <= m /\ m <= n /\ \A k \in 1..m : 1 + k - 1 = k /\ k \in 1..n
    BY <1>1, <1>4
  <2>2. \A k \in 1..m : rows[k] \in Interval
    BY <1>1, <1>a, <2>1
  <2>3. left = SubSeq(rows, 1, m)
    OBVIOUS
  <2> HIDE DEF m, left
  <2>4. /\ left \in Seq(Interval) /\ Len(left) = IF 1 <= m THEN m - 1 + 1 ELSE 0
        /\ \A k \in 1..(m - 1 + 1) : left[k] = rows[1 + k - 1]
    <3> DEFINE a == 1
    <3>1. a \in Int
      OBVIOUS
    <3>0. \A k \in a..m : rows[k] \in Interval
      BY <2>2, Zenon
    <3> HIDE DEF a
    <3>2. /\ SubSeq(rows, a, m) \in Seq(Interval)
          /\ Len(SubSeq(rows, a, m)) = IF a <= m THEN m - a + 1 ELSE 0
          /\ \A k \in 1..(m - a + 1) : SubSeq(rows, a, m)[k] = rows[a + k - 1]
      BY <2>1, <3>0, <3>1, SubSeqProperties
    <3>. QED  BY <2>3, <3>2, Zenon DEF a
  <2>5. m - 1 + 1 = m /\ Len(left) = m
    BY <2>1, <2>4
  <2>. QED  BY <2>1, <2>4, <2>5 DEF m
<1>8. /\ right \in Seq(Interval) /\ Len(right) = n - i + 1
      /\ \A k \in 1..(n - i + 1) : right[k] = rows[i + k - 1]
  <2>1. n \in Int /\ i \in Int /\ (i <= n \/ i = n + 1) /\ \A k \in i..n : k \in 1..n
    BY <1>1, <1>4
  <2>2. \A k \in i..n : rows[k] \in Interval
    BY <1>1, <1>a, <2>1
  <2>3. right = SubSeq(rows, i, n)
    BY DEF n
  <2> HIDE DEF right
  <2>4. /\ right \in Seq(Interval) /\ Len(right) = IF i <= n THEN n - i + 1 ELSE 0
        /\ \A k \in 1..(n - i + 1) : right[k] = rows[i + k - 1]
    <3>1. /\ SubSeq(rows, i, n) \in Seq(Interval)
          /\ Len(SubSeq(rows, i, n)) = IF i <= n THEN n - i + 1 ELSE 0
          /\ \A k \in 1..(n - i + 1) : SubSeq(rows, i, n)[k] = rows[i + k - 1]
      BY <2>1, <2>2, SubSeqProperties
    <3>. QED  BY <2>3, <3>1, Zenon
  <2>5. Len(right) = n - i + 1
    BY <2>1, <2>4
  <2>. QED  BY <2>4, <2>5
<1>9. one \in Seq(Interval) /\ Len(one) = 1 /\ one[1] = p
  OBVIOUS
<1> HIDE DEF left, right, one
<1>10. /\ lr \in Seq(Interval) /\ Len(lr) = Len(left) + Len(one)
       /\ \A k \in 1..Len(left) : lr[k] = left[k]
       /\ \A k \in 1..Len(one) : lr[Len(left) + k] = one[k]
  <2>1. left \in Seq(Interval) /\ one \in Seq(Interval)
    BY <1>7, <1>9
  <2>. QED  BY <2>1, ConcatIs
<1> HIDE DEF lr
<1>11. /\ q \in Seq(Interval) /\ Len(q) = Len(lr) + Len(right)
       /\ \A k \in 1..Len(lr) : q[k] = lr[k]
       /\ \A k \in 1..Len(right) : q[Len(lr) + k] = right[k]
  <2>1. lr \in Seq(Interval) /\ right \in Seq(Interval)
    BY <1>8, <1>10
  <2>. QED  BY <2>1, ConcatIs
<1> HIDE DEF q
<1>12. Len(lr) = i /\ Len(q) = n + 1 /\ DOMAIN q = 1..(n + 1)
  BY <1>1, <1>4, <1>7, <1>8, <1>9, <1>10, <1>11
<1>13. \A k \in 1..(i - 1) : q[k] = rows[k]
  <2>1. \A k \in 1..(i - 1) : k \in 1..Len(left) /\ k \in 1..Len(lr)
    BY <1>4, <1>7, <1>12
  <2>. QED  BY <1>7, <1>10, <1>11, <2>1
<1>14. q[i] = p
  <2>1. i \in 1..Len(lr) /\ i = Len(left) + 1 /\ 1 \in 1..Len(one)
    BY <1>4, <1>7, <1>9, <1>12
  <2>. QED  BY <1>9, <1>10, <1>11, <2>1
<1>15. \A k \in (i + 1)..(n + 1) : q[k] = rows[k - 1]
  <2>1. ASSUME NEW k \in (i + 1)..(n + 1)
        PROVE  q[k] = rows[k - 1]
    <3>1. k - i \in 1..Len(right) /\ i + (k - i) = k /\ i + (k - i) - 1 = k - 1
          /\ k - i \in 1..(n - i + 1)
      BY <1>1, <1>4, <1>8
    <3>2. q[i + (k - i)] = right[k - i]
      BY <1>11, <1>12, <3>1
    <3>3. right[k - i] = rows[i + (k - i) - 1]
      BY <1>8, <3>1
    <3>. QED  BY <3>1, <3>2, <3>3
  <2>. QED  BY <2>1
<1>16. \A k \in DOMAIN q : \/ k \in 1..(i - 1) /\ k \in DOMAIN rows /\ k < i
                           \/ k = i
                           \/ /\ k \in (i + 1)..(n + 1) /\ k > i
                              /\ k - 1 \in DOMAIN rows /\ k - 1 >= i
  BY <1>1, <1>4, <1>12
<1>17. ASSUME NEW j \in DOMAIN q, NEW k \in DOMAIN q, j < k
       PROVE  q[j].last < q[k].first
  <2>1. j \in Int /\ k \in Int
    BY <1>1, <1>12
  <2>2. CASE j \in 1..(i - 1) /\ j \in DOMAIN rows /\ j < i
    <3>1. q[j] = rows[j]
      BY <1>13, <2>2
    <3>2. CASE k \in 1..(i - 1) /\ k \in DOMAIN rows
      BY <1>13, <1>17, <2>2, <3>1, <3>2 DEF Table
    <3>3. CASE k = i
      BY <1>6, <1>14, <2>2, <3>1, <3>3
    <3>4. CASE k \in (i + 1)..(n + 1) /\ k - 1 \in DOMAIN rows /\ k - 1 >= i
      <4>1. q[k] = rows[k - 1]
        BY <1>15, <3>4
      <4>2. j < k - 1
        BY <1>4, <2>1, <2>2, <3>4
      <4>. QED  BY <2>2, <3>1, <3>4, <4>1, <4>2, TableOrder, Zenon
    <3>. QED  BY <1>16, <3>2, <3>3, <3>4
  <2>3. CASE j = i
    <3>0. ~(k < i) /\ k # i
      BY <1>4, <1>17, <2>1, <2>3
    <3>1. k \in (i + 1)..(n + 1) /\ k - 1 \in DOMAIN rows /\ k - 1 >= i
      BY <1>16, <3>0, Zenon
    <3>2. q[k] = rows[k - 1]
      BY <1>15, <3>1
    <3>. QED  BY <1>6, <1>14, <2>3, <3>1, <3>2
  <2>4. CASE j \in (i + 1)..(n + 1) /\ j > i /\ j - 1 \in DOMAIN rows
    <3>0. ~(k < i) /\ k # i /\ j - 1 < k - 1
      BY <1>4, <1>17, <2>1, <2>4
    <3>1. k \in (i + 1)..(n + 1) /\ k - 1 \in DOMAIN rows /\ j - 1 < k - 1
      BY <1>16, <3>0, Zenon
    <3>2. q[k] = rows[k - 1] /\ q[j] = rows[j - 1]
      BY <1>15, <2>4, <3>1
    <3>. QED  BY <2>4, <3>1, <3>2 DEF Table
  <2>. QED  BY <1>16, <2>2, <2>3, <2>4
<1>18. Table(q)
  BY <1>11, <1>17 DEF Table
<1>19. ToSet(q) = ToSet(rows) \cup {p}
  <2>1. \A k \in DOMAIN q : q[k] = p \/ \E j \in DOMAIN rows : q[k] = rows[j]
    BY <1>13, <1>14, <1>15, <1>16
  <2>2. ASSUME NEW j \in DOMAIN rows
        PROVE  \E k \in DOMAIN q : q[k] = rows[j]
    <3>1. CASE j < i
      <4>1. j \in 1..(i - 1) /\ j \in DOMAIN q
        BY <1>1, <1>4, <1>12, <3>1
      <4>. QED  BY <1>13, <4>1
    <3>2. CASE ~(j < i)
      <4>1. j + 1 \in (i + 1)..(n + 1) /\ j + 1 \in DOMAIN q /\ (j + 1) - 1 = j
        BY <1>1, <1>4, <1>12, <3>2
      <4>. QED  BY <1>15, <4>1
    <3>. QED  BY <3>1, <3>2
  <2>3. i \in DOMAIN q
    BY <1>4, <1>12
  <2>4. p \in ToSet(q)
    BY <1>14, <2>3 DEF ToSet
  <2>5. \A j \in DOMAIN rows : rows[j] \in ToSet(q)
    BY <2>2 DEF ToSet
  <2>6. \A a \in ToSet(q) : a = p \/ a \in ToSet(rows)
    BY <2>1 DEF ToSet
  <2>7. \A a \in ToSet(rows) : \E j \in DOMAIN rows : a = rows[j]
    BY TableFacts
  <2>. QED  BY <2>4, <2>5, <2>6, <2>7
<1>20. \A a \in ToSet(rows) : a.last < p.first \/ p.last < a.first
  <2>1. \A k \in DOMAIN rows : k < i \/ k >= i
    BY <1>1, <1>4
  <2>2. \A k \in DOMAIN rows : rows[k].last < p.first \/ p.last < rows[k].first
    BY <1>6, <2>1
  <2>. QED  BY <2>2, TableFacts
<1>. QED  BY <1>3, <1>18, <1>19, <1>20

(* A row put in after the others.                                           *)
LEMMA AppendRow ==
  ASSUME NEW rows, Table(rows), NEW p \in Interval,
         \A a \in ToSet(rows) : a.last < p.first
  PROVE  /\ Table(Append(rows, p))
         /\ ToSet(Append(rows, p)) = ToSet(rows) \cup {p}
<1> DEFINE m == Len(rows) + 1
           q == Append(rows, p)
<1>0. Len(rows) \in Nat /\ DOMAIN rows = 1..Len(rows) /\ rows \in Seq(Interval)
  BY TableFacts, Zenon DEF Table
<1>1. \A k \in DOMAIN rows : rows[k] \in Interval /\ rows[k] \in ToSet(rows) /\ k \in Int
  BY TableFacts, Zenon
<1>2. q \in Seq(Interval) /\ DOMAIN q = 1..m /\ q[m] = p /\ \A k \in DOMAIN rows : q[k] = rows[k]
  <2>0. /\ Append(rows, p) \in Seq(Interval)
        /\ Append(rows, p) # << >>
        /\ Len(Append(rows, p)) = Len(rows) + 1
        /\ \A k \in 1..Len(rows) : Append(rows, p)[k] = rows[k]
        /\ Append(rows, p)[Len(rows) + 1] = p
    BY <1>0, AppendProperties
  <2>1. /\ q \in Seq(Interval) /\ Len(q) = Len(rows) + 1
        /\ \A k \in 1..Len(rows) : q[k] = rows[k]
        /\ q[Len(rows) + 1] = p
    BY <2>0, Zenon
  <2>2. DOMAIN q = 1..Len(q)
    BY <2>1, LenProperties, Zenon
  <2>. QED  BY <1>0, <2>1, <2>2, Zenon
<1> DEFINE n == Len(rows)
<1>a. n \in Nat /\ DOMAIN rows = 1..n /\ m = n + 1 /\ m \in Int
  <2>1. \A x \in Nat : x + 1 \in Int
    OBVIOUS
  <2>. QED  BY <1>0, <2>1, Zenon
<1> HIDE DEF q, n, m
<1>3. /\ \A k \in DOMAIN q : k = m \/ (k \in DOMAIN rows /\ k < m)
      /\ \A k \in DOMAIN rows : k \in DOMAIN q /\ m \in DOMAIN q
      /\ m \in DOMAIN q
      /\ \A k \in DOMAIN q : ~(m < k)
  BY <1>2, <1>a
<1>4. ASSUME NEW j \in DOMAIN q, NEW k \in DOMAIN q, j < k
      PROVE  q[j].last < q[k].first
  <2>1. j \in DOMAIN rows /\ q[j] = rows[j]
    BY <1>2, <1>3, <1>4
  <2>2. CASE k = m
    BY <1>1, <1>2, <2>1, <2>2
  <2>3. CASE k \in DOMAIN rows
    BY <1>2, <1>4, <2>1, <2>3, TableOrder, Zenon
  <2>. QED  BY <1>3, <2>2, <2>3
<1>5. ToSet(q) = ToSet(rows) \cup {p}
  BY <1>2, <1>3, Zenon DEF ToSet
<1>. QED  BY <1>2, <1>4, <1>5 DEF Table, q

(* The rows that a deletion leaves.                                         *)
LEMMA DeleteRows ==
  ASSUME NEW rows, Table(rows), NEW p
  PROVE  /\ Table(AfterDeletion(rows, p))
         /\ ToSet(AfterDeletion(rows, p)) = {a \in ToSet(rows) : ~Holds(p, a)}
<1> DEFINE K == {k \in DOMAIN rows : ~Holds(p, rows[k])}
           kept == Ascending(K)
           n == Cardinality(K)
           q == AfterDeletion(rows, p)
<1>0. Len(rows) \in Nat /\ DOMAIN rows = 1..Len(rows)
  BY TableFacts, Zenon
<1>1. \A k \in DOMAIN rows : rows[k] \in Interval
  BY TableFacts, Zenon
<1>2. /\ n \in Nat /\ kept \in [1..n -> K]
      /\ \A x \in K : \E k \in 1..n : kept[k] = x
      /\ \A j, k \in 1..n : j < k => kept[j] < kept[k]
  <2> DEFINE a == 1
             b == Len(rows)
  <2>1. K \in SUBSET (a..b) /\ a \in Int /\ b \in Int
    <3>1. DOMAIN rows = a..b /\ b \in Nat
      BY <1>0, Zenon
    <3>2. K \in SUBSET (DOMAIN rows)
      BY Zenon
    <3> HIDE DEF b, K
    <3>. QED  BY <3>1, <3>2
  <2> HIDE DEF K, a, b
  <2>2. /\ Cardinality(K) \in Nat
        /\ Ascending(K) \in [1..Cardinality(K) -> K]
        /\ \A x \in K : \E k \in 1..Cardinality(K) : Ascending(K)[k] = x
        /\ \A j, k \in 1..Cardinality(K) : j < k => Ascending(K)[j] < Ascending(K)[k]
    BY <2>1, AscendingIs
  <2>. QED  BY <2>2
<1>3. q = [k \in DOMAIN kept |-> rows[kept[k]]]
  BY Zenon DEF AfterDeletion
<1>4. /\ \A k \in K : k \in DOMAIN rows /\ ~Holds(p, rows[k])
      /\ \A k \in DOMAIN rows : ~Holds(p, rows[k]) => k \in K
  OBVIOUS
<1> HIDE DEF kept, n, q, K
<1>5. /\ DOMAIN q = 1..n
      /\ \A k \in 1..n : q[k] = rows[kept[k]] /\ kept[k] \in K /\ kept[k] \in DOMAIN rows
  BY <1>2, <1>3, <1>4
<1>6. q \in Seq(Interval)
  <2>1. q \in [1..n -> Interval]
    BY <1>1, <1>3, <1>5
  <2>. QED  BY <1>2, <2>1
<1>7. Table(q)
  <2>1. ASSUME NEW j \in DOMAIN q, NEW k \in DOMAIN q, j < k
        PROVE  q[j].last < q[k].first
    <3>1. kept[j] < kept[k] /\ kept[j] \in DOMAIN rows /\ kept[k] \in DOMAIN rows
      BY <1>2, <1>5, <2>1, Zenon
    <3>2. q[j] = rows[kept[j]] /\ q[k] = rows[kept[k]]
      BY <1>5, <2>1, Zenon
    <3>3. rows[kept[j]].last < rows[kept[k]].first
      BY <3>1, TableOrder, Zenon
    <3>. QED  BY <3>2, <3>3, Zenon
  <2>. QED  BY <1>6, <2>1, Zenon DEF Table
<1>8. ToSet(q) = {a \in ToSet(rows) : ~Holds(p, a)}
  <2>1. ASSUME NEW k \in DOMAIN q
        PROVE  q[k] \in ToSet(rows) /\ ~Holds(p, q[k])
    BY <1>4, <1>5 DEF ToSet
  <2>2. ASSUME NEW j \in DOMAIN rows, ~Holds(p, rows[j])
        PROVE  \E k \in DOMAIN q : q[k] = rows[j]
    <3>1. j \in K
      BY <1>4, <2>2, Zenon
    <3>2. PICK k \in 1..n : kept[k] = j
      BY <1>2, <3>1, Zenon
    <3>. QED  BY <1>5, <3>2, Zenon
  <2>. QED  BY <2>1, <2>2 DEF ToSet
<1>. QED  BY <1>7, <1>8 DEF q

-----------------------------------------------------------------------------
(***************************************************************************)
(* A table that tells the fixed ranges of the scope.                       *)
(***************************************************************************)

(* The mapped wires lie in the table's intervals.                           *)
Covered(rows, first) ==
  \A w \in 0 .. (first - 1) : \E a \in ToSet(rows) : a.first <= w /\ w <= a.last

(* The table as is that of a scope with the ranges rs, whose wires are      *)
(* marked as the scope's are.                                               *)
Match(rs, rows) ==
  /\ Shape(rs, assigned, firstLocal) /\ Cells(rs, active)
  /\ Table(rows) /\ ToSet(rows) = FixedSpans(rs)
  /\ Covered(rows, firstLocal)

(* An interval of wires that are free and in no fixed range does not clash. *)
LEMMA FreeOfClash ==
  ASSUME NEW rs, NEW given, NEW first \in Nat, Shape(rs, given, first),
         NEW f \in Nat, NEW l \in Nat, f <= l, first <= f, given \cap (f..l) = {},
         \A a \in FixedSpans(rs) : a.first <= a.last /\ (a.last < f \/ l < a.first)
  PROVE  ~NewRangeClashes(rs, given, first, f, l)
<1> DEFINE i == FindRange(rs, f)
<1>1. /\ rs \in Seq(RangeType) /\ Ranged(rs) /\ Len(rs) \in Nat /\ DOMAIN rs = 1..Len(rs)
  BY DEF Shape, Ranged
<1>2. ASSUME NEW j \in DOMAIN rs, rs[j].kind = "new"
      PROVE  /\ rs[j].offset \in Nat /\ End(rs[j]) \in Int /\ rs[j].offset <= End(rs[j])
             /\ End(rs[j]) < f \/ l < rs[j].offset
  <2>1. rs[j] \in RangeType /\ Sized(rs[j]) /\ rs[j].offset \in Nat /\ Len(rs[j].mem) \in Nat
    BY <1>1, RangeFacts DEF Ranged
  <2>2. End(rs[j]) = rs[j].offset + Len(rs[j].mem) - 1
    BY <2>1, EndIs
  <2>3. SpanOf(rs[j]) \in FixedSpans(rs)
    BY <1>1, <1>2, FixedIs
  <2>4. SpanOf(rs[j]).first = rs[j].offset /\ SpanOf(rs[j]).last = End(rs[j])
    BY <2>2 DEF SpanOf
  <2>. QED  BY <2>1, <2>2, <2>3, <2>4
<1>3. SUFFICES ASSUME rs # <<>>, NewRangeClashes(rs, given, first, f, l)
               PROVE  FALSE
  BY DEF NewRangeClashes
<1>4. 1 \in DOMAIN rs /\ rs[1].offset \in Nat
  <2>1. 1 \in DOMAIN rs
    BY <1>1, <1>3
  <2>. QED  BY <1>1, <2>1, RangeFacts
<1>5. CASE f < rs[1].offset /\ l >= rs[1].offset /\ rs[1].kind = "new"
  BY <1>2, <1>4, <1>5
<1>6. CASE /\ f >= rs[1].offset
           /\ \/ i < Len(rs) /\ l >= rs[i + 1].offset /\ rs[i + 1].kind = "new"
              \/ f <= End(rs[i]) /\ rs[i].kind = "new"
  <2>1. IsRangeOf(rs, f, i)
    <3>1. \E j \in DOMAIN rs : rs[j].offset <= f
      BY <1>4, <1>6
    <3>. QED  BY <1>1, <3>1, FindRangeIs
  <2>2. i \in DOMAIN rs /\ i \in Int /\ rs[i].offset <= f
        /\ \A j \in DOMAIN rs : j > i => rs[j].offset > f
    BY <1>1, <2>1 DEF IsRangeOf
  <2> HIDE DEF i
  <2>3. CASE i < Len(rs) /\ l >= rs[i + 1].offset /\ rs[i + 1].kind = "new"
    <3>1. i + 1 \in DOMAIN rs /\ i + 1 > i
      BY <1>1, <2>2, <2>3
    <3>2. rs[i + 1].offset > f
      BY <2>2, <3>1
    <3>. QED  BY <1>2, <2>3, <3>1, <3>2
  <2>4. CASE f <= End(rs[i]) /\ rs[i].kind = "new"
    BY <1>2, <2>2, <2>4
  <2>. QED  BY <1>6, <2>3, <2>4
<1>. QED  BY <1>3, <1>5, <1>6 DEF NewRangeClashes

(* A declaration that typeCheck accepts: the scope does not refuse it, and  *)
(* the table tells its fixed ranges afterwards.                             *)
LEMMA DeclareMatch ==
  ASSUME Layout, MaxArg < MaxWire, NEW rs, NEW rows, Match(rs, rows), NEW p \in Interval,
         Slots(rows, p) # {}, assigned \cap WiresOf(p) = {},
         ~CutsForeign(rs, p.first, p.last)
  PROVE  /\ ~NewRangeClashes(rs, assigned, firstLocal, p.first, p.last)
         /\ Match(AddNewRange(rs, active, p.first, p.last), InsertSlot(rows, p))
<1> DEFINE f == p.first
           l == p.last
           q == AddNewRange(rs, active, f, l)
           bs == InsertSlot(rows, p)
<1>1. /\ f \in Nat /\ l \in Nat /\ f <= l /\ l < MaxWire /\ WiresOf(p) = f..l
      /\ p = [first |-> f, last |-> l]
  <2>1. f \in Nat /\ l \in Nat /\ f <= l /\ l \in Arg
        /\ p = [first |-> f, last |-> l]
    BY IntervalFacts
  <2>2. l < MaxWire
    BY <2>1, ProgramNumbers DEF Arg
  <2>. QED  BY <2>1, <2>2 DEF WiresOf
<1>2. /\ Table(bs) /\ ToSet(bs) = ToSet(rows) \cup {p}
      /\ \A a \in ToSet(rows) : a.last < p.first \/ p.last < a.first
  BY InsertRow DEF Match
<1>3. /\ Shape(rs, assigned, firstLocal) /\ Cells(rs, active) /\ Ranged(rs)
      /\ Table(rows) /\ ToSet(rows) = FixedSpans(rs)
  BY DEF Match, Shape, Ranged
<1>4. firstLocal \in Nat /\ firstLocal \in Int
  BY LayoutFacts
<1>5. \A a \in ToSet(rows) : a.first \in Nat /\ a.last \in Nat /\ a.first <= a.last
  BY <1>3, TableFacts
<1>6. firstLocal <= f
  <2>1. ASSUME f < firstLocal
        PROVE  FALSE
    <3>1. f \in 0 .. (firstLocal - 1)
      BY <1>1, <1>4, <2>1
    <3>2. PICK a \in ToSet(rows) : a.first <= f /\ f <= a.last
      BY <3>1 DEF Match, Covered
    <3> DEFINE u == a.first
               v == a.last
    <3>3. u \in Nat /\ v \in Nat /\ u <= f /\ f <= v /\ (v < f \/ l < u)
      BY <1>2, <1>5, <3>2, Zenon
    <3> HIDE DEF u, v
    <3>. QED  BY <1>1, <3>3
  <2>. QED  BY <1>1, <1>4, <2>1
<1> HIDE DEF bs
<1>7. ~NewRangeClashes(rs, assigned, firstLocal, f, l)
  <2>1. \A a \in FixedSpans(rs) : a.first <= a.last /\ (a.last < f \/ l < a.first)
    BY <1>2, <1>3, <1>5
  <2>2. assigned \cap (f..l) = {}
    BY <1>1
  <2> HIDE DEF f, l
  <2>. QED  BY <1>1, <1>3, <1>4, <1>6, <2>1, <2>2, FreeOfClash
<1>8. /\ Shape(q, assigned, firstLocal) /\ Cells(q, active)
      /\ \A j \in DOMAIN rs : \E m \in DOMAIN q : SameSpan(q[m], rs[j])
      /\ \E m \in DOMAIN q : /\ q[m].offset = f /\ q[m].kind = "new"
                             /\ Len(q[m].mem) = 1 + l - f
      /\ Declares(q, rs, f, l)
  <2>1. ~CutsForeign(rs, f, l)
    OBVIOUS
  <2> HIDE DEF f, l, q
  <2>2. rs # <<>> /\ f >= rs[1].offset /\ FindRange(rs, f) < Len(rs)
        => ~(\E w \in active : /\ l < w /\ w <= End(rs[FindRange(rs, f)])
                               /\ w >= rs[FindRange(rs, f) + 1].offset)
    BY <2>1 DEF CutsForeign
  <2>. QED  BY <1>1, <1>3, <1>4, <1>7, <2>2, LayoutFacts, AddNewRangeKeeps DEF q
<1> HIDE DEF q, f, l
<1>9. FixedSpans(q) = FixedSpans(rs) \cup {p}
  <2>1. Ranged(q)
    BY <1>8 DEF Shape, Ranged
  <2>. QED  BY <1>1, <1>3, <1>8, <2>1, AddSpans
<1>10. Covered(bs, firstLocal)
  BY <1>2 DEF Match, Covered
<1>11. Match(q, bs)
  BY <1>2, <1>3, <1>8, <1>9, <1>10 DEF Match
<1>. QED  BY <1>7, <1>11 DEF q, bs, f, l

(* An allocation holds an interval if the scope gives it in one piece.      *)
LEMMA CoversMatch ==
  ASSUME NEW rs, NEW rows, Match(rs, rows), NEW p \in Interval
  PROVE  WithinAllocation(rows, p) <=> CoversOutputs(rs, p.first, p.last)
<1> DEFINE f == p.first
           l == p.last
<1>1. f \in Int /\ l \in Int /\ f <= l
  BY IntervalFacts
<1>2. /\ Shape(rs, assigned, firstLocal) /\ Ranged(rs) /\ rs \in Seq(RangeType)
      /\ Table(rows) /\ ToSet(rows) = FixedSpans(rs)
  BY DEF Match, Shape, Ranged
<1>3. \A i \in DOMAIN rs : /\ rs[i].offset \in Nat /\ Len(rs[i].mem) \in Nat
                           /\ End(rs[i]) = rs[i].offset + Len(rs[i].mem) - 1
                           /\ rs[i].kind \in {"new", "mapped", "grown"}
  BY <1>2, RangeFacts, EndIs DEF Ranged
<1> HIDE DEF f, l
<1>4. ASSUME NEW k \in DOMAIN rows, rows[k].first <= f, l <= rows[k].last
      PROVE  CoversOutputs(rs, f, l)
  <2>1. rows[k] \in FixedSpans(rs)
    BY <1>2, TableFacts
  <2>2. PICK i \in DOMAIN rs : rs[i].kind # "grown" /\ rows[k] = SpanOf(rs[i])
    BY <1>2, <2>1, FixedIs
  <2>3. rs[i].offset <= f /\ l <= End(rs[i]) /\ f < rs[i].offset + Len(rs[i].mem)
    <3>1. rows[k].first = rs[i].offset /\ rows[k].last = rs[i].offset + Len(rs[i].mem) - 1
      BY <2>2 DEF SpanOf
    <3>. QED  BY <1>1, <1>3, <1>4, <3>1
  <2>4. IsRangeOf(rs, f, i)
    BY <1>1, <1>2, <2>2, <2>3, FixedRangeOf
  <2>5. FindRange(rs, f) = i
    BY <1>1, <1>2, <2>4, FindRangeIs
  <2>6. rs # <<>> /\ End(rs[i]) >= l
    <3>1. End(rs[i]) \in Int
      BY <1>3
    <3>. QED  BY <1>1, <2>3, <3>1
  <2>. QED  BY <1>3, <2>2, <2>3, <2>5, <2>6 DEF CoversOutputs
<1>5. ASSUME CoversOutputs(rs, f, l)
      PROVE  \E k \in DOMAIN rows : rows[k].first <= f /\ l <= rows[k].last
  <2>1. PICK i \in DOMAIN rs : /\ rs[i].kind # "grown" /\ rs[i].offset <= f
                               /\ l < rs[i].offset + Len(rs[i].mem)
    BY <1>1, <1>2, <1>5, CoversIs
  <2>2. SpanOf(rs[i]) \in ToSet(rows)
    BY <1>2, <2>1, FixedIs
  <2>3. PICK k \in DOMAIN rows : SpanOf(rs[i]) = rows[k]
    BY <1>2, <2>2, TableFacts
  <2>4. rows[k].first = rs[i].offset /\ rows[k].last = rs[i].offset + Len(rs[i].mem) - 1
    <3>1. SpanOf(rs[i]).first = rs[i].offset
          /\ SpanOf(rs[i]).last = rs[i].offset + Len(rs[i].mem) - 1
      BY DEF SpanOf
    <3> HIDE DEF SpanOf
    <3>. QED  BY <2>3, <3>1, Zenon
  <2>5. l <= rs[i].offset + Len(rs[i].mem) - 1
    BY <1>1, <1>3, <2>1
  <2>. QED  BY <2>1, <2>4, <2>5
<1>. QED  BY <1>4, <1>5 DEF WithinAllocation, f, l

-----------------------------------------------------------------------------
(***************************************************************************)
(* The outputs and inputs of one directive.                                *)
(***************************************************************************)

(* Rows that an output was put in among still hold what they held.          *)
LEMMA WithinMore ==
  ASSUME NEW rows, NEW bs, Table(rows), Table(bs), ToSet(rows) \subseteq ToSet(bs),
         NEW p, WithinAllocation(rows, p)
  PROVE  WithinAllocation(bs, p)
<1>1. PICK k \in DOMAIN rows : rows[k].first <= p.first /\ p.last <= rows[k].last
  BY DEF WithinAllocation
<1>2. rows[k] \in ToSet(bs)
  BY TableFacts
<1>3. PICK m \in DOMAIN bs : rows[k] = bs[m]
  BY <1>2, TableFacts
<1>. QED  BY <1>1, <1>3 DEF WithinAllocation

(* An output that typeCheck accepts is found, and put among the rows as the *)
(* scope puts it among the ranges.                                          *)
LEMMA OutputStep ==
  ASSUME Layout, MaxArg < MaxWire, NEW rs, NEW rows, Match(rs, rows), NEW p \in Interval,
         NEW taken, assigned \subseteq taken, ChecksOutput(rows, taken, p),
         CoversOutputs(rs, p.first, p.last) \/ ~CutsForeign(rs, p.first, p.last)
  PROVE  /\ FindsOutput(rs, p)
         /\ Match(AfterFind(rs, p), AfterOutput(rows, p))
         /\ WithinAllocation(AfterOutput(rows, p), p)
         /\ ToSet(rows) \subseteq ToSet(AfterOutput(rows, p))
<1>1. assigned \cap WiresOf(p) = {}
  BY DEF ChecksOutput
<1>2. WithinAllocation(rows, p) <=> CoversOutputs(rs, p.first, p.last)
  BY CoversMatch
<1>3. CASE WithinAllocation(rows, p)
  BY <1>1, <1>2, <1>3 DEF FindsOutput, AfterFind, AfterOutput
<1>4. CASE ~WithinAllocation(rows, p)
  <2>1. Slots(rows, p) # {} /\ ~CutsForeign(rs, p.first, p.last)
    BY <1>2, <1>4 DEF ChecksOutput
  <2>2. /\ ~NewRangeClashes(rs, assigned, firstLocal, p.first, p.last)
        /\ Match(AddNewRange(rs, active, p.first, p.last), InsertSlot(rows, p))
    BY <1>1, <2>1, DeclareMatch
  <2>3. AfterFind(rs, p) = AddNewRange(rs, active, p.first, p.last)
        /\ AfterOutput(rows, p) = InsertSlot(rows, p)
    BY <1>2, <1>4 DEF AfterFind, AfterOutput
  <2>4. Table(InsertSlot(rows, p)) /\ ToSet(InsertSlot(rows, p)) = ToSet(rows) \cup {p}
    BY <2>1, InsertRow DEF Match
  <2>5. WithinAllocation(InsertSlot(rows, p), p)
    <3>1. PICK k \in DOMAIN InsertSlot(rows, p) : p = InsertSlot(rows, p)[k]
      BY <2>4, TableFacts
    <3>2. p.first <= p.first /\ p.last <= p.last
      <4>1. p.first \in Int /\ p.last \in Int
        BY IntervalFacts
      <4>. QED  BY <4>1
    <3> DEFINE bs == InsertSlot(rows, p)
    <3>3. k \in DOMAIN bs /\ bs[k].first <= p.first /\ p.last <= bs[k].last
      BY <3>1, <3>2, Zenon
    <3> HIDE DEF bs
    <3>4. WithinAllocation(bs, p)
      BY <3>3 DEF WithinAllocation
    <3>. QED  BY <3>4 DEF bs
  <2>6. FindsOutput(rs, p)
    BY <1>1, <2>2 DEF FindsOutput
  <2>. QED  BY <2>2, <2>3, <2>4, <2>5, <2>6
<1>. QED  BY <1>3, <1>4

(* What the recursive definition of the tables defines.                     *)
TablesSteps(f, outs) ==
  f = [k \in 0..Len(outs) |->
         IF k = 0 THEN allocations ELSE AfterOutput(f[k - 1], outs[k])]

FoundSteps(f, outs) ==
  f = [k \in 0..Len(outs) |->
         IF k = 0 THEN ranges ELSE AfterFind(f[k - 1], outs[k])]

LEMMA TablesIs ==
  ASSUME NEW outs, Len(outs) \in Nat
  PROVE  /\ Tables(outs)[0] = allocations
         /\ \A k \in 1..Len(outs) :
              Tables(outs)[k] = AfterOutput(Tables(outs)[k - 1], outs[k])
<1> DEFINE Good(f, n) ==
      f = [k \in 0..n |-> IF k = 0 THEN allocations ELSE AfterOutput(f[k - 1], outs[k])]
    Failed == {n \in Nat : ~ \E f : Good(f, n)}
<1>1. Failed = {}
  <2>1. SUFFICES ASSUME Failed # {}
                 PROVE  FALSE
    OBVIOUS
  <2>2. PICK n \in Failed : \A m \in Failed : n <= m
    BY <2>1, LeastNat, Failed \subseteq Nat, Zenon
  <2>3. CASE n = 0
    <3>1. Good([k \in 0..0 |-> allocations], 0)
      OBVIOUS
    <3>. QED  BY <2>3, <3>1, <2>2
  <2>4. CASE n # 0
    <3>1. n \in Nat /\ n - 1 \in Nat /\ ~(n <= n - 1)
      BY <2>4
    <3>2. PICK f : Good(f, n - 1)
      BY <3>1, <2>2
    <3> DEFINE e(h, k) == IF k = 0 THEN allocations ELSE AfterOutput(h[k - 1], outs[k])
               g == [k \in 0..n |-> e(f, k)]
    <3>3. \A k \in 0..(n - 1) : f[k] = e(f, k)
      BY <3>2
    <3>4. \A k \in 0..n : g[k] = e(f, k)
      OBVIOUS
    <3> HIDE DEF g
    <3>5. ASSUME NEW k \in 0..n
          PROVE  e(f, k) = e(g, k)
      <4>1. CASE k = 0
        BY <4>1
      <4>2. CASE k # 0
        <5>1. k - 1 \in 0..(n - 1) /\ k - 1 \in 0..n
          BY <3>1, <4>2
        <5>2. f[k - 1] = g[k - 1]
          BY <3>3, <3>4, <5>1
        <5>. QED  BY <5>2
      <4>. QED  BY <4>1, <4>2
    <3> HIDE DEF e
    <3>6. g = [k \in 0..n |-> e(g, k)]
      BY <3>5 DEF g
    <3>7. Good(g, n)
      BY <3>6 DEF e
    <3>. QED  BY <3>7, <2>2
  <2>. QED  BY <2>3, <2>4
<1>2. \E f : TablesSteps(f, outs)
  <2>1. \E f : Good(f, Len(outs))
    BY <1>1
  <2>. QED  BY <2>1 DEF TablesSteps
<1> HIDE DEF Good, Failed
<1> DEFINE S(f) == TablesSteps(f, outs)
           t == CHOOSE f : S(f)
<1>3. TablesSteps(t, outs)
  <2>1. \E f : S(f)
    BY <1>2
  <2> HIDE DEF S
  <2>2. S(t)
    BY <2>1
  <2>. QED  BY <2>2 DEF S
<1>4. Tables(outs) = t
  BY Zenon DEF Tables, TablesSteps
<1> HIDE DEF t
<1>5. \A k \in 0..Len(outs) :
        t[k] = IF k = 0 THEN allocations ELSE AfterOutput(t[k - 1], outs[k])
  BY <1>3, Zenon DEF TablesSteps
<1>6. 0 \in 0..Len(outs) /\ \A k \in 1..Len(outs) : k \in 0..Len(outs) /\ k # 0
  OBVIOUS
<1>. QED  BY <1>4, <1>5, <1>6

LEMMA FoundIs ==
  ASSUME NEW outs, Len(outs) \in Nat
  PROVE  /\ Found(outs)[0] = ranges
         /\ \A k \in 1..Len(outs) :
              Found(outs)[k] = AfterFind(Found(outs)[k - 1], outs[k])
<1> DEFINE Good(f, n) ==
      f = [k \in 0..n |-> IF k = 0 THEN ranges ELSE AfterFind(f[k - 1], outs[k])]
    Failed == {n \in Nat : ~ \E f : Good(f, n)}
<1>1. Failed = {}
  <2>1. SUFFICES ASSUME Failed # {}
                 PROVE  FALSE
    OBVIOUS
  <2>2. PICK n \in Failed : \A m \in Failed : n <= m
    BY <2>1, LeastNat, Failed \subseteq Nat, Zenon
  <2>3. CASE n = 0
    <3>1. Good([k \in 0..0 |-> ranges], 0)
      OBVIOUS
    <3>. QED  BY <2>3, <3>1, <2>2
  <2>4. CASE n # 0
    <3>1. n \in Nat /\ n - 1 \in Nat /\ ~(n <= n - 1)
      BY <2>4
    <3>2. PICK f : Good(f, n - 1)
      BY <3>1, <2>2
    <3> DEFINE e(h, k) == IF k = 0 THEN ranges ELSE AfterFind(h[k - 1], outs[k])
               g == [k \in 0..n |-> e(f, k)]
    <3>3. \A k \in 0..(n - 1) : f[k] = e(f, k)
      BY <3>2
    <3>4. \A k \in 0..n : g[k] = e(f, k)
      OBVIOUS
    <3> HIDE DEF g
    <3>5. ASSUME NEW k \in 0..n
          PROVE  e(f, k) = e(g, k)
      <4>1. CASE k = 0
        BY <4>1
      <4>2. CASE k # 0
        <5>1. k - 1 \in 0..(n - 1) /\ k - 1 \in 0..n
          BY <3>1, <4>2
        <5>2. f[k - 1] = g[k - 1]
          BY <3>3, <3>4, <5>1
        <5>. QED  BY <5>2
      <4>. QED  BY <4>1, <4>2
    <3> HIDE DEF e
    <3>6. g = [k \in 0..n |-> e(g, k)]
      BY <3>5 DEF g
    <3>7. Good(g, n)
      BY <3>6 DEF e
    <3>. QED  BY <3>7, <2>2
  <2>. QED  BY <2>3, <2>4
<1>2. \E f : FoundSteps(f, outs)
  <2>1. \E f : Good(f, Len(outs))
    BY <1>1
  <2>. QED  BY <2>1 DEF FoundSteps
<1> HIDE DEF Good, Failed
<1> DEFINE S(f) == FoundSteps(f, outs)
           t == CHOOSE f : S(f)
<1>3. FoundSteps(t, outs)
  <2>1. \E f : S(f)
    BY <1>2
  <2> HIDE DEF S
  <2>2. S(t)
    BY <2>1
  <2>. QED  BY <2>2 DEF S
<1>4. Found(outs) = t
  BY Zenon DEF Found, FoundSteps
<1> HIDE DEF t
<1>5. \A k \in 0..Len(outs) :
        t[k] = IF k = 0 THEN ranges ELSE AfterFind(t[k - 1], outs[k])
  BY <1>3, Zenon DEF FoundSteps
<1>6. 0 \in 0..Len(outs) /\ \A k \in 1..Len(outs) : k \in 0..Len(outs) /\ k # 0
  OBVIOUS
<1>. QED  BY <1>4, <1>5, <1>6

(* Lists of intervals are sequences.                                        *)
LEMMA ListsAre ==
  /\ \A outs \in OutputLists : outs \in Seq(Interval)
  /\ \A ins \in InputLists : ins \in Seq(Interval)
<1>1. ASSUME NEW n \in Nat, NEW s \in BoundedSeq(Interval, n)
      PROVE  s \in Seq(Interval)
  <2>1. PICK m \in 0..n : s \in [1..m -> Interval]
    BY DEF BoundedSeq, SeqOf
  <2>2. m \in Nat
    BY <2>1
  <2>. QED  BY <2>1, <2>2
<1>2. MaxOutputs \in Nat /\ 1 \in Nat
  BY ProgramAssumption
<1>. QED  BY <1>1, <1>2 DEF OutputLists, InputLists

(* What holds after the first k outputs of a directive were looked up: the  *)
(* table tells the scope's ranges, and its rows hold those outputs.         *)
FoundUpTo(outs, k) ==
  /\ Match(Found(outs)[k], Tables(outs)[k])
  /\ ToSet(allocations) \subseteq ToSet(Tables(outs)[k])
  /\ \A j \in 1..k : /\ FindsOutput(Found(outs)[j - 1], outs[j])
                     /\ WithinAllocation(Tables(outs)[k], outs[j])

(* The scope finds the outputs that typeCheck accepts, however many.        *)
LEMMA OutputsFound ==
  ASSUME Layout, MaxArg < MaxWire, assigns = assigned, Match(ranges, allocations),
         NEW outs \in Seq(Interval), ChecksOutputs(outs), CutsOwn(outs)
  PROVE  \A k \in 0..Len(outs) : FoundUpTo(outs, k)
<1> DEFINE n == Len(outs)
           Failed == {k \in Nat : k <= n /\ ~FoundUpTo(outs, k)}
<1>1. n \in Nat /\ DOMAIN outs = 1..n /\ \A k \in 1..n : outs[k] \in Interval
  OBVIOUS
<1>2. /\ Tables(outs)[0] = allocations /\ Found(outs)[0] = ranges
      /\ \A k \in 1..n : /\ Tables(outs)[k] = AfterOutput(Tables(outs)[k - 1], outs[k])
                         /\ Found(outs)[k] = AfterFind(Found(outs)[k - 1], outs[k])
  BY <1>1, TablesIs, FoundIs
<1> HIDE DEF n
<1>3. FoundUpTo(outs, 0)
  <2>1. 1..0 = {}
    OBVIOUS
  <2>. QED  BY <1>2, <2>1 DEF FoundUpTo
<1>4. ASSUME NEW k \in 1..n, FoundUpTo(outs, k - 1)
      PROVE  FoundUpTo(outs, k)
  <2> DEFINE rs == Found(outs)[k - 1]
             old == Tables(outs)[k - 1]
             p == outs[k]
             new == AfterOutput(old, p)
  <2>1. k \in Nat /\ k - 1 \in Nat /\ p \in Interval /\ k \in DOMAIN outs
    BY <1>1
  <2>2. /\ Match(rs, old) /\ ToSet(allocations) \subseteq ToSet(old)
        /\ \A j \in 1..(k - 1) : FindsOutput(Found(outs)[j - 1], outs[j])
                                 /\ WithinAllocation(old, outs[j])
    BY <1>4 DEF FoundUpTo
  <2>3. ChecksOutput(old, assigns \cup WiresUpTo(outs, k - 1), p)
    BY <2>1 DEF ChecksOutputs
  <2>4. CoversOutputs(rs, p.first, p.last) \/ ~CutsForeign(rs, p.first, p.last)
    BY <2>1 DEF CutsOwn
  <2>5. Tables(outs)[k] = new /\ Found(outs)[k] = AfterFind(rs, p)
    BY <1>2
  <2>6. assigned \subseteq assigns \cup WiresUpTo(outs, k - 1)
    OBVIOUS
  <2> HIDE DEF rs, old, p
  <2>7. /\ FindsOutput(rs, p) /\ Match(AfterFind(rs, p), new)
        /\ WithinAllocation(new, p) /\ ToSet(old) \subseteq ToSet(new)
    BY <2>1, <2>2, <2>3, <2>4, <2>6, OutputStep
  <2>8. ASSUME NEW j \in 1..k
        PROVE  FindsOutput(Found(outs)[j - 1], outs[j]) /\ WithinAllocation(new, outs[j])
    <3>1. CASE j = k
      BY <2>7, <3>1 DEF rs, p
    <3>2. CASE j # k
      <4>1. j \in 1..(k - 1)
        BY <2>1, <3>2
      <4>2. FindsOutput(Found(outs)[j - 1], outs[j]) /\ WithinAllocation(old, outs[j])
        BY <2>2, <4>1
      <4>3. Table(old) /\ Table(new)
        BY <2>2, <2>7 DEF Match
      <4>. QED  BY <2>7, <4>2, <4>3, WithinMore
    <3>. QED  BY <3>1, <3>2
  <2>9. ToSet(allocations) \subseteq ToSet(new)
    BY <2>2, <2>7
  <2>. QED  BY <2>5, <2>7, <2>8, <2>9 DEF FoundUpTo
<1>5. Failed = {}
  <2>1. SUFFICES ASSUME Failed # {}
                 PROVE  FALSE
    OBVIOUS
  <2>2. PICK k \in Failed : \A m \in Failed : k <= m
    BY <2>1, LeastNat, Failed \subseteq Nat, Zenon
  <2>3. k \in Nat /\ k <= n /\ ~FoundUpTo(outs, k)
    OBVIOUS
  <2>4. k # 0
    BY <1>3, <2>3
  <2>5. k - 1 \in Nat /\ k - 1 <= n /\ ~(k <= k - 1) /\ k \in 1..n
    BY <1>1, <2>3, <2>4
  <2>6. FoundUpTo(outs, k - 1)
    BY <2>2, <2>5
  <2>. QED  BY <1>4, <2>3, <2>5, <2>6
<1>6. \A k \in 0..n : k \in Nat /\ k <= n
  BY <1>1
<1>. QED  BY <1>5, <1>6 DEF n

(* An input that typeCheck accepts is found in one piece, after the outputs *)
(* moved what they had to.                                                  *)
LEMMA InputFound ==
  ASSUME Layout, actives = active, NEW rs, NEW rows, Match(rs, rows),
         Table(allocations), ToSet(allocations) \subseteq ToSet(rows),
         NEW p \in Interval, ChecksInput(p)
  PROVE  FindsInput(rs, p)
<1> DEFINE f == p.first
           l == p.last
           i == FindRange(rs, f)
<1>1. /\ f \in Nat /\ l \in Nat /\ f \in Int /\ l \in Int /\ f <= l
      /\ WiresOf(p) = f..l /\ f \in f..l /\ f..l \subseteq active
  BY IntervalFacts DEF ChecksInput, WiresOf
<1>2. /\ Shape(rs, assigned, firstLocal) /\ Cells(rs, active) /\ Ranged(rs)
      /\ rs \in Seq(RangeType) /\ Table(rows)
  BY DEF Match, Shape, Ranged
<1>3. CASE WithinAllocation(allocations, p)
  <2>1. WithinAllocation(rows, p)
    BY <1>2, <1>3, WithinMore
  <2>2. CoversOutputs(rs, f, l)
    BY <2>1, CoversMatch
  <2>. QED  BY <1>1, <2>2 DEF CoversOutputs, FindsInput, FindInputsError, FixedOrSingle
<1>4. CASE f = l
  <2>1. f \in active /\ active \in SUBSET Int
    BY <1>1, LayoutFacts
  <2>2. /\ i \in DOMAIN rs /\ rs[i].offset <= f
        /\ f - rs[i].offset < Len(rs[i].mem)
    BY <1>2, <2>1, LookupIs
  <2> HIDE DEF i
  <2>3. /\ rs[i].offset \in Nat /\ Len(rs[i].mem) \in Nat
        /\ End(rs[i]) = rs[i].offset + Len(rs[i].mem) - 1
    BY <1>2, <2>2, RangeFacts, EndIs DEF Ranged
  <2>4. End(rs[i]) >= l
    BY <1>1, <1>4, <2>2, <2>3
  <2>. QED  BY <1>1, <1>4, <2>2, <2>4 DEF FindsInput, FindInputsError, FixedOrSingle, i
<1>. QED  BY <1>3, <1>4 DEF ChecksInput

-----------------------------------------------------------------------------
(***************************************************************************)
(* typeCheck and the scope agree after every directive.                    *)
(***************************************************************************)

(* The scope of a body that typeCheck has accepted so far.                  *)
Agree ==
  /\ Layout
  /\ pending = {} /\ err = "success"
  /\ assigns = assigned /\ actives = active
  /\ Match(ranges, allocations)

(* The wires that the outputs of a directive assign.                        *)
LEMMA OutputWiresAre ==
  ASSUME NEW outs \in Seq(Interval)
  PROVE  /\ OutputWires(outs) \in SUBSET Arg
         /\ \A w \in OutputWires(outs) :
              \E j \in 1..Len(outs) : outs[j].first <= w /\ w <= outs[j].last
<1>1. \A j \in 1..Len(outs) : outs[j] \in Interval
  OBVIOUS
<1>2. ASSUME NEW w \in OutputWires(outs)
      PROVE  w \in Arg /\ \E j \in 1..Len(outs) : outs[j].first <= w /\ w <= outs[j].last
  <2>1. PICK j \in 1..Len(outs) : w \in WiresOf(outs[j])
    BY DEF OutputWires, WiresUpTo
  <2>2. outs[j] \in Interval
    BY <1>1
  <2>3. w \in Arg /\ outs[j].first <= w /\ w <= outs[j].last
    BY <2>1, <2>2, IntervalFacts
  <2>. QED  BY <2>3
<1>. QED  BY <1>2

(* The wires of an interval that a row holds lie in a fixed range.          *)
LEMMA RowHolds ==
  ASSUME NEW rs, NEW rows, Match(rs, rows), NEW p \in Interval, WithinAllocation(rows, p),
         NEW w \in Int, p.first <= w, w <= p.last
  PROVE  \E i \in DOMAIN rs : /\ rs[i].kind # "grown" /\ rs[i].offset <= w
                              /\ w < rs[i].offset + Len(rs[i].mem)
<1>1. p.first \in Int /\ p.last \in Int
  BY IntervalFacts
<1>2. CoversOutputs(rs, p.first, p.last)
  BY CoversMatch
<1>3. PICK i \in DOMAIN rs : /\ rs[i].kind # "grown" /\ rs[i].offset <= p.first
                             /\ p.last < rs[i].offset + Len(rs[i].mem)
  BY <1>1, <1>2, CoversIs DEF Match
<1> DEFINE o == rs[i].offset
           z == rs[i].offset + Len(rs[i].mem)
<1>4. o \in Int /\ z \in Int
  <2>1. rs \in Seq(RangeType)
    BY DEF Match, Shape
  <2>. QED  BY <2>1, RangeFacts
<1>5. o <= p.first /\ p.last < z
  BY <1>3
<1> HIDE DEF o, z
<1>6. o <= w /\ w < z
  BY <1>1, <1>4, <1>5
<1>. QED  BY <1>3, <1>6 DEF o, z

(* A directive with intervals that typeCheck accepts is evaluated.          *)
LEMMA IntervalsAgree ==
  ASSUME Agree, MaxArg < MaxWire, phase = "body",
         NEW outs \in Seq(Interval), NEW ins \in Seq(Interval),
         ChecksOutputs(outs), CutsOwn(outs), \A k \in DOMAIN ins : ChecksInput(ins[k]),
         MarkChecked(OutputWires(outs)), allocations' = Tables(outs)[Len(outs)],
         EvaluateIntervals(outs, ins, OwnCells(outs))
  PROVE  Agree'
<1> DEFINE n == Len(outs)
           P == OutputWires(outs)
           rs == Found(outs)[n]
           rows == Tables(outs)[n]
           q == WriteOutputs(rs, [w \in P |-> w])
<1>1. n \in Nat /\ DOMAIN outs = 1..n /\ n \in 0..n /\ \A k \in 1..n : k \in 0..n
  OBVIOUS
<1>2. /\ Layout /\ pending = {} /\ err = "success" /\ assigns = assigned
      /\ actives = active /\ Match(ranges, allocations)
  BY DEF Agree
<1>3. \A k \in 0..n : FoundUpTo(outs, k)
  BY <1>2, OutputsFound
<1> HIDE DEF n
<1>4. /\ Match(rs, rows) /\ ToSet(allocations) \subseteq ToSet(rows)
      /\ \A j \in 1..n : /\ FindsOutput(Found(outs)[j - 1], outs[j])
                         /\ WithinAllocation(rows, outs[j])
  BY <1>1, <1>3 DEF FoundUpTo
<1>5. ~(\E k \in DOMAIN outs : ~FindsOutput(Found(outs)[k - 1], outs[k]))
  BY <1>1, <1>4
<1>6. ~(\E p \in ToSet(ins) : ~FindsInput(rs, p))
  <2>1. SUFFICES ASSUME NEW p \in ToSet(ins)
                 PROVE  FindsInput(rs, p)
    OBVIOUS
  <2>2. PICK k \in DOMAIN ins : p = ins[k]
    BY DEF ToSet
  <2>3. p \in Interval /\ ChecksInput(p)
    BY <2>2
  <2>4. Table(allocations)
    BY <1>2 DEF Match
  <2> HIDE DEF rs, rows
  <2>. QED  BY <1>2, <1>4, <2>3, <2>4, InputFound
<1>7. /\ ranges' = q /\ Mark(P) /\ UNCHANGED <<firstLocal, phase, pending, err>>
  BY <1>5, <1>6 DEF EvaluateIntervals, OwnCells, n
<1>8. /\ assigned' = assigned \cup P /\ active' = active \cup P
      /\ assigns' = assigned' /\ actives' = active'
  BY <1>2, <1>7 DEF Mark, MarkChecked
<1>9. /\ P \in SUBSET Arg
      /\ \A w \in P : \E j \in 1..n : outs[j].first <= w /\ w <= outs[j].last
  BY OutputWiresAre DEF n
<1>10. P \in SUBSET (0..MaxWire)
  BY <1>9, ArgFacts
<1> HIDE DEF P, rs, rows
<1>11. ASSUME NEW x \in P
       PROVE  \E i \in DOMAIN rs : /\ rs[i].kind # "grown" /\ rs[i].offset <= x
                                   /\ x < rs[i].offset + Len(rs[i].mem)
  <2>1. PICK j \in 1..n : outs[j].first <= x /\ x <= outs[j].last
    BY <1>9
  <2>2. outs[j] \in Interval /\ x \in Int /\ WithinAllocation(rows, outs[j])
    BY <1>1, <1>4, <1>9, ArgFacts
  <2>. QED  BY <1>4, <2>1, <2>2, RowHolds
<1>12. /\ Shape(rs, assigned, firstLocal) /\ Cells(rs, active) /\ Ranged(rs)
       /\ Table(rows) /\ ToSet(rows) = FixedSpans(rs) /\ Covered(rows, firstLocal)
  BY <1>4 DEF Match, Shape, Ranged
<1>13. Shape(q, assigned \cup P, firstLocal) /\ Cells(q, active \cup P)
  <2>1. active \in SUBSET Int
    BY <1>2, LayoutFacts
  <2>. QED  BY <1>10, <1>11, <1>12, <2>1, WriteKeeps
<1>14. FixedSpans(q) = FixedSpans(rs)
  <2>1. Ranged(q)
    BY <1>13 DEF Shape, Ranged
  <2>. QED  BY <1>12, <2>1, WriteSpans
<1> HIDE DEF q
<1>15. allocations' = rows
  BY DEF rows, n
<1>16. Match(ranges, allocations)'
  BY <1>7, <1>8, <1>12, <1>13, <1>14, <1>15 DEF Match
<1>17. Layout'
  <2>1. Marks'
    BY <1>2, <1>7, <1>8, <1>9 DEF Layout, Marks
  <2>2. AssignOnce'
    BY <1>2, <1>7, <1>8 DEF Layout, AssignOnce, PendingWires
  <2>3. Memory(ranges', assigned', firstLocal', active', phase' = "body", pending')
    BY <1>2, <1>7, <1>8, <1>13 DEF Memory
  <2>. QED  BY <2>1, <2>2, <2>3, LayoutIs
<1>. QED  BY <1>2, <1>7, <1>8, <1>16, <1>17 DEF Agree

(* A parameter is mapped by both sides.                                     *)
LEMMA ParameterAgree ==
  ASSUME Agree, AvoidForeign, MaxArg < MaxWire, NEW n \in 1..MaxMapped,
         OutputParameter(n) \/ InputParameter(n)
  PROVE  Agree' /\ phase # "body" /\ accepted' = accepted
<1> DEFINE p == Parameter(n)
           S == FixedSpans(ranges)
<1>1. /\ Layout /\ pending = {} /\ err = "success" /\ assigns = assigned
      /\ actives = active /\ Table(allocations) /\ ToSet(allocations) = S
      /\ Covered(allocations, firstLocal)
  BY DEF Agree, Match
<1>2. /\ n \in Nat /\ n >= 1 /\ firstLocal \in Nat /\ firstLocal + n <= MaxMapped
      /\ MaxMapped \in Nat /\ MaxMapped <= MaxArg /\ MaxArg \in Nat
  BY <1>1, LayoutFacts, ProgramNumbers
     DEF OutputParameter, InputParameter, MapOutputs, MapInputs
<1>3. p \in Interval /\ p.first = firstLocal /\ p.last = firstLocal + n - 1
  <2>1. firstLocal \in Arg /\ firstLocal + n - 1 \in Arg /\ firstLocal <= firstLocal + n - 1
    BY <1>2 DEF Arg
  <2>. QED  BY <2>1 DEF Parameter, Interval
<1>4. MapOutputs(n) \/ MapInputs(n)
  BY DEF OutputParameter, InputParameter
<1>5. Layout'
  <2>1. Next
    BY <1>4 DEF Next
  <2>. QED  BY <1>1, <2>1, LayoutStep
<1>6. /\ phase # "body" /\ UNCHANGED <<pending, err>> /\ firstLocal' = firstLocal + n
      /\ allocations' = Append(allocations, p)
      /\ accepted' = accepted
  BY DEF OutputParameter, InputParameter, MapOutputs, MapInputs
<1>7. assigns' = assigned' /\ actives' = active'
  <2>1. CASE OutputParameter(n)
    BY <1>1, <2>1 DEF OutputParameter, MapOutputs
  <2>2. CASE InputParameter(n)
    BY <1>1, <2>2 DEF InputParameter, MapInputs, Mark, MarkChecked, WiresOf, Parameter
  <2>. QED  BY <2>1, <2>2
<1>8. \E mem : ranges' = MapRange(ranges, firstLocal, mem) /\ Len(mem) = n
  <2>1. CASE MapOutputs(n)
    <3>1. ranges' = MapRange(ranges, firstLocal, RawCells(n))
      BY <2>1 DEF MapOutputs, MapRange
    <3>2. Len(RawCells(n)) = n
      BY <1>2 DEF RawCells
    <3>. QED  BY <3>1, <3>2
  <2>2. CASE MapInputs(n)
    <3> DEFINE mem == [k \in 1..n |-> firstLocal + k - 1]
    <3>1. ranges' = MapRange(ranges, firstLocal, mem)
      BY <2>2 DEF MapInputs, MapRange
    <3>2. Len(mem) = n
      BY <1>2
    <3> HIDE DEF mem
    <3>. QED  BY <3>1, <3>2
  <2>. QED  BY <1>4, <2>1, <2>2
<1>9. Shape(ranges', assigned', firstLocal') /\ Cells(ranges', active') /\ Ranged(ranges')
      /\ Ranged(ranges)
  BY <1>1, <1>5 DEF Layout, Shape, Ranged
<1>10. FixedSpans(ranges') = S \cup {p}
  <2>1. PICK mem : ranges' = MapRange(ranges, firstLocal, mem) /\ Len(mem) = n
    BY <1>8
  <2>. QED  BY <1>2, <1>9, <2>1, MapSpans DEF Parameter
<1>11. \A a \in S : a.last < p.first
  <2>1. SUFFICES ASSUME NEW a \in S
                 PROVE  a.last < firstLocal
    BY <1>3
  <2>2. PICK i \in DOMAIN ranges : a = SpanOf(ranges[i])
    BY <1>9, FixedIs
  <2>3. ranges[i].offset + Len(ranges[i].mem) <= firstLocal
    BY <1>1, <1>6, LayoutFacts DEF Shape
  <2>4. ranges[i].offset \in Nat /\ Len(ranges[i].mem) \in Nat
    BY <1>9, RangeFacts DEF Ranged
  <2>. QED  BY <1>2, <2>2, <2>3, <2>4 DEF SpanOf
<1> HIDE DEF p, S
<1>12. Table(allocations') /\ ToSet(allocations') = S \cup {p}
  BY <1>1, <1>3, <1>6, <1>11, AppendRow
<1>13. Covered(allocations', firstLocal')
  <2>1. ASSUME NEW w \in 0..(firstLocal + n - 1)
        PROVE  \E a \in S \cup {p} : a.first <= w /\ w <= a.last
    <3>1. CASE w < firstLocal
      <4>1. w \in 0..(firstLocal - 1)
        BY <1>2, <3>1
      <4>. QED  BY <1>1, <4>1 DEF Covered
    <3>2. CASE ~(w < firstLocal)
      <4>1. p.first <= w /\ w <= p.last
        BY <1>2, <1>3, <3>2
      <4>. QED  BY <4>1
    <3>. QED  BY <3>1, <3>2
  <2>2. \A w \in 0..(firstLocal + n - 1) : \E a \in ToSet(allocations') : a.first <= w /\ w <= a.last
    BY <1>12, <2>1
  <2>3. Covered(allocations', firstLocal + n)
    BY <1>2, <2>2 DEF Covered
  <2>. QED  BY <1>6, <2>3
<1>. QED  BY <1>1, <1>5, <1>6, <1>7, <1>9, <1>10, <1>12, <1>13 DEF Agree, Match

(* A gate that typeCheck accepts is evaluated.                              *)
LEMMA GateAgree ==
  ASSUME Agree, AvoidForeign, MaxArg < MaxWire, phase = "body", NEW out \in Arg, NEW ins,
         ins \subseteq actives, out \notin assigns, MarkChecked({out}),
         EvaluateGate(out, ins), UNCHANGED allocations
  PROVE  Agree'
<1>1. /\ Layout /\ pending = {} /\ err = "success" /\ assigns = assigned
      /\ actives = active /\ Match(ranges, allocations)
  BY DEF Agree
<1>2. /\ Assign(out) /\ ranges' = AssignCell(ranges, active, out) /\ Mark({out})
      /\ UNCHANGED <<firstLocal, phase, pending, err>>
  BY <1>1 DEF EvaluateGate, Assign, Free
<1>3. Layout'
  <2>1. Next
    BY <1>2 DEF Next
  <2>. QED  BY <1>1, <2>1, LayoutStep
<1>4. assigns' = assigned' /\ actives' = active'
  BY <1>1, <1>2 DEF Mark, MarkChecked
<1>5. Shape(ranges', assigned', firstLocal') /\ Cells(ranges', active') /\ Ranged(ranges')
      /\ Ranged(ranges)
  BY <1>1, <1>3 DEF Layout, Shape, Ranged
<1>6. FixedSpans(ranges') = FixedSpans(ranges)
  <2>1. out \in 0..MaxWire
    BY ArgFacts
  <2>. QED  BY <1>2, <1>5, <2>1, AssignSpans
<1>. QED  BY <1>1, <1>2, <1>3, <1>4, <1>5, <1>6 DEF Agree, Match

(* A declaration that typeCheck accepts is evaluated.                       *)
LEMMA NewAgree ==
  ASSUME Agree, AvoidForeign, MaxArg < MaxWire, NEW p \in Interval, ChecksNew(p),
         allocations' = InsertSlot(allocations, p), UNCHANGED <<assigns, actives>>,
         NewRange(p.first, p.last)
  PROVE  Agree'
<1>1. /\ Layout /\ pending = {} /\ err = "success" /\ assigns = assigned
      /\ actives = active /\ Match(ranges, allocations)
  BY DEF Agree
<1>2. p.first \in Arg /\ p.last \in Arg
  BY IntervalFacts
<1>3. Layout'
  <2>1. Next
    BY <1>2 DEF Next
  <2>. QED  BY <1>1, <2>1, LayoutStep
<1>4. /\ ~NewRangeClashes(ranges, assigned, firstLocal, p.first, p.last)
      /\ Match(AddNewRange(ranges, active, p.first, p.last), InsertSlot(allocations, p))
  <2>1. ~CutsForeign(ranges, p.first, p.last)
    BY DEF NewRange
  <2>2. Slots(allocations, p) # {} /\ assigned \cap WiresOf(p) = {}
    BY <1>1 DEF ChecksNew
  <2>. QED  BY <1>1, <2>1, <2>2, DeclareMatch
<1>5. /\ ranges' = AddNewRange(ranges, active, p.first, p.last)
      /\ UNCHANGED <<assigned, active, firstLocal, phase, pending, err>>
  BY <1>4 DEF NewRange
<1>6. Match(ranges, allocations)'
  BY <1>4, <1>5 DEF Match
<1>. QED  BY <1>1, <1>3, <1>5, <1>6 DEF Agree

(* A deletion that typeCheck accepts: it names a whole declared range, or   *)
(* single wires, and the ranges it frees are those whose row is removed.    *)
LEMMA DeleteMatch ==
  ASSUME Layout, NEW rows, Match(ranges, rows), NEW p \in Interval,
         firstLocal <= p.first, WiresOf(p) \subseteq active,
         \A a \in ToSet(rows) : Holds(p, a) => a = p,
         \A a \in ToSet(rows) : Holds(p, a) \/ WiresOf(p) \cap WiresOf(a) = {}
  PROVE  /\ Unmatched(ranges, p.first, p.last) = {}
         /\ \A i \in DOMAIN ranges : ranges[i].kind # "grown" =>
              (Holds(p, SpanOf(ranges[i])) <=>
                 /\ i \in Visited(ranges, p.first, p.last)
                 /\ Freed(ranges, active, i, p.first, p.last))
<1> DEFINE f == p.first
           l == p.last
           m == FindRange(ranges, f)
<1>1. /\ f \in Nat /\ l \in Nat /\ f \in Int /\ l \in Int /\ f <= l
      /\ WiresOf(p) = f..l /\ f \in WiresOf(p) /\ f \in active
  BY IntervalFacts DEF WiresOf
<1>2. /\ Shape(ranges, assigned, firstLocal) /\ Cells(ranges, active) /\ Ranged(ranges)
      /\ ranges \in Seq(RangeType) /\ Table(rows) /\ ToSet(rows) = FixedSpans(ranges)
      /\ firstLocal \in Nat /\ active \in SUBSET Int
  BY LayoutFacts DEF Match, Shape, Ranged
<1>3. m \in DOMAIN ranges /\ IsRangeOf(ranges, f, m)
      /\ f - ranges[m].offset < Len(ranges[m].mem)
  <2>1. /\ m \in DOMAIN ranges /\ ranges[m].offset <= f
        /\ f - ranges[m].offset < Len(ranges[m].mem)
    BY <1>1, <1>2, LookupIs
  <2>2. IsRangeOf(ranges, f, m)
    BY <1>1, <1>2, <2>1, FindRangeIs
  <2>. QED  BY <2>1, <2>2
<1> HIDE DEF m
<1>4. \A i \in DOMAIN ranges : /\ ranges[i].offset \in Nat /\ Len(ranges[i].mem) \in Nat
                               /\ i \in Int
                               /\ End(ranges[i]) = ranges[i].offset + Len(ranges[i].mem) - 1
                               /\ ranges[i].kind \in {"new", "mapped", "grown"}
  BY <1>2, RangeFacts, EndIs DEF Ranged
(* The span of a fixed range.                                               *)
<1>5. ASSUME NEW i \in DOMAIN ranges, ranges[i].kind # "grown"
      PROVE  /\ SpanOf(ranges[i]) \in ToSet(rows)
             /\ SpanOf(ranges[i]).first = ranges[i].offset
             /\ SpanOf(ranges[i]).last = End(ranges[i])
             /\ ranges[i].offset <= End(ranges[i]) /\ End(ranges[i]) \in Int
             /\ Holds(p, SpanOf(ranges[i])) <=>
                  f <= ranges[i].offset /\ End(ranges[i]) <= l
  <2>1. SpanOf(ranges[i]) \in ToSet(rows)
    BY <1>2, <1>5, FixedIs
  <2>2. /\ SpanOf(ranges[i]).first = ranges[i].offset
        /\ SpanOf(ranges[i]).last = End(ranges[i])
    BY <1>4 DEF SpanOf
  <2>3. SpanOf(ranges[i]).first <= SpanOf(ranges[i]).last
    BY <1>2, <2>1, TableFacts, IntervalFacts
  <2>. QED  BY <1>4, <2>1, <2>2, <2>3 DEF Holds
(* A fixed range that the deletion reaches is the one it names.             *)
<1>6. ASSUME NEW i \in DOMAIN ranges, ranges[i].kind # "grown",
             i \in Touched(ranges, f, l)
      PROVE  /\ ranges[i].kind = "new" /\ ranges[i].offset = f /\ End(ranges[i]) = l
             /\ Holds(p, SpanOf(ranges[i]))
  <2>1. m <= i /\ ranges[i].offset <= l
    BY <1>6 DEF Touched, m
  <2>2. \E x \in Int : f <= x /\ x <= l /\ ranges[i].offset <= x /\ x <= End(ranges[i])
    <3>1. CASE i = m
      <4>1. ranges[i].offset <= f /\ f <= End(ranges[i])
        BY <1>1, <1>3, <1>4, <3>1 DEF IsRangeOf
      <4>. QED  BY <1>1, <4>1
    <3>2. CASE i # m
      <4>1. i > m
        BY <1>3, <1>4, <2>1, <3>2
      <4>2. ranges[i].offset > f
        BY <1>3, <4>1 DEF IsRangeOf
      <4>3. ranges[i].offset <= End(ranges[i]) /\ ranges[i].offset \in Int
        BY <1>4, <1>5, <1>6
      <4>. QED  BY <1>1, <2>1, <4>2, <4>3
    <3>. QED  BY <3>1, <3>2
  <2>3. PICK x \in Int : f <= x /\ x <= l /\ ranges[i].offset <= x /\ x <= End(ranges[i])
    BY <2>2
  <2> DEFINE a == SpanOf(ranges[i])
  <2>4. a \in ToSet(rows) /\ a.first = ranges[i].offset /\ a.last = End(ranges[i])
        /\ a.last \in Int
    BY <1>5, <1>6
  <2> HIDE DEF a
  <2>5. x \in WiresOf(p) /\ x \in WiresOf(a)
    <3>1. x \in f..l
      BY <1>1, <2>3
    <3>2. x \in (ranges[i].offset) .. (End(ranges[i]))
      BY <1>4, <2>3, <2>4
    <3>. QED  BY <1>1, <2>4, <3>1, <3>2 DEF WiresOf
  <2>6. Holds(p, a)
    BY <2>4, <2>5
  <2>7. a = p
    BY <2>4, <2>6
  <2>8. ranges[i].kind # "mapped"
    <3>1. ranges[i].kind = "mapped" => ranges[i].offset + Len(ranges[i].mem) <= firstLocal
      BY <1>2 DEF Shape
    <3>2. ranges[i].offset <= End(ranges[i]) /\ ranges[i].offset = f
      BY <1>5, <1>6, <2>4, <2>7
    <3>. QED  BY <1>1, <1>2, <1>4, <3>1, <3>2
  <2>. QED  BY <1>4, <1>6, <2>4, <2>6, <2>7, <2>8 DEF a
<1>7. Unmatched(ranges, f, l) = {}
  <2>1. ASSUME NEW i \in Unmatched(ranges, f, l)
        PROVE  FALSE
    <3>1. /\ i \in Touched(ranges, f, l) /\ i \in DOMAIN ranges /\ ranges[i].kind = "new"
          /\ ~(f = ranges[i].offset /\ l = End(ranges[i]))
      BY DEF Unmatched, Touched
    <3>. QED  BY <1>6, <3>1
  <2>. QED  BY <2>1
<1>8. \A i : i \in Visited(ranges, f, l) <=> i \in Touched(ranges, f, l)
  BY <1>7 DEF Visited
<1>9. ASSUME NEW i \in DOMAIN ranges, ranges[i].kind # "grown"
      PROVE  Holds(p, SpanOf(ranges[i])) <=>
               i \in Visited(ranges, f, l) /\ Freed(ranges, active, i, f, l)
  <2>1. ASSUME i \in Visited(ranges, f, l)
        PROVE  Holds(p, SpanOf(ranges[i]))
    BY <1>6, <1>8, <1>9, <2>1
  <2>2. ASSUME Holds(p, SpanOf(ranges[i]))
        PROVE  i \in Visited(ranges, f, l) /\ Freed(ranges, active, i, f, l)
    <3>1. SpanOf(ranges[i]) = p /\ ranges[i].offset = f
      BY <1>5, <1>9, <2>2
    <3>2. f < ranges[i].offset + Len(ranges[i].mem)
      <4>1. ranges[i].offset <= End(ranges[i])
        BY <1>5, <1>9
      <4>. QED  BY <1>1, <1>4, <3>1, <4>1
    <3>3. IsRangeOf(ranges, f, i)
      <4>1. ranges[i].offset <= f
        BY <1>1, <3>1
      <4>. QED  BY <1>1, <1>2, <1>9, <3>2, <4>1, FixedRangeOf
    <3>4. m = i
      BY <1>1, <1>2, <3>3, FindRangeIs DEF m
    <3>5. i \in Touched(ranges, f, l)
      BY <1>1, <1>4, <3>1, <3>4 DEF Touched, m
    <3>6. ranges[i].kind = "new"
      BY <1>6, <1>9, <3>5
    <3>. QED  BY <1>8, <3>5, <3>6 DEF Freed
  <2>. QED  BY <2>1, <2>2
<1>. QED  BY <1>7, <1>9

(* A deletion that typeCheck accepts is evaluated.                          *)
LEMMA DeleteAgree ==
  ASSUME Agree, AvoidForeign, MaxArg < MaxWire, NEW p \in Interval, firstLocal <= p.first,
         \A a \in ToSet(allocations) : Holds(p, a) => a = p,
         ChecksDelete(p), actives' = actives \ WiresOf(p), UNCHANGED assigns,
         allocations' = AfterDeletion(allocations, p), DeleteRange(p.first, p.last)
  PROVE  Agree'
<1> DEFINE f == p.first
           l == p.last
           q == DeleteCells(ranges, active, f, l)
           S == FixedSpans(ranges)
<1>1. /\ Layout /\ pending = {} /\ err = "success" /\ assigns = assigned
      /\ actives = active /\ Match(ranges, allocations)
      /\ Table(allocations) /\ ToSet(allocations) = S /\ Covered(allocations, firstLocal)
  BY DEF Agree, Match
<1>2. p.first \in Arg /\ p.last \in Arg
  BY IntervalFacts
<1>3. Layout'
  <2>1. Next
    BY <1>2 DEF Next
  <2>. QED  BY <1>1, <2>1, LayoutStep
<1>4. /\ WiresOf(p) = f..l /\ WiresOf(p) \subseteq active
      /\ \A a \in ToSet(allocations) : Holds(p, a) \/ WiresOf(p) \cap WiresOf(a) = {}
      /\ f \in Nat /\ firstLocal \in Nat
  BY <1>1, IntervalFacts, LayoutFacts DEF ChecksDelete, WiresOf
<1>5. /\ Unmatched(ranges, f, l) = {}
      /\ \A i \in DOMAIN ranges : ranges[i].kind # "grown" =>
           (Holds(p, SpanOf(ranges[i])) <=>
              i \in Visited(ranges, f, l) /\ Freed(ranges, active, i, f, l))
  BY <1>1, <1>4, DeleteMatch
<1>6. DeleteError(ranges, assigned, active, firstLocal, f, l) = "success"
  BY <1>4, <1>5 DEF DeleteError
<1>7. /\ ranges' = q /\ err' = "success"
      /\ UNCHANGED <<assigned, firstLocal, phase, pending>>
  BY <1>6 DEF DeleteRange
<1>8. active' = active \ WiresOf(p)
  BY <1>7, DeletionRemoves
<1>9. Shape(ranges', assigned', firstLocal') /\ Cells(ranges', active') /\ Ranged(ranges')
      /\ Ranged(ranges)
  BY <1>1, <1>3 DEF Layout, Shape, Ranged
<1>10. /\ Table(allocations') /\ ToSet(allocations') = {a \in S : ~Holds(p, a)}
  BY <1>1, DeleteRows
<1>11. ASSUME NEW c
       PROVE  c \in FixedSpans(ranges') <=> c \in S /\ ~Holds(p, c)
  <2>1. c \in FixedSpans(q) <=>
          \E i \in DOMAIN ranges :
            /\ ranges[i].kind # "grown" /\ c = SpanOf(ranges[i])
            /\ i \in Visited(ranges, f, l) => ~Freed(ranges, active, i, f, l)
    BY <1>7, <1>9, DeleteSpans
  <2>2. c \in S <=> \E i \in DOMAIN ranges : ranges[i].kind # "grown" /\ c = SpanOf(ranges[i])
    BY <1>9, FixedIs
  <2> HIDE DEF q, S
  <2>. QED  BY <1>5, <1>7, <2>1, <2>2
<1>12. ToSet(allocations') = FixedSpans(ranges')
  <2> HIDE DEF S
  <2>. QED  BY <1>10, <1>11
<1>13. Covered(allocations', firstLocal')
  <2>1. ASSUME NEW w \in 0..(firstLocal - 1)
        PROVE  \E a \in ToSet(allocations') : a.first <= w /\ w <= a.last
    <3>1. PICK a \in S : a.first <= w /\ w <= a.last
      BY <1>1 DEF Covered
    <3>2. a.first \in Nat /\ w \in Int /\ w < firstLocal
      <4>1. a.first \in Nat
        BY <1>1, TableFacts, IntervalFacts
      <4>. QED  BY <1>4, <4>1
    <3>3. ~(f <= a.first)
      BY <1>4, <3>1, <3>2
    <3>4. ~Holds(p, a)
      BY <3>3 DEF Holds
    <3>. QED  BY <1>10, <3>1, <3>4
  <2>2. Covered(allocations', firstLocal)
    BY <2>1 DEF Covered
  <2>. QED  BY <1>7, <2>2
<1>14. Match(ranges, allocations)'
  BY <1>9, <1>10, <1>12, <1>13 DEF Match
<1>. QED  BY <1>1, <1>3, <1>7, <1>8, <1>14 DEF Agree

(* An interval of stream inputs is a directive with one output.             *)
LEMMA SingleOutput ==
  ASSUME NEW p \in Interval
  PROVE  /\ <<p>> \in Seq(Interval) /\ Len(<<p>>) = 1
         /\ OutputWires(<<p>>) = WiresOf(p)
         /\ Tables(<<p>>)[Len(<<p>>)] = AfterOutput(allocations, p)
         /\ ChecksOutput(allocations, assigns, p) => ChecksOutputs(<<p>>)
<1> DEFINE s == <<p>>
<1>1. s \in Seq(Interval) /\ Len(s) = 1 /\ s[1] = p /\ DOMAIN s = 1..1
  OBVIOUS
<1>2. OutputWires(s) = WiresOf(p)
  BY OneOutput
<1> HIDE DEF s
<1>3. 1..1 = {1} /\ 1..0 = {} /\ 1 - 1 = 0 /\ 1 \in Nat
  OBVIOUS
<1>4. Tables(s)[0] = allocations /\ Tables(s)[1] = AfterOutput(Tables(s)[0], s[1])
  <2>1. Len(s) \in Nat /\ 1 \in 1..Len(s) /\ 1 - 1 = 0
    BY <1>1
  <2>2. /\ Tables(s)[0] = allocations
        /\ \A k \in 1..Len(s) : Tables(s)[k] = AfterOutput(Tables(s)[k - 1], s[k])
    BY <2>1, TablesIs
  <2>. QED  BY <2>1, <2>2
<1>5. WiresUpTo(s, 0) = {}
  BY <1>3 DEF WiresUpTo
<1>6. ASSUME ChecksOutput(allocations, assigns, p)
      PROVE  ChecksOutputs(s)
  <2>1. ASSUME NEW k \in DOMAIN s
        PROVE  ChecksOutput(Tables(s)[k - 1], assigns \cup WiresUpTo(s, k - 1), s[k])
    <3>1. k = 1 /\ k - 1 = 0 /\ assigns \cup {} = assigns
      BY <1>1, <1>3
    <3>. QED  BY <1>1, <1>4, <1>5, <1>6, <3>1
  <2>. QED  BY <2>1 DEF ChecksOutputs
<1>7. Tables(s)[Len(s)] = AfterOutput(allocations, p)
  BY <1>1, <1>4
<1>. QED  BY <1>1, <1>2, <1>6, <1>7 DEF s

(* The invariant: while nothing was refused, the check and the evaluation   *)
(* agree; after a refusal nothing changes any more.                         *)
Checked ==
  /\ CheckTypeOK
  /\ accepted => Agree
  /\ ~accepted => phase = "body"

LEMMA AgreeTypes ==
  ASSUME Agree, accepted \in BOOLEAN
  PROVE  CheckTypeOK
BY DEF Agree, Layout, Marks, Match, Table, CheckTypeOK

(* A directive without inputs has none to look up.                          *)
LEMMA NoInputs ==
  << >> \in Seq(Interval) /\ \A k \in DOMAIN << >> : ChecksInput(<< >>[k])
<1>1. << >> \in Seq(Interval) /\ Len(<< >>) = 0
  OBVIOUS
<1>2. DOMAIN << >> = 1..Len(<< >>)
  BY <1>1
<1> DEFINE n == Len(<< >>)
<1>3. 1..n = {}
  BY <1>1
<1>. QED  BY <1>1, <1>2, <1>3

(* A step of a body with nothing that typeCheck is known to take and the    *)
(* scope to refuse, or to answer wrongly: no deletion of parameters or of   *)
(* several ranges, no interval of stream inputs of another type, no         *)
(* conversion within a type.                                                *)
LEMMA CheckedStep ==
  ASSUME Checked, [CheckNext]_allVars,
         Lenient = {}, AvoidForeign, MaxArg < MaxWire
  PROVE  Checked'
<1>1. CASE UNCHANGED allVars
  BY <1>1 DEF allVars, vars, checkVars, Checked, CheckTypeOK, Agree, Layout, Marks,
              AssignOnce, PendingWires, PendingHeld, Match
<1>2. SUFFICES ASSUME CheckNext
               PROVE  Checked'
  BY <1>1
<1>3. accepted \in BOOLEAN
  BY DEF Checked, CheckTypeOK
<1>4. ASSUME accepted, Reject, phase = "body"
      PROVE  Checked'
  <2>1. CheckTypeOK' /\ phase' = "body" /\ accepted' = FALSE
    BY <1>4 DEF Reject, Checked, CheckTypeOK, vars
  <2>. QED  BY <2>1 DEF Checked
<1>5. ASSUME Agree', accepted' = accepted, accepted
      PROVE  Checked'
  <2>1. accepted' \in BOOLEAN
    BY <1>3, <1>5
  <2>2. CheckTypeOK'
    <3>1. Agree' /\ accepted' \in BOOLEAN => CheckTypeOK'
      BY DEF Agree, Layout, Marks, Match, Table, CheckTypeOK
    <3>. QED  BY <1>5, <2>1, <3>1
  <2>. QED  BY <1>5, <2>2 DEF Checked
<1>6. ASSUME NEW n \in 1..MaxMapped, OutputParameter(n) \/ InputParameter(n)
      PROVE  Checked'
  <2>1. phase # "body"
    BY <1>6 DEF OutputParameter, InputParameter, MapOutputs, MapInputs
  <2>2. accepted /\ Agree
    BY <2>1 DEF Checked
  <2>3. Agree' /\ accepted' = accepted
    BY <1>6, <2>2, ParameterAgree
  <2>. QED  BY <1>5, <2>2, <2>3
<1>7. CASE StartBody
  <2>1. phase # "body" /\ phase' = "body"
        /\ UNCHANGED <<ranges, assigned, active, firstLocal, pending, err>>
        /\ UNCHANGED <<assigns, actives, allocations, accepted>>
    BY <1>7 DEF StartBody, BeginBody, checkVars
  <2>2. accepted /\ Agree
    BY <2>1 DEF Checked
  <2>3. Layout'
    <3>1. Next
      BY <1>7 DEF StartBody, Next
    <3>. QED  BY <2>2, <3>1, LayoutStep DEF Agree
  <2>4. Agree'
    BY <2>1, <2>2, <2>3 DEF Agree, Match
  <2>. QED  BY <1>5, <2>1, <2>2, <2>4
<1>8. ASSUME NEW out \in Arg, NEW ins, Gate(out, ins)
      PROVE  Checked'
  <2>1. accepted /\ Agree /\ phase = "body"
    BY <1>8 DEF Gate, InBody, Ready, Checked
  <2>2. CASE Reject
    BY <1>4, <2>1, <2>2
  <2>3. CASE ~Reject
    <3>1. /\ ins \subseteq actives /\ out \notin assigns /\ MarkChecked({out})
          /\ UNCHANGED <<allocations, accepted>> /\ EvaluateGate(out, ins)
      BY <1>8, <2>3 DEF Gate
    <3>2. Agree'
      BY <2>1, <3>1, GateAgree
    <3>. QED  BY <1>5, <2>1, <3>1, <3>2
  <2>. QED  BY <2>2, <2>3
<1>9. ASSUME NEW p \in Interval, New(p)
      PROVE  Checked'
  <2>1. accepted /\ Agree /\ phase = "body"
    BY <1>9 DEF New, InBody, Ready, Checked
  <2>2. CASE Reject
    BY <1>4, <2>1, <2>2
  <2>3. CASE ~Reject
    <3>1. /\ ChecksNew(p) /\ allocations' = InsertSlot(allocations, p)
          /\ UNCHANGED <<assigns, actives, accepted>> /\ NewRange(p.first, p.last)
      BY <1>9, <2>3 DEF New
    <3>2. Agree'
      BY <2>1, <3>1, NewAgree
    <3>. QED  BY <1>5, <2>1, <3>1, <3>2
  <2>. QED  BY <2>2, <2>3
<1>10. ASSUME NEW p \in Interval, Delete(p)
       PROVE  Checked'
  <2>1. accepted /\ Agree /\ phase = "body"
    BY <1>10 DEF Delete, InBody, Ready, Checked
  <2>2. CASE Reject
    BY <1>4, <2>1, <2>2
  <2>3. CASE ~Reject
    <3>1. /\ ChecksDelete(p) /\ actives' = actives \ WiresOf(p)
          /\ allocations' = AfterDeletion(allocations, p)
          /\ UNCHANGED <<assigns, accepted>> /\ DeleteRange(p.first, p.last)
      BY <1>10, <2>3 DEF Delete
    <3>2. /\ p.first >= firstLocal
          /\ \A a \in ToSet(allocations) : Holds(p, a) => a = p
      BY <1>10 DEF Delete
    <3>3. firstLocal <= p.first
      <4>1. firstLocal \in Nat /\ p.first \in Nat
        BY <2>1, LayoutFacts, IntervalFacts DEF Agree
      <4>. QED  BY <4>1, <3>2
    <3>4. Agree'
      BY <2>1, <3>1, <3>2, DeleteAgree
    <3>. QED  BY <1>5, <2>1, <3>1, <3>4
  <2>. QED  BY <2>2, <2>3
<1>11. ASSUME NEW outs \in OutputLists, NEW ins \in InputLists, Call(outs, ins)
       PROVE  Checked'
  <2>1. accepted /\ Agree /\ phase = "body"
    BY <1>11 DEF Call, InBody, Ready, Checked
  <2>2. CASE Reject
    BY <1>4, <2>1, <2>2
  <2>3. CASE ~Reject
    <3>1. /\ \A k \in DOMAIN ins : ChecksInput(ins[k])
          /\ ChecksOutputs(outs) /\ CutsOwn(outs)
          /\ MarkChecked(OutputWires(outs)) /\ allocations' = Tables(outs)[Len(outs)]
          /\ UNCHANGED accepted /\ EvaluateIntervals(outs, ins, OwnCells(outs))
      BY <1>11, <2>3 DEF Call
    <3>2. outs \in Seq(Interval) /\ ins \in Seq(Interval)
      BY ListsAre
    <3>3. Agree'
      BY <2>1, <3>1, <3>2, IntervalsAgree
    <3>. QED  BY <1>5, <2>1, <3>1, <3>3
  <2>. QED  BY <2>2, <2>3
<1>12. ASSUME NEW out \in Interval, NEW type \in {"its own", "elsewhere"},
              MultiInput(out, type)
       PROVE  Checked'
  <2>1. accepted /\ Agree /\ phase = "body"
    BY <1>12 DEF MultiInput, InBody, Ready, Checked
  <2>2. CASE Reject
    BY <1>4, <2>1, <2>2
  <2>3. CASE ~Reject
    <3>1. type = "its own"
      BY <1>12 DEF MultiInput
    <3>2. /\ ChecksOutput(allocations, assigns, out) /\ CutsOwn(<<out>>)
          /\ MarkChecked(WiresOf(out)) /\ allocations' = AfterOutput(allocations, out)
          /\ UNCHANGED accepted
          /\ EvaluateIntervals(<<out>>, <<>>, OwnCells(<<out>>))
      BY <1>12, <2>3, <3>1 DEF MultiInput
    <3> DEFINE outs == <<out>>
               ins == << >>
    <3>3. /\ ChecksOutputs(outs) /\ outs \in Seq(Interval)
          /\ MarkChecked(OutputWires(outs)) /\ allocations' = Tables(outs)[Len(outs)]
      BY <3>2, SingleOutput
    <3>4. ins \in Seq(Interval) /\ \A k \in DOMAIN ins : ChecksInput(ins[k])
      BY NoInputs
    <3>5. CutsOwn(outs) /\ EvaluateIntervals(outs, ins, OwnCells(outs))
      BY <3>2
    <3> HIDE DEF outs, ins
    <3>6. Agree'
      BY <2>1, <3>3, <3>4, <3>5, IntervalsAgree
    <3>. QED  BY <1>5, <2>1, <3>2, <3>6
  <2>. QED  BY <2>2, <2>3
<1>13. ASSUME NEW out \in Interval, NEW in \in Interval, Convert(out, in)
       PROVE  FALSE
  BY <1>13 DEF Convert
<1>. QED
  BY <1>2, <1>6, <1>7, <1>8, <1>9, <1>10, <1>11, <1>12, <1>13 DEF CheckNext

LEMMA CheckedInit ==
  CheckInit => Checked
<1>1. SUFFICES ASSUME CheckInit
               PROVE  Checked
  OBVIOUS
<1>2. /\ Layout /\ pending = {} /\ err = "success" /\ assigns = assigned
      /\ actives = active /\ accepted = TRUE /\ firstLocal = 0
      /\ ranges = << >> /\ allocations = << >>
  <2>1. Layout
    BY <1>1, LayoutInit DEF CheckInit
  <2>. QED  BY <1>1, <2>1 DEF CheckInit, Init
<1>3. Table(allocations) /\ ToSet(allocations) = {} /\ FixedSpans(ranges) = {}
  BY <1>2 DEF Table, ToSet, FixedSpans
<1>4. Covered(allocations, firstLocal)
  <2>1. 0..(0 - 1) = {}
    OBVIOUS
  <2>. QED  BY <1>2, <2>1 DEF Covered
<1>5. Shape(ranges, assigned, firstLocal) /\ Cells(ranges, active)
  BY <1>2 DEF Layout
<1>6. Agree
  BY <1>2, <1>3, <1>4, <1>5 DEF Agree, Match
<1>. QED  BY <1>2, <1>6, AgreeTypes DEF Checked

(* No directive of a body that typeCheck accepts is refused when the body   *)
(* is evaluated: every wire is free where it is assigned and active where   *)
(* it is used, and every interval lies in one piece of memory               *)
(* (Functions.t.h:322-940), for any number of wires, parameters, outputs    *)
(* and ranges. That the outputs of the function are assigned at its end is  *)
(* not claimed: typeCheck does not ask for it (Functions.t.h:929).          *)
THEOREM AcceptedIsEvaluated ==
  ASSUME Lenient = {}, AvoidForeign, MaxArg < MaxWire
  PROVE  CheckSpec => []AcceptedEvaluates
<1>1. Checked /\ [CheckNext]_allVars => Checked'
  BY CheckedStep
<1>2. Checked => AcceptedEvaluates
  BY DEF Checked, Agree, AcceptedEvaluates
<1>. QED  BY <1>1, <1>2, CheckedInit, PTL DEF CheckSpec

(* typeCheck's allocations are the declared, output and mapped ranges of    *)
(* the scope of every call, in order (Functions.t.h:330-331).               *)
THEOREM AllocationsAreTheRanges ==
  ASSUME Lenient = {}, AvoidForeign, MaxArg < MaxWire
  PROVE  CheckSpec => []AllocationsAreRanges
<1>1. Checked /\ [CheckNext]_allVars => Checked'
  BY CheckedStep
<1>2. Checked => AllocationsAreRanges
  BY DEF Checked, Agree, Match, Table, AllocationsAreRanges
<1>. QED  BY <1>1, <1>2, CheckedInit, PTL DEF CheckSpec
=============================================================================
