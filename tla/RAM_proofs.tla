------------------------------ MODULE RAM_proofs ------------------------------
(***************************************************************************)
(* Proofs about RAM.                                                       *)
(***************************************************************************)
EXTENDS RAM, FiniteSetTheorems, SequenceTheorems, WellFoundedInduction, TLAPS

-----------------------------------------------------------------------------
(* Induction over data: a set of numbers that is not empty has a least      *)
(* member, among others the numbers for which a claim fails.                *)

(* A nonempty set of natural numbers has a least member.                    *)
LEMMA LeastNat ==
  ASSUME NEW T, T \subseteq Nat, T # {}
  PROVE  \E x \in T : \A y \in T : x <= y
<1> DEFINE R == OpToRel(<, Nat)
<1>1. \E x \in T : \A y \in T : ~(<<y, x>> \in R)
  BY NatLessThanWellFounded, WFMin
<1>2. \A x, y \in Nat : <<y, x>> \in R <=> y < x
  BY DEF OpToRel
<1> HIDE DEF R
<1>3. PICK x \in T : \A y \in T : ~(<<y, x>> \in R)
  BY <1>1, Zenon
<1>4. ASSUME NEW y \in T
      PROVE  x <= y
  <2>1. x \in Nat /\ y \in Nat
    OBVIOUS
  <2>2. ~(y < x)
    BY <1>2, <1>3, <2>1
  <2>. QED  BY <2>1, <2>2
<1>. QED  BY <1>4

(* f holds the states that N rounds of a loop go through, which a function  *)
(* exists for: what a recursive definition over positions defines.          *)
IteratesAt(f, N, start, step) ==
  \A n \in 0..N : f[n] = IF n = 0 THEN start ELSE step[n][f[n - 1]]

LEMMA IterationAtExists ==
  ASSUME NEW S, NEW start \in S, NEW N \in Nat, NEW step \in [1..N -> [S -> S]]
  PROVE  \E f \in [0..N -> S] : IteratesAt(f, N, start, step)
<1> DEFINE Good(f, n) ==
      /\ f \in [0..n -> S]
      /\ f[0] = start
      /\ \A k \in 1..n : f[k] = step[k][f[k - 1]]
    Failed == {n \in 0..N : ~ \E f : Good(f, n)}
<1>1. Failed = {}
  <2>1. SUFFICES ASSUME Failed # {}
                 PROVE  FALSE
    OBVIOUS
  <2>2. PICK n \in Failed : \A m \in Failed : n <= m
    BY <2>1, LeastNat, Failed \subseteq Nat, Zenon
  <2>3. CASE n = 0
    <3>1. Good([k \in 0..0 |-> start], 0)
      OBVIOUS
    <3>. QED  BY <2>3, <3>1, <2>2
  <2>4. CASE n # 0
    <3>1. n \in Nat /\ n - 1 \in Nat /\ ~(n <= n - 1) /\ n \in 1..N /\ n - 1 \in 0..N
      BY <2>4
    <3>2. PICK f : Good(f, n - 1)
      BY <3>1, <2>2
    <3> DEFINE g == [k \in 0..n |-> IF k < n THEN f[k] ELSE step[n][f[n - 1]]]
    <3>3. \A k \in 0..(n - 1) : f[k] \in S /\ k \in 0..n /\ k < n
      BY <3>1, <3>2
    <3>4. g \in [0..n -> S]
      <4>1. step[n][f[n - 1]] \in S
        BY <3>3, <3>1, n - 1 \in 0..(n - 1)
      <4>2. ASSUME NEW k \in 0..n
            PROVE  (IF k < n THEN f[k] ELSE step[n][f[n - 1]]) \in S
        BY <4>1, <3>3, <3>1
      <4>. QED  BY <4>2
    <3>5. g[0] = start
      BY <3>1, <3>2
    <3>6. ASSUME NEW k \in 1..n
          PROVE  g[k] = step[k][g[k - 1]]
      <4>1. k - 1 \in 0..n /\ k - 1 < n /\ k \in 0..n
        BY <3>1
      <4>2. g[k - 1] = f[k - 1]
        BY <4>1
      <4>3. CASE k < n
        BY <4>1, <4>2, <4>3, <3>2, k \in 1..(n - 1), <3>1
      <4>4. CASE ~(k < n)
        BY <4>1, <4>2, <4>4, k = n, <3>1
      <4>. QED  BY <4>3, <4>4
    <3>7. Good(g, n)
      BY <3>4, <3>5, <3>6
    <3>. QED  BY <3>7, <2>2
  <2>. QED  BY <2>3, <2>4
<1>2. PICK f : Good(f, N)
  BY <1>1, N \in 0..N
<1>3. ASSUME NEW n \in 0..N
      PROVE  f[n] = IF n = 0 THEN start ELSE step[n][f[n - 1]]
  BY <1>2, n # 0 => n \in 1..N
<1>. QED  BY <1>2, <1>3 DEF IteratesAt

(* The same with one step for every round.                                  *)
Iterates(f, N, start, step) ==
  \A n \in 0..N : f[n] = IF n = 0 THEN start ELSE step[f[n - 1]]

LEMMA IterationExists ==
  ASSUME NEW S, NEW start \in S, NEW step \in [S -> S], NEW N \in Nat
  PROVE  \E f \in [0..N -> S] : Iterates(f, N, start, step)
<1> DEFINE steps == [n \in 1..N |-> step]
<1>1. steps \in [1..N -> [S -> S]] /\ \A n \in 1..N : steps[n] = step
  OBVIOUS
<1> HIDE DEF steps
<1>2. PICK f \in [0..N -> S] : IteratesAt(f, N, start, steps)
  BY <1>1, IterationAtExists
<1>3. ASSUME NEW n \in 0..N
      PROVE  f[n] = IF n = 0 THEN start ELSE step[f[n - 1]]
  BY <1>1, <1>2, n # 0 => n \in 1..N DEF IteratesAt
<1>. QED  BY <1>2, <1>3 DEF Iterates
-----------------------------------------------------------------------------
(* What recursive definitions over 0..N define.                             *)
LEMMA UpTo ==
  ASSUME NEW N \in Nat, NEW T, 0 \in T, \A n \in 1..N : n - 1 \in T => n \in T
  PROVE  \A n \in 0..N : n \in T
<1> DEFINE Failed == {n \in 0..N : n \notin T}
<1>1. SUFFICES ASSUME Failed # {}
               PROVE  FALSE
  OBVIOUS
<1>2. PICK n \in Failed : \A m \in Failed : n <= m
  BY <1>1, LeastNat, Failed \subseteq Nat, Zenon
<1>3. n # 0 /\ n - 1 \in 0..N /\ ~(n <= n - 1) /\ n \in 1..N
  OBVIOUS
<1>4. n - 1 \in T
  BY <1>2, <1>3
<1>. QED  BY <1>3, <1>4

LEMMA StaysIn ==
  ASSUME NEW N \in Nat, NEW S, NEW g, g[0] \in S,
         \A n \in 1..N : g[n - 1] \in S => g[n] \in S
  PROVE  \A n \in 0..N : g[n] \in S
<1> DEFINE T == {n \in 0..N : g[n] \in S}
<1>1. 0 \in T /\ \A n \in 1..N : n - 1 \in T => n \in T
  OBVIOUS
<1> HIDE DEF T
<1>2. \A n \in 0..N : n \in T
  BY <1>1, UpTo
<1>. QED  BY <1>2 DEF T

(* The powers of two.                                                       *)
PowerDef(f, n) == f = [k \in 0..n |-> IF k = 0 THEN 1 ELSE 2 * f[k - 1]]

LEMMA PowerExists ==
  ASSUME NEW n \in Nat
  PROVE  \E f : PowerDef(f, n)
<1> DEFINE step == [s \in Nat |-> 2 * s]
<1>1. step \in [Nat -> Nat] /\ \A s \in Nat : step[s] = 2 * s
  OBVIOUS
<1> HIDE DEF step
<1>2. PICK f \in [0..n -> Nat] : Iterates(f, n, 1, step)
  BY <1>1, IterationExists, Zenon, 1 \in Nat
<1>3. ASSUME NEW k \in 0..n
      PROVE  f[k] = IF k = 0 THEN 1 ELSE 2 * f[k - 1]
  <2>1. k # 0 => f[k] = step[f[k - 1]] /\ f[k - 1] \in Nat
    BY <1>2 DEF Iterates
  <2>. QED  BY <1>1, <1>2, <2>1 DEF Iterates
<1>. QED  BY <1>2, <1>3 DEF PowerDef

LEMMA PowersAre ==
  ASSUME NEW n \in Nat, NEW f, PowerDef(f, n)
  PROVE  /\ \A k \in 0..n : f[k] \in Nat \ {0}
         /\ f[0] = 1 /\ \A k \in 1..n : f[k] = 2 * f[k - 1]
<1>1. \A k \in 0..n : f[k] = IF k = 0 THEN 1 ELSE 2 * f[k - 1]
  BY DEF PowerDef
<1>2. f[0] = 1 /\ \A k \in 1..n : f[k] = 2 * f[k - 1]
  BY <1>1
<1>3. f[0] \in Nat \ {0}
  BY <1>2
<1>4. \A k \in 1..n : f[k - 1] \in Nat \ {0} => f[k] \in Nat \ {0}
  BY <1>2
<1>5. \A k \in 0..n : f[k] \in Nat \ {0}
  BY <1>3, <1>4, StaysIn
<1>. QED  BY <1>2, <1>5

LEMMA Pow2Is ==
  ASSUME NEW n \in Nat
  PROVE  \E f : PowerDef(f, n) /\ Pow2(n) = f[n]
<1> DEFINE f == CHOOSE f : PowerDef(f, n)
<1>1. PowerDef(f, n)
  BY PowerExists, Zenon
<1>2. f[n] = Pow2(n)
  BY DEF PowerDef, Pow2
<1>. QED  BY <1>1, <1>2, Zenon

LEMMA Pow2Facts ==
  ASSUME NEW n \in Nat
  PROVE  /\ Pow2(n) \in Nat \ {0}
         /\ Pow2(0) = 1
         /\ Pow2(n + 1) = 2 * Pow2(n)
<1>1. PICK f : PowerDef(f, n) /\ Pow2(n) = f[n]
  BY Pow2Is
<1>2. PICK g : PowerDef(g, n + 1) /\ Pow2(n + 1) = g[n + 1]
  BY Pow2Is, n + 1 \in Nat
<1>3. PICK z : PowerDef(z, 0) /\ Pow2(0) = z[0]
  BY Pow2Is
<1>4. /\ f[n] \in Nat \ {0} /\ f[0] = 1 /\ \A k \in 1..n : f[k] = 2 * f[k - 1]
  BY <1>1, PowersAre
<1>5. g[0] = 1 /\ \A k \in 1..(n + 1) : g[k] = 2 * g[k - 1]
  BY <1>2, PowersAre, n + 1 \in Nat
<1>6. z[0] = 1
  BY <1>3, PowersAre
<1> DEFINE T == {k \in 0..n : g[k] = f[k]}
<1>7. \A k \in 0..n : k \in T
  <2>1. 0 \in T
    BY <1>4, <1>5
  <2>2. \A k \in 1..n : k - 1 \in T => k \in T
    BY <1>4, <1>5
  <2> HIDE DEF T
  <2>. QED  BY <2>1, <2>2, UpTo
<1>8. g[n] = f[n]
  BY <1>7
<1>9. g[n + 1] = 2 * g[n]
  BY <1>5, n + 1 \in 1..(n + 1), (n + 1) - 1 = n
<1>. QED  BY <1>1, <1>2, <1>3, <1>4, <1>6, <1>8, <1>9
-----------------------------------------------------------------------------
(* The number that the first bits of an index give.                         *)
NumbersDef(f, idx) ==
  f = [n \in 0..Len(idx) |-> IF n = 0 THEN 0 ELSE 2 * f[n - 1] + idx[n]]

AreNumbers(f, idx) ==
  /\ \A n \in 0..Len(idx) : f[n] \in Nat
  /\ f[0] = 0 /\ \A n \in 1..Len(idx) : f[n] = 2 * f[n - 1] + idx[n]

LEMMA NumbersExist ==
  ASSUME NEW idx \in Seq(Nat)
  PROVE  \E f : NumbersDef(f, idx)
<1> DEFINE N == Len(idx)
           step == [n \in 1..N |-> [s \in Nat |-> 2 * s + idx[n]]]
<1>1. N \in Nat /\ \A n \in 1..N : idx[n] \in Nat
  OBVIOUS
<1>2. step \in [1..N -> [Nat -> Nat]] /\ \A n \in 1..N, s \in Nat : step[n][s] = 2 * s + idx[n]
  BY <1>1
<1> HIDE DEF step, N
<1>3. PICK f \in [0..N -> Nat] : IteratesAt(f, N, 0, step)
  BY <1>1, <1>2, IterationAtExists, Zenon, 0 \in Nat
<1>4. ASSUME NEW n \in 0..N
      PROVE  f[n] = IF n = 0 THEN 0 ELSE 2 * f[n - 1] + idx[n]
  <2>1. CASE n = 0
    BY <1>3, <2>1 DEF IteratesAt
  <2>2. CASE n # 0
    <3>1. n \in 1..N /\ f[n - 1] \in Nat
      BY <1>1, <1>3, <2>2
    <3>. QED  BY <1>2, <1>3, <2>2, <3>1 DEF IteratesAt
  <2>. QED  BY <2>1, <2>2
<1>5. f = [n \in 0..N |-> IF n = 0 THEN 0 ELSE 2 * f[n - 1] + idx[n]]
  BY <1>3, <1>4
<1>. QED  BY <1>5 DEF NumbersDef, N

LEMMA NumbersAre ==
  ASSUME NEW idx \in Seq(Nat)
  PROVE  AreNumbers(Numbers(idx), idx)
<1> DEFINE f == CHOOSE f : NumbersDef(f, idx)
           N == Len(idx)
<1>1. NumbersDef(f, idx)
  BY NumbersExist, Zenon
<1>2. f = Numbers(idx)
  BY DEF NumbersDef, Numbers
<1> HIDE DEF f
<1>3. N \in Nat /\ \A n \in 1..N : idx[n] \in Nat
  OBVIOUS
<1>4. \A n \in 0..N : f[n] = IF n = 0 THEN 0 ELSE 2 * f[n - 1] + idx[n]
  BY <1>1 DEF NumbersDef
<1> HIDE DEF N
<1>5. f[0] = 0 /\ \A n \in 1..N : f[n] = 2 * f[n - 1] + idx[n]
  BY <1>3, <1>4
<1>6. f[0] \in Nat /\ \A n \in 1..N : f[n - 1] \in Nat => f[n] \in Nat
  <2>1. SUFFICES ASSUME NEW n \in 1..N, f[n - 1] \in Nat
                 PROVE  f[n] \in Nat
    BY <1>5
  <2>2. PICK x \in Nat, y \in Nat : x = f[n - 1] /\ y = idx[n]
    BY <1>3, <2>1
  <2>3. f[n] = 2 * x + y
    BY <1>5, <2>2
  <2>. QED  BY <2>3
<1>7. \A n \in 0..N : f[n] \in Nat
  BY <1>3, <1>6, StaysIn
<1>. QED  BY <1>2, <1>5, <1>7 DEF AreNumbers, N

LEMMA IndexIs ==
  ASSUME NEW idx \in Seq(Nat)
  PROVE  /\ Index(idx) \in Nat
         /\ Len(idx) = 1 => Index(idx) = idx[1]
<1>1. AreNumbers(Numbers(idx), idx) /\ Len(idx) \in Nat
  BY NumbersAre
<1>2. Index(idx) \in Nat
  BY <1>1 DEF AreNumbers, Index
<1>3. ASSUME Len(idx) = 1
      PROVE  Index(idx) = idx[1]
  <2>1. Numbers(idx)[1] = 2 * Numbers(idx)[1 - 1] + idx[1] /\ Numbers(idx)[0] = 0
    BY <1>1, <1>3 DEF AreNumbers
  <2>2. \A n \in 1..Len(idx) : idx[n] \in Nat
    OBVIOUS
  <2>3. idx[1] \in Nat
    BY <1>3, <2>2
  <2>. QED  BY <1>3, <2>1, <2>3 DEF Index
<1>. QED  BY <1>2, <1>3

-----------------------------------------------------------------------------
(* What the gates add to a first value.                                     *)
Value == 0..(p - 1)

AddedDef(f, first, wires) ==
  f = [n \in 0..Len(wires) |-> IF n = 0 THEN first ELSE addGate(p, f[n - 1], wires[n])]

AreSums(f, first, wires) ==
  /\ \A n \in 0..Len(wires) : f[n] \in Value
  /\ f[0] = first /\ \A n \in 1..Len(wires) : f[n] = (f[n - 1] + wires[n]) % p

LEMMA Modulo ==
  ASSUME NEW n \in Nat \ {0}, NEW a \in Int
  PROVE  /\ a % n \in 0..(n - 1) /\ a % n \in Nat
         /\ a \in 0..(n - 1) => a % n = a
OBVIOUS

LEMMA SumIs ==
  ASSUME p \in Nat \ {0}, NEW x \in Value, NEW y \in Value
  PROVE  (x + y) % p \in Value /\ (y = 0 => (x + y) % p = x)
<1>1. PICK n \in Nat \ {0} : n = p
  OBVIOUS
<1>2. PICK a \in Int : a = x + y
  BY <1>1 DEF Value
<1>3. a % n \in 0..(n - 1) /\ (a \in 0..(n - 1) => a % n = a)
  BY Modulo
<1>4. y = 0 => a = x /\ a \in 0..(n - 1)
  BY <1>1, <1>2 DEF Value
<1>. QED  BY <1>1, <1>2, <1>3, <1>4 DEF Value

LEMMA AddedExists ==
  ASSUME p \in Nat \ {0}, NEW first \in Value, NEW wires \in Seq(Value)
  PROVE  \E f : AddedDef(f, first, wires)
<1> DEFINE N == Len(wires)
           step == [n \in 1..N |-> [s \in Value |-> (s + wires[n]) % p]]
<1>1. N \in Nat /\ \A n \in 1..N : wires[n] \in Value
  OBVIOUS
<1>2. \A n \in 1..N, s \in Value : (s + wires[n]) % p \in Value
  BY <1>1, SumIs
<1>3. step \in [1..N -> [Value -> Value]] /\ \A n \in 1..N, s \in Value : step[n][s] = (s + wires[n]) % p
  BY <1>2
<1> HIDE DEF step, N
<1>4. PICK f \in [0..N -> Value] : IteratesAt(f, N, first, step)
  BY <1>1, <1>3, IterationAtExists, Zenon
<1>5. ASSUME NEW n \in 0..N
      PROVE  f[n] = IF n = 0 THEN first ELSE addGate(p, f[n - 1], wires[n])
  <2>1. CASE n = 0
    BY <1>4, <2>1 DEF IteratesAt
  <2>2. CASE n # 0
    <3>1. n \in 1..N /\ f[n - 1] \in Value
      BY <1>1, <1>4, <2>2
    <3>. QED  BY <1>3, <1>4, <2>2, <3>1 DEF IteratesAt, addGate
  <2>. QED  BY <2>1, <2>2
<1>6. f = [n \in 0..N |-> IF n = 0 THEN first ELSE addGate(p, f[n - 1], wires[n])]
  BY <1>4, <1>5
<1>. QED  BY <1>6 DEF AddedDef, N

LEMMA AddedIs ==
  ASSUME p \in Nat \ {0}, NEW first \in Value, NEW wires \in Seq(Value)
  PROVE  \E f : AreSums(f, first, wires) /\ Added(first, wires) = f[Len(wires)]
<1> DEFINE f == CHOOSE f : AddedDef(f, first, wires)
           N == Len(wires)
<1>1. AddedDef(f, first, wires)
  BY AddedExists, Zenon
<1>2. f[Len(wires)] = Added(first, wires)
  BY DEF AddedDef, Added
<1> HIDE DEF f
<1>3. N \in Nat /\ \A n \in 1..N : wires[n] \in Value
  OBVIOUS
<1>4. \A n \in 0..N : f[n] = IF n = 0 THEN first ELSE addGate(p, f[n - 1], wires[n])
  BY <1>1 DEF AddedDef
<1> HIDE DEF N
<1>5. f[0] = first /\ \A n \in 1..N : f[n] = (f[n - 1] + wires[n]) % p
  BY <1>3, <1>4 DEF addGate
<1>6. f[0] \in Value /\ \A n \in 1..N : f[n - 1] \in Value => f[n] \in Value
  <2>1. SUFFICES ASSUME NEW n \in 1..N, f[n - 1] \in Value
                 PROVE  f[n] \in Value
    BY <1>5
  <2>. QED  BY <1>3, <1>5, <2>1, SumIs
<1>7. \A n \in 0..N : f[n] \in Value
  BY <1>3, <1>6, StaysIn
<1>8. AreSums(f, first, wires)
  BY <1>5, <1>7 DEF AreSums, N
<1>. QED  BY <1>2, <1>8

(* Only one wire is not zero, or none is (k = 0).                           *)
LEMMA AddedOne ==
  ASSUME p \in Nat \ {0}, NEW first \in Value, NEW wires \in Seq(Value),
         NEW k \in 0..Len(wires), \A n \in 1..Len(wires) : n # k => wires[n] = 0
  PROVE  /\ Added(first, wires) \in Value
         /\ Added(first, wires) = IF k = 0 THEN first ELSE (first + wires[k]) % p
<1> DEFINE N == Len(wires)
           Sum(n) == IF k = 0 \/ n < k THEN first ELSE (first + wires[k]) % p
<1>1. PICK f : AreSums(f, first, wires) /\ Added(first, wires) = f[Len(wires)]
  BY AddedIs
<1>2. /\ N \in Nat /\ (\A n \in 1..N : wires[n] \in Value) /\ N = Len(wires)
      /\ f[0] = first /\ (\A n \in 0..N : f[n] \in Value)
      /\ \A n \in 1..N : f[n] = (f[n - 1] + wires[n]) % p
  BY <1>1 DEF AreSums
<1> HIDE DEF N
<1> DEFINE T == {n \in 0..N : f[n] = Sum(n)}
<1>3. 0 \in T
  BY <1>2
<1>4. ASSUME NEW n \in 1..N, n - 1 \in T
      PROVE  n \in T
  <2>1. f[n] = (f[n - 1] + wires[n]) % p /\ f[n - 1] = Sum(n - 1) /\ f[n - 1] \in Value
    BY <1>2, <1>4
  <2>2. CASE n = k
    BY <1>2, <2>1, <2>2
  <2>3. CASE n # k
    <3>1. wires[n] = 0 /\ 0 \in Value
      BY <1>2, <2>3 DEF Value
    <3>2. f[n] = f[n - 1]
      BY <2>1, <3>1, SumIs
    <3>3. Sum(n) = Sum(n - 1)
      BY <1>2, <2>3
    <3>. QED  BY <2>1, <3>2, <3>3
  <2>. QED  BY <2>2, <2>3
<1> HIDE DEF T
<1>5. N \in T
  BY <1>2, <1>3, <1>4, UpTo, N \in 0..N
<1>. QED  BY <1>1, <1>2, <1>5 DEF T
-----------------------------------------------------------------------------
(* The types, and what is so in every state.                                *)
IB == ram.indexBits
EB == ram.elementBits

RamShape ==
  /\ ram \in Rams /\ functions = Operations(ram)
  /\ ram.boolean \in BOOLEAN
  /\ p \in Nat \ {0, 1} /\ IB \in Nat \ {0} /\ EB \in Nat \ {0}
  /\ ram.boolean => p = 2
  /\ ~ ram.boolean => IB = 1 /\ EB = 1

Counter ==
  [init : Nat, read : Nat, write : Nat, totalAlloc : Nat, currentAlloc : Int, maxAlloc : Int]

BufferShape(buffer, h) == buffer \in Seq(Value) /\ Len(buffer) = sizes[h] * EB

Shape ==
  /\ RamShape
  /\ prover \in BOOLEAN /\ live \subseteq Handles
  /\ sizes \in [Handles -> Nat]
  /\ DOMAIN buffers = Handles /\ DOMAIN raw = Handles /\ DOMAIN out = 1..EB
  /\ \A h \in Handles : /\ BufferShape(buffers[h], h) /\ BufferShape(raw[h], h)
                        /\ h \notin live => sizes[h] = 0
                        /\ SizeAllowed(sizes[h])
  /\ failure \in BOOLEAN /\ fail \in BOOLEAN /\ odd \in BOOLEAN
  /\ undefined \subseteq {"empty", "beyond_field"}
  /\ counter \in Counter

LEMMA RamIs ==
  ASSUME ram \in Rams, functions = Operations(ram)
  PROVE  RamShape
BY RAMAssumption DEF RamShape, p, IB, EB

(* A function that passed checkSignature has the lengths of the type.       *)
LEMMA LengthsAre ==
  ASSUME RamShape
  PROVE  /\ \A f \in functions.init : f.ins[1].length = EB
         /\ \A f \in functions.read : f.ins[2].length = IB
         /\ \A f \in functions.write : f.ins[2].length = IB /\ f.ins[3].length = EB
<1>1. CASE ram.boolean
  BY <1>1 DEF RamShape, Operations, BooleanInit, BooleanRead, BooleanWrite, Wires, IB, EB
<1>2. CASE ~ ram.boolean
  BY <1>2 DEF RamShape, Operations, ArithmeticInit, ArithmeticRead, ArithmeticWrite, Wires, IB, EB
<1>. QED  BY <1>1, <1>2

LEMMA WordIs ==
  ASSUME RamShape, NEW n \in Nat, NEW w \in Word(n)
  PROVE  /\ w \in [1..n -> Value] /\ w \in Seq(Value) /\ w \in Seq(Nat) /\ Len(w) = n
         /\ \A k \in 1..n : w[k] \in Value
BY DEF Word, Value, RamShape

(* Places in a flat buffer.                                                 *)
LEMMA ProductGrows ==
  ASSUME NEW a \in Nat, NEW b \in Nat, NEW c \in Nat, a < b
  PROVE  a * c + c <= b * c /\ a * c \in Nat /\ b * c \in Nat
<1>1. PICK d \in Nat : b = a + 1 + d
  <2>1. b - a - 1 \in Nat /\ b = a + 1 + (b - a - 1)
    OBVIOUS
  <2>. QED  BY <2>1
<1>2. b * c = a * c + c + d * c /\ d * c \in Nat /\ a * c \in Nat
  BY <1>1
<1>. QED  BY <1>2

LEMMA ProductOrder ==
  ASSUME NEW a \in Nat, NEW b \in Nat, NEW c \in Nat \ {0}
  PROVE  /\ a * c \in Nat /\ b * c \in Nat
         /\ a * c >= b * c <=> a >= b
         /\ \A j \in 1..c : (a * c + j) - b * c \in 1..c <=> a = b
<1>1. PICK x \in Nat, y \in Nat : x = a * c /\ y = b * c
  OBVIOUS
<1>2. CASE a < b
  <2>1. x + c <= y
    BY <1>1, <1>2, ProductGrows
  <2>. QED  BY <1>1, <1>2, <2>1
<1>3. CASE b < a
  <2>1. y + c <= x
    BY <1>1, <1>3, ProductGrows
  <2>. QED  BY <1>1, <1>3, <2>1
<1>4. CASE a = b
  BY <1>1, <1>4
<1>. QED  BY <1>2, <1>3, <1>4

LEMMA PlaceIs ==
  ASSUME NEW size \in Nat, NEW bits \in Nat \ {0}, NEW i \in 0..(size - 1), NEW j \in 1..bits
  PROVE  /\ i * bits + j \in 1..(size * bits)
         /\ (i * bits + j - 1) % bits = j - 1 /\ (i * bits + j - 1) \div bits = i
<1>1. i * bits + bits <= size * bits /\ i * bits \in Nat /\ size * bits \in Nat
  BY ProductGrows
<1>2. PICK b \in 0..(bits - 1) : b = j - 1
  OBVIOUS
<1>3. (i * bits + b) % bits = b /\ (i * bits + b) \div bits = i
  OBVIOUS
<1>4. PICK x \in Nat : x = i * bits
  BY <1>1
<1>5. x + j - 1 = x + b
  BY <1>2
<1>6. x + j \in 1..(size * bits)
  BY <1>1, <1>4
<1>. QED  BY <1>2, <1>3, <1>4, <1>5, <1>6

(* Each place is one of an element.                                         *)
LEMMA PlacedAt ==
  ASSUME NEW size \in Nat, NEW bits \in Nat \ {0}, NEW k \in 1..(size * bits)
  PROVE  \E i \in 0..(size - 1), j \in 1..bits :
           /\ k = i * bits + j /\ i = (k - 1) \div bits /\ j = ((k - 1) % bits) + 1
<1>1. PICK x \in Int, y \in Int : x = (k - 1) \div bits /\ y = (k - 1) % bits
  OBVIOUS
<1>2. k - 1 = bits * x + y /\ y \in 0..(bits - 1)
  BY <1>1, k - 1 \in Int
<1>3. x \in Nat
  <2>1. ASSUME x < 0
        PROVE  FALSE
    <3>1. bits * x <= 0 - bits
      BY <2>1
    <3>2. PICK z \in Int : z = bits * x
      OBVIOUS
    <3>. QED  BY <1>2, <3>1, <3>2
  <2>. QED  BY <2>1
<1>4. x < size
  <2>1. ASSUME size <= x
        PROVE  FALSE
    <3>1. x * bits >= size * bits
      BY <1>3, <2>1, ProductOrder
    <3>2. PICK z \in Int, w \in Nat : z = bits * x /\ z = x * bits /\ w = size * bits
      OBVIOUS
    <3>. QED  BY <1>2, <3>1, <3>2
  <2>. QED  BY <1>3, <2>1
<1>5. x \in 0..(size - 1) /\ y + 1 \in 1..bits
  BY <1>2, <1>3, <1>4
<1>6. k = x * bits + (y + 1)
  <2>1. PICK z \in Int : z = bits * x /\ z = x * bits
    OBVIOUS
  <2>. QED  BY <1>2, <2>1
<1>. QED  BY <1>1, <1>5, <1>6
-----------------------------------------------------------------------------
(* The elements of a flat buffer.                                           *)
Elems(buffer, size, bits) ==
  [i \in 1..size |-> SubSeq(buffer, (i - 1) * bits + 1, (i - 1) * bits + bits)]

ElementAt(buffer, bits, i) == [j \in 1..bits |-> buffer[(i - 1) * bits + j]]

LEMMA ElementIs ==
  ASSUME NEW S, NEW buffer \in Seq(S), NEW size \in Nat, NEW bits \in Nat \ {0},
         Len(buffer) = size * bits, NEW i \in 1..size
  PROVE  Elems(buffer, size, bits)[i] = ElementAt(buffer, bits, i)
<1>1. PICK a \in Nat : a = (i - 1) * bits
  OBVIOUS
<1>2. a + bits <= size * bits /\ size * bits \in Nat
  <2>1. i - 1 \in Nat /\ i - 1 < size
    OBVIOUS
  <2>. QED  BY <1>1, <2>1, ProductGrows
<1> DEFINE t == SubSeq(buffer, a + 1, a + bits)
<1>3. a + 1 \in 1..(Len(buffer) + 1) /\ a + bits \in ((a + 1) - 1)..Len(buffer)
  BY <1>2
<1>4. /\ t \in Seq(S) /\ Len(t) = (a + bits) - (a + 1) + 1
      /\ \A j \in 1..((a + bits) - (a + 1) + 1) : t[j] = buffer[(a + 1) + j - 1]
  BY <1>3, SubSeqProperties
<1> HIDE DEF t
<1>5. Len(t) = bits /\ t \in [1..bits -> S] /\ \A j \in 1..bits : t[j] = buffer[a + j]
  BY <1>4
<1>6. t = [j \in 1..bits |-> buffer[a + j]]
  BY <1>5
<1>7. Elems(buffer, size, bits)[i] = SubSeq(buffer, (i - 1) * bits + 1, (i - 1) * bits + bits)
  BY DEF Elems
<1>. QED  BY <1>1, <1>6, <1>7 DEF t, ElementAt

LEMMA ElemsAre ==
  ASSUME NEW S, NEW buffer \in Seq(S), NEW size \in Nat, NEW bits \in Nat \ {0},
         Len(buffer) = size * bits
  PROVE  /\ Elems(buffer, size, bits) = [i \in 1..size |-> ElementAt(buffer, bits, i)]
         /\ DOMAIN Elems(buffer, size, bits) = 1..size
         /\ Len(Elems(buffer, size, bits)) = size
<1>1. \A i \in 1..size : Elems(buffer, size, bits)[i] = ElementAt(buffer, bits, i)
  BY ElementIs
<1>2. Elems(buffer, size, bits) = [i \in 1..size |-> Elems(buffer, size, bits)[i]]
  BY DEF Elems
<1> HIDE DEF Elems
<1>3. Elems(buffer, size, bits) = [i \in 1..size |-> ElementAt(buffer, bits, i)]
  BY <1>1, <1>2
<1>. QED  BY <1>3

LEMMA ArrayIs ==
  ASSUME Shape, NEW h \in Handles
  PROVE  /\ ElementsOf(h) = Elems(buffers[h], sizes[h], EB)
         /\ ElementsOf(h) = [i \in 1..sizes[h] |-> ElementAt(buffers[h], EB, i)]
         /\ Len(ElementsOf(h)) = sizes[h] /\ DOMAIN ElementsOf(h) = 1..sizes[h]
<1>1. /\ sizes[h] \in Nat /\ EB \in Nat \ {0} /\ buffers[h] \in Seq(Value)
      /\ Len(buffers[h]) = sizes[h] * EB
  <2>1. BufferShape(buffers[h], h)
    BY DEF Shape
  <2>. QED  BY <2>1 DEF Shape, RamShape, BufferShape
<1>2. ElementsOf(h) = Elems(buffers[h], sizes[h], EB)
  BY DEF ElementsOf, Elems, Place, EB
<1>. QED  BY <1>1, <1>2, ElemsAre

(* What init makes.                                                         *)
LEMMA FilledIs ==
  ASSUME RamShape, NEW size \in Nat, NEW fill \in Word(EB)
  PROVE  /\ Filled(size, fill) \in Seq(Value) /\ Len(Filled(size, fill)) = size * EB
         /\ Elems(Filled(size, fill), size, EB) = [i \in 1..size |-> fill]
<1>1. /\ EB \in Nat \ {0} /\ fill \in [1..EB -> Value] /\ \A k \in 1..EB : fill[k] \in Value
  BY WordIs DEF RamShape
<1>2. PICK n \in Nat : n = size * EB
  BY <1>1
<1>3. Filled(size, fill) = [k \in 1..n |-> fill[((k - 1) % EB) + 1]]
  BY <1>2 DEF Filled, EB
<1>4. ASSUME NEW k \in 1..n
      PROVE  fill[((k - 1) % EB) + 1] \in Value
  BY <1>1, <1>2, PlacedAt
<1>5. Filled(size, fill) \in Seq(Value) /\ Len(Filled(size, fill)) = n
  BY <1>3, <1>4
<1>6. ASSUME NEW i \in 1..size
      PROVE  ElementAt(Filled(size, fill), EB, i) = fill
  <2>1. ASSUME NEW j \in 1..EB
        PROVE  Filled(size, fill)[(i - 1) * EB + j] = fill[j]
    <3>1. PICK l \in 0..(size - 1) : l = i - 1
      OBVIOUS
    <3>2. l * EB + j \in 1..n /\ (l * EB + j - 1) % EB = j - 1
      BY <1>1, <1>2, PlaceIs
    <3>3. PICK k \in 1..n : k = l * EB + j
      BY <3>2
    <3>4. (k - 1) % EB = j - 1 /\ j - 1 + 1 = j
      BY <1>1, <3>2, <3>3
    <3>5. Filled(size, fill)[k] = fill[((k - 1) % EB) + 1]
      BY <1>3
    <3>. QED  BY <3>1, <3>3, <3>4, <3>5
  <2>2. ElementAt(Filled(size, fill), EB, i) = [j \in 1..EB |-> fill[j]]
    BY <2>1 DEF ElementAt
  <2>. QED  BY <1>1, <2>2
<1>. QED  BY <1>1, <1>2, <1>5, <1>6, ElemsAre
(* What a write leaves.                                                     *)
LEMMA OverwrittenIs ==
  ASSUME Shape, NEW h \in Handles, NEW idx \in Word(IB), NEW in \in Word(EB)
  PROVE  /\ Overwritten(h, idx, in) \in Seq(Value)
         /\ Len(Overwritten(h, idx, in)) = sizes[h] * EB
         /\ \A i \in 0..(sizes[h] - 1) : \A j \in 1..EB :
              Overwritten(h, idx, in)[i * EB + j] =
                IF i = Index(idx) THEN in[j] ELSE buffers[h][i * EB + j]
<1>1. /\ EB \in Nat \ {0} /\ IB \in Nat /\ in \in [1..EB -> Value] /\ \A j \in 1..EB : in[j] \in Value
  BY WordIs DEF Shape, RamShape
<1>2. Index(idx) \in Nat
  BY <1>1, WordIs, IndexIs DEF Shape
<1>3. BufferShape(buffers[h], h) /\ sizes[h] \in Nat
  BY DEF Shape
<1>4. PICK n \in Nat : n = sizes[h] * EB
  BY <1>1, <1>3
<1>5. buffers[h] \in Seq(Value) /\ DOMAIN buffers[h] = 1..n /\ \A k \in 1..n : buffers[h][k] \in Value
  BY <1>3, <1>4 DEF BufferShape
<1>6. PICK x \in Nat : x = Index(idx) * EB
  BY <1>1, <1>2
<1>7. Overwritten(h, idx, in) = [k \in 1..n |-> IF k - (x + 0) \in 1..EB THEN in[k - (x + 0)] ELSE buffers[h][k]]
  BY <1>5, <1>6 DEF Overwritten, Place, EB
<1>8. Overwritten(h, idx, in) \in Seq(Value) /\ Len(Overwritten(h, idx, in)) = n
  BY <1>1, <1>5, <1>7
<1>9. ASSUME NEW i \in 0..(sizes[h] - 1), NEW j \in 1..EB
      PROVE  Overwritten(h, idx, in)[i * EB + j] =
               IF i = Index(idx) THEN in[j] ELSE buffers[h][i * EB + j]
  <2>1. PICK y \in Nat : y = i * EB
    BY <1>1
  <2>2. y + j \in 1..n
    BY <1>1, <1>3, <1>4, <2>1, PlaceIs
  <2>3. (y + j) - x \in 1..EB <=> i = Index(idx)
    <3>1. i \in Nat
      OBVIOUS
    <3>. QED  BY <1>1, <1>2, <1>6, <2>1, <3>1, ProductOrder
  <2>4. i = Index(idx) => (y + j) - x = j
    BY <1>6, <2>1
  <2>5. (y + j) - (x + 0) = (y + j) - x
    OBVIOUS
  <2>6. Overwritten(h, idx, in)[y + j] =
          IF (y + j) - (x + 0) \in 1..EB THEN in[(y + j) - (x + 0)] ELSE buffers[h][y + j]
    BY <1>7, <2>2
  <2>. QED  BY <2>1, <2>3, <2>4, <2>5, <2>6
<1>. QED  BY <1>4, <1>8, <1>9

-----------------------------------------------------------------------------
(* Comparisons by Fermat's little theorem.                                  *)
LEMMA ZeroModulo ==
  ASSUME NEW n \in Nat \ {0}, NEW a \in 0..(n - 1), NEW c \in 0..(n - 1)
  PROVE  (a + (n - c)) % n = 0 <=> a = c
<1>1. PICK x \in Nat : x = a + (n - c)
  OBVIOUS
<1>2. CASE x < n
  BY <1>1, <1>2, Modulo
<1>3. CASE x >= n
  <2>1. PICK b \in 0..(n - 1) : b = x - n
    BY <1>1, <1>3
  <2>2. (1 * n + b) % n = b
    OBVIOUS
  <2>3. x = 1 * n + b
    BY <1>1, <2>1
  <2>. QED  BY <1>1, <2>1, <2>2, <2>3
<1>. QED  BY <1>1, <1>2, <1>3

LEMMA EqualityIs ==
  ASSUME RamShape, ~ ram.boolean, NEW in \in Value, NEW c \in Int
  PROVE  /\ FLT_equality_const(p, in, c) = IF (in + (p - c)) % p = 0 THEN 1 ELSE 0
         /\ FLT_inequality_const(in, c) = IF (in + (p - c)) % p = 0 THEN 0 ELSE 1
<1>1. PICK n \in Nat \ {0, 1} : n = p
  BY DEF RamShape
<1>2. PICK a \in Int : a = (in + (p - c)) % p
  <2>1. in + (n - c) \in Int
    BY <1>1 DEF Value
  <2>. QED  BY <1>1, <2>1, Modulo
<1>3. a \in 0..(n - 1)
  <2>1. PICK x \in Int : x = in + (n - c)
    BY <1>1 DEF Value
  <2>2. x % n \in 0..(n - 1)
    BY Modulo
  <2>. QED  BY <1>1, <1>2, <2>1, <2>2
<1>4. exponentiate(p, a, p - 1) = IF a = 0 THEN 0 ELSE 1
  BY <1>1, <1>3, FermatAssumption DEF RamShape, p
<1>5. FLT_inequality_const(in, c) = IF a = 0 THEN 0 ELSE 1
  BY <1>2, <1>4 DEF FLT_inequality_const, addcGate
<1>6. FLT_equality_const(p, in, c) = ((((IF a = 0 THEN 0 ELSE 1) * (n - 1)) % n) + 1) % n
  BY <1>1, <1>2, <1>4 DEF FLT_equality_const, addcGate, mulcGate
<1>7. 0 % n = 0 /\ 1 % n = 1 /\ (n - 1) % n = n - 1
  <2>1. \A x \in 0..(n - 1) : x % n = x
    BY Modulo
  <2>2. 0 \in 0..(n - 1) /\ 1 \in 0..(n - 1) /\ n - 1 \in 0..(n - 1)
    OBVIOUS
  <2>. QED  BY <2>1, <2>2
<1>8. (1 * n + 0) % n = 0
  OBVIOUS
<1>9. CASE a = 0
  <2>1. FLT_equality_const(p, in, c) = 1
    BY <1>6, <1>7, <1>9, 0 * (n - 1) = 0
  <2>. QED  BY <1>2, <1>5, <1>9, <2>1
<1>10. CASE a # 0
  <2>1. FLT_equality_const(p, in, c) = 0
    BY <1>6, <1>7, <1>8, <1>10, 1 * (n - 1) = n - 1, (n - 1) + 1 = 1 * n + 0
  <2>. QED  BY <1>2, <1>5, <1>10, <2>1
<1>. QED  BY <1>9, <1>10

LEMMA EqualityOf ==
  ASSUME RamShape, ~ ram.boolean, NEW in \in Value, NEW c \in 0..(p - 1)
  PROVE  /\ FLT_equality_const(p, in, c) = IF in = c THEN 1 ELSE 0
         /\ FLT_inequality_const(in, c) = IF in = c THEN 0 ELSE 1
<1>1. PICK n \in Nat \ {0, 1} : n = p
  BY DEF RamShape
<1>2. (in + (p - c)) % p = 0 <=> in = c
  BY <1>1, ZeroModulo DEF Value
<1>3. c \in Int
  BY <1>1
<1>. QED  BY <1>2, <1>3, EqualityIs

LEMMA FLTWriteShape ==
  ASSUME RamShape, ~ ram.boolean, NEW buffer \in Seq(Value), NEW index \in Value, NEW in \in Value
  PROVE  FLTWrite(buffer, index, in) \in Seq(Value) /\ Len(FLTWrite(buffer, index, in)) = Len(buffer)
<1>1. PICK n \in Nat \ {0, 1} : n = p
  BY DEF RamShape
<1>2. ASSUME NEW i \in 1..Len(buffer)
      PROVE  addGate(p, mulGate(p, FLT_equality_const(p, index, i - 1), in),
                        mulGate(p, FLT_inequality_const(index, i - 1), buffer[i])) \in Value
  <2>1. PICK e \in {0, 1} : e = FLT_equality_const(p, index, i - 1)
    BY EqualityIs, i - 1 \in Int
  <2>2. PICK u \in {0, 1} : u = FLT_inequality_const(index, i - 1)
    BY EqualityIs, i - 1 \in Int
  <2>3. PICK b \in Int, c \in Int : b = in /\ c = buffer[i]
    BY <1>1 DEF Value
  <2>4. PICK x \in Int, y \in Int : x = (e * b) % n /\ y = (u * c) % n
    <3>1. PICK l \in Int, m \in Int : l = e * b /\ m = u * c
      OBVIOUS
    <3>2. l % n \in Nat /\ m % n \in Nat
      BY Modulo
    <3>. QED  BY <3>1, <3>2
  <2>5. (x + y) % n \in 0..(n - 1)
    BY Modulo, x + y \in Int
  <2>. QED  BY <1>1, <2>1, <2>2, <2>3, <2>4, <2>5 DEF addGate, mulGate, Value
<1>3. DOMAIN buffer = 1..Len(buffer) /\ Len(buffer) \in Nat
  OBVIOUS
<1> DEFINE e(i) == addGate(p, mulGate(p, FLT_equality_const(p, index, i - 1), in),
                              mulGate(p, FLT_inequality_const(index, i - 1), buffer[i]))
<1>4. FLTWrite(buffer, index, in) = [i \in 1..Len(buffer) |-> e(i)]
  BY <1>3 DEF FLTWrite
<1>5. \A i \in 1..Len(buffer) : e(i) \in Value
  BY <1>2
<1> HIDE DEF e
<1>. QED  BY <1>3, <1>4, <1>5

-----------------------------------------------------------------------------
(* Comparisons bit by bit.                                                  *)
Bit(c, n) == (c \div Pow2(n - 1)) % 2

EqualDef(f, in, c) ==
  f = [n \in 0..Len(in) |->
         IF n = 0 THEN 1
         ELSE mulGate(p, f[n - 1], addcGate(p, in[Len(in) + 1 - n],
                                            ((c \div Pow2(n - 1)) + 1) % 2))]

(* The product is 1 as long as the last bits are those of c.                *)
AreProducts(f, in, c) ==
  /\ f[0] = 1
  /\ \A n \in 1..Len(in) :
       f[n] = IF in[Len(in) + 1 - n] = Bit(c, n) THEN f[n - 1] ELSE 0

LEMMA BitGate ==
  ASSUME p = 2, NEW x \in {0, 1}, NEW y \in {0, 1}, NEW b \in Int
  PROVE  mulGate(p, x, addcGate(p, y, (b + 1) % 2)) = IF y = b % 2 THEN x ELSE 0
<1>1. b = 2 * (b \div 2) + (b % 2) /\ b % 2 \in 0..1 /\ b \div 2 \in Int
  <2>1. \A n \in Nat \ {0} : b = n * (b \div n) + (b % n) /\ b % n \in 0..(n - 1) /\ b \div n \in Int
    OBVIOUS
  <2>. QED  BY <2>1, 2 \in Nat \ {0}
<1>2. PICK q \in Int, t \in {0, 1} : b = 2 * q + t /\ t = b % 2
  BY <1>1
<1>3. (b + 1) % 2 = 1 - t
  BY <1>2
<1>. QED  BY <1>2, <1>3 DEF mulGate, addcGate

LEMMA EqualExists ==
  ASSUME p = 2, NEW in \in Seq(Value), NEW c \in Nat
  PROVE  \E f : EqualDef(f, in, c)
<1> DEFINE N == Len(in)
           step == [n \in 1..N |-> [s \in {0, 1} |-> IF in[N + 1 - n] = Bit(c, n) THEN s ELSE 0]]
<1>1. N \in Nat /\ \A n \in 1..N : in[N + 1 - n] \in {0, 1}
  BY N + 1 \in Nat DEF Value
<1>2. /\ step \in [1..N -> [{0, 1} -> {0, 1}]]
      /\ \A n \in 1..N, s \in {0, 1} : step[n][s] = IF in[N + 1 - n] = Bit(c, n) THEN s ELSE 0
  OBVIOUS
<1> HIDE DEF step, N
<1>3. PICK f \in [0..N -> {0, 1}] : IteratesAt(f, N, 1, step)
  BY <1>1, <1>2, IterationAtExists, Zenon, 1 \in {0, 1}
<1>4. ASSUME NEW n \in 0..N
      PROVE  f[n] = IF n = 0 THEN 1
                    ELSE mulGate(p, f[n - 1], addcGate(p, in[N + 1 - n],
                                                       ((c \div Pow2(n - 1)) + 1) % 2))
  <2>1. CASE n = 0
    BY <1>3, <2>1 DEF IteratesAt
  <2>2. CASE n # 0
    <3>1. n \in 1..N /\ f[n - 1] \in {0, 1}
      BY <1>1, <1>3, <2>2
    <3>2. f[n] = IF in[N + 1 - n] = Bit(c, n) THEN f[n - 1] ELSE 0
      BY <1>2, <1>3, <2>2, <3>1 DEF IteratesAt
    <3>3. n - 1 \in Nat
      BY <3>1, <1>1
    <3>4. PICK w \in Nat \ {0} : w = Pow2(n - 1)
      BY <3>3, Pow2Facts
    <3>5. c \div w \in Int
      OBVIOUS
    <3>6. mulGate(p, f[n - 1], addcGate(p, in[N + 1 - n], ((c \div Pow2(n - 1)) + 1) % 2))
            = IF in[N + 1 - n] = Bit(c, n) THEN f[n - 1] ELSE 0
      <4>1. PICK x \in {0, 1}, y \in {0, 1}, b \in Int :
              x = f[n - 1] /\ y = in[N + 1 - n] /\ b = c \div Pow2(n - 1)
        BY <1>1, <3>1, <3>4, <3>5
      <4>2. mulGate(p, x, addcGate(p, y, (b + 1) % 2)) = IF y = b % 2 THEN x ELSE 0
        BY BitGate
      <4>. QED  BY <4>1, <4>2 DEF Bit
    <3>. QED  BY <2>2, <3>2, <3>6
  <2>. QED  BY <2>1, <2>2
<1>5. f = [n \in 0..N |-> f[n]]
  BY <1>3
<1>. QED  BY <1>4, <1>5 DEF EqualDef, N

LEMMA EqualIs ==
  ASSUME p = 2, NEW in \in Seq(Value), NEW c \in Nat
  PROVE  \E f : /\ AreProducts(f, in, c) /\ \A n \in 0..Len(in) : f[n] \in {0, 1}
                /\ bool_equality(in, c) = f[Len(in)]
<1> DEFINE f == CHOOSE f : EqualDef(f, in, c)
           N == Len(in)
<1>1. EqualDef(f, in, c)
  BY EqualExists, Zenon
<1>2. f[Len(in)] = bool_equality(in, c)
  BY DEF EqualDef, bool_equality
<1> HIDE DEF f
<1>3. N \in Nat /\ \A n \in 1..N : in[N + 1 - n] \in {0, 1}
  BY N + 1 \in Nat DEF Value
<1>4. \A n \in 0..N :
        f[n] = IF n = 0 THEN 1
               ELSE mulGate(p, f[n - 1], addcGate(p, in[N + 1 - n],
                                                  ((c \div Pow2(n - 1)) + 1) % 2))
  BY <1>1 DEF EqualDef
<1> HIDE DEF N
<1>5. f[0] = 1
  BY <1>3, <1>4
<1>6. ASSUME NEW n \in 1..N, f[n - 1] \in {0, 1}
      PROVE  f[n] = IF in[N + 1 - n] = Bit(c, n) THEN f[n - 1] ELSE 0
  <2>1. n - 1 \in Nat /\ n \in 0..N /\ n # 0
    BY <1>3
  <2>2. PICK w \in Nat \ {0} : w = Pow2(n - 1)
    BY <2>1, Pow2Facts
  <2>3. c \div w \in Int
    OBVIOUS
  <2>. QED  BY <1>3, <1>4, <1>6, <2>1, <2>2, <2>3, BitGate DEF Bit
<1>7. \A n \in 1..N : f[n - 1] \in {0, 1} => f[n] \in {0, 1}
  BY <1>6
<1>8. f[0] \in {0, 1}
  BY <1>5
<1>9. \A n \in 0..N : f[n] \in {0, 1}
  <2>1. PICK S : S = {0, 1}
    OBVIOUS
  <2>2. f[0] \in S /\ \A n \in 1..N : f[n - 1] \in S => f[n] \in S
    BY <1>7, <1>8, <2>1
  <2>3. \A n \in 0..N : f[n] \in S
    BY <1>3, <2>2, StaysIn
  <2>. QED  BY <2>1, <2>3
<1>10. \A n \in 1..N : f[n - 1] \in {0, 1}
  BY <1>3, <1>9, \A n \in 1..N : n - 1 \in 0..N
<1>11. AreProducts(f, in, c)
  BY <1>5, <1>6, <1>10 DEF AreProducts, N
<1>. QED  BY <1>2, <1>9, <1>11 DEF N

(* What the last n bits of an index give, and of a constant.                *)
Rest(in, n) == Index(in) - Numbers(in)[Len(in) - n] * Pow2(n)

Low(c, n) == c - Pow2(n) * (c \div Pow2(n))

RestSums(in) ==
  /\ Rest(in, 0) = 0 /\ Rest(in, Len(in)) = Index(in)
  /\ \A n \in 0..Len(in) : Rest(in, n) \in Nat
  /\ \A n \in 1..Len(in) : Rest(in, n) = Rest(in, n - 1) + in[Len(in) + 1 - n] * Pow2(n - 1)

LEMMA DoubledWeight ==
  ASSUME NEW a \in Nat, NEW b \in Nat, NEW w \in Nat
  PROVE  (2 * a + b) * w = a * (2 * w) + b * w
OBVIOUS

LEMMA RestAdds ==
  ASSUME NEW in \in Seq(Nat)
  PROVE  RestSums(in)
<1> DEFINE N == Len(in)
           num == Numbers(in)
<1>1. N \in Nat /\ \A n \in 1..N : in[N + 1 - n] \in Nat
  BY N + 1 \in Nat
<1>2. AreNumbers(num, in) /\ Index(in) \in Nat
  BY <1>1, NumbersAre, IndexIs
<1>3. /\ \A n \in 0..N : num[n] \in Nat
      /\ num[0] = 0 /\ \A n \in 1..N : num[n] = 2 * num[n - 1] + in[n]
  BY <1>2 DEF AreNumbers
<1>4. Index(in) = num[N]
  BY DEF Index
<1> HIDE DEF N, num
<1>5. Rest(in, 0) = 0
  <2>1. Pow2(0) = 1
    BY Pow2Facts, 0 \in Nat
  <2>2. num[N - 0] = num[N] /\ num[N] \in Nat
    BY <1>1, <1>3
  <2>. QED  BY <1>4, <2>1, <2>2 DEF Rest, N, num
<1>6. Rest(in, N) = Index(in)
  <2>1. num[N - N] = 0
    BY <1>1, <1>3
  <2>2. Pow2(N) \in Nat
    BY <1>1, Pow2Facts
  <2>. QED  BY <1>2, <2>1, <2>2 DEF Rest, N, num
<1>7. ASSUME NEW n \in 1..N
      PROVE  Rest(in, n) = Rest(in, n - 1) + in[N + 1 - n] * Pow2(n - 1)
  <2>1. PICK w \in Nat : w = Pow2(n - 1) /\ Pow2(n) = 2 * w
    <3>1. n - 1 \in Nat /\ (n - 1) + 1 = n
      BY <1>1
    <3>. QED  BY <3>1, Pow2Facts
  <2>2. PICK a \in Nat, b \in Nat : a = num[N - n] /\ b = in[N + 1 - n]
    <3>1. N - n \in 0..N
      BY <1>1
    <3>2. num[N - n] \in Nat /\ in[N + 1 - n] \in Nat
      BY <1>1, <1>3, <3>1
    <3>. QED  BY <3>2
  <2>3. num[N - (n - 1)] = 2 * a + b
    <3>1. N + 1 - n \in 1..N /\ (N + 1 - n) - 1 = N - n /\ N - (n - 1) = N + 1 - n
      BY <1>1
    <3>2. num[N + 1 - n] = 2 * num[N - n] + in[N + 1 - n]
      BY <1>3, <3>1
    <3>. QED  BY <2>2, <3>1, <3>2
  <2>4. (2 * a + b) * w = a * (2 * w) + b * w
    BY DoubledWeight, Zenon
  <2>5. Rest(in, n) = Index(in) - a * (2 * w)
    BY <2>1, <2>2 DEF Rest, N, num
  <2>6. Rest(in, n - 1) = Index(in) - (2 * a + b) * w
    BY <2>1, <2>3 DEF Rest, N, num
  <2>7. PICK x \in Int, y \in Int : x = a * (2 * w) /\ y = b * w
    OBVIOUS
  <2>. QED  BY <1>2, <2>1, <2>2, <2>4, <2>5, <2>6, <2>7
<1>8. ASSUME NEW n \in 1..N, Rest(in, n - 1) \in Nat
      PROVE  Rest(in, n) \in Nat
  <2>1. PICK w \in Nat, b \in Nat : w = Pow2(n - 1) /\ b = in[N + 1 - n]
    BY <1>1, Pow2Facts, n - 1 \in Nat
  <2>2. PICK x \in Nat : x = Rest(in, n - 1)
    BY <1>8
  <2>3. Rest(in, n) = x + b * w
    BY <1>7, <2>1, <2>2
  <2>. QED  BY <2>3
<1> DEFINE T == {n \in 0..N : Rest(in, n) \in Nat}
<1>9. 0 \in T /\ \A n \in 1..N : n - 1 \in T => n \in T
  BY <1>1, <1>5, <1>8
<1> HIDE DEF T
<1>10. \A n \in 0..N : Rest(in, n) \in Nat
  <2>1. \A n \in 0..N : n \in T
    BY <1>1, <1>9, UpTo
  <2>. QED  BY <2>1 DEF T
<1>. QED  BY <1>5, <1>6, <1>7, <1>10 DEF RestSums, N

(* An index is the number that its wires stand for.                         *)
NumberDef(f, word) ==
  f = [n \in 0..Len(word) |->
        IF n = 0 THEN 0 ELSE f[n - 1] + word[Len(word) + 1 - n] * Pow2(n - 1)]

LEMMA NumberIs ==
  ASSUME NEW word \in Seq(Nat)
  PROVE  Number(word) = Index(word)
<1> DEFINE N == Len(word)
           f == CHOOSE f : NumberDef(f, word)
           g == [n \in 0..N |-> Rest(word, n)]
<1>1. N \in Nat /\ RestSums(word)
  BY RestAdds
<1>2. NumberDef(g, word)
  <2>1. ASSUME NEW n \in 0..N
        PROVE  Rest(word, n) = IF n = 0 THEN 0 ELSE g[n - 1] + word[N + 1 - n] * Pow2(n - 1)
    <3>1. CASE n = 0
      BY <1>1, <3>1 DEF RestSums
    <3>2. CASE n # 0
      <4>1. n \in 1..N /\ n - 1 \in 0..N
        BY <1>1, <3>2
      <4>. QED  BY <1>1, <3>2, <4>1 DEF RestSums
    <3>. QED  BY <3>1, <3>2
  <2>. QED  BY <2>1 DEF NumberDef
<1> HIDE DEF g
<1>3. NumberDef(f, word)
  BY <1>2, Zenon
<1>4. Number(word) = f[N]
  BY DEF NumberDef, Number
<1> HIDE DEF f
<1>5. \A n \in 0..N : f[n] = IF n = 0 THEN 0 ELSE f[n - 1] + word[N + 1 - n] * Pow2(n - 1)
  BY <1>3 DEF NumberDef
<1> DEFINE T == {n \in 0..N : f[n] = Rest(word, n)}
<1>6. 0 \in T
  BY <1>1, <1>5 DEF RestSums
<1>7. ASSUME NEW n \in 1..N, n - 1 \in T
      PROVE  n \in T
  BY <1>1, <1>5, <1>7 DEF RestSums
<1> HIDE DEF N, T
<1>8. N \in T
  BY <1>1, <1>6, <1>7, UpTo, N \in 0..N
<1>9. f[N] = Rest(word, N)
  BY <1>8 DEF T
<1>. QED  BY <1>1, <1>4, <1>9 DEF RestSums, N

RestFacts(in, n) ==
  /\ Rest(in, n) \in Nat /\ Rest(in, n) < Pow2(n)
  /\ n > 0 => Rest(in, n) = Rest(in, n - 1) + in[Len(in) + 1 - n] * Pow2(n - 1)

LEMMA RestIs ==
  ASSUME NEW in \in Seq({0, 1})
  PROVE  /\ Rest(in, 0) = 0 /\ Rest(in, Len(in)) = Index(in)
         /\ \A n \in 0..Len(in) : RestFacts(in, n)
<1> DEFINE N == Len(in)
<1>1. N \in Nat /\ in \in Seq(Nat) /\ \A n \in 1..N : in[N + 1 - n] \in {0, 1}
  BY N + 1 \in Nat
<1>2. /\ Rest(in, 0) = 0 /\ Rest(in, N) = Index(in)
      /\ \A n \in 1..N : Rest(in, n) = Rest(in, n - 1) + in[N + 1 - n] * Pow2(n - 1)
  BY <1>1, RestAdds DEF RestSums
<1> HIDE DEF N
<1> DEFINE T == {n \in 0..N : Rest(in, n) \in Nat /\ Rest(in, n) < Pow2(n)}
<1>3. 0 \in T
  <2>1. Pow2(0) = 1
    BY Pow2Facts, 0 \in Nat
  <2>. QED  BY <1>1, <1>2, <2>1
<1>4. ASSUME NEW n \in 1..N, n - 1 \in T
      PROVE  n \in T
  <2>1. PICK w \in Nat : w = Pow2(n - 1) /\ Pow2(n) = 2 * w
    <3>1. n - 1 \in Nat /\ (n - 1) + 1 = n
      BY <1>1
    <3>. QED  BY <3>1, Pow2Facts
  <2>2. PICK b \in {0, 1} : b = in[N + 1 - n]
    BY <1>1
  <2>3. PICK x \in Nat : x = Rest(in, n - 1) /\ x < w
    BY <1>4, <2>1
  <2>4. Rest(in, n) = x + b * w
    BY <1>2, <2>1, <2>2, <2>3
  <2>5. x + b * w \in Nat /\ x + b * w < 2 * w
    BY <2>3
  <2>. QED  BY <2>1, <2>4, <2>5
<1> HIDE DEF T
<1>5. \A n \in 0..N : n \in T
  BY <1>1, <1>3, <1>4, UpTo
<1>6. \A n \in 0..N : RestFacts(in, n)
  BY <1>1, <1>2, <1>5 DEF RestFacts, T, N
<1>. QED  BY <1>2, <1>6 DEF N

LowFacts(c, n) ==
  /\ Low(c, n) \in Nat /\ Low(c, n) < Pow2(n)
  /\ n > 0 => Low(c, n) = Low(c, n - 1) + Bit(c, n) * Pow2(n - 1)

LEMMA Quotients ==
  ASSUME NEW c \in Nat, NEW w \in Nat \ {0}
  PROVE  /\ c - w * (c \div w) \in 0..(w - 1)
         /\ (c \div w) % 2 \in {0, 1}
         /\ c - (2 * w) * (c \div (2 * w)) = c - w * (c \div w) + ((c \div w) % 2) * w
<1>1. PICK q \in Int, r \in 0..(w - 1) : q = c \div w /\ c = w * q + r
  BY Modulo
<1>2. \A a \in Int : a = 2 * (a \div 2) + (a % 2) /\ a % 2 \in 0..1 /\ a \div 2 \in Int
  <2>1. \A a \in Int, n \in Nat \ {0} : a = n * (a \div n) + (a % n) /\ a % n \in 0..(n - 1) /\ a \div n \in Int
    OBVIOUS
  <2>. QED  BY <2>1, 2 \in Nat \ {0}
<1>3. PICK h \in Int, t \in {0, 1} : q = 2 * h + t /\ t = q % 2
  BY <1>2
<1>4. PICK v \in Nat \ {0} : v = 2 * w
  OBVIOUS
<1>5. w * q = v * h + t * w
  BY <1>3, <1>4
<1>6. PICK s \in 0..(v - 1) : s = t * w + r
  BY <1>4
<1>7. c = h * v + s
  <2>1. v * h = h * v
    OBVIOUS
  <2>2. PICK x \in Int, y \in Int : x = v * h /\ y = t * w
    OBVIOUS
  <2>. QED  BY <1>1, <1>5, <1>6, <2>1, <2>2
<1>8. c \div v = h
  <2>1. (h * v + s) \div v = h
    OBVIOUS
  <2>. QED  BY <1>7, <2>1
<1>9. PICK x \in Int, y \in Int, z \in Int : x = v * h /\ y = w * q /\ z = t * w
  OBVIOUS
<1>10. x = h * v
  BY <1>9
<1>11. c - x = s /\ c - y = r
  <2>1. c = y + r
    BY <1>1, <1>9
  <2>2. c = x + s
    BY <1>7, <1>10
  <2>. QED  BY <1>1, <1>6, <1>9, <2>1, <2>2
<1>12. c - v * (c \div v) = c - w * (c \div w) + ((c \div w) % 2) * w
  BY <1>1, <1>3, <1>6, <1>8, <1>9, <1>11
<1>13. c - w * (c \div w) \in 0..(w - 1)
  BY <1>1, <1>9, <1>11
<1>14. (c \div w) % 2 \in {0, 1}
  BY <1>1, <1>3
<1>. QED  BY <1>4, <1>12, <1>13, <1>14

LEMMA LowIs ==
  ASSUME NEW c \in Nat
  PROVE  /\ Low(c, 0) = 0
         /\ \A n \in Nat : LowFacts(c, n)
         /\ \A n \in Nat : c < Pow2(n) => Low(c, n) = c
<1>1. Low(c, 0) = 0
  <2>1. Pow2(0) = 1
    BY Pow2Facts, 0 \in Nat
  <2>2. c \div 1 = c
    <3>1. (c * 1 + 0) \div 1 = c
      OBVIOUS
    <3>. QED  BY <3>1
  <2>. QED  BY <2>1, <2>2 DEF Low
<1>2. ASSUME NEW n \in Nat
      PROVE  LowFacts(c, n)
  <2>1. PICK w \in Nat \ {0} : w = Pow2(n)
    BY Pow2Facts
  <2>2. c - w * (c \div w) \in 0..(w - 1)
    BY Quotients
  <2>3. Low(c, n) \in Nat /\ Low(c, n) < Pow2(n)
    BY <2>1, <2>2 DEF Low
  <2>4. ASSUME n > 0
        PROVE  Low(c, n) = Low(c, n - 1) + Bit(c, n) * Pow2(n - 1)
    <3>1. PICK v \in Nat \ {0} : v = Pow2(n - 1) /\ Pow2(n) = 2 * v
      <4>1. n - 1 \in Nat /\ (n - 1) + 1 = n
        BY <2>4
      <4>. QED  BY <4>1, Pow2Facts
    <3>2. c - (2 * v) * (c \div (2 * v)) = c - v * (c \div v) + ((c \div v) % 2) * v
      BY Quotients
    <3>. QED  BY <3>1, <3>2 DEF Low, Bit
  <2>. QED  BY <2>3, <2>4 DEF LowFacts
<1>3. ASSUME NEW n \in Nat, c < Pow2(n)
      PROVE  Low(c, n) = c
  <2>1. PICK w \in Nat \ {0} : w = Pow2(n)
    BY Pow2Facts
  <2>2. (0 * w + c) \div w = 0
    BY <1>3, <2>1, c \in 0..(w - 1)
  <2>3. c \div w = 0
    BY <2>2, 0 * w + c = c
  <2>. QED  BY <2>1, <2>3 DEF Low
<1>. QED  BY <1>1, <1>2, <1>3

LEMMA BitEquality ==
  ASSUME p = 2, NEW in \in Seq(Value), NEW c \in Nat, c < Pow2(Len(in))
  PROVE  bool_equality(in, c) = IF Index(in) = c THEN 1 ELSE 0
<1> DEFINE N == Len(in)
<1>1. PICK f : /\ AreProducts(f, in, c) /\ \A n \in 0..N : f[n] \in {0, 1}
               /\ bool_equality(in, c) = f[N]
  BY EqualIs
<1>2. in \in Seq({0, 1}) /\ N \in Nat /\ \A n \in 1..N : in[N + 1 - n] \in {0, 1}
  BY N + 1 \in Nat DEF Value
<1>3. /\ f[0] = 1
      /\ \A n \in 1..N : f[n] = IF in[N + 1 - n] = Bit(c, n) THEN f[n - 1] ELSE 0
  BY <1>1 DEF AreProducts
<1>4. /\ Rest(in, 0) = 0 /\ Rest(in, N) = Index(in)
      /\ \A n \in 0..N : RestFacts(in, n)
  BY <1>2, RestIs
<1>5. /\ Low(c, 0) = 0 /\ Low(c, N) = c
      /\ \A n \in 0..N : LowFacts(c, n)
  BY <1>2, LowIs
<1> HIDE DEF N
<1> DEFINE T == {n \in 0..N : f[n] = IF Rest(in, n) = Low(c, n) THEN 1 ELSE 0}
<1>6. 0 \in T
  BY <1>2, <1>3, <1>4, <1>5
<1>7. ASSUME NEW n \in 1..N, n - 1 \in T
      PROVE  n \in T
  <2>1. PICK w \in Nat : w = Pow2(n - 1)
    BY <1>2, Pow2Facts, n - 1 \in Nat
  <2>2. PICK b \in {0, 1} : b = in[N + 1 - n]
    BY <1>2
  <2>3. PICK t \in {0, 1} : t = Bit(c, n)
    <3>1. PICK v \in Nat \ {0} : v = Pow2(n - 1)
      BY <1>2, Pow2Facts, n - 1 \in Nat
    <3>2. (c \div v) % 2 \in {0, 1}
      BY Quotients
    <3>. QED  BY <3>1, <3>2 DEF Bit
  <2>4. n - 1 \in 0..N /\ n \in 0..N /\ n > 0
    BY <1>2
  <2>5. PICK x \in Nat : x = Rest(in, n - 1) /\ x < w
    BY <1>4, <2>1, <2>4 DEF RestFacts
  <2>6. PICK y \in Nat : y = Low(c, n - 1) /\ y < w
    BY <1>5, <2>1, <2>4 DEF LowFacts
  <2>7. Rest(in, n) = x + b * w
    BY <1>4, <2>1, <2>2, <2>4, <2>5 DEF RestFacts, N
  <2>8. Low(c, n) = y + t * w
    BY <1>5, <2>1, <2>3, <2>4, <2>6 DEF LowFacts
  <2>9. x + b * w = y + t * w <=> x = y /\ b = t
    BY <2>5, <2>6, SMTT(30)
  <2>10. f[n - 1] = IF x = y THEN 1 ELSE 0
    BY <1>7, <2>5, <2>6
  <2>11. f[n] = IF b = t THEN f[n - 1] ELSE 0
    BY <1>3, <2>2, <2>3
  <2>. QED  BY <2>4, <2>7, <2>8, <2>9, <2>10, <2>11
<1> HIDE DEF T
<1>8. N \in T
  BY <1>2, <1>6, <1>7, UpTo, N \in 0..N
<1>. QED  BY <1>1, <1>4, <1>5, <1>8 DEF T

LEMMA BoolWriteShape ==
  ASSUME RamShape, ram.boolean, NEW buffer \in Seq(Value), NEW idx \in Word(IB), NEW in \in Word(EB),
         NEW size \in Nat, Len(buffer) = size * EB
  PROVE  BoolWrite(buffer, idx, in) \in Seq(Value) /\ Len(BoolWrite(buffer, idx, in)) = Len(buffer)
<1>1. p = 2 /\ EB \in Nat \ {0} /\ IB \in Nat
  BY DEF RamShape
<1>2. idx \in Seq(Value) /\ \A j \in 1..EB : in[j] \in Value
  BY <1>1, WordIs
<1> DEFINE e(k) == LET i == (k - 1) \div EB
                       j == ((k - 1) % EB) + 1
                   IN  addGate(p, buffer[k], mulGate(p, bool_equality(idx, i), addGate(p, buffer[k], in[j])))
<1>3. ASSUME NEW k \in 1..Len(buffer)
      PROVE  e(k) \in Value
  <2>1. PICK i \in 0..(size - 1), j \in 1..EB :
          /\ k = i * EB + j /\ i = (k - 1) \div EB /\ j = ((k - 1) % EB) + 1
    BY <1>1, PlacedAt, k \in 1..(size * EB), Zenon
  <2>2. PICK x \in {0, 1} : x = bool_equality(idx, i)
    <3>1. i \in Nat /\ Len(idx) \in 0..Len(idx)
      BY <1>2
    <3>. QED  BY <1>1, <1>2, <3>1, EqualIs
  <2>3. PICK y \in {0, 1}, z \in {0, 1} : y = buffer[k] /\ z = in[j]
    BY <1>1, <1>2 DEF Value
  <2>4. (y + ((x * ((y + z) % 2)) % 2)) % 2 \in {0, 1}
    OBVIOUS
  <2>5. e(k) = addGate(2, y, mulGate(2, x, addGate(2, y, z)))
    BY <1>1, <2>1, <2>2, <2>3
  <2>. QED  BY <1>1, <2>4, <2>5 DEF addGate, mulGate, Value
<1>4. BoolWrite(buffer, idx, in) = [k \in DOMAIN buffer |-> e(k)]
  BY DEF BoolWrite, EB
<1> HIDE DEF e
<1>5. DOMAIN buffer = 1..Len(buffer) /\ Len(buffer) \in Nat
  OBVIOUS
<1>. QED  BY <1>3, <1>4, <1>5
-----------------------------------------------------------------------------
(* The calls, for which signatures leave no range too short.                *)
Same == UNCHANGED <<ram, functions, prover>> /\ undefined = {}

InitStep(h, size, fill) ==
  /\ Same /\ h \notin live /\ live' = live \cup {h}
  /\ SizeAllowed(size)
  /\ call' = [op |-> "create", on |-> h, size |-> size, element |-> fill]
  /\ undefined' = {}
  /\ buffers' = [buffers EXCEPT ![h] = Filled(size, fill)]
  /\ raw' = [raw EXCEPT ![h] = Filled(size, fill)]
  /\ sizes' = [sizes EXCEPT ![h] = size]
  /\ counter' = Allocated(size * EB)
  /\ UNCHANGED <<outs, failure, fail, odd>>

ReadStep(h, idx) ==
  /\ Same /\ h \in live /\ live' = live
  /\ call' = [op |-> "read", on |-> h, index |-> idx]
  /\ undefined' = Empty(h) \cup Beyond(h)
  /\ out' = IF OutOfRange(h, idx) THEN ZeroElement(ram) ELSE Element(h, idx)
  /\ failure' = (failure \/ OutOfRange(h, idx))
  /\ IF undefined' /= {} THEN UNCHANGED <<rawOut, fail>>
     ELSE rawOut' = RawRead(h, idx) /\ fail' = (fail \/ Failing(RawReadCheck(h, idx)))
  /\ odd' = (odd \/ OddRead(h))
  /\ counter' = Counted("read", EB)
  /\ UNCHANGED values

WriteStep(h, idx, in) ==
  /\ Same /\ h \in live /\ live' = live
  /\ call' = [op |-> "write", on |-> h, index |-> idx, element |-> in]
  /\ undefined' = Beyond(h)
  /\ buffers' = IF OutOfRange(h, idx) THEN buffers
                ELSE [buffers EXCEPT ![h] = Overwritten(h, idx, in)]
  /\ failure' = (failure \/ OutOfRange(h, idx))
  /\ IF undefined' /= {} THEN UNCHANGED <<raw, fail>>
     ELSE /\ raw' = [raw EXCEPT ![h] = RawWrite(h, idx, in)]
          /\ fail' = (fail \/ Failing(RawWriteCheck(h, idx)))
  /\ odd' = (odd \/ OddWrite(h))
  /\ counter' = Counted("write", 1)
  /\ UNCHANGED <<sizes, outs>>

DropStep(h) ==
  /\ Same /\ h \in live /\ live' = live \ {h}
  /\ call' = [op |-> "drop", on |-> h]
  /\ counter' = Released(Len(buffers[h]))
  /\ buffers' = [buffers EXCEPT ![h] = <<>>] /\ raw' = [raw EXCEPT ![h] = <<>>]
  /\ sizes' = [sizes EXCEPT ![h] = 0]
  /\ UNCHANGED <<outs, failure, fail, ghosts>>

LEMMA NotShort ==
  ASSUME RamShape, NEW n \in Nat, NEW w \in Word(n)
  PROVE  Short(w, n) = {}
BY WordIs DEF Short

LEMMA RamInitIs ==
  ASSUME RamShape, NEW h, RamInit(h)
  PROVE  \E size \in 0..MaxSize, fill \in Word(EB) : InitStep(h, size, fill)
<1>1. PICK f \in functions.init, size \in 0..MaxSize : \E fill \in Word(f.ins[1].length) :
        /\ SizeAllowed(size)
        /\ call' = [op |-> "create", on |-> h, size |-> size, element |-> fill]
        /\ undefined' = Short(fill, ram.elementBits)
        /\ IF undefined' /= {} THEN UNCHANGED <<values, counter>>
           ELSE /\ buffers' = [buffers EXCEPT ![h] = Filled(size, fill)]
                /\ raw' = [raw EXCEPT ![h] = Filled(size, fill)]
                /\ sizes' = [sizes EXCEPT ![h] = size]
                /\ counter' = Allocated(size * ram.elementBits)
  BY DEF RamInit
<1>2. f.ins[1].length = EB /\ EB \in Nat
  BY LengthsAre DEF RamShape
<1>3. PICK fill \in Word(EB) :
        /\ SizeAllowed(size)
        /\ call' = [op |-> "create", on |-> h, size |-> size, element |-> fill]
        /\ undefined' = Short(fill, EB)
        /\ IF undefined' /= {} THEN UNCHANGED <<values, counter>>
           ELSE /\ buffers' = [buffers EXCEPT ![h] = Filled(size, fill)]
                /\ raw' = [raw EXCEPT ![h] = Filled(size, fill)]
                /\ sizes' = [sizes EXCEPT ![h] = size]
                /\ counter' = Allocated(size * EB)
  BY <1>1, <1>2 DEF EB
<1>4. undefined' = {}
  BY <1>2, <1>3, NotShort
<1>5. Same /\ h \notin live /\ live' = live \cup {h} /\ UNCHANGED <<outs, failure, fail, odd>>
  BY DEF RamInit, Called, Same
<1>6. InitStep(h, size, fill)
  BY <1>3, <1>4, <1>5 DEF InitStep
<1>. QED  BY <1>6

LEMMA RamReadIs ==
  ASSUME RamShape, NEW h, RamRead(h)
  PROVE  \E idx \in Word(IB) : ReadStep(h, idx)
<1>1. PICK f \in functions.read : \E idx \in Word(f.ins[2].length) :
        /\ call' = [op |-> "read", on |-> h, index |-> idx]
        /\ undefined' = Short(idx, ram.indexBits) \cup Empty(h) \cup Beyond(h)
        /\ IF "short" \in undefined' THEN UNCHANGED <<out, failure>>
           ELSE /\ out' = IF OutOfRange(h, idx) THEN ZeroElement(ram) ELSE Element(h, idx)
                /\ failure' = (failure \/ OutOfRange(h, idx))
        /\ IF undefined' /= {} THEN UNCHANGED <<rawOut, fail>>
           ELSE rawOut' = RawRead(h, idx) /\ fail' = (fail \/ Failing(RawReadCheck(h, idx)))
  BY DEF RamRead
<1>2. f.ins[2].length = IB /\ IB \in Nat
  BY LengthsAre DEF RamShape
<1>3. PICK idx \in Word(IB) :
        /\ call' = [op |-> "read", on |-> h, index |-> idx]
        /\ undefined' = Short(idx, IB) \cup Empty(h) \cup Beyond(h)
        /\ IF "short" \in undefined' THEN UNCHANGED <<out, failure>>
           ELSE /\ out' = IF OutOfRange(h, idx) THEN ZeroElement(ram) ELSE Element(h, idx)
                /\ failure' = (failure \/ OutOfRange(h, idx))
        /\ IF undefined' /= {} THEN UNCHANGED <<rawOut, fail>>
           ELSE rawOut' = RawRead(h, idx) /\ fail' = (fail \/ Failing(RawReadCheck(h, idx)))
  BY <1>1, <1>2 DEF IB
<1>4. Short(idx, IB) = {}
  BY <1>2, NotShort
<1>5. undefined' = Empty(h) \cup Beyond(h) /\ "short" \notin undefined'
  BY <1>3, <1>4 DEF Empty, Beyond
<1>6. /\ Same /\ h \in live /\ live' = live /\ UNCHANGED values
      /\ odd' = (odd \/ OddRead(h)) /\ counter' = Counted("read", EB)
  BY DEF RamRead, Called, Same, EB
<1>7. ReadStep(h, idx)
  BY <1>3, <1>5, <1>6 DEF ReadStep
<1>. QED  BY <1>7

LEMMA RamWriteIs ==
  ASSUME RamShape, NEW h, RamWrite(h)
  PROVE  \E idx \in Word(IB), in \in Word(EB) : WriteStep(h, idx, in)
<1>1. PICK f \in functions.write : \E idx \in Word(f.ins[2].length), in \in Word(f.ins[3].length) :
        /\ call' = [op |-> "write", on |-> h, index |-> idx, element |-> in]
        /\ undefined' = Short(idx, ram.indexBits) \cup Short(in, ram.elementBits) \cup Beyond(h)
        /\ IF "short" \in undefined' THEN UNCHANGED <<buffers, failure>>
           ELSE /\ buffers' = IF OutOfRange(h, idx) THEN buffers
                              ELSE [buffers EXCEPT ![h] = Overwritten(h, idx, in)]
                /\ failure' = (failure \/ OutOfRange(h, idx))
        /\ IF undefined' /= {} THEN UNCHANGED <<raw, fail>>
           ELSE /\ raw' = [raw EXCEPT ![h] = RawWrite(h, idx, in)]
                /\ fail' = (fail \/ Failing(RawWriteCheck(h, idx)))
  BY DEF RamWrite
<1>2. f.ins[2].length = IB /\ f.ins[3].length = EB /\ IB \in Nat /\ EB \in Nat
  BY LengthsAre DEF RamShape
<1>3. PICK idx \in Word(IB), in \in Word(EB) :
        /\ call' = [op |-> "write", on |-> h, index |-> idx, element |-> in]
        /\ undefined' = Short(idx, IB) \cup Short(in, EB) \cup Beyond(h)
        /\ IF "short" \in undefined' THEN UNCHANGED <<buffers, failure>>
           ELSE /\ buffers' = IF OutOfRange(h, idx) THEN buffers
                              ELSE [buffers EXCEPT ![h] = Overwritten(h, idx, in)]
                /\ failure' = (failure \/ OutOfRange(h, idx))
        /\ IF undefined' /= {} THEN UNCHANGED <<raw, fail>>
           ELSE /\ raw' = [raw EXCEPT ![h] = RawWrite(h, idx, in)]
                /\ fail' = (fail \/ Failing(RawWriteCheck(h, idx)))
  BY <1>1, <1>2 DEF IB, EB
<1>4. Short(idx, IB) = {} /\ Short(in, EB) = {}
  BY <1>2, NotShort
<1>5. undefined' = Beyond(h) /\ "short" \notin undefined'
  BY <1>3, <1>4 DEF Beyond
<1>6. /\ Same /\ h \in live /\ live' = live /\ UNCHANGED <<sizes, outs>>
      /\ odd' = (odd \/ OddWrite(h)) /\ counter' = Counted("write", 1)
  BY DEF RamWrite, Called, Same
<1>7. WriteStep(h, idx, in)
  BY <1>3, <1>5, <1>6 DEF WriteStep
<1>. QED  BY <1>7

LEMMA RamDropIs ==
  ASSUME NEW h, RamDrop(h)
  PROVE  DropStep(h)
BY DEF RamDrop, DropStep, Called, Same
-----------------------------------------------------------------------------
(* The shape is kept.                                                       *)
LEMMA SameRam ==
  ASSUME RamShape, Same
  PROVE  /\ RamShape' /\ Value' = Value /\ EB' = EB /\ IB' = IB /\ p' = p
         /\ \A size : SizeAllowed(size)' = SizeAllowed(size)
BY DEF RamShape, Same, Value, EB, IB, p, SizeAllowed

LEMMA EmptyFits ==
  ASSUME RamShape
  PROVE  <<>> \in Seq(Value) /\ Len(<<>>) = 0 * EB /\ SizeAllowed(0)
<1>1. SizeAllowed(0)
  BY Pow2Facts DEF SizeAllowed, RamShape, IB
<1>. QED  BY <1>1 DEF RamShape

LEMMA InitShape ==
  ASSUME Init
  PROVE  Shape
<1>1. RamShape
  BY RamIs DEF Init
<1>2. \A h \in Handles : buffers[h] = <<>> /\ raw[h] = <<>> /\ sizes[h] = 0
  BY DEF Init
<1>3. ASSUME NEW h \in Handles
      PROVE  /\ BufferShape(buffers[h], h) /\ BufferShape(raw[h], h)
             /\ h \notin live => sizes[h] = 0
             /\ SizeAllowed(sizes[h])
  BY <1>1, <1>2, EmptyFits DEF BufferShape
<1>4. counter \in Counter
  BY DEF Init, Counter
<1>5. DOMAIN out = 1..EB
  BY DEF Init, ZeroElement, EB
<1>. QED  BY <1>1, <1>3, <1>4, <1>5 DEF Init, Shape

(* What is left to show of a step, of the buffers one by one.               *)
Holds(h, buffer, rawBuffer, size) ==
  /\ buffer \in Seq(Value) /\ Len(buffer) = size * EB
  /\ rawBuffer \in Seq(Value) /\ Len(rawBuffer) = size * EB
  /\ size \in Nat /\ SizeAllowed(size)

LEMMA ShapeKept ==
  ASSUME Shape, Same,
         live' \subseteq Handles, sizes' \in [Handles -> Nat],
         DOMAIN buffers' = Handles, DOMAIN raw' = Handles, DOMAIN out' = 1..EB,
         \A h \in Handles : /\ Holds(h, buffers'[h], raw'[h], sizes'[h])
                            /\ h \notin live' => sizes'[h] = 0,
         failure' \in BOOLEAN, fail' \in BOOLEAN, odd' \in BOOLEAN,
         undefined' \subseteq {"empty", "beyond_field"}, counter' \in Counter
  PROVE  Shape'
<1>1. RamShape' /\ Value' = Value /\ EB' = EB /\ \A size : SizeAllowed(size)' = SizeAllowed(size)
  BY SameRam DEF Shape
<1>2. prover' \in BOOLEAN
  BY DEF Shape, Same
<1>3. ASSUME NEW h \in Handles
      PROVE  /\ BufferShape(buffers[h], h)' /\ BufferShape(raw[h], h)'
             /\ h \notin live' => sizes'[h] = 0
             /\ SizeAllowed(sizes[h])'
  <2>1. Holds(h, buffers'[h], raw'[h], sizes'[h])
    OBVIOUS
  <2>2. SizeAllowed(sizes[h])'
    <3>1. SizeAllowed(sizes'[h])
      BY <2>1 DEF Holds
    <3>. QED  BY <3>1 DEF SizeAllowed, Same
  <2>. QED  BY <1>1, <2>1, <2>2 DEF Holds, BufferShape
<1>4. \A h \in Handles : /\ BufferShape(buffers[h], h)' /\ BufferShape(raw[h], h)'
                         /\ h \notin live' => sizes'[h] = 0
                         /\ SizeAllowed(sizes[h])'
  BY <1>3
<1>5. counter' \in Counter'
  BY DEF Counter
<1>. QED  BY <1>1, <1>2, <1>4, <1>5 DEF Shape

LEMMA ShapeOf ==
  ASSUME Shape, NEW h \in Handles
  PROVE  Holds(h, buffers[h], raw[h], sizes[h]) /\ (h \notin live => sizes[h] = 0)
<1>1. /\ BufferShape(buffers[h], h) /\ BufferShape(raw[h], h)
      /\ h \notin live => sizes[h] = 0
      /\ SizeAllowed(sizes[h]) /\ sizes[h] \in Nat
  BY DEF Shape
<1>. QED  BY <1>1 DEF BufferShape, Holds

LEMMA AllocatedIs ==
  ASSUME counter \in Counter, NEW n \in Nat
  PROVE  /\ Allocated(n) \in Counter
         /\ Allocated(n).totalAlloc = counter.totalAlloc + n
         /\ Allocated(n).currentAlloc = counter.currentAlloc + n
         /\ Allocated(n).maxAlloc =
              IF counter.currentAlloc + n > counter.maxAlloc THEN counter.currentAlloc + n
              ELSE counter.maxAlloc
<1>1. PICK i \in Nat, r \in Nat, w \in Nat, t \in Nat, c \in Int, m \in Int :
        counter = [init |-> i, read |-> r, write |-> w, totalAlloc |-> t,
                   currentAlloc |-> c, maxAlloc |-> m]
  <2>1. /\ counter.init \in Nat /\ counter.read \in Nat /\ counter.write \in Nat
        /\ counter.totalAlloc \in Nat /\ counter.currentAlloc \in Int /\ counter.maxAlloc \in Int
    BY DEF Counter
  <2>2. counter = [init |-> counter.init, read |-> counter.read, write |-> counter.write,
                   totalAlloc |-> counter.totalAlloc, currentAlloc |-> counter.currentAlloc,
                   maxAlloc |-> counter.maxAlloc]
    BY DEF Counter
  <2>. QED  BY <2>1, <2>2, Zenon
<1>2. PICK top \in Int : top = IF c + n > m THEN c + n ELSE m
  OBVIOUS
<1>3. Allocated(n) = [[[[counter EXCEPT !.init = i + 1] EXCEPT !.totalAlloc = t + n]
                         EXCEPT !.currentAlloc = c + n] EXCEPT !.maxAlloc = top]
  BY <1>1, <1>2 DEF Allocated
<1>4. Allocated(n) = [init |-> i + 1, read |-> r, write |-> w, totalAlloc |-> t + n,
                      currentAlloc |-> c + n, maxAlloc |-> top]
  BY <1>1, <1>3
<1>. QED  BY <1>1, <1>2, <1>4 DEF Counter

LEMMA CountedIs ==
  ASSUME counter \in Counter, NEW n \in Nat
  PROVE  Counted("read", n) \in Counter /\ Counted("write", n) \in Counter
<1>1. Counted("read", n) \in Counter
  BY DEF Counter, Counted
<1>2. Counted("write", n) \in Counter
  BY DEF Counter, Counted
<1>. QED  BY <1>1, <1>2

LEMMA InitStepShape ==
  ASSUME Shape, NEW h \in Handles, NEW size \in 0..MaxSize, NEW fill \in Word(EB),
         InitStep(h, size, fill)
  PROVE  Shape'
<1>1. RamShape /\ Same /\ size \in Nat /\ EB \in Nat
  BY RAMAssumption DEF Shape, InitStep, RamShape
<1>2. Holds(h, Filled(size, fill), Filled(size, fill), size)
  BY <1>1, FilledIs DEF Holds, InitStep
<1>3. sizes' \in [Handles -> Nat] /\ DOMAIN buffers' = Handles /\ DOMAIN raw' = Handles
  BY <1>1 DEF Shape, InitStep
<1>4. ASSUME NEW g \in Handles
      PROVE  Holds(g, buffers'[g], raw'[g], sizes'[g]) /\ (g \notin live' => sizes'[g] = 0)
  <2>1. CASE g = h
    <3>1. buffers'[g] = Filled(size, fill) /\ raw'[g] = Filled(size, fill) /\ sizes'[g] = size /\ g \in live'
      BY <2>1 DEF InitStep, Shape
    <3>. QED  BY <1>2, <2>1, <3>1
  <2>2. CASE g # h
    <3>1. buffers'[g] = buffers[g] /\ raw'[g] = raw[g] /\ sizes'[g] = sizes[g] /\ (g \in live' <=> g \in live)
      BY <2>2 DEF InitStep, Shape
    <3>. QED  BY <3>1, ShapeOf
  <2>. QED  BY <2>1, <2>2
<1>5. counter' \in Counter
  <2>1. PICK n \in Nat : n = size * EB
    BY <1>1
  <2>2. counter \in Counter /\ counter' = Allocated(n)
    BY <2>1 DEF Shape, InitStep
  <2>3. Allocated(n) \in Counter
    BY <2>2, AllocatedIs
  <2>. QED  BY <2>2, <2>3
<1>6. live' \subseteq Handles /\ failure' \in BOOLEAN /\ fail' \in BOOLEAN /\ odd' \in BOOLEAN
  BY DEF Shape, InitStep
<1>7. undefined' \subseteq {"empty", "beyond_field"} /\ DOMAIN out' = 1..EB
  BY DEF InitStep, Shape, outs
<1>. QED  BY <1>1, <1>3, <1>4, <1>5, <1>6, <1>7, ShapeKept

LEMMA ReadStepShape ==
  ASSUME Shape, NEW h \in Handles, NEW idx \in Word(IB), ReadStep(h, idx)
  PROVE  Shape'
<1>1. RamShape /\ Same /\ EB \in Nat
  BY DEF Shape, ReadStep, RamShape
<1>2. UNCHANGED <<buffers, raw, sizes, live>>
  BY DEF ReadStep, values
<1>3. \A g \in Handles : Holds(g, buffers'[g], raw'[g], sizes'[g]) /\ (g \notin live' => sizes'[g] = 0)
  BY <1>2, ShapeOf
<1>4. counter' \in Counter
  BY <1>1, CountedIs, 1 \in Nat DEF Shape, ReadStep
<1>5. failure' \in BOOLEAN
  BY DEF ReadStep, OutOfRange
<1>6. fail' \in BOOLEAN
  BY DEF ReadStep, Shape, Failing, assertZero
<1>7. odd' \in BOOLEAN
  BY DEF ReadStep, OddRead
<1>8. undefined' \subseteq {"empty", "beyond_field"} /\ DOMAIN out' = 1..EB
  BY DEF ReadStep, Empty, Beyond, ZeroElement, Element, EB
<1>9. /\ sizes' \in [Handles -> Nat] /\ DOMAIN buffers' = Handles /\ DOMAIN raw' = Handles
      /\ live' \subseteq Handles
  BY <1>2 DEF Shape
<1>. QED  BY <1>1, <1>3, <1>4, <1>5, <1>6, <1>7, <1>8, <1>9, ShapeKept

LEMMA RawWriteShape ==
  ASSUME Shape, NEW h \in Handles, NEW idx \in Word(IB), NEW in \in Word(EB)
  PROVE  RawWrite(h, idx, in) \in Seq(Value) /\ Len(RawWrite(h, idx, in)) = sizes[h] * EB
<1>1. RamShape /\ raw[h] \in Seq(Value) /\ Len(raw[h]) = sizes[h] * EB /\ sizes[h] \in Nat
  BY ShapeOf DEF Shape, Holds
<1>2. CASE ram.boolean
  BY <1>1, <1>2, BoolWriteShape DEF RawWrite
<1>3. CASE ~ ram.boolean
  <2>1. IB = 1 /\ EB = 1
    BY <1>1, <1>3 DEF RamShape
  <2>2. idx[1] \in Value /\ in[1] \in Value
    BY <1>1, <2>1, WordIs, 1 \in 1..1
  <2>. QED  BY <1>1, <1>3, <2>2, FLTWriteShape DEF RawWrite
<1>. QED  BY <1>2, <1>3

LEMMA WriteStepShape ==
  ASSUME Shape, NEW h \in Handles, NEW idx \in Word(IB), NEW in \in Word(EB),
         WriteStep(h, idx, in)
  PROVE  Shape'
<1>1. RamShape /\ Same /\ EB \in Nat
  BY DEF Shape, WriteStep, RamShape
<1>2. UNCHANGED <<sizes, live>>
  BY DEF WriteStep
<1>3. DOMAIN buffers' = Handles /\ DOMAIN raw' = Handles
  BY DEF WriteStep, Shape
<1>4. ASSUME NEW g \in Handles
      PROVE  Holds(g, buffers'[g], raw'[g], sizes'[g]) /\ (g \notin live' => sizes'[g] = 0)
  <2>1. Holds(g, buffers[g], raw[g], sizes[g]) /\ (g \notin live => sizes[g] = 0)
    BY ShapeOf
  <2>2. buffers'[g] = buffers[g] \/ (g = h /\ buffers'[g] = Overwritten(h, idx, in))
    BY DEF WriteStep, Shape
  <2>3. raw'[g] = raw[g] \/ (g = h /\ raw'[g] = RawWrite(h, idx, in))
    BY DEF WriteStep, Shape
  <2>4. buffers'[g] \in Seq(Value) /\ Len(buffers'[g]) = sizes[g] * EB
    BY <2>1, <2>2, OverwrittenIs DEF Holds
  <2>5. raw'[g] \in Seq(Value) /\ Len(raw'[g]) = sizes[g] * EB
    BY <2>1, <2>3, RawWriteShape DEF Holds
  <2>. QED  BY <1>2, <2>1, <2>4, <2>5 DEF Holds
<1>5. counter' \in Counter
  BY <1>1, CountedIs, 1 \in Nat DEF Shape, WriteStep
<1>6. failure' \in BOOLEAN
  BY DEF WriteStep, OutOfRange
<1>7. fail' \in BOOLEAN
  BY DEF WriteStep, Shape, Failing, assertZero
<1>8. odd' \in BOOLEAN
  BY DEF WriteStep, OddWrite
<1>9. undefined' \subseteq {"empty", "beyond_field"} /\ DOMAIN out' = 1..EB
  BY DEF WriteStep, Beyond, Shape, outs
<1>10. sizes' \in [Handles -> Nat] /\ live' \subseteq Handles
  BY <1>2 DEF Shape
<1>. QED  BY <1>1, <1>3, <1>4, <1>5, <1>6, <1>7, <1>8, <1>9, <1>10, ShapeKept

LEMMA DropStepShape ==
  ASSUME Shape, NEW h \in Handles, DropStep(h)
  PROVE  Shape'
<1>1. RamShape /\ Same /\ EB \in Nat
  BY DEF Shape, DropStep, RamShape
<1>2. sizes' \in [Handles -> Nat] /\ DOMAIN buffers' = Handles /\ DOMAIN raw' = Handles
  BY DEF Shape, DropStep
<1>3. ASSUME NEW g \in Handles
      PROVE  Holds(g, buffers'[g], raw'[g], sizes'[g]) /\ (g \notin live' => sizes'[g] = 0)
  <2>1. CASE g = h
    <3>1. buffers'[g] = <<>> /\ raw'[g] = <<>> /\ sizes'[g] = 0
      BY <2>1 DEF DropStep, Shape
    <3>. QED  BY <1>1, <3>1, EmptyFits DEF Holds
  <2>2. CASE g # h
    <3>1. buffers'[g] = buffers[g] /\ raw'[g] = raw[g] /\ sizes'[g] = sizes[g] /\ (g \in live' <=> g \in live)
      BY <2>2 DEF DropStep, Shape
    <3>. QED  BY <3>1, ShapeOf
  <2>. QED  BY <2>1, <2>2
<1>4. counter' \in Counter
  <2>1. PICK n \in Nat : n = Len(buffers[h])
    BY ShapeOf DEF Holds
  <2>2. counter \in Counter /\ counter' = Released(n)
    BY <2>1 DEF Shape, DropStep
  <2>. QED  BY <2>2 DEF Counter, Released
<1>5. /\ live' \subseteq Handles /\ failure' \in BOOLEAN /\ fail' \in BOOLEAN /\ odd' \in BOOLEAN
      /\ undefined' \subseteq {"empty", "beyond_field"} /\ DOMAIN out' = 1..EB
  BY DEF Shape, DropStep, ghosts, outs
<1>. QED  BY <1>1, <1>2, <1>3, <1>4, <1>5, ShapeKept
-----------------------------------------------------------------------------
(* firealarm's RAM is an array.                                             *)
LEMMA RangeIs ==
  ASSUME Shape, NEW h \in Handles, NEW idx \in Word(IB)
  PROVE  /\ Index(idx) \in Nat
         /\ OutOfRange(h, idx) <=> Index(idx) >= sizes[h]
         /\ Element(h, idx) = ElementAt(buffers[h], EB, Index(idx) + 1)
<1>1. IB \in Nat /\ EB \in Nat \ {0} /\ RamShape
  BY DEF Shape, RamShape
<1>2. Index(idx) \in Nat
  BY <1>1, WordIs, IndexIs
<1>3. sizes[h] \in Nat /\ Len(buffers[h]) = sizes[h] * EB
  BY ShapeOf DEF Holds
<1>4. OutOfRange(h, idx) <=> Index(idx) >= sizes[h]
  BY <1>1, <1>2, <1>3, ProductOrder, SMTT(30) DEF OutOfRange, EB
<1>5. (Index(idx) + 1) - 1 = Index(idx)
  BY <1>2
<1>6. Element(h, idx) = ElementAt(buffers[h], EB, Index(idx) + 1)
  BY <1>5 DEF Element, ElementAt, Place, EB
<1>. QED  BY <1>2, <1>4, <1>6

Elements == UNION {[1..r.elementBits -> 0..(r.p - 1)] : r \in Rams}
Zeros == {ZeroElement(r) : r \in Rams}
Indices == UNION {{Number(idx) : idx \in [1..r.indexBits -> 0..(r.p - 1)]} : r \in Rams}

LEMMA CallsAre ==
  ASSUME RamShape
  PROVE  /\ Word(EB) \subseteq Elements /\ ZeroElement(ram) \in Zeros
         /\ \A idx \in Word(IB) : Number(idx) \in Indices
<1>1. ram \in Rams
  BY DEF RamShape
<1>2. Word(EB) \subseteq Elements /\ ZeroElement(ram) \in Zeros
  BY <1>1 DEF Elements, Zeros, Word, p, EB
<1>3. ASSUME NEW idx \in Word(IB)
      PROVE  Number(idx) \in Indices
  <2>1. idx \in [1..ram.indexBits -> 0..(ram.p - 1)]
    BY DEF Word, p, IB
  <2>. QED  BY <1>1, <2>1 DEF Indices
<1>. QED  BY <1>2, <1>3

(* The number an index stands for, and what a call is with it.              *)
LEMMA IndexMeans ==
  ASSUME RamShape, NEW idx \in Word(IB)
  PROVE  Number(idx) = Index(idx) /\ Index(idx) \in Nat
BY WordIs, NumberIs, IndexIs DEF RamShape

LEMMA MeantNext ==
  /\ \A h, size, e :
       call' = [op |-> "create", on |-> h, size |-> size, element |-> e] =>
         Meant' = [op |-> "create", on |-> h, size |-> size, element |-> e]
  /\ \A h, idx :
       call' = [op |-> "read", on |-> h, index |-> idx] =>
         Meant' = [op |-> "read", on |-> h, index |-> Number(idx)]
  /\ \A h, idx, e :
       call' = [op |-> "write", on |-> h, index |-> idx, element |-> e] =>
         Meant' = [op |-> "write", on |-> h, index |-> Number(idx), element |-> e]
  /\ \A h : call' = [op |-> "drop", on |-> h] => Meant' = [op |-> "drop", on |-> h]
<1>1. ASSUME NEW h, NEW size, NEW e, call' = [op |-> "create", on |-> h, size |-> size, element |-> e]
      PROVE  Meant' = [op |-> "create", on |-> h, size |-> size, element |-> e]
  BY <1>1 DEF Meant
<1>2. ASSUME NEW h, NEW idx, call' = [op |-> "read", on |-> h, index |-> idx]
      PROVE  Meant' = [op |-> "read", on |-> h, index |-> Number(idx)]
  BY <1>2 DEF Meant
<1>3. ASSUME NEW h, NEW idx, NEW e,
             call' = [op |-> "write", on |-> h, index |-> idx, element |-> e]
      PROVE  Meant' = [op |-> "write", on |-> h, index |-> Number(idx), element |-> e]
  BY <1>3 DEF Meant
<1>4. ASSUME NEW h, call' = [op |-> "drop", on |-> h]
      PROVE  Meant' = [op |-> "drop", on |-> h]
  BY <1>4 DEF Meant
<1>. QED  BY <1>1, <1>2, <1>3, <1>4

Arrays == [h \in Handles |-> ElementsOf(h)]

(* One step of the array after another.                                     *)
LEMMA InitMaps ==
  ASSUME Init, Shape
  PROVE  Array!Init
<1>1. ASSUME NEW h \in Handles
      PROVE  ElementsOf(h) = <<>>
  <2>1. ElementsOf(h) = [i \in 1..sizes[h] |-> ElementAt(buffers[h], EB, i)] /\ sizes[h] = 0
    BY ArrayIs DEF Init
  <2>. QED  BY <2>1
<1>2. Arrays = [h \in Handles |-> <<>>]
  BY <1>1 DEF Arrays
<1>3. out \in Zeros
  BY DEF Init, Zeros
<1>4. Meant = [op |-> "none"]
  BY DEF Init, Meant
<1>. QED  BY <1>2, <1>3, <1>4 DEF Array!Init, Init, Arrays, Zeros, Array!report

LEMMA ArraysNext ==
  ASSUME Shape, Shape', Same, NEW h \in Handles,
         \A g \in Handles : g # h => buffers'[g] = buffers[g] /\ sizes'[g] = sizes[g]
  PROVE  Arrays' = [Arrays EXCEPT ![h] = ElementsOf(h)']
<1>1. EB' = EB
  BY SameRam DEF Shape
<1>2. ASSUME NEW g \in Handles, g # h
      PROVE  ElementsOf(g)' = ElementsOf(g)
  BY <1>1, <1>2 DEF ElementsOf, Place, EB
<1>3. Arrays' = [g \in Handles |-> ElementsOf(g)']
  BY DEF Arrays
<1>4. \A g \in Handles : Arrays[g] = ElementsOf(g)
  BY DEF Arrays
<1>. QED  BY <1>2, <1>3, <1>4 DEF Arrays

LEMMA InitCreates ==
  ASSUME Shape, Shape', NEW h \in Handles, NEW size \in 0..MaxSize, NEW fill \in Word(EB),
         InitStep(h, size, fill)
  PROVE  Array!Create(h, size, fill)
<1>1. /\ RamShape /\ Same /\ size \in Nat /\ EB \in Nat \ {0} /\ MaxSize \in Nat
      /\ fill \in Elements /\ Len(fill) = EB
  BY RAMAssumption, CallsAre, WordIs DEF Shape, InitStep, RamShape
<1>2. ElementsOf(h)' = [i \in 1..size |-> fill]
  <2>1. EB' = EB
    BY <1>1, SameRam
  <2>2. buffers'[h] = Filled(size, fill) /\ sizes'[h] = size
    BY DEF InitStep, Shape
  <2>3. ElementsOf(h)' = Elems(Filled(size, fill), size, EB)
    BY <2>1, <2>2 DEF ElementsOf, Place, EB, Elems
  <2>. QED  BY <1>1, <2>3, FilledIs
<1>3. \A g \in Handles : g # h => buffers'[g] = buffers[g] /\ sizes'[g] = sizes[g]
  BY DEF InitStep, Shape
<1>4. Arrays' = [Arrays EXCEPT ![h] = [i \in 1..size |-> fill]]
  BY <1>1, <1>2, <1>3, ArraysNext
<1>5. PICK n \in Nat : n = size * EB /\ n = size * Len(fill)
  BY <1>1
<1>6. /\ counter'.totalAlloc = counter.totalAlloc + n
      /\ counter'.currentAlloc = counter.currentAlloc + n
      /\ counter'.maxAlloc = IF counter'.currentAlloc > counter.maxAlloc THEN counter'.currentAlloc
                             ELSE counter.maxAlloc
  <2>1. counter \in Counter /\ counter' = Allocated(n)
    BY <1>5 DEF InitStep, Shape
  <2>. QED  BY <2>1, AllocatedIs
<1>7. /\ h \notin live /\ live' = live \cup {h} /\ UNCHANGED <<out, failure>>
      /\ Meant' = [op |-> "create", on |-> h, size |-> size, element |-> fill]
  BY MeantNext DEF InitStep, outs
<1>. QED  BY <1>4, <1>5, <1>6, <1>7 DEF Array!Create, Arrays

LEMMA ReadReads ==
  ASSUME Shape, Shape', NEW h \in Handles, NEW idx \in Word(IB), ReadStep(h, idx)
  PROVE  Array!Read(h, Number(idx))
<1>1. RamShape /\ Same /\ Index(idx) \in Nat /\ Number(idx) = Index(idx)
  BY IndexMeans DEF Shape, ReadStep
<1>2. Arrays' = Arrays
  BY SameRam DEF Arrays, ElementsOf, Place, ReadStep, values, Shape, EB
<1>3. /\ h \in live /\ live' = live
      /\ Meant' = [op |-> "read", on |-> h, index |-> Number(idx)]
  BY MeantNext DEF ReadStep
<1>4. /\ counter'.totalAlloc = counter.totalAlloc
      /\ counter'.currentAlloc = counter.currentAlloc
      /\ counter'.maxAlloc = counter.maxAlloc
  BY DEF ReadStep, Counted, Shape, Counter
<1>5. /\ Len(Arrays[h]) = sizes[h] /\ sizes[h] \in Nat
      /\ \A i \in 1..sizes[h] : Arrays[h][i] = ElementAt(buffers[h], EB, i)
  BY ArrayIs, ShapeOf DEF Arrays, Holds
<1>6. Array!Beyond(h, Number(idx)) <=> OutOfRange(h, idx)
  BY <1>1, <1>5, RangeIs DEF Array!Beyond, Arrays
<1>7. out' = IF OutOfRange(h, idx) THEN [j \in DOMAIN out |-> 0] ELSE Arrays[h][Number(idx) + 1]
  <2>1. ZeroElement(ram) = [j \in DOMAIN out |-> 0]
    BY DEF Shape, ZeroElement, EB
  <2>2. CASE OutOfRange(h, idx)
    BY <2>1, <2>2 DEF ReadStep
  <2>3. CASE ~ OutOfRange(h, idx)
    <3>1. Index(idx) + 1 \in 1..sizes[h]
      BY <1>1, <1>5, <2>3, RangeIs
    <3>. QED  BY <1>1, <1>5, <2>3, <3>1, RangeIs DEF ReadStep
  <2>. QED  BY <2>2, <2>3
<1>8. failure' = (failure \/ OutOfRange(h, idx))
  BY DEF ReadStep
<1>. QED  BY <1>2, <1>3, <1>4, <1>6, <1>7, <1>8 DEF Array!Read, Array!report, Arrays

LEMMA WriteWrites ==
  ASSUME Shape, Shape', NEW h \in Handles, NEW idx \in Word(IB), NEW in \in Word(EB),
         WriteStep(h, idx, in)
  PROVE  Array!Write(h, Number(idx), in)
<1>1. /\ RamShape /\ Same /\ Index(idx) \in Nat /\ Number(idx) = Index(idx)
      /\ EB \in Nat \ {0} /\ in \in [1..EB -> Value]
  BY IndexMeans, WordIs DEF Shape, WriteStep, RamShape
<1>2. /\ h \in live /\ live' = live /\ out' = out
      /\ Meant' = [op |-> "write", on |-> h, index |-> Number(idx), element |-> in]
      /\ failure' = (failure \/ OutOfRange(h, idx))
  BY MeantNext DEF WriteStep, outs
<1>3. /\ counter'.totalAlloc = counter.totalAlloc
      /\ counter'.currentAlloc = counter.currentAlloc
      /\ counter'.maxAlloc = counter.maxAlloc
  BY DEF WriteStep, Counted, Shape, Counter
<1>4. /\ Len(Arrays[h]) = sizes[h] /\ sizes[h] \in Nat /\ Arrays[h] = ElementsOf(h)
      /\ \A i \in 1..sizes[h] : Arrays[h][i] = ElementAt(buffers[h], EB, i)
  BY ArrayIs, ShapeOf DEF Arrays, Holds
<1>5. EB' = EB
  BY <1>1, SameRam
<1>6. Array!Beyond(h, Number(idx)) <=> OutOfRange(h, idx)
  BY <1>1, <1>4, RangeIs DEF Array!Beyond, Arrays
<1>7. CASE OutOfRange(h, idx)
  <2>1. Arrays' = Arrays
    BY <1>5, <1>7 DEF Arrays, ElementsOf, Place, EB, WriteStep
  <2>. QED  BY <1>2, <1>3, <1>6, <1>7, <2>1 DEF Array!Write, Array!report, Arrays
<1>8. CASE ~ OutOfRange(h, idx)
  <2> DEFINE k == Index(idx) + 1
             new == Overwritten(h, idx, in)
  <2>1. k \in 1..sizes[h]
    BY <1>1, <1>4, <1>8, RangeIs
  <2>2. buffers'[h] = new /\ sizes'[h] = sizes[h]
    BY <1>8 DEF WriteStep, Shape
  <2>3. /\ new \in Seq(Value) /\ Len(new) = sizes[h] * EB
        /\ \A i \in 0..(sizes[h] - 1) : \A j \in 1..EB :
             new[i * EB + j] = IF i = Index(idx) THEN in[j] ELSE buffers[h][i * EB + j]
    BY OverwrittenIs
  <2> HIDE DEF new
  <2>4. ElementsOf(h)' = Elems(new, sizes[h], EB)
    BY <1>5, <2>2 DEF ElementsOf, Place, EB, Elems
  <2>5. ElementsOf(h)' = [i \in 1..sizes[h] |-> ElementAt(new, EB, i)]
    BY <1>1, <1>4, <2>3, <2>4, ElemsAre
  <2>6. ASSUME NEW i \in 1..sizes[h]
        PROVE  ElementAt(new, EB, i) = IF i = k THEN in ELSE Arrays[h][i]
    <3>1. i - 1 \in 0..(sizes[h] - 1) /\ (i - 1 = Index(idx) <=> i = k)
      BY <1>1, <1>4
    <3>2. \A j \in 1..EB : new[(i - 1) * EB + j] = IF i = k THEN in[j] ELSE buffers[h][(i - 1) * EB + j]
      BY <2>3, <3>1
    <3>3. CASE i = k
      <4>1. ElementAt(new, EB, i) = [j \in 1..EB |-> in[j]]
        BY <3>2, <3>3 DEF ElementAt
      <4>. QED  BY <1>1, <3>3, <4>1
    <3>4. CASE i # k
      <4>1. ElementAt(new, EB, i) = ElementAt(buffers[h], EB, i)
        BY <3>2, <3>4 DEF ElementAt
      <4>. QED  BY <1>4, <3>4, <4>1
    <3>. QED  BY <3>3, <3>4
  <2>7. ElementsOf(h)' = [Arrays[h] EXCEPT ![k] = in]
    <3>1. Arrays[h] = [i \in 1..sizes[h] |-> ElementAt(buffers[h], EB, i)]
      BY <1>4, ArrayIs
    <3> HIDE DEF k, Arrays
    <3>. QED  BY <1>4, <2>5, <2>6, <3>1
  <2>8. \A g \in Handles : g # h => buffers'[g] = buffers[g] /\ sizes'[g] = sizes[g]
    BY DEF WriteStep, Shape
  <2>9. Arrays' = [Arrays EXCEPT ![h] = [Arrays[h] EXCEPT ![k] = in]]
    BY <1>1, <2>7, <2>8, ArraysNext
  <2>10. Arrays' = [Arrays EXCEPT ![h][Number(idx) + 1] = in]
    BY <1>1, <2>9
  <2>. QED  BY <1>2, <1>3, <1>6, <1>8, <2>10 DEF Array!Write, Array!report, Arrays
<1>. QED  BY <1>7, <1>8

LEMMA DropDrops ==
  ASSUME Shape, Shape', NEW h \in Handles, DropStep(h)
  PROVE  Array!Drop(h)
<1>1. RamShape /\ Same /\ EB \in Nat \ {0} /\ EB' = EB
  BY SameRam DEF Shape, DropStep, RamShape
<1>2. ElementsOf(h)' = <<>>
  <2>1. sizes'[h] = 0
    BY DEF DropStep, Shape
  <2>. QED  BY <2>1 DEF ElementsOf
<1>3. \A g \in Handles : g # h => buffers'[g] = buffers[g] /\ sizes'[g] = sizes[g]
  BY DEF DropStep, Shape
<1>4. Arrays' = [Arrays EXCEPT ![h] = <<>>]
  BY <1>1, <1>2, <1>3, ArraysNext
<1>5. /\ Arrays[h] = [i \in 1..sizes[h] |-> ElementAt(buffers[h], EB, i)]
      /\ Len(Arrays[h]) = sizes[h] /\ sizes[h] \in Nat
      /\ Len(buffers[h]) = sizes[h] * EB
  BY ArrayIs, ShapeOf DEF Arrays, Holds
<1>6. PICK n \in Nat : n = sizes[h] * EB
  BY <1>1, <1>5
<1>7. (IF Arrays[h] = <<>> THEN 0 ELSE Len(Arrays[h]) * Len(Arrays[h][1])) = n
  <2>1. CASE sizes[h] = 0
    <3>1. Arrays[h] = <<>> /\ n = 0
      BY <1>1, <1>5, <1>6, <2>1
    <3>. QED  BY <3>1
  <2>2. CASE sizes[h] # 0
    <3>1. 1 \in 1..sizes[h] /\ Len(Arrays[h]) # 0
      BY <1>5, <2>2
    <3>2. Len(Arrays[h][1]) = EB
      <4>1. Arrays[h][1] = [j \in 1..EB |-> buffers[h][(1 - 1) * EB + j]]
        BY <1>5, <3>1 DEF ElementAt
      <4>. QED  BY <1>1, <4>1
    <3>3. Arrays[h] # <<>>
      BY <3>1, Len(<<>>) = 0
    <3>. QED  BY <1>5, <1>6, <3>2, <3>3
  <2>. QED  BY <2>1, <2>2
<1>8. /\ counter'.totalAlloc = counter.totalAlloc
      /\ counter'.currentAlloc = counter.currentAlloc - n
      /\ counter'.maxAlloc = counter.maxAlloc
  BY <1>5, <1>6 DEF DropStep, Released, Shape, Counter
<1>9. /\ h \in live /\ live' = live \ {h} /\ UNCHANGED <<out, failure>>
      /\ Meant' = [op |-> "drop", on |-> h]
  BY MeantNext DEF DropStep, outs
<1>. QED  BY <1>4, <1>7, <1>8, <1>9 DEF Array!Drop, Arrays

LEMMA ShapeStep ==
  ASSUME Shape, [Next]_vars
  PROVE  Shape'
<1>1. RamShape
  BY DEF Shape
<1>2. ASSUME NEW h \in Handles, RamInit(h)
      PROVE  Shape'
  BY <1>1, <1>2, RamInitIs, InitStepShape
<1>3. ASSUME NEW h \in Handles, RamRead(h)
      PROVE  Shape'
  BY <1>1, <1>3, RamReadIs, ReadStepShape
<1>4. ASSUME NEW h \in Handles, RamWrite(h)
      PROVE  Shape'
  BY <1>1, <1>4, RamWriteIs, WriteStepShape
<1>5. ASSUME NEW h \in Handles, RamDrop(h)
      PROVE  Shape'
  BY <1>5, RamDropIs, DropStepShape
<1>6. CASE UNCHANGED vars
  BY <1>6 DEF Shape, RamShape, BufferShape, SizeAllowed, Value, IB, EB, p, vars, values, outs,
              ghosts, Counter
<1>. QED  BY <1>2, <1>3, <1>4, <1>5, <1>6 DEF Next

LEMMA StepMaps ==
  ASSUME Shape, Shape', [Next]_vars
  PROVE  [Array!Next]_<<live, Arrays, Meant, out, failure, Array!report>>
<1>1. RamShape
  BY DEF Shape
<1>2. ASSUME NEW h \in Handles, RamInit(h)
      PROVE  Array!Next
  <2>1. PICK size \in 0..MaxSize, fill \in Word(EB) : InitStep(h, size, fill)
    BY <1>1, <1>2, RamInitIs
  <2>2. fill \in Elements
    BY <1>1, CallsAre
  <2>3. Array!Create(h, size, fill)
    BY <2>1, InitCreates
  <2>. QED  BY <2>2, <2>3 DEF Array!Next, Elements
<1>3. ASSUME NEW h \in Handles, RamRead(h)
      PROVE  Array!Next
  <2>1. PICK idx \in Word(IB) : ReadStep(h, idx)
    BY <1>1, <1>3, RamReadIs
  <2>2. Number(idx) \in Indices /\ Array!Read(h, Number(idx))
    BY <1>1, <2>1, CallsAre, ReadReads
  <2>. QED  BY <2>2 DEF Array!Next, Indices
<1>4. ASSUME NEW h \in Handles, RamWrite(h)
      PROVE  Array!Next
  <2>1. PICK idx \in Word(IB), in \in Word(EB) : WriteStep(h, idx, in)
    BY <1>1, <1>4, RamWriteIs
  <2>2. Number(idx) \in Indices /\ in \in Elements /\ Array!Write(h, Number(idx), in)
    BY <1>1, <2>1, CallsAre, WriteWrites
  <2>. QED  BY <2>2 DEF Array!Next, Indices, Elements
<1>5. ASSUME NEW h \in Handles, RamDrop(h)
      PROVE  Array!Next
  BY <1>5, RamDropIs, DropDrops DEF Array!Next
<1>6. CASE UNCHANGED vars
  <2>1. Arrays' = Arrays /\ Meant' = Meant
    BY <1>6 DEF Arrays, ElementsOf, Place, vars, values, Meant
  <2>. QED  BY <1>6, <2>1 DEF vars, outs, Array!report
<1>. QED  BY <1>2, <1>3, <1>4, <1>5, <1>6 DEF Next

(* firealarm's RAM is an array per buffer, whatever the sizes of elements   *)
(* and indexes and the field (RAM.t.h): a read gives the element at the     *)
(* number that the call's index wires stand for, as it was last written or  *)
(* as init left it; a write puts the call's element at its number and       *)
(* leaves all others; a number beyond the buffer, and no other, fails; and  *)
(* allocations are counted.                                                 *)
THEOREM RamIsArray == Spec => IsArray
<1>1. Init => Shape /\ Array!Init
  BY InitShape, InitMaps
<1>2. Shape /\ [Next]_vars => Shape'
  BY ShapeStep
<1>3. Shape /\ Shape' /\ [Next]_vars =>
        [Array!Next]_<<live, Arrays, Meant, out, failure, Array!report>>
  BY StepMaps
<1>. QED  BY <1>1, <1>2, <1>3, PTL DEF Spec, IsArray, Array!Spec, Array!vars, Arrays
-----------------------------------------------------------------------------
(* The tree over the bits of the selector.                                  *)
LEMMA MuxGates ==
  ASSUME NEW x \in {0, 1}, NEW y \in {0, 1}, NEW bit \in {0, 1}
  PROVE  /\ oneMux(x, bit) = IF bit = 0 THEN x ELSE 0
         /\ twoMux(x, y, bit) = IF bit = 0 THEN x ELSE y
BY DEF oneMux, twoMux, mulGate, addGate, addcGate

TreeDef(f, bits, cases) ==
  f = [b \in 1..Len(bits) |->
        [tree \in Subtrees(Len(cases)) |->
           IF b = 1 THEN FirstLevel(bits, cases, tree)
           ELSE Level(bits, b, f[b - 1], tree)]]

AreLevels(f, bits, cases) ==
  /\ DOMAIN f = 1..Len(bits)
  /\ f[1] = [tree \in Subtrees(Len(cases)) |-> FirstLevel(bits, cases, tree)]
  /\ \A b \in 2..Len(bits) :
       f[b] = [tree \in Subtrees(Len(cases)) |-> Level(bits, b, f[b - 1], tree)]

LEMMA LevelsAre ==
  ASSUME NEW bits \in Seq({0, 1}), Len(bits) > 0, NEW cases \in Seq({0, 1}), NEW f
  PROVE  /\ AreLevels(f, bits, cases) /\ f = [b \in 1..Len(bits) |-> f[b]] => TreeDef(f, bits, cases)
         /\ TreeDef(f, bits, cases) => AreLevels(f, bits, cases)
<1> DEFINE N == Len(bits)
           S == Subtrees(Len(cases))
           e(b) == [tree \in S |-> IF b = 1 THEN FirstLevel(bits, cases, tree)
                                   ELSE Level(bits, b, f[b - 1], tree)]
<1>1. N \in Nat /\ 1 \in 1..N /\ \A b \in 1..N : b = 1 \/ (b # 1 /\ b \in 2..N)
  OBVIOUS
<1>2. e(1) = [tree \in S |-> FirstLevel(bits, cases, tree)]
  OBVIOUS
<1>3. ASSUME NEW b \in 2..N
      PROVE  b # 1 /\ b \in 1..N /\ e(b) = [tree \in S |-> Level(bits, b, f[b - 1], tree)]
  OBVIOUS
<1>4. TreeDef(f, bits, cases) <=> f = [b \in 1..N |-> e(b)]
  BY DEF TreeDef
<1>5. AreLevels(f, bits, cases) <=> DOMAIN f = 1..N /\ f[1] = e(1) /\ \A b \in 2..N : f[b] = e(b)
  BY <1>2, <1>3 DEF AreLevels
<1> HIDE DEF e, N
<1>6. TreeDef(f, bits, cases) => AreLevels(f, bits, cases)
  BY <1>1, <1>3, <1>4, <1>5
<1>7. ASSUME AreLevels(f, bits, cases), f = [b \in 1..N |-> f[b]]
      PROVE  f = [b \in 1..N |-> e(b)]
  <2>1. \A b \in 1..N : f[b] = e(b)
    BY <1>1, <1>5, <1>7
  <2>. QED  BY <1>7, <2>1
<1>. QED  BY <1>4, <1>6, <1>7 DEF N

LEMMA LevelFits ==
  ASSUME NEW bits \in Seq({0, 1}), NEW cases \in Seq({0, 1}),
         NEW b \in 2..Len(bits), NEW below \in [Subtrees(Len(cases)) -> {0, 1}],
         NEW tree \in Subtrees(Len(cases))
  PROVE  /\ tree[2] <= Pow2(b - 1) => <<tree[1], tree[2]>> \in Subtrees(Len(cases))
         /\ tree[2] > Pow2(b - 1) =>
              /\ <<tree[1], Pow2(b - 1)>> \in Subtrees(Len(cases))
              /\ <<tree[1] + Pow2(b - 1), tree[2] - Pow2(b - 1)>> \in Subtrees(Len(cases))
         /\ Level(bits, b, below, tree) \in {0, 1}
<1>1. PICK half \in Nat \ {0} : half = Pow2(b - 1)
  BY Pow2Facts, b - 1 \in Nat
<1>2. PICK size \in Nat : size = Len(cases)
  OBVIOUS
<1>3. PICK first \in 1..size, n \in 1..size :
        tree = <<first, n>> /\ tree[1] = first /\ tree[2] = n /\ first + n - 1 <= size
  BY <1>2 DEF Subtrees
<1>4. \A x, y \in 1..size : x + y - 1 <= size => <<x, y>> \in Subtrees(size)
  BY DEF Subtrees
<1>4a. <<first, n>> \in Subtrees(size)
  BY <1>3, <1>4
<1>5. ASSUME n > half
      PROVE  <<first, half>> \in Subtrees(size) /\ <<first + half, n - half>> \in Subtrees(size)
  <2>1. /\ half \in 1..size /\ first + half - 1 <= size
        /\ first + half \in 1..size /\ n - half \in 1..size /\ (first + half) + (n - half) - 1 <= size
    <3>1. half \in Nat /\ half >= 1 /\ first \in Nat /\ first >= 1 /\ n \in Nat /\ n <= size /\ n > half
          /\ first + n - 1 <= size
      BY <1>1, <1>3, <1>5
    <3>. QED  BY <3>1, SMTT(30)
  <2>. QED  BY <1>3, <1>4, <2>1, Zenon
<1>6. bits[Len(bits) - b + 1] \in {0, 1}
  BY Len(bits) - b + 1 \in 1..Len(bits)
<1>7. Level(bits, b, below, tree) \in {0, 1}
  <2>1. CASE n <= half
    <3>1. below[<<first, n>>] \in {0, 1}
      BY <1>2, <1>4a
    <3>2. Level(bits, b, below, tree) = twoMux(below[<<first, n>>], 0, bits[Len(bits) - b + 1])
      BY <1>1, <1>3, <2>1 DEF Level
    <3>. QED  BY <1>6, <3>1, <3>2, MuxGates
  <2>2. CASE n > half
    <3>1. below[<<first, half>>] \in {0, 1} /\ below[<<first + half, n - half>>] \in {0, 1}
      BY <1>2, <1>5, <2>2
    <3>2. Level(bits, b, below, tree) =
            twoMux(below[<<first, half>>], below[<<first + half, n - half>>], bits[Len(bits) - b + 1])
      BY <1>1, <1>3, <2>2 DEF Level
    <3>. QED  BY <1>6, <3>1, <3>2, MuxGates
  <2>. QED  BY <1>1, <1>3, <2>1, <2>2
<1>. QED  BY <1>1, <1>2, <1>3, <1>4a, <1>5, <1>7

LEMMA FirstLevelFits ==
  ASSUME NEW bits \in Seq({0, 1}), Len(bits) > 0, NEW cases \in Seq({0, 1}),
         NEW tree \in Subtrees(Len(cases))
  PROVE  /\ FirstLevel(bits, cases, tree) \in {0, 1}
         /\ tree[2] = 1 => FirstLevel(bits, cases, tree) = IF bits[Len(bits)] = 0 THEN cases[tree[1]] ELSE 0
         /\ tree[2] > 1 => FirstLevel(bits, cases, tree) =
                             IF bits[Len(bits)] = 0 THEN cases[tree[1]] ELSE cases[tree[1] + 1]
<1>1. PICK size \in Nat : size = Len(cases)
  OBVIOUS
<1>2. PICK first \in 1..size, n \in 1..size :
        tree = <<first, n>> /\ tree[1] = first /\ tree[2] = n /\ first + n - 1 <= size
  BY <1>1 DEF Subtrees
<1>3. bits[Len(bits)] \in {0, 1} /\ cases[first] \in {0, 1}
  BY <1>1
<1>4. CASE n = 1
  <2>1. FirstLevel(bits, cases, tree) = oneMux(cases[first], bits[Len(bits)])
    BY <1>2, <1>4 DEF FirstLevel
  <2>. QED  BY <1>2, <1>3, <1>4, <2>1, MuxGates
<1>5. CASE n > 1
  <2>1. cases[first + 1] \in {0, 1}
    BY <1>1, <1>2, <1>5, first + 1 \in 1..Len(cases)
  <2>2. FirstLevel(bits, cases, tree) = twoMux(cases[first], cases[first + 1], bits[Len(bits)])
    BY <1>2, <1>5 DEF FirstLevel
  <2>. QED  BY <1>2, <1>3, <1>5, <2>1, <2>2, MuxGates
<1>. QED  BY <1>4, <1>5

LEMMA LevelsExist ==
  ASSUME NEW bits \in Seq({0, 1}), Len(bits) > 0, NEW cases \in Seq({0, 1})
  PROVE  \E f : TreeDef(f, bits, cases)
<1> DEFINE N == Len(bits) - 1
           S == Subtrees(Len(cases))
           T == [S -> {0, 1}]
           start == [tree \in S |-> FirstLevel(bits, cases, tree)]
           step == [b \in 1..N |-> [below \in T |-> [tree \in S |-> Level(bits, b + 1, below, tree)]]]
<1>1. N \in Nat /\ Len(bits) = N + 1 /\ \A b \in 1..N : b + 1 \in 2..Len(bits)
  OBVIOUS
<1> HIDE DEF N
<1>2. start \in T
  BY FirstLevelFits
<1>3. \A b \in 1..N : \A below \in T : \A tree \in S : Level(bits, b + 1, below, tree) \in {0, 1}
  BY <1>1, LevelFits
<1>4. step \in [1..N -> [T -> T]]
  BY <1>3
<1>5. /\ \A tree \in S : start[tree] = FirstLevel(bits, cases, tree)
      /\ start = [tree \in S |-> FirstLevel(bits, cases, tree)]
      /\ \A b \in 1..N : \A below \in T :
           step[b][below] = [tree \in S |-> Level(bits, b + 1, below, tree)]
  OBVIOUS
<1> HIDE DEF start, step
<1>6. PICK g \in [0..N -> T] : IteratesAt(g, N, start, step)
  BY <1>1, <1>2, <1>4, IterationAtExists, Zenon
<1>7. g[0] = start /\ \A b \in 1..N : g[b] = step[b][g[b - 1]]
  BY <1>1, <1>6 DEF IteratesAt
<1> DEFINE f == [b \in 1..Len(bits) |-> g[b - 1]]
<1>8. f[1] = [tree \in S |-> FirstLevel(bits, cases, tree)]
  BY <1>1, <1>5, <1>7, f[1] = g[1 - 1]
<1>9. ASSUME NEW b \in 2..Len(bits)
      PROVE  f[b] = [tree \in S |-> Level(bits, b, f[b - 1], tree)]
  <2>1. b - 1 \in 1..N /\ (b - 1) + 1 = b /\ b - 1 \in 1..Len(bits) /\ (b - 1) - 1 \in 0..N
    BY <1>1
  <2>2. f[b] = g[b - 1] /\ f[b - 1] = g[(b - 1) - 1]
    BY <2>1
  <2> HIDE DEF f
  <2>3. g[(b - 1) - 1] \in T
    BY <1>6, <2>1
  <2>4. step[b - 1][g[(b - 1) - 1]] = [tree \in S |-> Level(bits, (b - 1) + 1, g[(b - 1) - 1], tree)]
    BY <1>5, <2>1, <2>3
  <2>5. g[b - 1] = step[b - 1][g[(b - 1) - 1]]
    BY <1>7, <2>1
  <2>. QED  BY <2>1, <2>2, <2>4, <2>5
<1>10. DOMAIN f = 1..Len(bits) /\ f = [b \in 1..Len(bits) |-> f[b]]
  OBVIOUS
<1> HIDE DEF f
<1>11. AreLevels(f, bits, cases)
  BY <1>8, <1>9, <1>10 DEF AreLevels
<1>. QED  BY <1>10, <1>11, LevelsAre

(* A subtree selects by the last bits, when it fits them.                   *)
Selects(level, bits, b, cases) ==
  \A tree \in Subtrees(Len(cases)) :
    /\ level[tree] \in {0, 1}
    /\ tree[2] <= Pow2(b) =>
         level[tree] = IF Rest(bits, b) < tree[2] THEN cases[tree[1] + Rest(bits, b)] ELSE 0

LEMMA FirstSelects ==
  ASSUME NEW bits \in Seq({0, 1}), Len(bits) > 0, NEW cases \in Seq({0, 1}), NEW level,
         level = [tree \in Subtrees(Len(cases)) |-> FirstLevel(bits, cases, tree)]
  PROVE  Selects(level, bits, 1, cases)
<1>1. PICK bit \in {0, 1} : bit = bits[Len(bits)]
  BY Len(bits) \in 1..Len(bits)
<1>2. Rest(bits, 1) = bit
  <2>1. Rest(bits, 0) = 0 /\ RestFacts(bits, 1)
    BY RestIs, 1 \in 0..Len(bits)
  <2>2. Rest(bits, 1) = Rest(bits, 1 - 1) + bits[Len(bits) + 1 - 1] * Pow2(1 - 1)
    BY <2>1 DEF RestFacts
  <2>3. Pow2(1 - 1) = 1 /\ Len(bits) + 1 - 1 = Len(bits)
    BY Pow2Facts, 0 \in Nat
  <2>. QED  BY <1>1, <2>1, <2>2, <2>3
<1>3. Pow2(1) = 2
  BY Pow2Facts, 0 \in Nat, 0 + 1 = 1
<1>4. ASSUME NEW tree \in Subtrees(Len(cases))
      PROVE  /\ level[tree] \in {0, 1}
             /\ tree[2] <= 2 => level[tree] = IF bit < tree[2] THEN cases[tree[1] + bit] ELSE 0
  <2>1. level[tree] = FirstLevel(bits, cases, tree)
    OBVIOUS
  <2>2. PICK first \in Nat, n \in Nat \ {0} : first = tree[1] /\ n = tree[2]
    BY DEF Subtrees
  <2>3. /\ level[tree] \in {0, 1}
        /\ n = 1 => level[tree] = IF bit = 0 THEN cases[first] ELSE 0
        /\ n > 1 => level[tree] = IF bit = 0 THEN cases[first] ELSE cases[first + 1]
    BY <1>1, <2>1, <2>2, FirstLevelFits
  <2>4. first + 0 = first
    BY <2>2
  <2>. QED  BY <1>1, <2>2, <2>3, <2>4
<1>. QED  BY <1>2, <1>3, <1>4 DEF Selects

LEMMA LevelSelects ==
  ASSUME NEW bits \in Seq({0, 1}), NEW cases \in Seq({0, 1}), NEW b \in 2..Len(bits),
         NEW below \in [Subtrees(Len(cases)) -> {0, 1}], Selects(below, bits, b - 1, cases), NEW level,
         level = [tree \in Subtrees(Len(cases)) |-> Level(bits, b, below, tree)]
  PROVE  Selects(level, bits, b, cases)
<1>1. PICK half \in Nat \ {0} : half = Pow2(b - 1) /\ Pow2(b) = 2 * half
  <2>1. b - 1 \in Nat /\ (b - 1) + 1 = b
    OBVIOUS
  <2>. QED  BY <2>1, Pow2Facts
<1>2. PICK bit \in {0, 1} : bit = bits[Len(bits) - b + 1]
  BY Len(bits) - b + 1 \in 1..Len(bits)
<1>3. PICK x \in Nat : x = Rest(bits, b - 1) /\ x < half
  <2>1. RestFacts(bits, b - 1)
    BY RestIs, b - 1 \in 0..Len(bits)
  <2>. QED  BY <1>1, <2>1 DEF RestFacts
<1>4. Rest(bits, b) = IF bit = 0 THEN x ELSE x + half
  <2>1. RestFacts(bits, b) /\ b > 0
    BY RestIs, b \in 0..Len(bits)
  <2>2. Len(bits) + 1 - b = Len(bits) - b + 1
    OBVIOUS
  <2>3. Rest(bits, b) = x + bit * half
    BY <1>1, <1>2, <1>3, <2>1, <2>2 DEF RestFacts
  <2>. QED  BY <1>1, <1>2, <1>3, <2>3, SMTT(30)
<1>5. ASSUME NEW tree \in Subtrees(Len(cases))
      PROVE  /\ level[tree] \in {0, 1}
             /\ tree[2] <= 2 * half =>
                  level[tree] = IF Rest(bits, b) < tree[2] THEN cases[tree[1] + Rest(bits, b)] ELSE 0
  <2>1. PICK first \in Nat, n \in Nat \ {0} : first = tree[1] /\ n = tree[2] /\ tree = <<first, n>>
    BY DEF Subtrees
  <2>2. level[tree] = Level(bits, b, below, tree)
    OBVIOUS
  <2>3. /\ n <= half => <<first, n>> \in Subtrees(Len(cases))
        /\ n > half => /\ <<first, half>> \in Subtrees(Len(cases))
                       /\ <<first + half, n - half>> \in Subtrees(Len(cases))
        /\ Level(bits, b, below, tree) \in {0, 1}
    BY <1>1, <2>1, LevelFits
  <2>4. \A t \in Subtrees(Len(cases)) :
          /\ below[t] \in {0, 1}
          /\ t[2] <= half => below[t] = IF x < t[2] THEN cases[t[1] + x] ELSE 0
    BY <1>1, <1>3 DEF Selects
  <2>5. CASE n <= half
    <3>1. Level(bits, b, below, tree) = twoMux(below[<<first, n>>], 0, bit)
      BY <1>1, <1>2, <2>1, <2>5 DEF Level
    <3>2. below[<<first, n>>] \in {0, 1} /\ below[<<first, n>>] = IF x < n THEN cases[first + x] ELSE 0
      <4>1. <<first, n>> \in Subtrees(Len(cases)) /\ <<first, n>>[1] = first /\ <<first, n>>[2] = n
        BY <2>3, <2>5
      <4>. QED  BY <2>4, <2>5, <4>1
    <3>3. level[tree] = IF bit = 0 THEN below[<<first, n>>] ELSE 0
      BY <1>2, <2>2, <3>1, <3>2, MuxGates
    <3>4. ~(x + half < n)
      BY <1>1, <1>3, <2>5
    <3>. QED  BY <1>2, <1>4, <2>1, <2>2, <2>3, <3>2, <3>3, <3>4
  <2>6. CASE n > half
    <3> DEFINE y == below[<<first, half>>]
               z == below[<<first + half, n - half>>]
    <3>1. Level(bits, b, below, tree) = twoMux(y, z, bit)
      BY <1>1, <1>2, <2>1, <2>6 DEF Level
    <3>2. y \in {0, 1} /\ y = cases[first + x]
      <4>1. <<first, half>> \in Subtrees(Len(cases)) /\ <<first, half>>[1] = first /\ <<first, half>>[2] = half
        BY <2>3, <2>6
      <4>. QED  BY <1>1, <1>3, <2>4, <4>1
    <3>3. /\ z \in {0, 1}
          /\ n <= 2 * half => z = IF x + half < n THEN cases[first + (x + half)] ELSE 0
      <4>1. PICK m \in Nat, k \in Nat : m = n - half /\ k = first + half
        BY <1>1, <2>1, <2>6, SMTT(30)
      <4>2. <<k, m>> \in Subtrees(Len(cases)) /\ <<k, m>>[1] = k /\ <<k, m>>[2] = m /\ z = below[<<k, m>>]
        BY <2>3, <2>6, <4>1
      <4>3. k + x = first + (x + half) /\ (x < m <=> x + half < n) /\ (n <= 2 * half => m <= half)
        <5>1. /\ m \in Nat /\ k \in Nat /\ x \in Nat /\ half \in Nat /\ n \in Nat /\ first \in Nat
              /\ m = n - half /\ k = first + half
          BY <1>1, <1>3, <2>1, <4>1
        <5>. QED  BY <5>1, SMTT(30)
      <4>4. below[<<k, m>>] \in {0, 1} /\ (m <= half => below[<<k, m>>] = IF x < m THEN cases[k + x] ELSE 0)
        BY <2>4, <4>2, Zenon
      <4> HIDE DEF z
      <4>. QED  BY <4>2, <4>3, <4>4
    <3>4. level[tree] = IF bit = 0 THEN y ELSE z
      BY <1>2, <2>2, <3>1, <3>2, <3>3, MuxGates
    <3>5. x < n
      BY <1>1, <1>3, <2>1, <2>6
    <3> HIDE DEF y, z
    <3>. QED  BY <1>2, <1>4, <2>1, <2>2, <2>3, <3>2, <3>3, <3>4, <3>5
  <2>. QED  BY <1>1, <2>1, <2>5, <2>6
<1>. QED  BY <1>1, <1>5 DEF Selects

(* The case that the selector numbers, or 0 beyond them.                    *)
LEMMA TreeMuxIs ==
  ASSUME NEW bits \in Seq({0, 1}), Len(bits) > 0,
         NEW cases \in Seq({0, 1}), Len(cases) > 0, Len(cases) <= Pow2(Len(bits))
  PROVE  treeMux(bits, cases) = IF Index(bits) < Len(cases) THEN cases[Index(bits) + 1] ELSE 0
<1> DEFINE f == CHOOSE f : TreeDef(f, bits, cases)
           N == Len(bits)
           S == Subtrees(Len(cases))
           T == {b \in 0..N : b > 0 => f[b] \in [S -> {0, 1}] /\ Selects(f[b], bits, b, cases)}
<1>1. TreeDef(f, bits, cases)
  BY LevelsExist, Zenon
<1>2. f[Len(bits)][<<1, Len(cases)>>] = treeMux(bits, cases)
  BY DEF TreeDef, treeMux
<1> HIDE DEF f
<1>3. AreLevels(f, bits, cases)
  BY <1>1, LevelsAre
<1>4. N \in Nat /\ N > 0 /\ 0 \in T
  OBVIOUS
<1>5. ASSUME NEW b \in 1..N, b - 1 \in T
      PROVE  b \in T
  <2>1. CASE b = 1
    <3>1. f[1] = [tree \in S |-> FirstLevel(bits, cases, tree)]
      BY <1>3 DEF AreLevels
    <3>2. f[1] \in [S -> {0, 1}]
      BY <3>1, FirstLevelFits
    <3>3. Selects(f[1], bits, 1, cases)
      BY <3>1, FirstSelects
    <3>. QED  BY <1>4, <2>1, <3>2, <3>3
  <2>2. CASE b # 1
    <3>1. b \in 2..N /\ b - 1 > 0
      BY <2>2
    <3>2. f[b] = [tree \in S |-> Level(bits, b, f[b - 1], tree)]
      BY <1>3, <3>1 DEF AreLevels
    <3>3. f[b - 1] \in [S -> {0, 1}] /\ Selects(f[b - 1], bits, b - 1, cases)
      BY <1>5, <3>1
    <3>4. f[b] \in [S -> {0, 1}]
      <4>1. \A tree \in S : Level(bits, b, f[b - 1], tree) \in {0, 1}
        BY <3>1, <3>3, LevelFits
      <4> HIDE DEF S
      <4>. QED  BY <3>2, <4>1
    <3>5. Selects(f[b], bits, b, cases)
      BY <3>1, <3>2, <3>3, LevelSelects
    <3>. QED  BY <3>1, <3>4, <3>5
  <2>. QED  BY <2>1, <2>2
<1> HIDE DEF T
<1>6. N \in T
  BY <1>4, <1>5, UpTo, N \in 0..N
<1>7. Selects(f[N], bits, N, cases)
  BY <1>4, <1>6 DEF T
<1>8. PICK size \in Nat \ {0} : size = Len(cases)
  OBVIOUS
<1>9. <<1, size>> \in Subtrees(size) /\ <<1, size>>[1] = 1 /\ <<1, size>>[2] = size
  BY DEF Subtrees
<1>10. PICK x \in Nat : x = Index(bits) /\ x = Rest(bits, N)
  <2>1. Rest(bits, Len(bits)) = Index(bits) /\ bits \in Seq(Nat)
    BY RestIs
  <2>. QED  BY <2>1, IndexIs
<1>11. f[N][<<1, size>>] = IF x < size THEN cases[1 + x] ELSE 0
  BY <1>7, <1>8, <1>9, <1>10 DEF Selects
<1>. QED  BY <1>2, <1>8, <1>10, <1>11

LEMMA TreeCheckIs ==
  ASSUME NEW bits \in Seq({0, 1}), Len(bits) > 0, NEW n \in Nat \ {0}, n <= Pow2(Len(bits))
  PROVE  TreeCheck(bits, n) = 0 <=> Index(bits) < n
<1> DEFINE ones == [k \in 1..n |-> 1]
<1>1. ones \in Seq({0, 1}) /\ Len(ones) = n /\ \A k \in 1..n : ones[k] = 1
  OBVIOUS
<1> HIDE DEF ones
<1>2. treeMux(bits, ones) = IF Index(bits) < n THEN ones[Index(bits) + 1] ELSE 0
  BY <1>1, TreeMuxIs
<1>3. Index(bits) \in Nat
  BY IndexIs, bits \in Seq(Nat)
<1>4. treeMux(bits, ones) = IF Index(bits) < n THEN 1 ELSE 0
  BY <1>1, <1>2, <1>3
<1>5. (1 + 1) % 2 = 0 /\ (0 + 1) % 2 = 1
  OBVIOUS
<1>. QED  BY <1>4, <1>5 DEF TreeCheck, addcGate, ones

(* Every output wire is that of the case the selector numbers, or 0 beyond  *)
(* the cases, and only a strict multiplexer asserts, a 0 just in that range.*)
Selected(result, strict, selector, ranges, groups) ==
  LET x == Index(selector)
      n == Len(groups)
  IN  /\ DOMAIN result.outs = DOMAIN ranges
      /\ \A i \in DOMAIN ranges : \A j \in 1..ranges[i].length :
           result.outs[i][j] = IF x < n THEN groups[x + 1][i][j] ELSE 0
      /\ result.asserted # {} <=> strict
      /\ \A value \in result.asserted : value = 0 <=> x < n

(* The Boolean multiplexer (evaluateMux and treeMux of Multiplexer.t.h)     *)
(* selects the case that its selector numbers, for selectors of any length, *)
(* any number of cases that they can number, a power of two or not, and     *)
(* outputs of any lengths.                                                  *)
THEOREM TreeMultiplexerExact ==
  ASSUME NEW strict \in BOOLEAN, NEW selector \in Seq({0, 1}), Len(selector) > 0,
         NEW W, NEW groups \in Seq(W), Len(groups) \in 1..Pow2(Len(selector)), NEW ranges,
         \A k \in DOMAIN groups, i \in DOMAIN ranges : \A j \in 1..ranges[i].length :
           groups[k][i][j] \in {0, 1}
  PROVE  Selected(EvaluateTree(strict, ranges, selector, groups), strict, selector, ranges, groups)
<1> DEFINE n == Len(groups)
           x == Index(selector)
           result == EvaluateTree(strict, ranges, selector, groups)
           Wire(i, j) == [k \in DOMAIN groups |-> groups[k][i][j]]
<1>1. /\ n \in Nat \ {0} /\ n <= Pow2(Len(selector)) /\ DOMAIN groups = 1..n
  <2>1. Pow2(Len(selector)) \in Nat
    BY Pow2Facts, Len(selector) \in Nat
  <2>. QED  BY <2>1
<1>2. /\ DOMAIN result.outs = DOMAIN ranges
      /\ \A i \in DOMAIN ranges : \A j \in 1..ranges[i].length :
           result.outs[i][j] = treeMux(selector, Wire(i, j))
      /\ result.asserted = IF strict THEN {TreeCheck(selector, n)} ELSE {}
  BY DEF EvaluateTree, Result
<1>3. ASSUME NEW i \in DOMAIN ranges, NEW j \in 1..ranges[i].length
      PROVE  result.outs[i][j] = IF x < n THEN groups[x + 1][i][j] ELSE 0
  <2> DEFINE wire == Wire(i, j)
  <2>1. wire \in Seq({0, 1}) /\ Len(wire) = n /\ \A k \in 1..n : wire[k] = groups[k][i][j]
    BY <1>1
  <2> HIDE DEF wire
  <2>2. treeMux(selector, wire) = IF x < n THEN wire[x + 1] ELSE 0
    BY <1>1, <2>1, TreeMuxIs
  <2>3. x \in Nat
    BY IndexIs, selector \in Seq(Nat)
  <2>4. x < n => wire[x + 1] = groups[x + 1][i][j]
    BY <1>1, <2>1, <2>3
  <2>. QED  BY <1>2, <2>2, <2>4 DEF wire
<1>4. TreeCheck(selector, n) = 0 <=> x < n
  BY <1>1, TreeCheckIs
<1> HIDE DEF result
<1>. QED  BY <1>2, <1>3, <1>4 DEF Selected, result
-----------------------------------------------------------------------------
(* The fallback's reads.                                                    *)
LEMMA BoolReadIs ==
  ASSUME RamShape, ram.boolean, NEW buffer \in Seq(Value), NEW size \in Nat \ {0},
         Len(buffer) = size * EB, SizeAllowed(size), NEW idx \in Word(IB)
  PROVE  /\ BoolRead(buffer, size, idx) =
              IF Index(idx) < size THEN [j \in 1..EB |-> buffer[Place(Index(idx), j)]]
              ELSE ZeroElement(ram)
         /\ TreeCheck(idx, size) = 0 <=> Index(idx) < size
<1>1. p = 2 /\ EB \in Nat \ {0} /\ IB \in Nat \ {0} /\ Value = {0, 1}
  BY DEF RamShape, Value
<1>2. idx \in Seq({0, 1}) /\ Len(idx) = IB /\ size <= Pow2(Len(idx))
  BY <1>1, WordIs DEF SizeAllowed, IB
<1>3. PICK x \in Nat : x = Index(idx)
  BY <1>2, IndexIs, idx \in Seq(Nat)
<1> DEFINE cases(j) == [i \in 1..size |-> buffer[Place(i - 1, j)]]
<1>4. ASSUME NEW j \in 1..EB
      PROVE  treeMux(idx, cases(j)) = IF x < size THEN buffer[Place(x, j)] ELSE 0
  <2>1. ASSUME NEW i \in 1..size
        PROVE  buffer[Place(i - 1, j)] \in {0, 1}
    <3>1. PICK n \in Nat : n = size * EB
      BY <1>1
    <3>2. Place(i - 1, j) \in 1..n
      BY <1>1, <3>1, PlaceIs, i - 1 \in 0..(size - 1) DEF Place, EB
    <3>. QED  BY <1>1, <3>1, <3>2
  <2>2. cases(j) \in Seq({0, 1}) /\ Len(cases(j)) = size
    BY <2>1
  <2>3. x < size => cases(j)[x + 1] = buffer[Place(x, j)]
    BY <1>3, x + 1 - 1 = x
  <2> HIDE DEF cases
  <2>4. treeMux(idx, cases(j)) = IF x < size THEN cases(j)[x + 1] ELSE 0
    BY <1>1, <1>2, <1>3, <2>2, TreeMuxIs
  <2>. QED  BY <2>3, <2>4
<1>5. BoolRead(buffer, size, idx) = [j \in 1..EB |-> treeMux(idx, cases(j))]
  BY DEF BoolRead, EB
<1> HIDE DEF cases
<1>6. BoolRead(buffer, size, idx) = [j \in 1..EB |-> IF x < size THEN buffer[Place(x, j)] ELSE 0]
  BY <1>4, <1>5
<1>7. ZeroElement(ram) = [j \in 1..EB |-> 0]
  BY DEF ZeroElement, EB
<1>8. TreeCheck(idx, size) = 0 <=> x < size
  BY <1>1, <1>2, <1>3, TreeCheckIs
<1>. QED  BY <1>3, <1>6, <1>7, <1>8

(* What the equalities add up to.                                           *)
LEMMA OneAdded ==
  ASSUME p \in Nat \ {0, 1}, NEW x \in Nat, NEW first \in Value, NEW wires \in Seq(Value),
         \A i \in 1..Len(wires) : wires[i] = IF x = i - 1 THEN 1 ELSE 0
  PROVE  Added(first, wires) = IF x < Len(wires) THEN (first + 1) % p ELSE first
<1>1. PICK k \in 0..Len(wires) : k = IF x < Len(wires) THEN x + 1 ELSE 0
  OBVIOUS
<1>2. \A i \in 1..Len(wires) : i # k => wires[i] = 0
  BY <1>1
<1>3. p \in Nat \ {0}
  OBVIOUS
<1>4. Added(first, wires) = IF k = 0 THEN first ELSE (first + wires[k]) % p
  BY <1>2, <1>3, AddedOne
<1>5. x < Len(wires) => k # 0 /\ wires[k] = 1
  BY <1>1
<1>. QED  BY <1>1, <1>4, <1>5

LEMMA OneEquality ==
  ASSUME p \in Nat \ {0, 1}, NEW size \in Nat, NEW x \in Nat, NEW first \in Value,
         NEW wires, wires = [i \in 1..size |-> IF x = i - 1 THEN 1 ELSE 0]
  PROVE  Added(first, wires) = IF x < size THEN (first + 1) % p ELSE first
<1>1. PICK n \in Nat \ {0, 1} : n = p
  OBVIOUS
<1>2. wires \in Seq(Value) /\ Len(wires) = size /\ \A i \in 1..size : wires[i] = IF x = i - 1 THEN 1 ELSE 0
  BY <1>1 DEF Value
<1>3. \A i \in 1..Len(wires) : wires[i] = IF x = i - 1 THEN 1 ELSE 0
  BY <1>2
<1>4. Added(first, wires) = IF x < Len(wires) THEN (first + 1) % p ELSE first
  BY <1>2, <1>3, OneAdded
<1>. QED  BY <1>2, <1>4

LEMMA CheckIs ==
  ASSUME p \in Nat \ {0, 1}, NEW size \in Nat, NEW x \in Nat,
         NEW wires, wires = [i \in 1..size |-> IF x = i - 1 THEN 1 ELSE 0]
  PROVE  Added(p - 1, wires) = 0 <=> x < size
<1>1. PICK n \in Nat \ {0, 1} : n = p
  OBVIOUS
<1>2. p - 1 \in Value /\ p - 1 # 0
  BY <1>1 DEF Value
<1>3. ((p - 1) + 1) % p = 0
  <2>1. (1 * n + 0) % n = 0
    OBVIOUS
  <2>. QED  BY <1>1, <2>1, (n - 1) + 1 = 1 * n + 0
<1>. QED  BY <1>2, <1>3, OneEquality, SMTT(30)

LEMMA FLTReadIs ==
  ASSUME RamShape, ~ ram.boolean, NEW buffer \in Seq(Value), NEW index \in Value,
         Len(buffer) \in 2..p
  PROVE  /\ FLTRead(buffer, index) = IF index < Len(buffer) THEN buffer[index + 1] ELSE 0
         /\ FLTReadCheck(buffer, index) = 0 <=> index < Len(buffer)
<1>1. PICK n \in Nat \ {0, 1} : n = p
  BY DEF RamShape
<1>2. PICK size \in Nat : size = Len(buffer) /\ size \in 2..n
  BY <1>1
<1>3. PICK x \in Nat : x = index
  BY <1>1 DEF Value
<1>4. ReadPlaces(Len(buffer)) = [i \in 1..size |-> i]
  BY <1>2 DEF ReadPlaces
<1> DEFINE places == [i \in 1..size |-> i]
           equal == Equalities(index, places)
           wires == [k \in 1..size |-> mulGate(p, equal[k], buffer[places[k]])]
<1>5. equal = [i \in 1..size |-> IF x = i - 1 THEN 1 ELSE 0]
  <2>1. \A i \in 1..size : FLT_equality_const(p, index, i - 1) = IF x = i - 1 THEN 1 ELSE 0
    <3>1. \A i \in 1..size : i - 1 \in 0..(p - 1)
      BY <1>1, <1>2
    <3>. QED  BY <1>3, <3>1, EqualityOf
  <2>2. equal = [i \in 1..size |-> FLT_equality_const(p, index, i - 1)]
    BY DEF Equalities
  <2>. QED  BY <2>1, <2>2
<1>6. FLTReadCheck(buffer, index) = Added(p - 1, equal)
  BY <1>4 DEF FLTReadCheck
<1>7. FLTRead(buffer, index) = Added(0, wires)
  BY <1>4 DEF FLTRead
<1>8. \A k \in 1..size : places[k] = k
  OBVIOUS
<1> HIDE DEF equal, places
<1>9. FLTReadCheck(buffer, index) = 0 <=> x < size
  BY <1>1, <1>2, <1>5, <1>6, CheckIs
<1>10a. ASSUME NEW v \in 0..(n - 1)
        PROVE  v % n = v
  BY n \in Nat \ {0}, v \in Int, Modulo
<1>10. \A k \in 1..size : buffer[k] \in 0..(n - 1)
  BY <1>1, <1>2 DEF Value
<1>11. ASSUME NEW k \in 1..size
       PROVE  wires[k] = IF x = k - 1 THEN buffer[k] ELSE 0
  <2>1. PICK v \in 0..(n - 1) : v = buffer[k]
    BY <1>10
  <2>2. (1 * v) % n = v /\ (0 * v) % n = 0
    <3>1. v % n = v /\ 0 % n = 0
      BY <1>10a, 0 \in 0..(n - 1)
    <3>. QED  BY <3>1, 1 * v = v, 0 * v = 0
  <2>3. wires[k] = (equal[k] * v) % n
    BY <1>1, <1>8, <2>1 DEF mulGate
  <2>. QED  BY <1>5, <2>1, <2>2, <2>3
<1>12. wires \in Seq(Value) /\ Len(wires) = size
  <2>1. \A k \in 1..size : wires[k] \in Value
    BY <1>1, <1>10, <1>11, 0 \in 0..(n - 1) DEF Value
  <2>2. wires = [k \in 1..size |-> wires[k]]
    OBVIOUS
  <2> HIDE DEF wires
  <2>. QED  BY <1>2, <2>1, <2>2
<1> HIDE DEF wires
<1>13. PICK k \in 0..size : k = IF x < size THEN x + 1 ELSE 0
  BY <1>2
<1>14. Added(0, wires) = IF k = 0 THEN 0 ELSE (0 + wires[k]) % p
  <2>1. \A i \in 1..Len(wires) : i # k => wires[i] = 0
    BY <1>11, <1>12, <1>13
  <2>2. k \in 0..Len(wires) /\ 0 \in Value
    BY <1>1, <1>12 DEF Value
  <2>. QED  BY <1>1, <1>12, SMTT(30), <2>1, <2>2, AddedOne
<1>15. x < size => wires[k] = buffer[x + 1] /\ (0 + wires[k]) % p = buffer[x + 1]
  <2>1. SUFFICES ASSUME x < size
                 PROVE  wires[k] = buffer[x + 1] /\ (0 + wires[k]) % p = buffer[x + 1]
    OBVIOUS
  <2>2. k = x + 1 /\ k \in 1..size /\ k - 1 = x
    BY <1>13, <2>1
  <2>3. PICK v \in 0..(n - 1) : v = buffer[x + 1]
    BY <1>10, <2>2
  <2>4. wires[k] = v
    BY <1>11, <2>2, <2>3
  <2>5. (0 + v) % n = v
    BY <1>10a, 0 + v = v
  <2>. QED  BY <1>1, <2>3, <2>4, <2>5
<1>. QED  BY <1>2, <1>3, <1>7, <1>9, <1>13, <1>14, <1>15

(* The fallback's writes.                                                   *)
LEMMA BitChosen ==
  ASSUME NEW e \in {0, 1}, NEW old \in {0, 1}, NEW new \in {0, 1}
  PROVE  addGate(2, old, mulGate(2, e, addGate(2, old, new))) = IF e = 1 THEN new ELSE old
BY DEF addGate, mulGate

LEMMA BoolWriteIs ==
  ASSUME RamShape, ram.boolean, NEW buffer \in Seq(Value), NEW size \in Nat,
         Len(buffer) = size * EB, SizeAllowed(size), NEW idx \in Word(IB), NEW in \in Word(EB)
  PROVE  /\ \A i \in 0..(size - 1) : \A j \in 1..EB :
              BoolWrite(buffer, idx, in)[i * EB + j] =
                IF i = Index(idx) THEN in[j] ELSE buffer[i * EB + j]
         /\ BoolWriteCheck(size, idx) = 0 <=> Index(idx) < size
<1>1. p = 2 /\ EB \in Nat \ {0} /\ IB \in Nat \ {0} /\ Value = {0, 1} /\ p \in Nat \ {0, 1}
  BY DEF RamShape, Value
<1>2. idx \in Seq(Value) /\ Len(idx) = IB /\ size <= Pow2(Len(idx)) /\ \A j \in 1..EB : in[j] \in {0, 1}
  BY <1>1, WordIs DEF SizeAllowed, IB
<1>3. PICK x \in Nat : x = Index(idx)
  BY <1>1, <1>2, IndexIs, idx \in Seq(Nat)
<1>4. ASSUME NEW i \in 0..(size - 1)
      PROVE  bool_equality(idx, i) = IF x = i THEN 1 ELSE 0
  <2>1. i \in Nat /\ i < Pow2(Len(idx))
    <3>1. PICK top \in Nat : top = Pow2(Len(idx))
      BY <1>1, <1>2, Pow2Facts
    <3>. QED  BY <1>2, <3>1
  <2>. QED  BY <1>1, <1>2, <1>3, <2>1, BitEquality
<1>5. ASSUME NEW i \in 0..(size - 1), NEW j \in 1..EB
      PROVE  BoolWrite(buffer, idx, in)[i * EB + j] =
               IF i = x THEN in[j] ELSE buffer[i * EB + j]
  <2>1. PICK n \in Nat : n = size * EB
    BY <1>1
  <2>2. PICK k \in Int : k = i * EB + j
    BY <1>1
  <2>3. k \in 1..n /\ (k - 1) % EB = j - 1 /\ (k - 1) \div EB = i
    BY <1>1, <2>1, <2>2, PlaceIs
  <2>4. ((k - 1) % EB) + 1 = j
    BY <2>3
  <2>5. k \in DOMAIN buffer /\ buffer[k] \in {0, 1}
    BY <1>1, <2>1, <2>3
  <2>6. BoolWrite(buffer, idx, in)[k] =
          addGate(p, buffer[k], mulGate(p, bool_equality(idx, (k - 1) \div EB),
                                           addGate(p, buffer[k], in[((k - 1) % EB) + 1])))
    BY <2>5 DEF BoolWrite, EB
  <2>7. PICK e \in {0, 1} : e = bool_equality(idx, i) /\ e = IF x = i THEN 1 ELSE 0
    BY <1>4
  <2>8. BoolWrite(buffer, idx, in)[k] = addGate(2, buffer[k], mulGate(2, e, addGate(2, buffer[k], in[j])))
    BY <1>1, <2>3, <2>4, <2>6, <2>7
  <2>9. BoolWrite(buffer, idx, in)[k] = IF e = 1 THEN in[j] ELSE buffer[k]
    BY <1>2, <2>5, <2>8, BitChosen
  <2>. QED  BY <2>2, <2>7, <2>9
<1>6. BoolWriteCheck(size, idx) = 0 <=> x < size
  <2> DEFINE wires == [i \in 1..size |-> bool_equality(idx, i - 1)]
  <2>1. \A i \in 1..size : bool_equality(idx, i - 1) = IF x = i - 1 THEN 1 ELSE 0
    BY <1>4, \A i \in 1..size : i - 1 \in 0..(size - 1)
  <2>2. wires = [i \in 1..size |-> IF x = i - 1 THEN 1 ELSE 0]
    BY <2>1
  <2>3. BoolWriteCheck(size, idx) = Added(1, wires)
    BY DEF BoolWriteCheck
  <2> HIDE DEF wires
  <2>4. Added(p - 1, wires) = 0 <=> x < size
    <3>1. p \in Nat \ {0, 1} /\ size \in Nat /\ x \in Nat
      BY <1>1
    <3>. QED  BY <2>2, <3>1, CheckIs, Zenon
  <2>. QED  BY <1>1, <2>3, <2>4
<1>. QED  BY <1>3, <1>5, <1>6

LEMMA FLTWriteIs ==
  ASSUME RamShape, ~ ram.boolean, NEW buffer \in Seq(Value), NEW index \in Value, NEW in \in Value,
         Len(buffer) <= p
  PROVE  /\ \A i \in 1..Len(buffer) :
              FLTWrite(buffer, index, in)[i] = IF index = i - 1 THEN in ELSE buffer[i]
         /\ FLTWriteCheck(buffer, index) = 0 <=> index < Len(buffer)
<1>1. PICK n \in Nat \ {0, 1} : n = p
  BY DEF RamShape
<1>2. PICK size \in Nat : size = Len(buffer) /\ size <= n
  BY <1>1
<1>3. PICK x \in Nat : x = index
  BY <1>1 DEF Value
<1>4. \A i \in 1..size : /\ FLT_equality_const(p, index, i - 1) = IF x = i - 1 THEN 1 ELSE 0
                         /\ FLT_inequality_const(index, i - 1) = IF x = i - 1 THEN 0 ELSE 1
  <2>1. \A i \in 1..size : i - 1 \in 0..(p - 1)
    BY <1>1, <1>2
  <2>. QED  BY <1>3, <2>1, EqualityOf
<1>5. ASSUME NEW v \in 0..(n - 1)
      PROVE  v % n = v
  BY n \in Nat \ {0}, v \in Int, Modulo
<1>6. ASSUME NEW i \in 1..size
      PROVE  FLTWrite(buffer, index, in)[i] = IF x = i - 1 THEN in ELSE buffer[i]
  <2>1. PICK new \in 0..(n - 1), old \in 0..(n - 1) : new = in /\ old = buffer[i]
    BY <1>1, <1>2 DEF Value
  <2>2. i \in DOMAIN buffer
    BY <1>2
  <2>3. FLTWrite(buffer, index, in)[i] =
          addGate(p, mulGate(p, FLT_equality_const(p, index, i - 1), in),
                     mulGate(p, FLT_inequality_const(index, i - 1), buffer[i]))
    BY <2>2 DEF FLTWrite
  <2>4. (1 * new) % n = new /\ (1 * old) % n = old /\ (0 * new) % n = 0 /\ (0 * old) % n = 0
    BY <1>5, 0 \in 0..(n - 1), 1 * new = new, 1 * old = old, 0 * new = 0, 0 * old = 0
  <2>5. (new + 0) % n = new /\ (0 + old) % n = old
    BY <1>5, new + 0 = new, 0 + old = old
  <2>6. CASE x = i - 1
    <3>1. FLTWrite(buffer, index, in)[i] = (((1 * new) % n) + ((0 * old) % n)) % n
      BY <1>1, <1>4, <2>1, <2>3, <2>6 DEF addGate, mulGate
    <3>. QED  BY <2>1, <2>4, <2>5, <2>6, <3>1
  <2>7. CASE x # i - 1
    <3>1. FLTWrite(buffer, index, in)[i] = (((0 * new) % n) + ((1 * old) % n)) % n
      BY <1>1, <1>4, <2>1, <2>3, <2>7 DEF addGate, mulGate
    <3>. QED  BY <2>1, <2>4, <2>5, <2>7, <3>1
  <2>. QED  BY <2>6, <2>7
<1>7. FLTWriteCheck(buffer, index) = 0 <=> x < size
  <2> DEFINE wires == [i \in 1..size |-> FLT_equality_const(p, index, i - 1)]
  <2>1. wires = [i \in 1..size |-> IF x = i - 1 THEN 1 ELSE 0]
    BY <1>4
  <2>2. FLTWriteCheck(buffer, index) = Added(p - 1, wires)
    <3>1. DOMAIN buffer = 1..size
      BY <1>2
    <3>2. wires = [i \in DOMAIN buffer |-> FLT_equality_const(p, index, i - 1)]
      BY <3>1
    <3> HIDE DEF wires
    <3>. QED  BY <3>2 DEF FLTWriteCheck
  <2> HIDE DEF wires
  <2>3. Added(p - 1, wires) = 0 <=> x < size
    BY <1>1, <2>1, CheckIs
  <2>. QED  BY <2>2, <2>3
<1>. QED  BY <1>2, <1>3, <1>6, <1>7
-----------------------------------------------------------------------------
(* The backends agree.                                                      *)
LEMMA ReadAgrees ==
  ASSUME Shape, NEW h \in Handles, NEW idx \in Word(IB), raw[h] = buffers[h],
         Empty(h) = {}, Beyond(h) = {}, ~ OddRead(h)
  PROVE  /\ RawRead(h, idx) = IF OutOfRange(h, idx) THEN ZeroElement(ram) ELSE Element(h, idx)
         /\ RawReadCheck(h, idx) = 0 <=> ~ OutOfRange(h, idx)
<1>1. RamShape /\ p \in Nat \ {0, 1} /\ EB \in Nat \ {0} /\ IB \in Nat \ {0}
  BY DEF Shape, RamShape
<1>2. PICK size \in Nat \ {0} : size = sizes[h]
  <2>1. sizes[h] \in Nat /\ sizes[h] # 0
    BY ShapeOf DEF Holds, Empty
  <2>. QED  BY <2>1
<1>3. buffers[h] \in Seq(Value) /\ Len(buffers[h]) = size * EB /\ SizeAllowed(size)
  BY <1>2, ShapeOf DEF Holds
<1>4. PICK x \in Nat : x = Index(idx) /\ (OutOfRange(h, idx) <=> ~(x < size))
  BY <1>2, RangeIs
<1>5. Element(h, idx) = [j \in 1..EB |-> buffers[h][Place(x, j)]]
  BY <1>4 DEF Element, EB
<1>6. CASE ram.boolean
  <2>1. RawRead(h, idx) = BoolRead(buffers[h], size, idx) /\ RawReadCheck(h, idx) = TreeCheck(idx, size)
    BY <1>2, <1>6 DEF RawRead, RawReadCheck
  <2>. QED  BY <1>1, <1>3, <1>4, <1>5, <1>6, <2>1, BoolReadIs
<1>7. CASE ~ ram.boolean
  <2>1. IB = 1 /\ EB = 1
    BY <1>1, <1>7 DEF RamShape
  <2>2. idx[1] \in Value /\ x = idx[1]
    <3>1. idx \in Seq(Nat) /\ Len(idx) = 1 /\ idx[1] \in Value
      BY <1>1, <2>1, WordIs, 1 \in 1..1
    <3>. QED  BY <1>4, <3>1, IndexIs
  <2>3. Len(buffers[h]) = size /\ size \in 2..p
    <3>1. size <= p + 1 /\ size # 1 /\ size # p + 1
      BY <1>1, <1>2, <1>7 DEF Beyond, OddRead
    <3>. QED  BY <1>1, <1>3, <2>1, <3>1
  <2>4. RawRead(h, idx) = <<FLTRead(buffers[h], idx[1])>> /\ RawReadCheck(h, idx) = FLTReadCheck(buffers[h], idx[1])
    BY <1>7 DEF RawRead, RawReadCheck
  <2>5. /\ FLTRead(buffers[h], idx[1]) = IF x < size THEN buffers[h][x + 1] ELSE 0
        /\ FLTReadCheck(buffers[h], idx[1]) = 0 <=> x < size
    BY <1>1, <1>3, <1>7, <2>2, <2>3, FLTReadIs
  <2>6. \A v : <<v>> = [j \in 1..1 |-> v]
    OBVIOUS
  <2>7. Element(h, idx) = [j \in 1..1 |-> buffers[h][x + 1]]
    <3>1. \A j \in 1..1 : Place(x, j) = x + 1
      BY <2>1 DEF Place, EB
    <3>. QED  BY <1>5, <2>1, <3>1
  <2>8. ZeroElement(ram) = [j \in 1..1 |-> 0]
    BY <2>1 DEF ZeroElement, EB
  <2>. QED  BY <1>4, <2>4, <2>5, <2>6, <2>7, <2>8
<1>. QED  BY <1>6, <1>7

LEMMA SameBuffers ==
  ASSUME NEW S, NEW a \in Seq(S), NEW b \in Seq(S), NEW size \in Nat, NEW bits \in Nat \ {0},
         Len(a) = size * bits, Len(b) = size * bits,
         \A i \in 0..(size - 1) : \A j \in 1..bits : a[i * bits + j] = b[i * bits + j]
  PROVE  a = b
<1>1. PICK n \in Nat : n = size * bits
  OBVIOUS
<1>2. ASSUME NEW k \in 1..n
      PROVE  a[k] = b[k]
  <2>1. PICK i \in 0..(size - 1), j \in 1..bits :
          /\ k = i * bits + j /\ i = (k - 1) \div bits /\ j = ((k - 1) % bits) + 1
    BY <1>1, PlacedAt, k \in 1..(size * bits), Zenon
  <2>. QED  BY <2>1
<1>3. a = [k \in 1..n |-> a[k]] /\ b = [k \in 1..n |-> b[k]]
  BY <1>1
<1>. QED  BY <1>2, <1>3

LEMMA WriteAgrees ==
  ASSUME Shape, NEW h \in Handles, NEW idx \in Word(IB), NEW in \in Word(EB), raw[h] = buffers[h],
         Beyond(h) = {}, ~ OddWrite(h)
  PROVE  /\ RawWrite(h, idx, in) = IF OutOfRange(h, idx) THEN buffers[h] ELSE Overwritten(h, idx, in)
         /\ RawWriteCheck(h, idx) = 0 <=> ~ OutOfRange(h, idx)
<1>1. RamShape /\ p \in Nat \ {0, 1} /\ EB \in Nat \ {0} /\ IB \in Nat \ {0}
  BY DEF Shape, RamShape
<1>2. PICK size \in Nat : size = sizes[h]
  BY ShapeOf DEF Holds
<1>3. buffers[h] \in Seq(Value) /\ Len(buffers[h]) = size * EB /\ SizeAllowed(size)
  BY <1>2, ShapeOf DEF Holds
<1>4. PICK x \in Nat : x = Index(idx) /\ (OutOfRange(h, idx) <=> ~(x < size))
  BY <1>2, RangeIs
<1> DEFINE written == RawWrite(h, idx, in)
           expected == IF OutOfRange(h, idx) THEN buffers[h] ELSE Overwritten(h, idx, in)
<1>5. written \in Seq(Value) /\ Len(written) = size * EB
  BY <1>2, RawWriteShape
<1>6. /\ Overwritten(h, idx, in) \in Seq(Value) /\ Len(Overwritten(h, idx, in)) = size * EB
      /\ \A i \in 0..(size - 1) : \A j \in 1..EB :
           Overwritten(h, idx, in)[i * EB + j] = IF i = x THEN in[j] ELSE buffers[h][i * EB + j]
  BY <1>2, <1>4, OverwrittenIs
<1>7. /\ expected \in Seq(Value) /\ Len(expected) = size * EB
      /\ \A i \in 0..(size - 1) : \A j \in 1..EB :
           expected[i * EB + j] = IF i = x THEN in[j] ELSE buffers[h][i * EB + j]
  <2>1. CASE OutOfRange(h, idx)
    <3>1. \A i \in 0..(size - 1) : i # x
      BY <1>4, <2>1
    <3>. QED  BY <1>3, <2>1, <3>1
  <2>2. CASE ~ OutOfRange(h, idx)
    BY <1>6, <2>2
  <2>. QED  BY <2>1, <2>2
<1> HIDE DEF expected
<1>8. /\ \A i \in 0..(size - 1) : \A j \in 1..EB :
           written[i * EB + j] = IF i = x THEN in[j] ELSE buffers[h][i * EB + j]
      /\ RawWriteCheck(h, idx) = 0 <=> x < size
  <2>1. CASE ram.boolean
    <3>1. written = BoolWrite(buffers[h], idx, in) /\ RawWriteCheck(h, idx) = BoolWriteCheck(size, idx)
      BY <1>2, <2>1 DEF RawWrite, RawWriteCheck
    <3> HIDE DEF written
    <3>2. /\ \A i \in 0..(size - 1) : \A j \in 1..EB :
               BoolWrite(buffers[h], idx, in)[i * EB + j] =
                 IF i = Index(idx) THEN in[j] ELSE buffers[h][i * EB + j]
          /\ BoolWriteCheck(size, idx) = 0 <=> Index(idx) < size
      BY <1>1, <1>3, <2>1, BoolWriteIs
    <3>. QED  BY <1>4, <3>1, <3>2
  <2>2. CASE ~ ram.boolean
    <3>1. IB = 1 /\ EB = 1
      BY <1>1, <2>2 DEF RamShape
    <3>2. idx[1] \in Value /\ x = idx[1] /\ in[1] \in Value
      <4>1. idx \in Seq(Nat) /\ Len(idx) = 1 /\ idx[1] \in Value /\ in[1] \in Value
        BY <1>1, <3>1, WordIs, 1 \in 1..1
      <4>. QED  BY <1>4, <4>1, IndexIs
    <3>3. Len(buffers[h]) = size /\ size <= p
      <4>1. size <= p + 1 /\ size # p + 1
        BY <1>1, <1>2, <2>2 DEF Beyond, OddWrite
      <4>. QED  BY <1>1, <1>3, <3>1, <4>1
    <3>4. written = FLTWrite(buffers[h], idx[1], in[1]) /\ RawWriteCheck(h, idx) = FLTWriteCheck(buffers[h], idx[1])
      BY <2>2 DEF RawWrite, RawWriteCheck
    <3> HIDE DEF written
    <3>5. /\ \A i \in 1..size : written[i] = IF x = i - 1 THEN in[1] ELSE buffers[h][i]
          /\ RawWriteCheck(h, idx) = 0 <=> x < size
      BY <1>1, <1>3, <2>2, <3>2, <3>3, <3>4, FLTWriteIs, SMTT(30)
    <3>6. ASSUME NEW i \in 0..(size - 1), NEW j \in 1..EB
          PROVE  written[i * EB + j] = IF i = x THEN in[j] ELSE buffers[h][i * EB + j]
      <4>1. i * EB + j = i + 1 /\ j = 1 /\ i + 1 \in 1..size /\ (i + 1) - 1 = i
        BY <3>1
      <4>. QED  BY <3>5, <4>1
    <3>. QED  BY <3>5, <3>6
  <2>. QED  BY <2>1, <2>2
<1> HIDE DEF written
<1>9. written = expected
  <2>1. \A i \in 0..(size - 1) : \A j \in 1..EB : written[i * EB + j] = expected[i * EB + j]
    BY <1>7, <1>8
  <2>2. /\ written \in Seq(Value) /\ expected \in Seq(Value) /\ size \in Nat /\ EB \in Nat \ {0}
        /\ Len(written) = size * EB /\ Len(expected) = size * EB
    BY <1>1, <1>2, <1>5, <1>7
  <2>. QED  BY <2>1, <2>2, SameBuffers
<1>. QED  BY <1>4, <1>8, <1>9 DEF written, expected

Agree ==
  /\ buffers = [h \in Handles |-> buffers[h]]
  /\ undefined = {} /\ ~ odd =>
       /\ raw = buffers /\ rawOut = out
       /\ prover => (fail <=> failure)

LEMMA InitAgrees ==
  ASSUME Init
  PROVE  Agree
BY DEF Init, Agree

LEMMA InitStepAgrees ==
  ASSUME Shape, Agree, NEW h \in Handles, NEW size, NEW fill, InitStep(h, size, fill)
  PROVE  Agree'
<1>1. buffers' = [g \in Handles |-> buffers'[g]]
  BY DEF Shape, InitStep
<1>2. undefined' = {} /\ ~ odd' => /\ raw' = buffers' /\ rawOut' = out'
                                   /\ prover' => (fail' <=> failure')
  BY DEF Agree, InitStep, Same, outs
<1>. QED  BY <1>1, <1>2 DEF Agree

LEMMA DropStepAgrees ==
  ASSUME Shape, Agree, NEW h \in Handles, DropStep(h)
  PROVE  Agree'
<1>1. buffers' = [g \in Handles |-> buffers'[g]]
  BY DEF Shape, DropStep
<1>2. undefined' = {} /\ ~ odd' => /\ raw' = buffers' /\ rawOut' = out'
                                   /\ prover' => (fail' <=> failure')
  BY DEF Agree, DropStep, Same, outs, ghosts
<1>. QED  BY <1>1, <1>2 DEF Agree

LEMMA ReadStepAgrees ==
  ASSUME Shape, Agree, NEW h \in Handles, NEW idx \in Word(IB), ReadStep(h, idx)
  PROVE  Agree'
<1>1. SUFFICES ASSUME undefined' = {}, ~ odd'
               PROVE  /\ raw' = buffers' /\ rawOut' = out'
                      /\ prover' => (fail' <=> failure')
  BY DEF Agree, ReadStep, values
<1>2. undefined = {} /\ ~ odd /\ ~ OddRead(h) /\ Empty(h) = {} /\ Beyond(h) = {}
  BY <1>1 DEF ReadStep, Same
<1>3. raw = buffers /\ (prover => (fail <=> failure))
  BY <1>2 DEF Agree
<1>4. /\ RawRead(h, idx) = IF OutOfRange(h, idx) THEN ZeroElement(ram) ELSE Element(h, idx)
      /\ RawReadCheck(h, idx) = 0 <=> ~ OutOfRange(h, idx)
  BY <1>2, <1>3, ReadAgrees
<1>5. raw' = buffers' /\ prover' = prover
  BY <1>3 DEF ReadStep, Same, values
<1>6. rawOut' = out'
  BY <1>1, <1>4 DEF ReadStep
<1>7. fail' = (fail \/ Failing(RawReadCheck(h, idx))) /\ failure' = (failure \/ OutOfRange(h, idx))
  BY <1>1 DEF ReadStep
<1>8. prover => (Failing(RawReadCheck(h, idx)) <=> OutOfRange(h, idx))
  BY <1>4 DEF Failing, assertZero
<1>. QED  BY <1>3, <1>5, <1>6, <1>7, <1>8

LEMMA WriteStepAgrees ==
  ASSUME Shape, Agree, NEW h \in Handles, NEW idx \in Word(IB), NEW in \in Word(EB),
         WriteStep(h, idx, in)
  PROVE  Agree'
<1>0. buffers' = [g \in Handles |-> buffers'[g]]
  BY DEF Agree, WriteStep, Shape
<1>1. SUFFICES ASSUME undefined' = {}, ~ odd'
               PROVE  /\ raw' = buffers' /\ rawOut' = out'
                      /\ prover' => (fail' <=> failure')
  BY <1>0 DEF Agree
<1>2. undefined = {} /\ ~ odd /\ ~ OddWrite(h) /\ Beyond(h) = {}
  BY <1>1 DEF WriteStep, Same
<1>3. raw = buffers /\ rawOut = out /\ (prover => (fail <=> failure))
  BY <1>2 DEF Agree
<1>4. /\ RawWrite(h, idx, in) = IF OutOfRange(h, idx) THEN buffers[h] ELSE Overwritten(h, idx, in)
      /\ RawWriteCheck(h, idx) = 0 <=> ~ OutOfRange(h, idx)
  BY <1>2, <1>3, WriteAgrees
<1>5. rawOut' = out' /\ prover' = prover
  BY <1>3 DEF WriteStep, Same, outs
<1>6. raw' = buffers'
  <2>1. /\ raw' = [raw EXCEPT ![h] = RawWrite(h, idx, in)]
        /\ buffers' = IF OutOfRange(h, idx) THEN buffers
                      ELSE [buffers EXCEPT ![h] = Overwritten(h, idx, in)]
    BY <1>1 DEF WriteStep
  <2>2. DOMAIN buffers = Handles
    BY DEF Shape
  <2>3. CASE OutOfRange(h, idx)
    <3>1. raw' = [buffers EXCEPT ![h] = buffers[h]] /\ buffers' = buffers
      BY <1>3, <1>4, <2>1, <2>3
    <3>2. buffers = [g \in Handles |-> buffers[g]]
      BY DEF Agree
    <3>. QED  BY <2>2, <3>1, <3>2
  <2>4. CASE ~ OutOfRange(h, idx)
    BY <1>3, <1>4, <2>1, <2>4
  <2>. QED  BY <2>3, <2>4
<1>7. fail' = (fail \/ Failing(RawWriteCheck(h, idx))) /\ failure' = (failure \/ OutOfRange(h, idx))
  BY <1>1 DEF WriteStep
<1>8. prover => (Failing(RawWriteCheck(h, idx)) <=> OutOfRange(h, idx))
  BY <1>4 DEF Failing, assertZero
<1>. QED  BY <1>3, <1>5, <1>6, <1>7, <1>8

LEMMA AgreeStep ==
  ASSUME Shape, Agree, [Next]_vars
  PROVE  Agree'
<1>1. CASE UNCHANGED vars
  BY <1>1 DEF Agree, vars, values, outs, ghosts
<1>2. ASSUME NEW h \in Handles, RamInit(h) \/ RamRead(h) \/ RamWrite(h) \/ RamDrop(h)
      PROVE  Agree'
  <2>1. RamShape
    BY DEF Shape
  <2>2. CASE RamInit(h)
    BY <2>1, <2>2, RamInitIs, InitStepAgrees
  <2>3. CASE RamRead(h)
    BY <2>1, <2>3, RamReadIs, ReadStepAgrees
  <2>4. CASE RamWrite(h)
    BY <2>1, <2>4, RamWriteIs, WriteStepAgrees
  <2>5. CASE RamDrop(h)
    BY <2>5, RamDropIs, DropStepAgrees
  <2>. QED  BY <1>2, <2>2, <2>3, <2>4, <2>5
<1>. QED  BY <1>1, <1>2 DEF Next

LEMMA ShapeGives ==
  ASSUME Shape
  PROVE  TypeOK /\ "short" \notin undefined
<1>1. ASSUME NEW h \in Handles
      PROVE  /\ {Len(buffers[h]), Len(raw[h])} = {sizes[h] * ram.elementBits}
             /\ Range(buffers[h]) \cup Range(raw[h]) \subseteq 0..(p - 1)
             /\ h \notin live => sizes[h] = 0
  <2>1. Holds(h, buffers[h], raw[h], sizes[h]) /\ (h \notin live => sizes[h] = 0)
    BY ShapeOf
  <2>2. ASSUME NEW b \in Seq(Value)
        PROVE  Range(b) \subseteq 0..(p - 1)
    <3>1. b \in [1..Len(b) -> Value]
      OBVIOUS
    <3>. QED  BY <3>1 DEF Range, Value
  <2>. QED  BY <2>1, <2>2 DEF Holds, EB
<1>2. {failure, fail, odd} \subseteq BOOLEAN /\ "short" \notin undefined
  BY DEF Shape
<1>. QED  BY <1>1, <1>2 DEF TypeOK

(* The fallback holds and reads what firealarm's RAM does, in every         *)
(* setting, and in a prover its asserts fail for the same calls, as long as *)
(* no call was on a size that its gates are wrong for (ArithmeticRAM.t.h,   *)
(* BooleanRAM.t.h, firealarm/RAM.t.h): for every modulus that Fermat's      *)
(* little theorem holds for, every width of indexes and elements, every     *)
(* number of handles, and programs of any length.                           *)
THEOREM RamBackendsAgree == Spec => []BackendsAgree
<1>1. Init => Shape /\ Agree
  BY InitShape, InitAgrees
<1>2. Shape /\ Agree /\ [Next]_vars => (Shape /\ Agree)'
  BY ShapeStep, AgreeStep
<1>3. Shape /\ Agree => BackendsAgree
  BY ShapeGives DEF Agree, BackendsAgree
<1>. QED  BY <1>1, <1>2, <1>3, PTL DEF Spec
===============================================================================
