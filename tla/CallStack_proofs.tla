-------------------------- MODULE CallStack_proofs --------------------------
(***************************************************************************)
(* Mapping wires by reference is safe, for every number of types, wires,   *)
(* parameters and scopes: nothing that holds a value is written again, and *)
(* what is active in a scope is held by memory, however many scopes lie    *)
(* between the two.                                                        *)
(*                                                                         *)
(* Held is the inductive invariant, of the states where nothing has been   *)
(* refused. Its core is about the wires not yet assigned (Free): no two of *)
(* a scope share a location, none of the scope on top has memory, and one  *)
(* of a scope further down has memory only if the call under way there is  *)
(* to assign it (Awaited): what a callee writes through its outputs shows  *)
(* in no other wire of any caller.                                         *)
(*                                                                         *)
(* From the same invariant, calls refine PureCalls: mapping by reference   *)
(* computes what copying inputs in and outputs out would.                  *)
(***************************************************************************)
EXTENDS CallStack, FiniteSetTheorems, SequenceTheorems, WellFoundedInduction, TLAPS

-----------------------------------------------------------------------------
(* Induction over data: a set of numbers that is not empty has a least      *)
(* member, among others the numbers for which a claim fails.                *)

(* A nonempty set of natural numbers has a least member.                    *)
LEMMA LeastNat ==
  ASSUME NEW T, T \subseteq Nat, T # {}
  PROVE  \E x \in T : \A y \in T : x <= y
<1> DEFINE R == OpToRel(<, Nat)
<1>1. \E x \in T : \A y \in T : ~(<<y, x>> \in R)
  BY NatLessThanWellFounded, WFMin
<1>2. \A x, y \in Nat : <<y, x>> \in R <=> y < x
  BY DEF OpToRel
<1> HIDE DEF R
<1>3. PICK x \in T : \A y \in T : ~(<<y, x>> \in R)
  BY <1>1, Zenon
<1>4. ASSUME NEW y \in T
      PROVE  x <= y
  <2>1. x \in Nat /\ y \in Nat
    OBVIOUS
  <2>2. ~(y < x)
    BY <1>2, <1>3, <2>1
  <2>. QED  BY <2>1, <2>2
<1>. QED  BY <1>4

(* A nonempty set of integers with an upper bound has a greatest member.    *)
LEMMA GreatestInt ==
  ASSUME NEW T, T \subseteq Int, T # {},
         NEW b \in Int, \A x \in T : x <= b
  PROVE  \E x \in T : \A y \in T : y <= x
<1> DEFINE Below == {n \in Nat : b - n \in T}
<1>1. PICK x \in T : TRUE
  OBVIOUS
<1>2. b - x \in Nat /\ b - (b - x) = x
  BY <1>1
<1>3. Below \subseteq Nat /\ Below # {}
  BY <1>1, <1>2
<1>4. PICK n \in Below : \A m \in Below : n <= m
  BY <1>3, LeastNat, Zenon
<1>5. ASSUME NEW y \in T
      PROVE  y <= b - n
  <2>1. b - y \in Nat /\ b - (b - y) = y
    OBVIOUS
  <2>2. b - y \in Below
    BY <2>1
  <2>3. n <= b - y
    BY <1>4, <2>2
  <2>. QED  BY <2>1, <2>3, n \in Nat
<1>. QED  BY <1>4, <1>5

(* f holds the states that N rounds of a loop go through, which a function  *)
(* exists for: what a recursive definition over positions defines.          *)
IteratesAt(f, N, start, step) ==
  \A n \in 0..N : f[n] = IF n = 0 THEN start ELSE step[n][f[n - 1]]

LEMMA IterationAtExists ==
  ASSUME NEW S, NEW start \in S, NEW N \in Nat, NEW step \in [1..N -> [S -> S]]
  PROVE  \E f \in [0..N -> S] : IteratesAt(f, N, start, step)
<1> DEFINE Good(f, n) ==
      /\ f \in [0..n -> S]
      /\ f[0] = start
      /\ \A k \in 1..n : f[k] = step[k][f[k - 1]]
    Failed == {n \in 0..N : ~ \E f : Good(f, n)}
<1>1. Failed = {}
  <2>1. SUFFICES ASSUME Failed # {}
                 PROVE  FALSE
    OBVIOUS
  <2>2. PICK n \in Failed : \A m \in Failed : n <= m
    BY <2>1, LeastNat, Failed \subseteq Nat, Zenon
  <2>3. CASE n = 0
    <3>1. Good([k \in 0..0 |-> start], 0)
      OBVIOUS
    <3>. QED  BY <2>3, <3>1, <2>2
  <2>4. CASE n # 0
    <3>1. n \in Nat /\ n - 1 \in Nat /\ ~(n <= n - 1) /\ n \in 1..N /\ n - 1 \in 0..N
      BY <2>4
    <3>2. PICK f : Good(f, n - 1)
      BY <3>1, <2>2
    <3> DEFINE g == [k \in 0..n |-> IF k < n THEN f[k] ELSE step[n][f[n - 1]]]
    <3>3. \A k \in 0..(n - 1) : f[k] \in S /\ k \in 0..n /\ k < n
      BY <3>1, <3>2
    <3>4. g \in [0..n -> S]
      <4>1. step[n][f[n - 1]] \in S
        BY <3>3, <3>1, n - 1 \in 0..(n - 1)
      <4>2. ASSUME NEW k \in 0..n
            PROVE  (IF k < n THEN f[k] ELSE step[n][f[n - 1]]) \in S
        BY <4>1, <3>3, <3>1
      <4>. QED  BY <4>2
    <3>5. g[0] = start
      BY <3>1, <3>2
    <3>6. ASSUME NEW k \in 1..n
          PROVE  g[k] = step[k][g[k - 1]]
      <4>1. k - 1 \in 0..n /\ k - 1 < n /\ k \in 0..n
        BY <3>1
      <4>2. g[k - 1] = f[k - 1]
        BY <4>1
      <4>3. CASE k < n
        BY <4>1, <4>2, <4>3, <3>2, k \in 1..(n - 1), <3>1
      <4>4. CASE ~(k < n)
        BY <4>1, <4>2, <4>4, k = n, <3>1
      <4>. QED  BY <4>3, <4>4
    <3>7. Good(g, n)
      BY <3>4, <3>5, <3>6
    <3>. QED  BY <3>7, <2>2
  <2>. QED  BY <2>3, <2>4
<1>2. PICK f : Good(f, N)
  BY <1>1, N \in 0..N
<1>3. ASSUME NEW n \in 0..N
      PROVE  f[n] = IF n = 0 THEN start ELSE step[n][f[n - 1]]
  BY <1>2, n # 0 => n \in 1..N
<1>. QED  BY <1>2, <1>3 DEF IteratesAt
-----------------------------------------------------------------------------
Unassigned(d, t) == Wire \ stack[d][t].assigned

OutputsOf(outs, t) ==
  UNION {outs[k].first .. outs[k].last : k \in {j \in DOMAIN outs : outs[j].type = t}}

(* The wires of the scope at depth d that the call made from it will assign. *)
Awaited(d, t) == IF d = Depth THEN {} ELSE OutputsOf(calls[d], t)

(* The mapped ranges of a scope at depth d lie one after the other below    *)
(* its local wires, each in a scope further down.                           *)
Mapped(scope, d) ==
  /\ scope.active \subseteq scope.assigned
  /\ \A m \in scope.mapped :
       /\ m.owner < d
       /\ m.base + m.length <= TopWire + 1
       /\ m.first + m.length <= scope.firstLocal
  /\ \A w \in 0..(scope.firstLocal - 1) : \E m \in scope.mapped : CoveredBy(m, w, w)
  /\ \A m, n \in scope.mapped, w \in Wire :
       CoveredBy(m, w, w) /\ CoveredBy(n, w, w) => m = n

(* The outputs outs of the call from depth d are its own, not assigned yet, *)
(* and where its callee expects them.                                       *)
Linked(outs, d) ==
  /\ Disjoint(outs)
  /\ \A k \in DOMAIN outs :
       LET t == outs[k].type
       IN  /\ outs[k].first .. outs[k].last \subseteq Unassigned(d, t)
           /\ \A i \in 0..(LengthOf(outs[k]) - 1) :
                LocationOf(d + 1, t, Place(outs, k) + i) = LocationOf(d, t, outs[k].first + i)

(* What the wires not yet assigned have of memory.                          *)
Free ==
  \A d \in DOMAIN stack, t \in Type :
    /\ \A w \in Unassigned(d, t) \ Awaited(d, t) : LocationOf(d, t, w) \notin DOMAIN memory
    /\ \A v, w \in Unassigned(d, t) : LocationOf(d, t, v) = LocationOf(d, t, w) => v = w
    /\ \A e \in (d + 1)..Depth : \A v \in Unassigned(d, t), w \in Unassigned(e, t) :
         LocationOf(d, t, v) = LocationOf(e, t, w) => v \in Awaited(d, t)

ActiveIn(S) ==
  \A d \in DOMAIN stack, t \in Type :
    \A w \in stack[d][t].active : LocationOf(d, t, w) \in S

(* The part of Held that is about running programs.                         *)
Sound ==
  /\ Depth = Len(calls) + 1
  /\ \A d \in DOMAIN stack, t \in Type : Mapped(stack[d][t], d)
  /\ \A d \in DOMAIN calls : Linked(calls[d], d)
  /\ \A loc \in DOMAIN memory : memory[loc] \in Value
  /\ Free
  /\ ActiveIn(DOMAIN memory)

Held ==
  /\ TypeOK
  /\ Depth >= Len(calls) + 1
  /\ ~failed => Sound

(* The sums of the lengths of parameters.                                   *)
LEMMA IntervalsAre ==
  ASSUME NEW p \in Interval
  PROVE  /\ p.type \in Type /\ p.first \in Nat /\ p.last \in Nat
         /\ p.first <= p.last /\ p.last <= MaxWire
         /\ LengthOf(p) \in Nat /\ 1 <= LengthOf(p) /\ LengthOf(p) <= MaxLength
         /\ p.first .. p.last \subseteq Wire
  BY CallAssumption DEF Interval, Arg, Wire, LengthOf

LEMMA LengthsAre ==
  ASSUME NEW params \in Seq(Interval), NEW t
  PROVE  /\ Lengths(params, t) \in [0..Len(params) -> Nat]
         /\ Lengths(params, t)[0] = 0
         /\ \A n \in 1..Len(params) :
              Lengths(params, t)[n] =
                Lengths(params, t)[n - 1]
                  + IF params[n].type = t THEN LengthOf(params[n]) ELSE 0
<1> DEFINE N == Len(params)
           inc(n) == IF params[n].type = t THEN LengthOf(params[n]) ELSE 0
           step == [n \in 1..N |-> [s \in Nat |-> s + inc(n)]]
           Def(f) == f = [n \in 0..N |-> IF n = 0 THEN 0 ELSE f[n - 1] + inc(n)]
<1>1. N \in Nat /\ \A n \in 1..N : params[n] \in Interval
  OBVIOUS
<1>2. \A n \in 1..N : inc(n) \in Nat
  BY <1>1, IntervalsAre
<1> HIDE DEF inc
<1>3. step \in [1..N -> [Nat -> Nat]]
  BY <1>2
<1>4. \A n \in 1..N, s \in Nat : step[n][s] = s + inc(n)
  OBVIOUS
<1> HIDE DEF step, N
<1>5. PICK f \in [0..N -> Nat] : IteratesAt(f, N, 0, step)
  BY <1>1, <1>3, IterationAtExists, Zenon
<1>6. ASSUME NEW n \in 0..N
      PROVE  f[n] = IF n = 0 THEN 0 ELSE f[n - 1] + inc(n)
  <2>1. CASE n = 0
    BY <1>5, <2>1 DEF IteratesAt
  <2>2. CASE n # 0
    <3>1. n \in 1..N /\ n - 1 \in 0..N
      BY <1>1, <2>2
    <3>2. f[n] = step[n][f[n - 1]]
      BY <1>5, <2>2 DEF IteratesAt
    <3>3. f[n - 1] \in Nat
      BY <1>5, <3>1
    <3>. QED  BY <1>4, <2>2, <3>1, <3>2, <3>3
  <2>. QED  BY <2>1, <2>2
<1>7. f = [n \in 0..N |-> IF n = 0 THEN 0 ELSE f[n - 1] + inc(n)]
  BY <1>5, <1>6
<1> DEFINE g == CHOOSE h : Def(h)
<1>8. Def(f)
  BY <1>7
<1>9. Def(g)
  BY <1>8, Zenon
<1> HIDE DEF g
<1>10. \A n \in 0..N : g[n] = IF n = 0 THEN 0 ELSE g[n - 1] + inc(n)
  BY <1>9
<1> HIDE DEF Def
<1>11. g = Lengths(params, t)
  BY DEF g, Def, Lengths, inc, N
<1>12. \A n \in 0..N : g[n] = f[n]
  <2> DEFINE Failed == {n \in 0..N : g[n] # f[n]}
  <2>1. SUFFICES ASSUME Failed # {}
                 PROVE  FALSE
    OBVIOUS
  <2>2. PICK n \in Failed : \A m \in Failed : n <= m
    BY <1>1, <2>1, LeastNat, Failed \subseteq Nat, Zenon
  <2>3. n # 0 /\ n - 1 \in 0..N /\ ~(n <= n - 1) /\ n \in 0..N
    BY <1>1, <1>6, <1>10
  <2>4. g[n - 1] = f[n - 1]
    BY <2>2, <2>3
  <2>. QED  BY <1>6, <1>10, <2>3, <2>4
<1>13. \A n \in 0..N : g[n] \in Nat
  BY <1>5, <1>12
<1>14. DOMAIN g = 0..N /\ g = [n \in 0..N |-> g[n]]
  BY <1>9 DEF Def
<1>15. g \in [0..N -> Nat]
  BY <1>13, <1>14
<1>16. g[0] = 0
  BY <1>1, <1>10
<1>17. \A n \in 1..N : g[n] = g[n - 1] + inc(n)
  BY <1>1, <1>10
<1>. QED  BY <1>11, <1>15, <1>16, <1>17 DEF inc, N

(* What comes later in the list lies further up.                            *)
LEMMA LengthsGrow ==
  ASSUME NEW params \in Seq(Interval), NEW t,
         NEW m \in 0..Len(params), NEW n \in 0..Len(params), m <= n
  PROVE  /\ Lengths(params, t)[m] \in Nat /\ Lengths(params, t)[n] \in Nat
         /\ Lengths(params, t)[m] <= Lengths(params, t)[n]
<1> DEFINE L == Lengths(params, t)
           N == Len(params)
           Failed == {k \in 0..N : m <= k /\ ~(L[m] <= L[k])}
<1>1. L \in [0..N -> Nat] /\ N \in Nat
  BY LengthsAre
<1>2. \A k \in 1..N : L[k - 1] <= L[k]
  <2>1. SUFFICES ASSUME NEW k \in 1..N
                 PROVE  L[k - 1] <= L[k]
    OBVIOUS
  <2>2. L[k] = L[k - 1] + IF params[k].type = t THEN LengthOf(params[k]) ELSE 0
    BY LengthsAre
  <2>3. LengthOf(params[k]) \in Nat
    BY IntervalsAre
  <2>4. k - 1 \in 0..N
    BY <1>1
  <2>5. L[k - 1] \in Nat
    BY <1>1, <2>4
  <2>. QED  BY <2>2, <2>3, <2>5
<1> HIDE DEF L, N
<1>3. Failed = {}
  <2>1. SUFFICES ASSUME Failed # {}
                 PROVE  FALSE
    OBVIOUS
  <2>2. PICK k \in Failed : \A j \in Failed : k <= j
    BY <1>1, <2>1, LeastNat, Failed \subseteq Nat, Zenon
  <2>3. k \in 0..N /\ m <= k /\ ~(L[m] <= L[k]) /\ m \in 0..N
    BY DEF N
  <2>4. k # m
    BY <1>1, <2>3
  <2>5. k \in 1..N /\ k - 1 \in 0..N /\ m <= k - 1 /\ ~(k <= k - 1)
    BY <1>1, <2>3, <2>4
  <2>6. L[m] <= L[k - 1]
    BY <2>2, <2>5
  <2>. QED  BY <1>1, <1>2, <2>3, <2>5, <2>6
<1>. QED  BY <1>1, <1>3 DEF L, N
(* n parameters have at most n * MaxLength wires.                           *)
LEMMA LengthsBounded ==
  ASSUME NEW params \in Seq(Interval), NEW t, NEW n \in 0..Len(params)
  PROVE  Lengths(params, t)[n] <= n * MaxLength
<1> DEFINE L == Lengths(params, t)
           N == Len(params)
           Failed == {k \in 0..N : ~(L[k] <= k * MaxLength)}
<1>1. L \in [0..N -> Nat] /\ N \in Nat /\ L[0] = 0 /\ MaxLength \in Nat
  BY LengthsAre, CallAssumption
<1>2. \A k \in 1..N : L[k] <= L[k - 1] + MaxLength
  <2>1. SUFFICES ASSUME NEW k \in 1..N
                 PROVE  L[k] <= L[k - 1] + MaxLength
    OBVIOUS
  <2>2. L[k] = L[k - 1] + IF params[k].type = t THEN LengthOf(params[k]) ELSE 0
    BY LengthsAre
  <2>3. LengthOf(params[k]) \in Nat /\ LengthOf(params[k]) <= MaxLength
    BY IntervalsAre
  <2>4. L[k - 1] \in Nat
    BY <1>1
  <2>. QED  BY <1>1, <2>2, <2>3, <2>4
<1> HIDE DEF L, N
<1>3. Failed = {}
  <2>1. SUFFICES ASSUME Failed # {}
                 PROVE  FALSE
    OBVIOUS
  <2>2. PICK k \in Failed : \A j \in Failed : k <= j
    BY <1>1, <2>1, LeastNat, Failed \subseteq Nat, Zenon
  <2>3. k \in 0..N /\ ~(L[k] <= k * MaxLength)
    OBVIOUS
  <2>4. k # 0
    BY <1>1, <2>3
  <2>5. k \in 1..N /\ k - 1 \in 0..N /\ ~(k <= k - 1) /\ k \in Nat
    BY <1>1, <2>3, <2>4
  <2>6. L[k - 1] <= (k - 1) * MaxLength
    BY <2>2, <2>5
  <2>7. (k - 1) * MaxLength + MaxLength = k * MaxLength
    BY <1>1, <2>5
  <2>8. L[k - 1] \in Nat /\ L[k] \in Nat
    BY <1>1, <2>5
  <2>9. L[k] <= L[k - 1] + MaxLength
    BY <1>2, <2>5
  <2>. QED  BY <1>1, <2>3, <2>5, <2>6, <2>7, <2>8, <2>9
<1>. QED  BY <1>3 DEF L, N

(* Parameters that follow have no part in it.                               *)
LEMMA LengthsOfPrefix ==
  ASSUME NEW outs \in Seq(Interval), NEW ins \in Seq(Interval), NEW t,
         NEW n \in 0..Len(outs)
  PROVE  Lengths(outs \o ins, t)[n] = Lengths(outs, t)[n]
<1> DEFINE params == outs \o ins
           L == Lengths(params, t)
           M == Lengths(outs, t)
           N == Len(outs)
           Failed == {k \in 0..N : L[k] # M[k]}
<1>1. /\ params \in Seq(Interval) /\ N \in Nat /\ N <= Len(params) /\ Len(params) \in Nat
      /\ \A k \in 1..N : params[k] = outs[k]
  OBVIOUS
<1> HIDE DEF params
<1>2. L[0] = 0 /\ M[0] = 0
  BY <1>1, LengthsAre
<1>3. \A k \in 1..N : L[k - 1] = M[k - 1] => L[k] = M[k]
  <2>1. SUFFICES ASSUME NEW k \in 1..N, L[k - 1] = M[k - 1]
                 PROVE  L[k] = M[k]
    OBVIOUS
  <2>2. L[k] = L[k - 1] + IF params[k].type = t THEN LengthOf(params[k]) ELSE 0
    BY <1>1, LengthsAre, k \in 1..Len(params)
  <2>3. M[k] = M[k - 1] + IF outs[k].type = t THEN LengthOf(outs[k]) ELSE 0
    BY LengthsAre
  <2>. QED  BY <1>1, <2>1, <2>2, <2>3
<1> HIDE DEF L, M, N
<1>4. Failed = {}
  <2>1. SUFFICES ASSUME Failed # {}
                 PROVE  FALSE
    OBVIOUS
  <2>2. PICK k \in Failed : \A j \in Failed : k <= j
    BY <1>1, <2>1, LeastNat, Failed \subseteq Nat, Zenon
  <2>3. k \in 0..N /\ L[k] # M[k]
    OBVIOUS
  <2>4. k # 0
    BY <1>2, <2>3
  <2>5. k \in 1..N /\ k - 1 \in 0..N /\ ~(k <= k - 1)
    BY <1>1, <2>3, <2>4
  <2>6. L[k - 1] = M[k - 1]
    BY <2>2, <2>5
  <2>. QED  BY <1>3, <2>3, <2>5, <2>6
<1>. QED  BY <1>4 DEF L, M, N, params

(* A number below the sum of the first n lies in one parameter of the type. *)
In(w, params, k) == Place(params, k) <= w /\ w < Place(params, k) + LengthOf(params[k])

LEMMA PlaceFacts ==
  ASSUME NEW params \in Seq(Interval), NEW k \in 1..Len(params)
  PROVE  /\ Place(params, k) \in Nat
         /\ Lengths(params, params[k].type)[k] = Place(params, k) + LengthOf(params[k])
<1>1. k - 1 \in 0..Len(params)
  OBVIOUS
<1>. QED  BY <1>1, LengthsAre DEF Place

LEMMA PlaceBelow ==
  ASSUME NEW params \in Seq(Interval), NEW t, NEW n \in 0..Len(params),
         NEW k \in 1..n, params[k].type = t
  PROVE  Place(params, k) + LengthOf(params[k]) <= Lengths(params, t)[n]
<1>1. k \in 1..Len(params) /\ k \in 0..Len(params) /\ k <= n
  OBVIOUS
<1>. QED  BY <1>1, PlaceFacts, LengthsGrow

LEMMA PlaceOf ==
  ASSUME NEW params \in Seq(Interval), NEW t, NEW n \in 0..Len(params),
         NEW w \in Nat, w < Lengths(params, t)[n]
  PROVE  \E k \in 1..n : params[k].type = t /\ In(w, params, k)
<1> DEFINE L == Lengths(params, t)
           N == Len(params)
           Above == {k \in 0..n : w < L[k]}
<1>1. L \in [0..N -> Nat] /\ N \in Nat /\ L[0] = 0 /\ n \in Nat /\ n <= N
  BY LengthsAre
<1>2. \A k \in 1..N : L[k] = L[k - 1] + IF params[k].type = t THEN LengthOf(params[k]) ELSE 0
  BY LengthsAre
<1>3. \A k \in 1..N : params[k].type = t => Place(params, k) = L[k - 1]
  BY DEF Place
<1>4. \A k \in 1..N : LengthOf(params[k]) \in Nat
  BY IntervalsAre
<1> HIDE DEF L, N
<1>5. n \in Above
  BY DEF L
<1>6. PICK k \in Above : \A j \in Above : k <= j
  BY <1>1, <1>5, LeastNat, Above \subseteq Nat, Zenon
<1>7. k \in 0..n /\ w < L[k] /\ k # 0
  BY <1>1
<1>8. k \in 1..N /\ k \in 1..n /\ k - 1 \in 0..n /\ k - 1 \in 0..N /\ ~(k <= k - 1)
  BY <1>1, <1>7
<1>9. ~(w < L[k - 1])
  BY <1>6, <1>8
<1>10. L[k - 1] \in Nat /\ L[k] \in Nat
  BY <1>1, <1>8
<1>11. params[k].type = t
  BY <1>2, <1>4, <1>7, <1>8, <1>9, <1>10
<1>. QED  BY <1>2, <1>3, <1>4, <1>7, <1>8, <1>9, <1>10, <1>11 DEF In

LEMMA PlaceUnique ==
  ASSUME NEW params \in Seq(Interval), NEW j \in 1..Len(params), NEW k \in 1..Len(params),
         params[j].type = params[k].type,
         NEW w \in Nat, In(w, params, j), In(w, params, k)
  PROVE  j = k
<1>1. ASSUME NEW a \in 1..Len(params), NEW b \in 1..Len(params),
             params[a].type = params[b].type, a < b
      PROVE  Place(params, a) + LengthOf(params[a]) <= Place(params, b)
  <2>1. b - 1 \in 0..Len(params) /\ a \in 1..(b - 1)
    BY <1>1
  <2>. QED  BY <1>1, <2>1, PlaceBelow DEF Place
<1>2. \A a \in 1..Len(params) : Place(params, a) \in Nat /\ LengthOf(params[a]) \in Nat
  BY PlaceFacts, IntervalsAre
<1>3. ~(j < k)
  BY <1>1, <1>2 DEF In
<1>4. ~(k < j)
  BY <1>1, <1>2 DEF In
<1>. QED  BY <1>3, <1>4
(* Where wires are.                                                         *)
LEMMA MappingAtIs ==
  ASSUME NEW scope \in ScopeType, NEW d \in 1..MaxDepth, Mapped(scope, d),
         NEW w \in Wire, NEW m \in scope.mapped, CoveredBy(m, w, w)
  PROVE  MappingAt(scope, w) = m
<1>1. MappingAt(scope, w) \in scope.mapped /\ CoveredBy(MappingAt(scope, w), w, w)
  BY DEF MappingAt
<1>. QED  BY <1>1 DEF Mapped

LEMMA MappingsAre ==
  ASSUME NEW scope \in ScopeType, NEW d \in 1..MaxDepth, Mapped(scope, d),
         NEW m \in scope.mapped
  PROVE  /\ m.first \in Wire /\ m.length \in Nat /\ m.owner \in 1..MaxDepth
         /\ m.base \in Wire /\ m.owner < d /\ m.base + m.length <= TopWire + 1
         /\ m.first + m.length <= scope.firstLocal
BY DEF ScopeType, Mapping, Mapped

LEMMA LocalWire ==
  ASSUME NEW scope \in ScopeType, NEW d, NEW t, NEW w \in Wire, w >= scope.firstLocal
  PROVE  LocationIn(scope, d, t, w) = [type |-> t, depth |-> d, wire |-> w]
<1>1. scope.firstLocal \in Int /\ w \in Int
  BY CallAssumption DEF ScopeType, Wire
<1>. QED  BY <1>1 DEF LocationIn

LEMMA MappedWire ==
  ASSUME NEW scope \in ScopeType, NEW d \in 1..MaxDepth, NEW t, Mapped(scope, d),
         NEW w \in Wire, NEW m \in scope.mapped, CoveredBy(m, w, w)
  PROVE  /\ w < scope.firstLocal
         /\ LocationIn(scope, d, t, w) =
              [type |-> t, depth |-> m.owner, wire |-> m.base + w - m.first]
<1>1. MappingAt(scope, w) = m
  BY MappingAtIs
<1>2. w < scope.firstLocal
  BY MappingsAre, CallAssumption DEF CoveredBy, Wire, ScopeType
<1>. QED  BY <1>1, <1>2 DEF LocationIn, Within

LEMMA BelowLocal ==
  ASSUME NEW scope \in ScopeType, NEW d \in 1..MaxDepth, Mapped(scope, d),
         NEW w \in Wire, ~(w >= scope.firstLocal)
  PROVE  \E m \in scope.mapped : CoveredBy(m, w, w)
<1>1. w \in 0..(scope.firstLocal - 1)
  BY CallAssumption DEF ScopeType, Wire
<1>. QED  BY <1>1 DEF Mapped

LEMMA LocationFacts ==
  ASSUME NEW scope \in ScopeType, NEW d \in 1..MaxDepth, NEW t \in Type,
         Mapped(scope, d), NEW w \in Wire
  PROVE  /\ LocationIn(scope, d, t, w) \in Location
         /\ LocationIn(scope, d, t, w).type = t
         /\ LocationIn(scope, d, t, w).depth <= d
         /\ w < scope.firstLocal <=> LocationIn(scope, d, t, w).depth < d
<1>1. CASE w >= scope.firstLocal
  <2>1. LocationIn(scope, d, t, w) = [type |-> t, depth |-> d, wire |-> w]
    BY <1>1, LocalWire
  <2>2. d \in Int /\ w \in Int /\ scope.firstLocal \in Int /\ ~(w < scope.firstLocal)
    BY <1>1, CallAssumption DEF Wire, ScopeType
  <2>. QED  BY <2>1, <2>2 DEF Location
<1>2. CASE ~(w >= scope.firstLocal)
  <2>1. PICK m \in scope.mapped : CoveredBy(m, w, w)
    BY <1>2, BelowLocal
  <2> DEFINE x == m.base + w - m.first
  <2>2. /\ w < scope.firstLocal
        /\ LocationIn(scope, d, t, w) = [type |-> t, depth |-> m.owner, wire |-> x]
    BY <2>1, MappedWire
  <2>3. /\ m.first \in Wire /\ m.length \in Nat /\ m.owner \in 1..MaxDepth
        /\ m.base \in Wire /\ m.owner < d /\ m.base + m.length <= TopWire + 1
    BY MappingsAre
  <2>4. x \in Wire
    BY <2>1, <2>3, CallAssumption DEF CoveredBy, Wire
  <2> HIDE DEF x
  <2>. QED  BY <2>2, <2>3, <2>4 DEF Location
<1>. QED  BY <1>1, <1>2

(* A directive's interval lies in one range, so that its wires lie one      *)
(* after the other there.                                                   *)
LEMMA InOneRangeIs ==
  ASSUME NEW scope \in ScopeType, NEW d \in 1..MaxDepth, NEW t, Mapped(scope, d),
         NEW p \in Interval, InOneRange(scope, p) \/ p.first = p.last,
         NEW i \in 0..(LengthOf(p) - 1)
  PROVE  /\ p.first + i \in Wire
         /\ LocationIn(scope, d, t, p.first) \in [type : {t}, depth : Int, wire : Int]
         /\ LocationIn(scope, d, t, p.first + i) =
              [type |-> t, depth |-> LocationIn(scope, d, t, p.first).depth,
               wire |-> LocationIn(scope, d, t, p.first).wire + i]
         /\ LocationIn(scope, d, t, p.first).wire + i <= TopWire
<1> DEFINE f == p.first
           w == p.first + i
<1>1. /\ f \in Wire /\ p.last \in Wire /\ i \in Nat /\ w \in Wire /\ f <= w /\ w <= p.last
      /\ f <= p.last
  BY IntervalsAre, CallAssumption DEF LengthOf, Wire
<1>2. CASE f >= scope.firstLocal
  <2>1. w >= scope.firstLocal
    BY <1>1, <1>2, CallAssumption DEF ScopeType, Wire
  <2>2. /\ LocationIn(scope, d, t, f) = [type |-> t, depth |-> d, wire |-> f]
        /\ LocationIn(scope, d, t, w) = [type |-> t, depth |-> d, wire |-> w]
    BY <1>1, <1>2, <2>1, LocalWire
  <2>3. d \in Int /\ f \in Int /\ f + i <= TopWire
    BY <1>1, CallAssumption DEF Wire
  <2>. QED  BY <1>1, <2>2, <2>3
<1>3. CASE ~(f >= scope.firstLocal)
  <2>1. PICK m \in scope.mapped : CoveredBy(m, f, w)
    <3>1. CASE p.first = p.last
      <4>1. f = w
        BY <1>1, <3>1 DEF Wire
      <4>. QED  BY <1>1, <1>3, <4>1, BelowLocal
    <3>2. CASE InOneRange(scope, p)
      <4>1. PICK m \in scope.mapped : CoveredBy(m, p.first, p.last)
        BY <1>3, <3>2 DEF InOneRange
      <4>2. CoveredBy(m, f, w)
        BY <1>1, <4>1, MappingsAre, CallAssumption DEF CoveredBy, Wire
      <4>. QED  BY <4>2
    <3>. QED  BY <3>1, <3>2
  <2>2. /\ m.first \in Wire /\ m.length \in Nat /\ m.owner \in 1..MaxDepth
        /\ m.base \in Wire /\ m.owner < d /\ m.base + m.length <= TopWire + 1
    BY MappingsAre
  <2>3. CoveredBy(m, f, f) /\ CoveredBy(m, w, w)
    BY <1>1, <2>1, <2>2, CallAssumption DEF CoveredBy, Wire
  <2>4. /\ LocationIn(scope, d, t, f) =
             [type |-> t, depth |-> m.owner, wire |-> m.base + f - m.first]
        /\ LocationIn(scope, d, t, w) =
             [type |-> t, depth |-> m.owner, wire |-> m.base + w - m.first]
    BY <1>1, <2>3, MappedWire
  <2>5. /\ m.owner \in Int /\ m.base + f - m.first \in Int
        /\ m.base + w - m.first = m.base + f - m.first + i
        /\ m.base + f - m.first + i <= TopWire
    BY <1>1, <2>2, <2>3, CallAssumption DEF Wire, CoveredBy
  <2>. QED  BY <1>1, <2>4, <2>5
<1>. QED  BY <1>2, <1>3
(* A directive that assigns wires of the scope on top.                      *)
LEMMA SameLayout ==
  ASSUME NEW s, NEW r, s.mapped = r.mapped, s.firstLocal = r.firstLocal,
         NEW d, NEW t, NEW w
  PROVE  LocationIn(s, d, t, w) = LocationIn(r, d, t, w)
BY DEF LocationIn, MappingAt

LEMMA MarkInFacts ==
  ASSUME NEW scope \in ScopeType, NEW f \in Int, NEW l \in Int, f..l \subseteq Wire
  PROVE  /\ MarkIn(scope, f, l) \in ScopeType
         /\ MarkIn(scope, f, l).mapped = scope.mapped
         /\ MarkIn(scope, f, l).firstLocal = scope.firstLocal
         /\ f <= l /\ scope.active \subseteq scope.assigned /\ scope.assigned \cap (f..l) = {}
            => /\ MarkIn(scope, f, l).assigned = scope.assigned \cup (f..l)
               /\ MarkIn(scope, f, l).active = scope.active \cup (f..l)
<1> DEFINE A == InsertInterval(scope.assigned, f, l)
           B == InsertInterval(scope.active, f, l)
<1>2. A \in SUBSET Wire /\ B \in SUBSET Wire
  BY DEF InsertInterval, ScopeType
<1>3. f <= l => ~(f > l)
  OBVIOUS
<1>4. f <= l /\ scope.active \subseteq scope.assigned /\ scope.assigned \cap (f..l) = {}
      => A = scope.assigned \cup (f..l) /\ B = scope.active \cup (f..l)
  BY <1>3 DEF InsertInterval
<1> HIDE DEF A, B
<1>5. MarkIn(scope, f, l) = [scope EXCEPT !.assigned = A, !.active = B]
  BY DEF MarkIn, A, B
<1>. QED  BY <1>2, <1>4, <1>5 DEF ScopeType

LEMMA StackFacts ==
  ASSUME TypeOK
  PROVE  /\ Depth \in Nat /\ Depth \in 1..MaxDepth /\ DOMAIN stack = 1..Depth
         /\ Depth \in DOMAIN stack
         /\ \A d \in DOMAIN stack : d \in Nat /\ d \in 1..MaxDepth /\ d <= Depth
         /\ \A d \in DOMAIN stack, t \in Type : stack[d][t] \in ScopeType
<1>1. stack \in Seq([Type -> ScopeType]) /\ Depth \in 1..MaxDepth /\ MaxDepth \in Nat
  BY CallAssumption DEF TypeOK
<1>2. DOMAIN stack = 1..Depth
  BY <1>1 DEF Depth
<1>3. \A d \in DOMAIN stack : stack[d] \in [Type -> ScopeType]
  BY <1>1
<1>. QED  BY <1>1, <1>2, <1>3

LEMMA MarkTopFacts ==
  ASSUME TypeOK, NEW t \in Type, NEW f \in Int, NEW l \in Int, f..l \subseteq Wire, MarkTop(t, f, l)
  PROVE  /\ stack' \in Seq([Type -> ScopeType]) /\ Depth' = Depth
         /\ DOMAIN stack' = DOMAIN stack
         /\ \A d \in DOMAIN stack, u \in Type :
              stack'[d][u] = IF d = Depth /\ u = t THEN MarkIn(stack[d][u], f, l) ELSE stack[d][u]
<1>1. stack \in Seq([Type -> ScopeType]) /\ DOMAIN stack = 1..Depth /\ Depth \in DOMAIN stack
  BY StackFacts DEF TypeOK
<1>2. Top(t) \in ScopeType /\ MarkIn(stack[Depth][t], f, l) \in ScopeType
  BY <1>1, StackFacts, MarkInFacts DEF Top
<1> DEFINE top == [stack[Depth] EXCEPT ![t] = MarkIn(stack[Depth][t], f, l)]
<1>3. stack[Depth] \in [Type -> ScopeType]
  BY <1>1
<1>4. top \in [Type -> ScopeType]
  BY <1>2, <1>3
<1>5. stack' = [stack EXCEPT ![Depth] = top]
  BY <1>1 DEF MarkTop
<1>6. \A u \in Type : top[u] = IF u = t THEN MarkIn(stack[Depth][u], f, l) ELSE stack[Depth][u]
  BY <1>3
<1> HIDE DEF top
<1>7. stack' \in Seq([Type -> ScopeType]) /\ Len(stack') = Len(stack) /\ DOMAIN stack' = DOMAIN stack
  BY <1>1, <1>4, <1>5
<1>8. \A d \in DOMAIN stack : stack'[d] = IF d = Depth THEN top ELSE stack[d]
  BY <1>1, <1>5
<1>. QED  BY <1>6, <1>7, <1>8 DEF Depth

(* W becomes assigned and active in the scope on top; all else is as it was. *)
AssignsTop(t, W) ==
  /\ DOMAIN stack' = DOMAIN stack /\ Depth' = Depth /\ calls' = calls
  /\ \A d \in DOMAIN stack, u \in Type :
       /\ stack'[d][u].mapped = stack[d][u].mapped
       /\ stack'[d][u].firstLocal = stack[d][u].firstLocal
       /\ stack'[d][u].assigned =
            stack[d][u].assigned \cup (IF d = Depth /\ u = t THEN W ELSE {})
       /\ stack'[d][u].active =
            stack[d][u].active \cup (IF d = Depth /\ u = t THEN W ELSE {})

LEMMA MarkTopAssigns ==
  ASSUME TypeOK, NEW t \in Type, NEW f \in Int, NEW l \in Int, f..l \subseteq Wire, MarkTop(t, f, l),
         f <= l, Mapped(Top(t), Depth), f..l \subseteq Unassigned(Depth, t), calls' = calls
  PROVE  AssignsTop(t, f..l)
<1>1. /\ Depth' = Depth /\ DOMAIN stack' = DOMAIN stack
      /\ \A d \in DOMAIN stack, u \in Type :
           stack'[d][u] = IF d = Depth /\ u = t THEN MarkIn(stack[d][u], f, l) ELSE stack[d][u]
  <2>1. f..l \subseteq Wire
    BY DEF Unassigned
  <2>. QED  BY <2>1, MarkTopFacts
<1>2. Depth \in DOMAIN stack /\ stack[Depth][t] \in ScopeType
  BY StackFacts
<1>3. /\ stack[Depth][t].active \subseteq stack[Depth][t].assigned
      /\ stack[Depth][t].assigned \cap (f..l) = {}
  BY DEF Mapped, Top, Unassigned
<1>4. LET s == MarkIn(stack[Depth][t], f, l)
      IN  /\ s.mapped = stack[Depth][t].mapped /\ s.firstLocal = stack[Depth][t].firstLocal
          /\ s.assigned = stack[Depth][t].assigned \cup (f..l)
          /\ s.active = stack[Depth][t].active \cup (f..l)
  BY <1>2, <1>3, MarkInFacts
<1>. QED  BY <1>1, <1>4 DEF AssignsTop

LEMMA LocationKept ==
  ASSUME NEW t, NEW W, AssignsTop(t, W), NEW d \in DOMAIN stack, NEW u \in Type, NEW w
  PROVE  LocationOf(d, u, w)' = LocationOf(d, u, w)
BY SameLayout DEF AssignsTop, LocationOf

LEMMA SoundFacts ==
  ASSUME TypeOK, Sound
  PROVE  /\ DOMAIN calls = 1..(Depth - 1) /\ DOMAIN calls \subseteq DOMAIN stack
         /\ \A d \in DOMAIN calls : d # Depth /\ d + 1 \in DOMAIN stack /\ calls[d] \in Seq(Interval)
         /\ \A t \in Type : Mapped(Top(t), Depth)
<1>1. calls \in Seq(Seq(Interval)) /\ Depth = Len(calls) + 1 /\ Depth \in Nat
      /\ DOMAIN stack = 1..Depth
  BY StackFacts DEF TypeOK, Sound
<1>2. DOMAIN calls = 1..(Depth - 1)
  BY <1>1
<1>3. \A d \in DOMAIN calls : calls[d] \in Seq(Interval)
  BY <1>1
<1>4. \A t \in Type : Mapped(Top(t), Depth)
  BY <1>1 DEF Sound, Top
<1>. QED  BY <1>1, <1>2, <1>3, <1>4

LEMMA LinkedFacts ==
  ASSUME TypeOK, Sound, NEW d \in DOMAIN calls, NEW k \in DOMAIN calls[d]
  PROVE  /\ calls[d][k] \in Interval
         /\ calls[d][k].first .. calls[d][k].last \subseteq Unassigned(d, calls[d][k].type)
<1>1. calls[d] \in Seq(Interval)
  BY SoundFacts
<1>. QED  BY <1>1 DEF Sound, Linked
Fills(S) ==
  /\ DOMAIN memory' = (DOMAIN memory) \cup S
  /\ \A loc \in DOMAIN memory : memory'[loc] = memory[loc]
  /\ \A loc \in DOMAIN memory' : memory'[loc] \in Value

LEMMA UnassignedKept ==
  ASSUME NEW t, NEW W, AssignsTop(t, W), NEW d \in DOMAIN stack, NEW u \in Type
  PROVE  /\ Unassigned(d, u)' = Unassigned(d, u) \ (IF d = Depth /\ u = t THEN W ELSE {})
         /\ Awaited(d, u)' = Awaited(d, u)
BY DEF AssignsTop, Unassigned, Awaited

LEMMA StackLocation ==
  ASSUME TypeOK, \A e \in DOMAIN stack, u \in Type : Mapped(stack[e][u], e),
         NEW d \in DOMAIN stack, NEW t \in Type, NEW w \in Wire
  PROVE  /\ LocationOf(d, t, w) \in Location
         /\ LocationOf(d, t, w).type = t
         /\ LocationOf(d, t, w).depth <= d
         /\ w < stack[d][t].firstLocal <=> LocationOf(d, t, w).depth < d
         /\ w >= stack[d][t].firstLocal =>
              LocationOf(d, t, w) = [type |-> t, depth |-> d, wire |-> w]
<1>1. stack[d][t] \in ScopeType /\ d \in 1..MaxDepth /\ Mapped(stack[d][t], d)
  BY StackFacts
<1>. QED  BY <1>1, LocationFacts, LocalWire DEF LocationOf

LEMMA FreeAssigned ==
  ASSUME TypeOK, Sound, NEW t \in Type, NEW W, W \subseteq Unassigned(Depth, t),
         AssignsTop(t, W), Fills(Locations(Depth, t, W))
  PROVE  Free'
<1>1. /\ DOMAIN stack' = DOMAIN stack /\ Depth' = Depth /\ Depth \in DOMAIN stack
      /\ Depth \in Nat /\ \A d \in DOMAIN stack : d \in Nat /\ d <= Depth
      /\ DOMAIN stack = 1..Depth
  BY StackFacts DEF AssignsTop
<1>2. SUFFICES ASSUME NEW d \in DOMAIN stack, NEW u \in Type
               PROVE  /\ \A w \in Unassigned(d, u)' \ Awaited(d, u)' :
                           LocationOf(d, u, w)' \notin DOMAIN memory'
                      /\ \A v, w \in Unassigned(d, u)' :
                           LocationOf(d, u, v)' = LocationOf(d, u, w)' => v = w
                      /\ \A e \in (d + 1)..Depth :
                           \A v \in Unassigned(d, u)', w \in Unassigned(e, u)' :
                             LocationOf(d, u, v)' = LocationOf(e, u, w)' => v \in Awaited(d, u)'
  BY <1>1 DEF Free
<1>3. /\ Unassigned(d, u)' = Unassigned(d, u) \ (IF d = Depth /\ u = t THEN W ELSE {})
      /\ Awaited(d, u)' = Awaited(d, u)
      /\ Unassigned(d, u)' \subseteq Unassigned(d, u)
  BY UnassignedKept
<1>4. \A w : LocationOf(d, u, w)' = LocationOf(d, u, w)
  BY LocationKept
<1>5. /\ \A w \in Unassigned(d, u) \ Awaited(d, u) : LocationOf(d, u, w) \notin DOMAIN memory
      /\ \A v, w \in Unassigned(d, u) : LocationOf(d, u, v) = LocationOf(d, u, w) => v = w
      /\ \A e \in (d + 1)..Depth : \A v \in Unassigned(d, u), w \in Unassigned(e, u) :
           LocationOf(d, u, v) = LocationOf(e, u, w) => v \in Awaited(d, u)
  BY DEF Sound, Free
<1>6. ASSUME NEW w \in Unassigned(d, u)' \ Awaited(d, u)'
      PROVE  LocationOf(d, u, w) \notin DOMAIN memory'
  <2>1. w \in Unassigned(d, u) /\ w \notin Awaited(d, u) /\ w \in Wire
    BY <1>3 DEF Unassigned
  <2>2. ASSUME NEW v \in W, LocationOf(d, u, w) = LocationOf(Depth, t, v)
        PROVE  FALSE
    <3>1. v \in Unassigned(Depth, t) /\ v \in Wire
      BY DEF Unassigned
    <3>2. u = t
      BY <1>1, <2>1, <2>2, <3>1, StackLocation DEF Sound
    <3>3. CASE d = Depth
      BY <1>3, <1>5, <2>1, <2>2, <3>1, <3>2, <3>3
    <3>4. CASE d # Depth
      <4>1. Depth \in (d + 1)..Depth
        BY <1>1, <3>4
      <4>. QED  BY <1>5, <2>1, <2>2, <3>1, <3>2, <4>1
    <3>. QED  BY <3>3, <3>4
  <2>3. LocationOf(d, u, w) \notin Locations(Depth, t, W)
    BY <2>2 DEF Locations
  <2>. QED  BY <1>5, <2>1, <2>3 DEF Fills
<1>7. ASSUME NEW e \in (d + 1)..Depth, NEW v \in Unassigned(d, u)', NEW w \in Unassigned(e, u)',
             LocationOf(d, u, v)' = LocationOf(e, u, w)'
      PROVE  v \in Awaited(d, u)'
  <2>1. e \in DOMAIN stack
    BY <1>1
  <2>2. w \in Unassigned(e, u) /\ LocationOf(e, u, w)' = LocationOf(e, u, w)
    BY <2>1, UnassignedKept, LocationKept
  <2>. QED  BY <1>3, <1>4, <1>5, <1>7, <2>2
<1>. QED  BY <1>3, <1>4, <1>5, <1>6, <1>7

LEMMA LinkedAssigned ==
  ASSUME TypeOK, Sound, NEW t \in Type, NEW W, AssignsTop(t, W), NEW d \in DOMAIN calls
  PROVE  Linked(calls[d], d)'
<1>1. /\ d \in DOMAIN stack /\ d # Depth /\ d + 1 \in DOMAIN stack /\ calls' = calls
      /\ calls[d] \in Seq(Interval) /\ Linked(calls[d], d)
  BY SoundFacts DEF AssignsTop, Sound
<1>2. ASSUME NEW u \in Type
      PROVE  Unassigned(d, u)' = Unassigned(d, u)
  BY <1>1 DEF AssignsTop, Unassigned
<1>3. \A k \in DOMAIN calls[d] : calls[d][k].type \in Type
  BY <1>1, IntervalsAre
<1>4. \A u \in Type : \A w : /\ LocationOf(d, u, w)' = LocationOf(d, u, w)
                              /\ LocationOf(d + 1, u, w)' = LocationOf(d + 1, u, w)
  BY <1>1, LocationKept
<1>. QED  BY <1>1, <1>2, <1>3, <1>4 DEF Linked

LEMMA SoundAssigned ==
  ASSUME TypeOK, Sound, NEW t \in Type, NEW W, W \subseteq Unassigned(Depth, t),
         AssignsTop(t, W), Fills(Locations(Depth, t, W))
  PROVE  Sound'
<1>1. /\ DOMAIN stack' = DOMAIN stack /\ Depth' = Depth /\ calls' = calls
  BY DEF AssignsTop
<1>2. ASSUME NEW d \in DOMAIN stack, NEW u \in Type
      PROVE  Mapped(stack'[d][u], d)
  <2>1. /\ stack'[d][u].mapped = stack[d][u].mapped
        /\ stack'[d][u].firstLocal = stack[d][u].firstLocal
        /\ stack'[d][u].active \subseteq stack'[d][u].assigned
    BY DEF AssignsTop, Sound, Mapped
  <2>. QED  BY <2>1 DEF Sound, Mapped
<1>3. \A d \in DOMAIN calls : Linked(calls[d], d)'
  BY LinkedAssigned
<1>4. Free'
  BY FreeAssigned
<1>5. ASSUME NEW d \in DOMAIN stack, NEW u \in Type, NEW w \in stack'[d][u].active
      PROVE  LocationOf(d, u, w)' \in DOMAIN memory'
  <2>1. LocationOf(d, u, w)' = LocationOf(d, u, w)
    BY LocationKept
  <2>2. CASE w \in stack[d][u].active
    BY <2>1, <2>2 DEF Sound, ActiveIn, Fills
  <2>3. CASE d = Depth /\ u = t /\ w \in W
    BY <2>1, <2>3 DEF Fills, Locations
  <2>. QED  BY <2>2, <2>3 DEF AssignsTop
<1>6. ActiveIn(DOMAIN memory)'
  BY <1>1, <1>5 DEF ActiveIn
<1>7. \A loc \in DOMAIN memory' : memory'[loc] \in Value
  BY DEF Fills
<1>. QED  BY <1>1, <1>2, <1>3, <1>4, <1>6, <1>7 DEF Sound
(* What a directive does to memory, and to the types of the state.          *)
Kept ==
  \A loc \in (DOMAIN memory) \cap (DOMAIN memory') : memory'[loc] = memory[loc]

Wrote(d, t, vals) ==
  /\ DOMAIN memory' = (DOMAIN memory) \cup Locations(d, t, DOMAIN vals)
  /\ \A loc \in (DOMAIN memory) \ Locations(d, t, DOMAIN vals) : memory'[loc] = memory[loc]
  /\ \A loc \in Locations(d, t, DOMAIN vals) :
       \E w \in DOMAIN vals : LocationOf(d, t, w) = loc /\ memory'[loc] = vals[w]

LEMMA WriteIs ==
  ASSUME NEW d, NEW t, NEW vals, Write(d, t, vals)
  PROVE  Wrote(d, t, vals)
<1> DEFINE at(loc) == CHOOSE w \in DOMAIN vals : LocationOf(d, t, w) = loc
           written == Locations(d, t, DOMAIN vals)
<1>1. memory' = [loc \in written \cup DOMAIN memory |->
                   IF loc \in written THEN vals[at(loc)] ELSE memory[loc]]
  BY DEF Write
<1>2. \A loc \in written : at(loc) \in DOMAIN vals /\ LocationOf(d, t, at(loc)) = loc
  BY DEF Locations
<1> HIDE DEF at, written
<1>3. /\ DOMAIN memory' = (DOMAIN memory) \cup written
      /\ \A loc \in (DOMAIN memory) \ written : memory'[loc] = memory[loc]
      /\ \A loc \in written : memory'[loc] = vals[at(loc)]
  BY <1>1
<1>. QED  BY <1>2, <1>3 DEF written, Wrote

LEMMA WriteOfUnassigned ==
  ASSUME TypeOK, Sound, NEW t \in Type, NEW vals, Write(Depth, t, vals),
         DOMAIN vals \subseteq Unassigned(Depth, t)
  PROVE  /\ \A loc \in DOMAIN memory : memory'[loc] = memory[loc]
         /\ Kept
<1>w. Wrote(Depth, t, vals)
  BY WriteIs
<1>1. Locations(Depth, t, DOMAIN vals) \cap DOMAIN memory = {}
  <2>1. SUFFICES ASSUME NEW w \in DOMAIN vals
                 PROVE  LocationOf(Depth, t, w) \notin DOMAIN memory
    BY DEF Locations
  <2>2. Depth \in DOMAIN stack /\ w \in Unassigned(Depth, t) \ Awaited(Depth, t)
    BY StackFacts DEF Awaited
  <2>. QED  BY <2>2 DEF Sound, Free
<1>2. \A loc \in DOMAIN memory : memory'[loc] = memory[loc]
  BY <1>1, <1>w DEF Wrote
<1>. QED  BY <1>2 DEF Kept

LEMMA LocationsTyped ==
  ASSUME TypeOK, Sound, NEW t \in Type, NEW W, W \subseteq Wire
  PROVE  Locations(Depth, t, W) \subseteq Location
         /\ \A loc \in Locations(Depth, t, W) : loc.depth <= Depth
<1>1. Depth \in DOMAIN stack
  BY StackFacts
<1>2. \A w \in W : LocationOf(Depth, t, w) \in Location /\ LocationOf(Depth, t, w).depth <= Depth
  BY <1>1, StackLocation DEF Sound
<1>. QED  BY <1>2 DEF Locations

LEMMA DirectiveTyped ==
  ASSUME TypeOK, Sound, NEW t \in Type,
         NEW f \in Int, NEW l \in Int, f..l \subseteq Wire, MarkTop(t, f, l),
         NEW vals, Write(Depth, t, vals), DOMAIN vals \subseteq Wire,
         \A w \in DOMAIN vals : vals[w] \in Value \cup {Fresh},
         NEW V, V \subseteq Wire, constructed' \subseteq constructed \cup Locations(Depth, t, V),
         UNCHANGED calls, failed' \in BOOLEAN
  PROVE  TypeOK' /\ Depth' >= Len(calls') + 1
<1>w. Wrote(Depth, t, vals)
  BY WriteIs
<1>1. stack' \in Seq([Type -> ScopeType]) /\ Depth' = Depth
  BY MarkTopFacts
<1>2. DOMAIN memory' = (DOMAIN memory) \cup Locations(Depth, t, DOMAIN vals)
  BY <1>w DEF Wrote
<1>3. \A loc \in DOMAIN memory' : memory'[loc] \in Value \cup {Fresh}
  <2>1. SUFFICES ASSUME NEW loc \in DOMAIN memory'
                 PROVE  memory'[loc] \in Value \cup {Fresh}
    OBVIOUS
  <2>2. CASE loc \in Locations(Depth, t, DOMAIN vals)
    <3>1. PICK w \in DOMAIN vals : memory'[loc] = vals[w]
      BY <2>2, <1>w DEF Wrote
    <3>. QED  BY <3>1
  <2>3. CASE loc \in (DOMAIN memory) \ Locations(Depth, t, DOMAIN vals)
    BY <2>3, <1>w DEF TypeOK, Wrote
  <2>. QED  BY <1>2, <2>2, <2>3
<1>4. /\ DOMAIN memory' \subseteq Location /\ constructed' \subseteq Location
      /\ \A loc \in (DOMAIN memory') \cup constructed' : loc.depth <= Depth
  BY <1>2, LocationsTyped DEF TypeOK
<1>5. Depth = Len(calls) + 1 /\ Depth \in Nat
  BY StackFacts DEF Sound
<1>6. TypeOK'
  BY <1>1, <1>3, <1>4 DEF TypeOK
<1>. QED  BY <1>1, <1>5, <1>6

(* A directive that gives values to an interval, and one that is refused.   *)
LEMMA DirectiveDone ==
  ASSUME TypeOK, Sound, NEW t \in Type,
         NEW f \in Int, NEW l \in Int, f <= l, f..l \subseteq Unassigned(Depth, t),
         MarkTop(t, f, l),
         NEW vals, Write(Depth, t, vals), vals \in [f..l -> Value],
         NEW V, V \subseteq Wire, constructed' \subseteq constructed \cup Locations(Depth, t, V),
         UNCHANGED calls, failed' = FALSE
  PROVE  Held' /\ Kept
<1>w. Wrote(Depth, t, vals)
  BY WriteIs
<1>1. f..l \subseteq Wire /\ DOMAIN vals = f..l /\ \A w \in f..l : vals[w] \in Value
  BY DEF Unassigned
<1>2. TypeOK' /\ Depth' >= Len(calls') + 1
  BY <1>1, DirectiveTyped
<1>3. Kept /\ \A loc \in DOMAIN memory : memory'[loc] = memory[loc]
  BY <1>1, WriteOfUnassigned
<1>4. DOMAIN memory' = (DOMAIN memory) \cup Locations(Depth, t, f..l)
  BY <1>1, <1>w DEF Wrote
<1>5. \A loc \in DOMAIN memory' : memory'[loc] \in Value
  <2>1. ASSUME NEW loc \in Locations(Depth, t, f..l)
        PROVE  memory'[loc] \in Value
    <3>1. PICK w \in f..l : memory'[loc] = vals[w]
      BY <1>1, <1>w DEF Wrote
    <3>. QED  BY <1>1, <3>1
  <2>. QED  BY <1>3, <1>4, <2>1 DEF Sound
<1>6. Fills(Locations(Depth, t, f..l))
  BY <1>3, <1>4, <1>5 DEF Fills
<1>7. Mapped(Top(t), Depth)
  BY SoundFacts
<1>8. AssignsTop(t, f..l)
  BY <1>1, <1>7, MarkTopAssigns
<1>9. Sound'
  BY <1>6, <1>8, SoundAssigned
<1>. QED  BY <1>2, <1>3, <1>9 DEF Held

LEMMA DirectiveRefused ==
  ASSUME TypeOK, Sound, NEW t \in Type,
         NEW f \in Int, NEW l \in Int, f..l \subseteq Wire, MarkTop(t, f, l),
         NEW vals, Write(Depth, t, vals), DOMAIN vals \subseteq Unassigned(Depth, t),
         \A w \in DOMAIN vals : vals[w] \in Value \cup {Fresh},
         NEW V, V \subseteq Wire, constructed' \subseteq constructed \cup Locations(Depth, t, V),
         UNCHANGED calls, failed' = TRUE
  PROVE  Held' /\ Kept
<1>1. DOMAIN vals \subseteq Wire
  BY DEF Unassigned
<1>2. TypeOK' /\ Depth' >= Len(calls') + 1
  BY <1>1, DirectiveTyped
<1>. QED  BY <1>2, WriteOfUnassigned DEF Held
(* The actions, one by one.                                                 *)
LEMMA FoundOutputs ==
  ASSUME NEW out \in Interval, FindsOutputs(Depth, out)
  PROVE  /\ out.type \in Type /\ out.first \in Int /\ out.last \in Int /\ out.first <= out.last
         /\ out.first .. out.last \subseteq Unassigned(Depth, out.type)
         /\ out.first .. out.last \subseteq Wire
         /\ out.first >= 0
         /\ LengthOf(out) \in Nat /\ out.first + LengthOf(out) - 1 = out.last
<1>1. /\ out.type \in Type /\ out.first \in Nat /\ out.last \in Nat /\ out.first <= out.last
      /\ out.first .. out.last \subseteq Wire /\ LengthOf(out) \in Nat
  BY IntervalsAre
<1>2. stack[Depth][out.type].assigned \cap (out.first .. out.last) = {}
  BY DEF FindsOutputs
<1>. QED  BY <1>1, <1>2 DEF Unassigned, LengthOf

LEMMA GateHeld ==
  ASSUME TypeOK, Sound, NEW t \in Type, NEW out \in Arg, NEW ins, Gate(t, out, ins)
  PROVE  Held' /\ Kept
<1>1. /\ out \in Int /\ out..out = {out} /\ out \in Wire
  BY CallAssumption DEF Arg, Wire
<1>2. {out} \subseteq Unassigned(Depth, t) /\ {out} \subseteq Wire
  BY <1>1 DEF Gate, Top, Unassigned
<1>4. constructed' \subseteq constructed \cup Locations(Depth, t, {out}) /\ ~failed
      /\ MarkTop(t, out, out) /\ UNCHANGED calls
  BY DEF Gate, Construct, Running
<1>5. failed = FALSE
  BY <1>4 DEF TypeOK
<1>6. CASE \E v \in Value : Write(Depth, t, [w \in {out} |-> v]) /\ UNCHANGED failed
  <2>1. PICK v \in Value : Write(Depth, t, [w \in {out} |-> v]) /\ UNCHANGED failed
    BY <1>6
  <2>2. [w \in {out} |-> v] \in [out..out -> Value]
    BY <1>1
  <2> DEFINE vals == [w \in {out} |-> v]
  <2>3. vals \in [out..out -> Value] /\ Write(Depth, t, vals) /\ failed' = FALSE
    BY <1>5, <2>1, <2>2
  <2> HIDE DEF vals
  <2>4. out <= out /\ out..out \subseteq Unassigned(Depth, t)
    BY <1>1, <1>2
  <2>. QED  BY <1>1, <1>2, <1>4, <2>3, <2>4, DirectiveDone
<1>7. CASE Write(Depth, t, [w \in {out} |-> Fresh]) /\ Refused
  <2> DEFINE vals == [w \in {out} |-> Fresh]
  <2>1. Write(Depth, t, vals) /\ DOMAIN vals = {out} /\ \A w \in DOMAIN vals : vals[w] = Fresh
    BY <1>7
  <2>2. failed' = TRUE
    BY <1>7 DEF Refused
  <2> HIDE DEF vals
  <2>. QED  BY <1>1, <1>2, <1>4, <2>1, <2>2, DirectiveRefused
<1>. QED  BY <1>6, <1>7 DEF Gate

LEMMA PublicInMultiHeld ==
  ASSUME TypeOK, Sound, NEW out \in Interval, NEW n \in 0..LengthOf(out), PublicInMulti(out, n)
  PROVE  Held' /\ Kept
<1> DEFINE f == out.first
           l == out.last
           t == out.type
           g == f + n - 1
<1>1. /\ t \in Type /\ f \in Int /\ l \in Int /\ f <= l /\ f..l \subseteq Unassigned(Depth, t)
      /\ f..l \subseteq Wire /\ LengthOf(out) \in Nat /\ f + LengthOf(out) - 1 = l
  BY FoundOutputs DEF PublicInMulti
<1>2. PICK vals \in [f..g -> Value] : Write(Depth, t, vals)
  BY DEF PublicInMulti
<1>3. MarkTop(t, f, l) /\ failed' = (n < LengthOf(out)) /\ constructed' = constructed /\ UNCHANGED calls
  BY DEF PublicInMulti
<1>4. f..g \subseteq f..l /\ n \in Nat /\ n <= LengthOf(out)
  BY <1>1
<1>5. DOMAIN vals = f..g /\ \A w \in f..g : vals[w] \in Value
  OBVIOUS
<1>6. n = LengthOf(out) => f..g = f..l
  BY <1>1
<1>7. {} \subseteq Wire /\ constructed' \subseteq constructed \cup Locations(Depth, t, {})
  BY <1>3
<1> HIDE DEF f, l, t, g
<1>8. CASE n = LengthOf(out)
  <2>1. failed' = FALSE
    <3>1. (n < LengthOf(out)) = FALSE
      BY <1>1, <1>4, <1>8
    <3>. QED  BY <1>3, <3>1, Zenon
  <2>2. vals \in [f..l -> Value]
    BY <1>5, <1>6, <1>8
  <2>. QED  BY <1>1, <1>2, <1>3, <1>7, <2>1, <2>2, DirectiveDone
<1>9. CASE n # LengthOf(out)
  <2>1. failed' = TRUE
    <3>1. (n < LengthOf(out)) = TRUE
      BY <1>1, <1>4, <1>9
    <3>. QED  BY <1>3, <3>1, Zenon
  <2>2. DOMAIN vals \subseteq Unassigned(Depth, t) /\ \A w \in DOMAIN vals : vals[w] \in Value \cup {Fresh}
    BY <1>1, <1>4, <1>5
  <2>. QED  BY <1>1, <1>2, <1>3, <1>7, <2>1, <2>2, DirectiveRefused
<1>. QED  BY <1>8, <1>9

LEMMA PrivateInMultiHeld ==
  ASSUME TypeOK, Sound, NEW out \in Interval, NEW n \in 0..LengthOf(out), PrivateInMulti(out, n)
  PROVE  Held' /\ Kept
<1> DEFINE f == out.first
           l == out.last
           t == out.type
           g == f + n - 1
           m == g % (TopWire + 1)
<1>1. /\ t \in Type /\ f \in Int /\ l \in Int /\ f <= l /\ f..l \subseteq Unassigned(Depth, t)
      /\ f..l \subseteq Wire /\ LengthOf(out) \in Nat /\ f + LengthOf(out) - 1 = l /\ f >= 0
  BY FoundOutputs DEF PrivateInMulti
<1>2. PICK vals \in [f..g -> Value] : Write(Depth, t, vals)
  BY DEF PrivateInMulti
<1>3. /\ MarkTop(t, f, m) /\ failed' = (n < LengthOf(out)) /\ UNCHANGED calls
      /\ constructed' = constructed \cup Locations(Depth, t, f..g)
  BY DEF PrivateInMulti, Construct
<1>4. f..g \subseteq f..l /\ n \in Nat /\ n <= LengthOf(out) /\ g \in Int /\ g <= l
  BY <1>1
<1>5. DOMAIN vals = f..g /\ \A w \in f..g : vals[w] \in Value
  OBVIOUS
<1>6. l \in Wire
  BY <1>1
<1>7. m \in 0..TopWire /\ (g \in 0..TopWire => m = g)
  BY <1>4, CallAssumption
<1>8. f..g \subseteq Wire /\ constructed' \subseteq constructed \cup Locations(Depth, t, f..g)
  BY <1>1, <1>3, <1>4
<1>9. n = LengthOf(out) => g = l
  BY <1>1
<1>10. f..m \subseteq Wire /\ m \in Int
  BY <1>1, <1>7, CallAssumption DEF Wire
<1> HIDE DEF f, l, t, g, m
<1>11. CASE n = LengthOf(out)
  <2>1. failed' = FALSE
    <3>1. (n < LengthOf(out)) = FALSE
      BY <1>1, <1>4, <1>11
    <3>. QED  BY <1>3, <3>1, Zenon
  <2>2. vals \in [f..l -> Value]
    BY <1>5, <1>9, <1>11
  <2>3. m = l
    BY <1>6, <1>7, <1>9, <1>11 DEF Wire
  <2>. QED  BY <1>1, <1>2, <1>3, <1>8, <2>1, <2>2, <2>3, DirectiveDone
<1>12. CASE n # LengthOf(out)
  <2>1. failed' = TRUE
    <3>1. (n < LengthOf(out)) = TRUE
      BY <1>1, <1>4, <1>12
    <3>. QED  BY <1>3, <3>1, Zenon
  <2>2. DOMAIN vals \subseteq Unassigned(Depth, t) /\ \A w \in DOMAIN vals : vals[w] \in Value \cup {Fresh}
    BY <1>1, <1>4, <1>5
  <2>. QED  BY <1>1, <1>2, <1>3, <1>8, <1>10, <2>1, <2>2, DirectiveRefused
<1>. QED  BY <1>11, <1>12

LEMMA ConvertHeld ==
  ASSUME TypeOK, Sound, NEW out \in Interval, NEW in \in Interval, Convert(out, in)
  PROVE  Held' /\ Kept
<1> DEFINE f == out.first
           l == out.last
           t == out.type
<1>1. /\ t \in Type /\ f \in Int /\ l \in Int /\ f <= l /\ f..l \subseteq Unassigned(Depth, t)
      /\ f..l \subseteq Wire
  BY FoundOutputs DEF Convert
<1>2. PICK vals \in [f..l -> Value] : Write(Depth, t, vals)
  BY DEF Convert
<1>3. /\ MarkTop(t, f, l) /\ UNCHANGED <<calls, failed>>
      /\ constructed' = constructed \cup Locations(Depth, t, f..l) /\ ~failed
  BY DEF Convert, Construct, Running
<1>4. failed' = FALSE /\ constructed' \subseteq constructed \cup Locations(Depth, t, f..l)
  BY <1>3 DEF TypeOK
<1> HIDE DEF f, l, t
<1>. QED  BY <1>1, <1>2, <1>3, <1>4, DirectiveDone

LEMMA RefuseHeld ==
  ASSUME Held, Refuse
  PROVE  Held' /\ Kept
<1>1. failed' = TRUE /\ UNCHANGED <<stack, memory, constructed, calls>>
  BY DEF Refuse, Refused
<1>2. TypeOK' /\ Depth' >= Len(calls')  + 1
  BY <1>1 DEF Held, TypeOK, Depth
<1>. QED  BY <1>1, <1>2 DEF Held, Kept
CopiesActive(out, ins) ==
  /\ ins \in Seq(Interval)
  /\ \A j \in DOMAIN ins :
       ins[j].type = out.type /\ ins[j].first .. ins[j].last \subseteq Top(out.type).active

LEMMA SourceIs ==
  ASSUME NEW out \in Interval, NEW ins, CopiesActive(out, ins),
         NEW k \in 0..Len(ins), NEW n \in 0..(Copied(out, ins, k) - 1)
  PROVE  Source(out, ins, n) \in Top(out.type).active
<1> DEFINE t == out.type
           before(j) == Copied(out, ins, j - 1)
           Has(j) == n - before(j) \in 0..(LengthOf(ins[j]) - 1)
           c == CHOOSE j \in DOMAIN ins : Has(j)
<1>1. ins \in Seq(Interval) /\ DOMAIN ins = 1..Len(ins) /\ Len(ins) \in Nat
  BY DEF CopiesActive
<1>2. n \in Nat /\ n < Lengths(ins, t)[k]
  <2>1. Lengths(ins, t)[k] \in Nat
    BY <1>1, LengthsAre
  <2>. QED  BY <2>1 DEF Copied
<1>3. PICK j \in 1..k : ins[j].type = t /\ In(n, ins, j)
  BY <1>1, <1>2, PlaceOf
<1>4. j \in DOMAIN ins
  BY <1>1
<1>5. Has(j)
  <2>1. before(j) = Place(ins, j)
    BY <1>3 DEF Copied, Place
  <2>2. Place(ins, j) \in Nat /\ LengthOf(ins[j]) \in Nat
    BY <1>1, <1>4, PlaceFacts, IntervalsAre
  <2>3. Place(ins, j) <= n /\ n < Place(ins, j) + LengthOf(ins[j])
    BY <1>3 DEF In
  <2> HIDE DEF before
  <2>4. n - before(j) \in Int /\ 0 <= n - before(j) /\ n - before(j) <= LengthOf(ins[j]) - 1
    BY <1>2, <2>1, <2>2, <2>3
  <2>. QED  BY <2>2, <2>4
<1>6. c \in DOMAIN ins /\ Has(c)
  BY <1>4, <1>5, Zenon
<1>7. Source(out, ins, n) = ins[c].first + n - before(c)
  BY DEF Source
<1> HIDE DEF c
<1>8. /\ ins[c] \in Interval /\ ins[c].first \in Nat /\ ins[c].last \in Nat
      /\ ins[c].first .. ins[c].last \subseteq Top(t).active
  BY <1>1, <1>6, IntervalsAre DEF CopiesActive
<1>9. before(c) \in Nat
  <2>1. c - 1 \in 0..Len(ins)
    BY <1>1, <1>6
  <2>. QED  BY <1>1, <2>1, LengthsAre DEF Copied
<1> HIDE DEF before
<1>10. ins[c].first + n - before(c) \in ins[c].first .. ins[c].last
  BY <1>2, <1>6, <1>8, <1>9 DEF LengthOf
<1>. QED  BY <1>7, <1>8, <1>10

LEMMA CopiedValuesAre ==
  ASSUME TypeOK, Sound, NEW out \in Interval, NEW ins, CopiesActive(out, ins),
         NEW k \in 0..Len(ins)
  PROVE  CopiedValues(out, ins, Copied(out, ins, k)) \in [0..(Copied(out, ins, k) - 1) -> Value]
<1> DEFINE t == out.type
           done == Copied(out, ins, k)
           val(n) == memory[LocationOf(Depth, t, Source(out, ins, n))]
           Def(f) == f = [n \in 0..(done - 1) |->
                            LET s == Source(out, ins, n)
                            IN  IF s \in Top(t).active THEN memory[LocationOf(Depth, t, s)]
                                ELSE f[s - out.first]]
           Copy(f) == f = [n \in 0..(done - 1) |-> val(n)]
<1>1. \A n \in 0..(done - 1) : Source(out, ins, n) \in Top(t).active
  BY SourceIs
<1>2. \A n \in 0..(done - 1) : val(n) \in Value
  <2>1. SUFFICES ASSUME NEW n \in 0..(done - 1)
                 PROVE  val(n) \in Value
    OBVIOUS
  <2>2. t \in Type /\ Depth \in DOMAIN stack
    BY IntervalsAre, StackFacts
  <2>3. LocationOf(Depth, t, Source(out, ins, n)) \in DOMAIN memory
    BY <1>1, <2>2 DEF Sound, ActiveIn, Top
  <2>. QED  BY <2>3 DEF Sound
<1> HIDE DEF done
<1>3. \A f : Def(f) <=> Copy(f)
  BY <1>1
<1>4. CopiedValues(out, ins, done) = CHOOSE f : Def(f)
  BY DEF CopiedValues
<1> DEFINE g == [n \in 0..(done - 1) |-> val(n)]
<1>5. Copy(g)
  OBVIOUS
<1> HIDE DEF Def, Copy
<1>6. Def(g)
  BY <1>3, <1>5
<1>7. Def(CHOOSE f : Def(f))
  BY <1>6, Zenon
<1>8. Copy(CopiedValues(out, ins, done))
  BY <1>3, <1>4, <1>7
<1> HIDE DEF val
<1>9. CopiedValues(out, ins, done) \in [0..(done - 1) -> Value]
  BY <1>2, <1>8 DEF Copy
<1>. QED  BY <1>9 DEF done

LEMMA CopyMultiHeld ==
  ASSUME TypeOK, Sound, Checked = TRUE, NEW out \in Interval, NEW ins \in Seq(Interval),
         NEW k \in 0..Len(ins), CopyMulti(out, ins, k)
  PROVE  Held' /\ Kept
<1> DEFINE f == out.first
           t == out.type
           done == Copied(out, ins, k)
           g == f + done - 1
           read == CopiedValues(out, ins, done)
           vals == [w \in f..g |-> read[w - f]]
<1>1. /\ t \in Type /\ f \in Int /\ out.last \in Int /\ f <= out.last
      /\ f..out.last \subseteq Unassigned(Depth, t)
      /\ f..out.last \subseteq Wire /\ LengthOf(out) \in Nat /\ f + LengthOf(out) - 1 = out.last
  BY FoundOutputs DEF CopyMulti
<1>2. CopiesActive(out, ins)
  BY DEF CopyMulti, CopiesActive
<1>3. /\ MarkTop(t, f, g) /\ failed' = (k < Len(ins)) /\ UNCHANGED calls
      /\ Write(Depth, t, vals)
      /\ constructed' = constructed \cup Locations(Depth, t, f..g)
      /\ Copied(out, ins, Len(ins)) = LengthOf(out)
  BY DEF CopyMulti, Construct
<1>4. read \in [0..(done - 1) -> Value]
  BY <1>2, CopiedValuesAre
<1>5. done \in Nat /\ done <= LengthOf(out) /\ (k = Len(ins) => done = LengthOf(out))
  <2>1. Lengths(ins, t)[k] \in Nat /\ Lengths(ins, t)[k] <= Lengths(ins, t)[Len(ins)]
    BY LengthsGrow, Len(ins) \in 0..Len(ins), k <= Len(ins)
  <2>. QED  BY <1>3, <2>1 DEF Copied
<1>6. k \in Nat /\ k <= Len(ins) /\ Len(ins) \in Nat
  OBVIOUS
<1> HIDE DEF read, done
<1>7. f..g \subseteq f..out.last /\ g \in Int /\ (k = Len(ins) => g = out.last)
  BY <1>1, <1>5
<1>8. vals \in [f..g -> Value]
  <2>1. ASSUME NEW w \in f..g
        PROVE  read[w - f] \in Value
    <3>1. w - f \in 0..(done - 1)
      BY <1>1, <1>5
    <3>. QED  BY <1>4, <3>1
  <2>. QED  BY <2>1
<1> HIDE DEF f, t, g, vals
<1>9. f..g \subseteq Wire /\ constructed' \subseteq constructed \cup Locations(Depth, t, f..g)
      /\ f..g \subseteq Unassigned(Depth, t)
  BY <1>1, <1>3, <1>7
<1>10. CASE k = Len(ins)
  <2>1. failed' = FALSE
    <3>1. (k < Len(ins)) = FALSE
      BY <1>6, <1>10
    <3>. QED  BY <1>3, <3>1, Zenon
  <2>2. f <= g
    BY <1>1, <1>7, <1>10
  <2>. QED  BY <1>1, <1>3, <1>7, <1>8, <1>9, <2>1, <2>2, DirectiveDone
<1>11. CASE k # Len(ins)
  <2>1. failed' = TRUE
    <3>1. (k < Len(ins)) = TRUE
      BY <1>6, <1>11
    <3>. QED  BY <1>3, <3>1, Zenon
  <2>2. DOMAIN vals \subseteq Unassigned(Depth, t) /\ \A w \in DOMAIN vals : vals[w] \in Value \cup {Fresh}
    BY <1>8, <1>9
  <2>. QED  BY <1>1, <1>3, <1>7, <1>9, <2>1, <2>2, DirectiveRefused
<1>. QED  BY <1>10, <1>11
LEMMA DeleteIs ==
  ASSUME TypeOK, NEW p \in Interval, NEW last \in (p.first - 1) .. p.last, Delete(p, last)
  PROVE  /\ DOMAIN stack' = DOMAIN stack /\ Depth' = Depth /\ stack' \in Seq([Type -> ScopeType])
         /\ \A d \in DOMAIN stack, u \in Type :
              /\ stack'[d][u].mapped = stack[d][u].mapped
              /\ stack'[d][u].firstLocal = stack[d][u].firstLocal
              /\ stack'[d][u].assigned = stack[d][u].assigned
              /\ stack'[d][u].active = stack[d][u].active
                   \ (IF d = Depth /\ u = p.type THEN p.first .. last ELSE {})
<1> DEFINE t == p.type
           W == p.first .. last
           scope == [stack[Depth][t] EXCEPT !.active = @ \ W]
           top == [stack[Depth] EXCEPT ![t] = scope]
<1>1. /\ stack \in Seq([Type -> ScopeType]) /\ DOMAIN stack = 1..Depth /\ Depth \in DOMAIN stack
      /\ stack[Depth] \in [Type -> ScopeType] /\ t \in Type /\ stack[Depth][t] \in ScopeType
  BY StackFacts, IntervalsAre DEF TypeOK
<1>2. stack' = [stack EXCEPT ![Depth] = top]
  BY <1>1 DEF Delete
<1>3. /\ scope \in ScopeType /\ scope.mapped = stack[Depth][t].mapped
      /\ scope.firstLocal = stack[Depth][t].firstLocal
      /\ scope.assigned = stack[Depth][t].assigned
      /\ scope.active = stack[Depth][t].active \ W
  BY <1>1 DEF ScopeType
<1> HIDE DEF scope
<1>4. top \in [Type -> ScopeType]
      /\ \A u \in Type : top[u] = IF u = t THEN scope ELSE stack[Depth][u]
  BY <1>1, <1>3
<1> HIDE DEF top, W
<1>5. /\ stack' \in Seq([Type -> ScopeType]) /\ Len(stack') = Len(stack)
      /\ DOMAIN stack' = DOMAIN stack
      /\ \A d \in DOMAIN stack : stack'[d] = IF d = Depth THEN top ELSE stack[d]
  BY <1>1, <1>2, <1>4
<1>6. ASSUME NEW d \in DOMAIN stack, NEW u \in Type
      PROVE  /\ stack'[d][u].mapped = stack[d][u].mapped
             /\ stack'[d][u].firstLocal = stack[d][u].firstLocal
             /\ stack'[d][u].assigned = stack[d][u].assigned
             /\ stack'[d][u].active = stack[d][u].active \ (IF d = Depth /\ u = t THEN W ELSE {})
  BY <1>3, <1>4, <1>5
<1>. QED  BY <1>5, <1>6 DEF W, Depth

LEMMA DeleteActive ==
  ASSUME TypeOK, Sound, NEW p \in Interval, NEW last \in (p.first - 1) .. p.last, Delete(p, last),
         NEW S, ActiveIn(S), NEW d \in DOMAIN stack, NEW u \in Type,
         NEW w \in stack'[d][u].active
  PROVE  LocationOf(d, u, w)' \in S \ Locations(Depth, p.type, p.first .. last)
<1> DEFINE t == p.type
           W == p.first .. last
<1>1. /\ t \in Type /\ W \subseteq Wire /\ Depth \in DOMAIN stack
      /\ p.first \in Int /\ p.last \in Int
  BY IntervalsAre, StackFacts
<1>2. \A x \in W : x >= stack[Depth][t].firstLocal
  <2>1. p.first >= stack[Depth][t].firstLocal
    BY DEF Delete, MayDelete, Top
  <2>2. stack[Depth][t].firstLocal \in Int
    BY <1>1, StackFacts DEF ScopeType
  <2>. QED  BY <1>1, <2>1, <2>2
<1>3. /\ stack'[d][u].mapped = stack[d][u].mapped
      /\ stack'[d][u].firstLocal = stack[d][u].firstLocal
      /\ stack'[d][u].active = stack[d][u].active \ (IF d = Depth /\ u = t THEN W ELSE {})
  BY DeleteIs
<1> HIDE DEF W
<1>4. LocationOf(d, u, w)' = LocationOf(d, u, w)
  BY <1>3, SameLayout DEF LocationOf
<1>5. /\ w \in stack[d][u].active /\ (d = Depth /\ u = t => w \notin W)
      /\ w \in Wire /\ d \in Nat /\ d <= Depth /\ Depth \in Nat
  BY <1>3, StackFacts DEF ScopeType
<1>6. LocationOf(d, u, w) \in S
  BY <1>5 DEF ActiveIn
<1>7. ASSUME NEW v \in W, LocationOf(d, u, w) = LocationOf(Depth, t, v)
      PROVE  FALSE
  <2>1. v \in Wire /\ v >= stack[Depth][t].firstLocal
    BY <1>1, <1>2
  <2>2. LocationOf(Depth, t, v) = [type |-> t, depth |-> Depth, wire |-> v]
    BY <1>1, <2>1, StackLocation DEF Sound
  <2>3. /\ LocationOf(d, u, w).type = u /\ LocationOf(d, u, w).depth <= d
        /\ w < stack[d][u].firstLocal <=> LocationOf(d, u, w).depth < d
        /\ w >= stack[d][u].firstLocal =>
             LocationOf(d, u, w) = [type |-> u, depth |-> d, wire |-> w]
    BY <1>5, StackLocation DEF Sound
  <2>4. u = t /\ Depth <= d
    BY <1>7, <2>2, <2>3
  <2>5. d = Depth
    BY <1>5, <2>4
  <2>6. w >= stack[d][u].firstLocal
    <3>1. ~(w < stack[d][u].firstLocal)
      BY <1>5, <1>7, <2>2, <2>3, <2>5
    <3>2. w \in Int /\ stack[d][u].firstLocal \in Int
      BY <1>5, StackFacts, CallAssumption DEF ScopeType, Wire
    <3>. QED  BY <3>1, <3>2
  <2>7. w = v
    BY <1>7, <2>2, <2>3, <2>6
  <2>. QED  BY <1>5, <2>4, <2>5, <2>7
<1>. QED  BY <1>4, <1>6, <1>7 DEF Locations, W

LEMMA DeleteHeld ==
  ASSUME TypeOK, Sound, NEW p \in Interval, NEW last \in (p.first - 1) .. p.last, Delete(p, last)
  PROVE  Held' /\ Kept
<1> DEFINE t == p.type
           W == p.first .. last
           gone == Locations(Depth, t, W)
<1>1. /\ t \in Type /\ W \subseteq p.first .. p.last /\ W \subseteq Wire /\ Depth \in DOMAIN stack
      /\ p.first \in Int /\ p.last \in Int
  BY IntervalsAre, StackFacts
<1>2. /\ UNCHANGED calls /\ failed' = (last < p.last)
      /\ DOMAIN memory' = (DOMAIN memory) \ gone /\ constructed' = constructed \ gone
      /\ \A loc \in DOMAIN memory' : memory'[loc] = memory[loc]
      /\ \A w \in W : w >= stack[Depth][t].firstLocal
  <2>1. \A w \in W : w >= stack[Depth][t].firstLocal
    <3>1. p.first >= stack[Depth][t].firstLocal
      BY DEF Delete, MayDelete, Top
    <3>2. stack[Depth][t].firstLocal \in Int
      BY <1>1, StackFacts DEF ScopeType
    <3>. QED  BY <1>1, <3>1, <3>2
  <2>. QED  BY <2>1 DEF Delete
<1> HIDE DEF gone
<1>3. /\ DOMAIN stack' = DOMAIN stack /\ Depth' = Depth /\ stack' \in Seq([Type -> ScopeType])
      /\ \A d \in DOMAIN stack, u \in Type :
           /\ stack'[d][u].mapped = stack[d][u].mapped
           /\ stack'[d][u].firstLocal = stack[d][u].firstLocal
           /\ stack'[d][u].assigned = stack[d][u].assigned
           /\ stack'[d][u].active = stack[d][u].active \ (IF d = Depth /\ u = t THEN W ELSE {})
  BY DeleteIs
<1>4. TypeOK' /\ Depth' >= Len(calls') + 1
  <2>1. failed' \in BOOLEAN
    BY <1>2
  <2>2. Depth \in Nat /\ Depth = Len(calls) + 1
    BY StackFacts DEF Sound
  <2>3. TypeOK'
    BY <1>2, <1>3, <2>1 DEF TypeOK
  <2>. QED  BY <1>2, <1>3, <2>2, <2>3
<1>5. Kept
  BY <1>2 DEF Kept
<1> HIDE DEF W
<1>6. ASSUME NEW d \in DOMAIN stack, NEW u \in Type
      PROVE  /\ \A w : LocationOf(d, u, w)' = LocationOf(d, u, w)
             /\ Unassigned(d, u)' = Unassigned(d, u)
             /\ Awaited(d, u)' = Awaited(d, u)
  <2>1. \A w : LocationOf(d, u, w)' = LocationOf(d, u, w)
    <3>1. /\ stack'[d][u].mapped = stack[d][u].mapped
          /\ stack'[d][u].firstLocal = stack[d][u].firstLocal
      BY <1>3
    <3>2. \A w : LocationIn(stack'[d][u], d, u, w) = LocationIn(stack[d][u], d, u, w)
      BY <3>1, SameLayout
    <3>. QED  BY <3>2 DEF LocationOf
  <2>. QED  BY <1>2, <1>3, <2>1 DEF Unassigned, Awaited
<1>7. Free'
  <2>1. ASSUME NEW d \in DOMAIN stack, NEW u \in Type
        PROVE  /\ \A w \in Unassigned(d, u)' \ Awaited(d, u)' :
                    LocationOf(d, u, w)' \notin DOMAIN memory'
               /\ \A v, w \in Unassigned(d, u)' :
                    LocationOf(d, u, v)' = LocationOf(d, u, w)' => v = w
               /\ \A e \in (d + 1)..Depth :
                    \A v \in Unassigned(d, u)', w \in Unassigned(e, u)' :
                      LocationOf(d, u, v)' = LocationOf(e, u, w)' => v \in Awaited(d, u)'
    <3>1. \A e \in (d + 1)..Depth : e \in DOMAIN stack
      BY StackFacts
    <3>2. /\ \A w \in Unassigned(d, u) \ Awaited(d, u) : LocationOf(d, u, w) \notin DOMAIN memory
          /\ \A v, w \in Unassigned(d, u) : LocationOf(d, u, v) = LocationOf(d, u, w) => v = w
          /\ \A e \in (d + 1)..Depth : \A v \in Unassigned(d, u), w \in Unassigned(e, u) :
               LocationOf(d, u, v) = LocationOf(e, u, w) => v \in Awaited(d, u)
      BY DEF Sound, Free
    <3>. QED  BY <1>2, <1>6, <3>1, <3>2
  <2>. QED  BY <1>3, <2>1 DEF Free
<1>8. ASSUME NEW d \in DOMAIN calls
      PROVE  Linked(calls[d], d)'
  <2>1. /\ d \in DOMAIN stack /\ d + 1 \in DOMAIN stack /\ calls[d] \in Seq(Interval)
        /\ Linked(calls[d], d)
    BY SoundFacts DEF Sound
  <2>2. \A k \in DOMAIN calls[d] : calls[d][k].type \in Type
    BY <2>1, IntervalsAre
  <2>. QED  BY <1>2, <1>6, <2>1, <2>2 DEF Linked
<1>9. ASSUME NEW d \in DOMAIN stack, NEW u \in Type
      PROVE  Mapped(stack'[d][u], d)
  <2>1. Mapped(stack[d][u], d)
    BY DEF Sound
  <2>. QED  BY <1>3, <2>1, SMTT(30) DEF Mapped
<1>10. ASSUME NEW d \in DOMAIN stack, NEW u \in Type, NEW w \in stack'[d][u].active
       PROVE  LocationOf(d, u, w)' \in DOMAIN memory'
  <2>1. ActiveIn(DOMAIN memory)
    BY DEF Sound
  <2>2. LocationOf(d, u, w)' \in (DOMAIN memory) \ gone
    BY <2>1, DeleteActive DEF gone, W
  <2>. QED  BY <1>2, <2>2
<1>11. Sound'
  <2>1. \A loc \in DOMAIN memory' : memory'[loc] \in Value
    BY <1>2 DEF Sound
  <2>2. ActiveIn(DOMAIN memory)'
    BY <1>3, <1>10 DEF ActiveIn
  <2>. QED  BY <1>2, <1>3, <1>7, <1>8, <1>9, <2>1, <2>2 DEF Sound
<1>. QED  BY <1>4, <1>5, <1>11 DEF Held
(* invoke, up to the evaluation.                                            *)
LEMMA ListsAre ==
  /\ \A outs \in OutputLists : outs \in Seq(Interval) /\ Len(outs) <= MaxOutputs
  /\ \A ins \in InputLists : ins \in Seq(Interval) /\ Len(ins) <= MaxInputs
<1>1. ASSUME NEW n \in Nat, NEW s \in BoundedSeq(Interval, n)
      PROVE  s \in Seq(Interval) /\ Len(s) <= n
  <2>1. PICK m \in 0..n : s \in [1..m -> Interval]
    BY DEF BoundedSeq, SeqOf
  <2>2. m \in Nat /\ m <= n
    BY <2>1
  <2>3. s \in Seq(Interval)
    BY <2>1, <2>2
  <2>4. Len(s) = m
    BY <2>1, <2>2
  <2>. QED  BY <2>2, <2>3, <2>4
<1>2. MaxOutputs \in Nat /\ MaxInputs \in Nat
  BY CallAssumption
<1>. QED  BY <1>1, <1>2 DEF OutputLists, InputLists

(* The first n parameters of a call, found.                                 *)
Arguments(outs, ins, n) ==
  /\ TypeOK /\ Sound /\ Depth < MaxDepth
  /\ outs \in OutputLists /\ ins \in InputLists
  /\ n \in 0..(Len(outs) + Len(ins))
  /\ \A k \in 1..n : Maps(outs, ins, k)

LEMMA ParamsAre ==
  ASSUME NEW outs \in OutputLists, NEW ins \in InputLists
  PROVE  /\ outs \o ins \in Seq(Interval)
         /\ Len(outs \o ins) = Len(outs) + Len(ins)
         /\ Len(outs) \in Nat /\ Len(ins) \in Nat
         /\ Len(outs) + Len(ins) <= MaxOutputs + MaxInputs
         /\ \A k \in 1..Len(outs) : (outs \o ins)[k] = outs[k]
         /\ \A k \in 1..(Len(outs) + Len(ins)) :
              k > Len(outs) => (outs \o ins)[k] = ins[k - Len(outs)]
                               /\ k - Len(outs) \in 1..Len(ins)
<1>1. /\ outs \in Seq(Interval) /\ Len(outs) <= MaxOutputs
      /\ ins \in Seq(Interval) /\ Len(ins) <= MaxInputs
  BY ListsAre
<1>2. MaxOutputs \in Nat /\ MaxInputs \in Nat
  BY CallAssumption
<1>. QED  BY <1>1, <1>2

(* A parameter's wires are one after the other in the scope that owns them. *)
LEMMA ArgumentIs ==
  ASSUME NEW outs, NEW ins, NEW n, Arguments(outs, ins, n), NEW k \in 1..n
  PROVE  LET p == (outs \o ins)[k]
         IN  /\ p \in Interval
             /\ InOneRange(Top(p.type), p) \/ p.first = p.last
             /\ k <= Len(outs) => p.first .. p.last \subseteq Unassigned(Depth, p.type)
             /\ k > Len(outs) => p.first .. p.last \subseteq Top(p.type).active
<1> DEFINE p == (outs \o ins)[k]
<1>1. /\ outs \o ins \in Seq(Interval) /\ k \in 1..Len(outs \o ins) /\ Len(outs) \in Nat
      /\ Len(outs \o ins) = Len(outs) + Len(ins) /\ k \in Int
      /\ k <= Len(outs) => p = outs[k]
      /\ k > Len(outs) => p = ins[k - Len(outs)]
  BY ParamsAre DEF Arguments
<1>2. p \in Interval
  BY <1>1
<1>3. Maps(outs, ins, k)
  BY DEF Arguments
<1> HIDE DEF p
<1>4. CASE k <= Len(outs)
  <2>1. FindsOutputs(Depth, p)
    BY <1>1, <1>3, <1>4 DEF Maps
  <2>2. InOneRange(Top(p.type), p) /\ p.first .. p.last \subseteq Unassigned(Depth, p.type)
    BY <1>2, <2>1, FoundOutputs DEF FindsOutputs, Top
  <2>. QED  BY <1>1, <1>2, <1>4, <2>2 DEF p
<1>5. CASE ~(k <= Len(outs))
  <2>1. FindsInputs(Depth, p) /\ k > Len(outs)
    BY <1>1, <1>3, <1>5 DEF Maps
  <2>2. /\ InOneRange(Top(p.type), p) \/ p.first = p.last
        /\ p.first .. p.last \subseteq Top(p.type).active
    BY <2>1 DEF FindsInputs, Top
  <2>. QED  BY <1>1, <1>2, <1>5, <2>2 DEF p
<1>. QED  BY <1>4, <1>5

LEMMA ArgumentAt ==
  ASSUME NEW outs, NEW ins, NEW n, Arguments(outs, ins, n), NEW k \in 1..n
  PROVE  LET params == outs \o ins
             p == params[k]
         IN  /\ MappingOf(params, k) \in Mapping
             /\ MappingOf(params, k).owner < Depth + 1
             /\ MappingOf(params, k).base + MappingOf(params, k).length <= TopWire + 1
             /\ MappingOf(params, k).first = Place(params, k)
             /\ MappingOf(params, k).length = LengthOf(p)
             /\ Place(params, k) \in Nat /\ LengthOf(p) \in Nat
             /\ Place(params, k) + LengthOf(p) <= TopWire + 1
             /\ \A i \in 0..(LengthOf(p) - 1) :
                  /\ p.first + i \in p.first .. p.last /\ p.first + i \in Wire
                  /\ LocationOf(Depth, p.type, p.first + i) =
                       [type |-> p.type, depth |-> MappingOf(params, k).owner,
                        wire |-> MappingOf(params, k).base + i]
<1> DEFINE params == outs \o ins
           p == params[k]
           t == p.type
           loc == LocationOf(Depth, t, p.first)
           m == MappingOf(params, k)
<1>1. /\ params \in Seq(Interval) /\ k \in 1..Len(params) /\ k \in 0..Len(params)
      /\ Len(params) \in Nat /\ Len(params) <= MaxOutputs + MaxInputs
  BY ParamsAre DEF Arguments
<1>2. p \in Interval /\ (InOneRange(Top(t), p) \/ p.first = p.last)
  BY ArgumentIs
<1> HIDE DEF params
<1>3. Place(params, k) \in Nat /\ Place(params, k) + LengthOf(p) <= TopWire + 1
      /\ LengthOf(p) \in Nat /\ 1 <= LengthOf(p)
  <2> DEFINE L == Lengths(params, t)[k]
             b == MaxOutputs + MaxInputs
  <2>1. Place(params, k) \in Nat /\ Place(params, k) + LengthOf(p) = L
    BY <1>1, PlaceFacts
  <2>2. L <= k * MaxLength
    BY <1>1, LengthsBounded
  <2>3. k <= b /\ k \in Nat /\ b \in Nat /\ MaxLength \in Nat /\ b * MaxLength <= TopWire + 1
    BY <1>1, CallAssumption
  <2>4. LengthOf(p) \in Nat /\ 1 <= LengthOf(p)
    BY <1>2, IntervalsAre
  <2> HIDE DEF L, b, p
  <2>5. k * MaxLength <= b * MaxLength
    <3>1. b = k + (b - k) /\ b - k \in Nat
      BY <2>3
    <3>2. b * MaxLength = k * MaxLength + (b - k) * MaxLength
      BY <2>3, <3>1
    <3>3. (b - k) * MaxLength \in Nat /\ k * MaxLength \in Nat
      BY <2>3, <3>1
    <3>. QED  BY <3>2, <3>3
  <2>6. k * MaxLength \in Nat /\ b * MaxLength \in Nat /\ TopWire \in Nat
    BY <2>3, CallAssumption
  <2>. QED  BY <2>1, <2>2, <2>3, <2>4, <2>5, <2>6
<1>4. /\ Depth \in DOMAIN stack /\ Depth \in 1..MaxDepth /\ Top(t) \in ScopeType
      /\ Mapped(Top(t), Depth) /\ t \in Type /\ p.first \in Wire
  BY <1>2, StackFacts, IntervalsAre, SoundFacts DEF Arguments, Top
<1>5. loc \in Location /\ loc.depth <= Depth
  BY <1>4, StackLocation DEF Arguments, Sound
<1>6. m = [first |-> Place(params, k), length |-> LengthOf(p), owner |-> loc.depth, base |-> loc.wire]
  BY DEF MappingOf
<1>7. ASSUME NEW i \in 0..(LengthOf(p) - 1)
      PROVE  /\ p.first + i \in p.first .. p.last /\ p.first + i \in Wire
             /\ LocationOf(Depth, t, p.first + i) =
                  [type |-> t, depth |-> loc.depth, wire |-> loc.wire + i]
             /\ loc.wire + i <= TopWire
  <2>1. p.first + i \in p.first .. p.last
    BY <1>2, IntervalsAre DEF LengthOf
  <2>2. \A w : LocationOf(Depth, t, w) = LocationIn(Top(t), Depth, t, w)
    BY DEF LocationOf, Top
  <2> HIDE DEF p, t
  <2>3. InOneRange(Top(t), p) \/ p.first = p.last
    BY <1>2
  <2>4. /\ p.first + i \in Wire
        /\ LocationIn(Top(t), Depth, t, p.first + i) =
             [type |-> t, depth |-> LocationIn(Top(t), Depth, t, p.first).depth,
              wire |-> LocationIn(Top(t), Depth, t, p.first).wire + i]
        /\ LocationIn(Top(t), Depth, t, p.first).wire + i <= TopWire
    BY <1>2, <1>4, <2>3, InOneRangeIs
  <2>. QED  BY <2>1, <2>2, <2>4
<1> HIDE DEF loc, m
<1>8. m.base + m.length <= TopWire + 1
  <2>1. LengthOf(p) - 1 \in 0..(LengthOf(p) - 1)
    BY <1>3
  <2>2. loc.wire + (LengthOf(p) - 1) <= TopWire
    BY <1>7, <2>1
  <2>3. loc.wire \in Int /\ TopWire \in Int
    BY <1>5, CallAssumption DEF Location, Wire
  <2>4. m.base = loc.wire /\ m.length = LengthOf(p)
    BY <1>6
  <2>. QED  BY <1>3, <2>2, <2>3, <2>4
<1>9. m \in Mapping
  <2>1. Place(params, k) \in Wire
    BY <1>3, CallAssumption DEF Wire
  <2>. QED  BY <1>3, <1>5, <1>6, <2>1 DEF Mapping, Location
<1>10. loc.depth < Depth + 1
  BY <1>4, <1>5 DEF Location
<1>11. /\ m.owner = loc.depth /\ m.base = loc.wire
       /\ m.first = Place(params, k) /\ m.length = LengthOf(p)
  BY <1>6
<1>12. \A i \in 0..(LengthOf(p) - 1) :
         /\ p.first + i \in p.first .. p.last /\ p.first + i \in Wire
         /\ LocationOf(Depth, t, p.first + i) =
              [type |-> t, depth |-> m.owner, wire |-> m.base + i]
  BY <1>7, <1>11
<1>13. m.owner < Depth + 1
  BY <1>10, <1>11
<1>. QED  BY <1>3, <1>8, <1>9, <1>11, <1>12, <1>13 DEF m, params
(* The callee's scope: its shape, and its wires.                            *)
LEMMA WireOfArgument ==
  ASSUME NEW outs, NEW ins, NEW n, Arguments(outs, ins, n), NEW k \in 1..n, NEW w \in Int
  PROVE  LET params == outs \o ins
         IN  /\ CoveredBy(MappingOf(params, k), w, w) <=> In(w, params, k)
             /\ w \in CalleeWires(params, k) <=> In(w, params, k)
             /\ In(w, params, k) =>
                  /\ w - Place(params, k) \in 0..(LengthOf(params[k]) - 1)
                  /\ w \in Wire
<1> DEFINE params == outs \o ins
           p == params[k]
           m == MappingOf(params, k)
<1>1. /\ m.first = Place(params, k) /\ m.length = LengthOf(p)
      /\ Place(params, k) \in Nat /\ LengthOf(p) \in Nat
      /\ Place(params, k) + LengthOf(p) <= TopWire + 1
  BY ArgumentAt, ZenonT(30)
<1> HIDE DEF m, p, params
<1>2. CoveredBy(m, w, w) <=> In(w, params, k)
  BY <1>1 DEF CoveredBy, In, p
<1>3. w \in CalleeWires(params, k) <=> In(w, params, k)
  BY <1>1 DEF CalleeWires, In, p
<1>4. In(w, params, k) =>
        /\ w - Place(params, k) \in 0..(LengthOf(p) - 1)
        /\ w \in Wire
  BY <1>1, CallAssumption DEF In, Wire, p
<1>. QED  BY <1>2, <1>3, <1>4 DEF m, p, params

LEMMA CalleeScope ==
  ASSUME NEW outs, NEW ins, NEW n, Arguments(outs, ins, n), NEW t \in Type
  PROVE  /\ ScopeWith(outs, ins, t, n) \in ScopeType
         /\ Mapped(ScopeWith(outs, ins, t, n), Depth + 1)
<1> DEFINE params == outs \o ins
           s == ScopeWith(outs, ins, t, n)
           mine == {k \in 1..n : params[k].type = t}
<1>1. /\ params \in Seq(Interval) /\ n \in 0..Len(params) /\ n \in Nat
  BY ParamsAre DEF Arguments
<1>2. /\ s = [assigned |-> s.assigned, active |-> s.active,
              mapped |-> s.mapped, firstLocal |-> s.firstLocal]
  BY DEF ScopeWith
<1>3. /\ s.mapped = {MappingOf(params, k) : k \in mine}
      /\ s.firstLocal = Lengths(params, t)[n]
      /\ s.assigned = UNION {CalleeWires(params, k) : k \in {j \in mine : j > Len(outs)}}
      /\ s.active = s.assigned
  BY DEF ScopeWith
<1> HIDE DEF s
<1>4. \A k \in 1..n : /\ MappingOf(params, k) \in Mapping
                      /\ MappingOf(params, k).owner < Depth + 1
                      /\ MappingOf(params, k).base + MappingOf(params, k).length <= TopWire + 1
                      /\ MappingOf(params, k).first = Place(params, k)
                      /\ MappingOf(params, k).length = LengthOf(params[k])
                      /\ Place(params, k) \in Nat /\ LengthOf(params[k]) \in Nat
                      /\ Place(params, k) + LengthOf(params[k]) <= TopWire + 1
  BY ArgumentAt, ZenonT(30)
<1>5. \A k \in 1..n, w \in Int :
        /\ CoveredBy(MappingOf(params, k), w, w) <=> In(w, params, k)
        /\ w \in CalleeWires(params, k) <=> In(w, params, k)
        /\ In(w, params, k) => w \in Wire
  BY WireOfArgument
<1> HIDE DEF params
<1>6. \A k \in 1..n : CalleeWires(params, k) \subseteq Wire
  BY <1>4, CallAssumption DEF CalleeWires, Wire
<1>7. s.firstLocal \in 0..(TopWire + 1)
  <2>1. s.firstLocal \in Nat
    BY <1>1, <1>3, LengthsAre
  <2>2. s.firstLocal <= TopWire + 1
    <3>1. CASE s.firstLocal = 0
      BY <3>1, CallAssumption
    <3>2. CASE s.firstLocal # 0
      <4>1. s.firstLocal - 1 \in Nat /\ s.firstLocal - 1 < Lengths(params, t)[n]
        BY <1>3, <2>1, <3>2
      <4>2. PICK k \in 1..n : In(s.firstLocal - 1, params, k)
        BY <1>1, <4>1, PlaceOf
      <4>3. s.firstLocal - 1 \in Wire
        BY <1>5, <4>1, <4>2
      <4>. QED  BY <2>1, <4>3, CallAssumption DEF Wire
    <3>. QED  BY <3>1, <3>2
  <2>. QED  BY <2>1, <2>2, CallAssumption
<1>8. s.assigned \subseteq Wire /\ s.mapped \subseteq Mapping
  BY <1>3, <1>4, <1>6
<1>9. s \in ScopeType
  BY <1>2, <1>3, <1>7, <1>8 DEF ScopeType
<1>10. ASSUME NEW m \in s.mapped
       PROVE  /\ m.owner < Depth + 1
              /\ m.base + m.length <= TopWire + 1
              /\ m.first + m.length <= s.firstLocal
  <2>1. PICK k \in mine : m = MappingOf(params, k)
    BY <1>3
  <2>2. k \in 1..n /\ params[k].type = t
    OBVIOUS
  <2>3. Place(params, k) + LengthOf(params[k]) <= Lengths(params, t)[n]
    BY <1>1, <2>2, PlaceBelow
  <2>. QED  BY <1>3, <1>4, <2>1, <2>2, <2>3
<1>11. ASSUME NEW w \in 0..(s.firstLocal - 1)
       PROVE  \E m \in s.mapped : CoveredBy(m, w, w)
  <2>1. w \in Nat /\ w < Lengths(params, t)[n]
    BY <1>3, <1>7, CallAssumption
  <2>2. PICK k \in 1..n : params[k].type = t /\ In(w, params, k)
    BY <1>1, <2>1, PlaceOf
  <2>. QED  BY <1>3, <1>5, <2>1, <2>2
<1>12. ASSUME NEW a \in s.mapped, NEW b \in s.mapped, NEW w \in Wire,
              CoveredBy(a, w, w), CoveredBy(b, w, w)
       PROVE  a = b
  <2>1. PICK j \in mine : a = MappingOf(params, j)
    BY <1>3
  <2>2. PICK k \in mine : b = MappingOf(params, k)
    BY <1>3
  <2>3. w \in Nat /\ w \in Int
    BY CallAssumption DEF Wire
  <2>4. In(w, params, j) /\ In(w, params, k)
    BY <1>5, <1>12, <2>1, <2>2, <2>3
  <2>5. j \in 1..Len(params) /\ k \in 1..Len(params) /\ params[j].type = params[k].type
    BY <1>1
  <2>6. j = k
    BY <1>1, <2>3, <2>4, <2>5, PlaceUnique
  <2>. QED  BY <2>1, <2>2, <2>6
<1>13. Mapped(s, Depth + 1)
  BY <1>3, <1>10, <1>11, <1>12 DEF Mapped
<1>. QED  BY <1>9, <1>13 DEF s

(* Every wire of a parameter is where the caller's is.                      *)
LEMMA CalleeLocation ==
  ASSUME NEW outs, NEW ins, NEW n, Arguments(outs, ins, n), NEW k \in 1..n,
         NEW t, t = (outs \o ins)[k].type,
         NEW w \in Int, In(w, outs \o ins, k)
  PROVE  /\ LocationIn(ScopeWith(outs, ins, t, n), Depth + 1, t, w) =
              LocationOf(Depth, t, (outs \o ins)[k].first + (w - Place(outs \o ins, k)))
         /\ w < ScopeWith(outs, ins, t, n).firstLocal
<1> DEFINE params == outs \o ins
           p == params[k]
           s == ScopeWith(outs, ins, t, n)
           m == MappingOf(params, k)
           i == w - Place(params, k)
<1>1. /\ p \in Interval /\ t \in Type
  BY ArgumentIs, IntervalsAre
<1>2. /\ CoveredBy(m, w, w) /\ i \in 0..(LengthOf(p) - 1) /\ w \in Wire
  BY WireOfArgument
<1>3. s \in ScopeType /\ Mapped(s, Depth + 1) /\ Depth + 1 \in 1..MaxDepth
  <2>1. s \in ScopeType /\ Mapped(s, Depth + 1)
    BY <1>1, CalleeScope
  <2>2. Depth \in Nat /\ Depth < MaxDepth /\ MaxDepth \in Nat
    BY StackFacts, CallAssumption DEF Arguments
  <2>3. Depth + 1 \in 1..MaxDepth
    BY <2>2
  <2>. QED  BY <2>1, <2>3
<1>4. m \in s.mapped
  <2>1. s.mapped = {MappingOf(params, j) : j \in {j \in 1..n : params[j].type = t}}
    BY DEF ScopeWith
  <2>. QED  BY <2>1
<1>5. /\ m.first = Place(params, k) /\ m.base \in Int /\ Place(params, k) \in Int
      /\ LocationOf(Depth, p.type, p.first + i) =
           [type |-> p.type, depth |-> m.owner, wire |-> m.base + i]
  <2>1. /\ m \in Mapping /\ m.first = Place(params, k) /\ Place(params, k) \in Nat
        /\ \A j \in 0..(LengthOf(p) - 1) :
             LocationOf(Depth, p.type, p.first + j) =
               [type |-> p.type, depth |-> m.owner, wire |-> m.base + j]
    BY ArgumentAt, ZenonT(30)
  <2>2. m.base \in Int
    BY <2>1, CallAssumption DEF Mapping, Wire
  <2> HIDE DEF m, i
  <2>3. LocationOf(Depth, p.type, p.first + i) =
          [type |-> p.type, depth |-> m.owner, wire |-> m.base + i]
    BY <1>2, <2>1
  <2>4. Place(params, k) \in Int /\ m.first = Place(params, k)
    BY <2>1
  <2>. QED  BY <2>2, <2>3, <2>4, Zenon
<1> HIDE DEF s, m
<1>6. /\ w < s.firstLocal
      /\ LocationIn(s, Depth + 1, t, w) =
           [type |-> t, depth |-> m.owner, wire |-> m.base + w - m.first]
  BY <1>2, <1>3, <1>4, MappedWire, ZenonT(30)
<1>7. m.base + w - m.first = m.base + i
  BY <1>5
<1>. QED  BY <1>5, <1>6, <1>7 DEF s
(* The stack with the callee's scopes on it.                                *)
LEMMA PushIs ==
  ASSUME NEW outs, NEW ins, NEW n, Arguments(outs, ins, n), Push(outs, ins, n)
  PROVE  /\ stack' \in Seq([Type -> ScopeType]) /\ Depth' = Depth + 1
         /\ Depth' \in 1..MaxDepth /\ DOMAIN stack' = 1..(Depth + 1)
         /\ \A d \in DOMAIN stack : stack'[d] = stack[d]
         /\ \A t \in Type : stack'[Depth + 1][t] = ScopeWith(outs, ins, t, n)
<1> DEFINE top == [t \in Type |-> ScopeWith(outs, ins, t, n)]
<1>1. top \in [Type -> ScopeType]
  BY CalleeScope
<1>2. stack' = Append(stack, top)
  BY DEF Push
<1>3. stack \in Seq([Type -> ScopeType])
  BY DEF Arguments, TypeOK
<1>4. \A t \in Type : top[t] = ScopeWith(outs, ins, t, n)
  OBVIOUS
<1> HIDE DEF top
<1>5. /\ stack' \in Seq([Type -> ScopeType]) /\ Len(stack') = Len(stack) + 1
      /\ DOMAIN stack' = 1..(Len(stack) + 1)
      /\ \A d \in DOMAIN stack : stack'[d] = stack[d]
      /\ stack'[Len(stack) + 1] = top
  BY <1>1, <1>2, <1>3
<1>6. Depth \in Nat /\ Depth < MaxDepth /\ MaxDepth \in Nat
  BY StackFacts, CallAssumption DEF Arguments
<1>7. Depth + 1 \in 1..MaxDepth
  BY <1>6
<1>. QED  BY <1>4, <1>5, <1>7 DEF Depth

LEMMA PushTyped ==
  ASSUME NEW outs, NEW ins, NEW n, Arguments(outs, ins, n), Push(outs, ins, n),
         UNCHANGED <<memory, constructed>>, calls' \in Seq(Seq(Interval)), failed' \in BOOLEAN
  PROVE  TypeOK'
<1>1. /\ stack' \in Seq([Type -> ScopeType]) /\ Depth' = Depth + 1 /\ Depth' \in 1..MaxDepth
  BY PushIs
<1>2. \A loc \in (DOMAIN memory') \cup constructed' : loc.depth <= Depth'
  <2>1. SUFFICES ASSUME NEW loc \in (DOMAIN memory) \cup constructed
                 PROVE  loc.depth <= Depth + 1
    BY <1>1
  <2>2. loc \in Location /\ loc.depth <= Depth /\ Depth \in Nat
    BY StackFacts DEF Arguments, TypeOK
  <2>. QED  BY <2>2 DEF Location
<1>. QED  BY <1>1, <1>2 DEF Arguments, TypeOK

InvokeRunning(outs, ins) ==
  /\ Arguments(outs, ins, Len(outs) + Len(ins))
  /\ Push(outs, ins, Len(outs) + Len(ins))
  /\ Disjoint(outs)
  /\ calls' = Append(calls, outs) /\ UNCHANGED <<memory, constructed, failed>>

LEMMA InvokeIs ==
  ASSUME NEW outs, NEW ins, InvokeRunning(outs, ins)
  PROVE  /\ TypeOK /\ Sound /\ Depth' = Depth + 1 /\ DOMAIN stack = 1..Depth
         /\ Depth \in Nat /\ Depth \in DOMAIN stack
         /\ DOMAIN stack' = 1..(Depth + 1)
         /\ \A d \in DOMAIN stack, t \in Type :
              /\ stack'[d][t] = stack[d][t]
              /\ \A w : LocationOf(d, t, w)' = LocationOf(d, t, w)
              /\ Unassigned(d, t)' = Unassigned(d, t)
         /\ DOMAIN calls' = 1..Depth /\ calls'[Depth] = outs
         /\ \A d \in DOMAIN calls : calls'[d] = calls[d]
         /\ DOMAIN calls = 1..(Depth - 1)
<1>1. TypeOK /\ Sound /\ calls \in Seq(Seq(Interval)) /\ outs \in Seq(Interval)
      /\ Depth = Len(calls) + 1
  BY ListsAre DEF InvokeRunning, Arguments, TypeOK, Sound
<1>2. /\ Depth' = Depth + 1 /\ DOMAIN stack' = 1..(Depth + 1)
      /\ \A d \in DOMAIN stack : stack'[d] = stack[d]
  BY PushIs DEF InvokeRunning
<1>3. Depth \in Nat /\ DOMAIN stack = 1..Depth /\ Depth \in DOMAIN stack
  BY <1>1, StackFacts
<1>4. \A d \in DOMAIN stack, t \in Type :
        /\ stack'[d][t] = stack[d][t]
        /\ \A w : LocationOf(d, t, w)' = LocationOf(d, t, w)
        /\ Unassigned(d, t)' = Unassigned(d, t)
  BY <1>2 DEF LocationOf, Unassigned
<1>5. /\ DOMAIN calls' = 1..(Len(calls) + 1) /\ calls'[Len(calls) + 1] = outs
      /\ \A d \in DOMAIN calls : calls'[d] = calls[d]
      /\ DOMAIN calls = 1..Len(calls) /\ Len(calls) \in Nat
  BY <1>1 DEF InvokeRunning
<1>6. Len(calls) = Depth - 1
  BY <1>1, <1>5
<1>. QED  BY <1>1, <1>2, <1>3, <1>4, <1>5, <1>6

(* What a wire of the callee not yet assigned is.                           *)
CalleeAt(t, w) == LocationIn(stack'[Depth + 1][t], Depth + 1, t, w)

Local(t, w) == CalleeAt(t, w) = [type |-> t, depth |-> Depth + 1, wire |-> w]

Output(outs, ins, t, w, k) ==
  LET v == outs[k].first + (w - Place(outs, k))
  IN  /\ outs[k].type = t
      /\ v \in outs[k].first .. outs[k].last
      /\ v \in Unassigned(Depth, t)
      /\ CalleeAt(t, w) = LocationOf(Depth, t, v)

LEMMA PlaceOfOutput ==
  ASSUME NEW outs \in OutputLists, NEW ins \in InputLists, NEW k \in 1..Len(outs)
  PROVE  Place(outs \o ins, k) = Place(outs, k)
<1>1. outs \in Seq(Interval) /\ ins \in Seq(Interval) /\ k - 1 \in 0..Len(outs)
      /\ (outs \o ins)[k] = outs[k]
  BY ListsAre, ParamsAre
<1>2. Lengths(outs \o ins, outs[k].type)[k - 1] = Lengths(outs, outs[k].type)[k - 1]
  BY <1>1, LengthsOfPrefix
<1>. QED  BY <1>1, <1>2 DEF Place

LEMMA OutputAt ==
  ASSUME NEW outs, NEW ins, InvokeRunning(outs, ins), NEW k \in 1..Len(outs),
         NEW w \in Int, In(w, outs \o ins, k)
  PROVE  Output(outs, ins, outs[k].type, w, k)
<1> DEFINE n == Len(outs) + Len(ins)
           t == outs[k].type
           v == outs[k].first + (w - Place(outs, k))
<1>1. /\ outs \in OutputLists /\ ins \in InputLists /\ Arguments(outs, ins, n)
      /\ Push(outs, ins, n)
  BY DEF InvokeRunning, Arguments
<1>2. /\ (outs \o ins)[k] = outs[k] /\ k \in 1..n /\ k <= Len(outs)
      /\ Place(outs \o ins, k) = Place(outs, k)
  BY <1>1, ParamsAre, PlaceOfOutput
<1> HIDE DEF n
<1>3. outs[k] \in Interval /\ outs[k].first .. outs[k].last \subseteq Unassigned(Depth, t)
  BY <1>1, <1>2, ArgumentIs
<1>4. w - Place(outs, k) \in 0..(LengthOf(outs[k]) - 1)
  BY <1>1, <1>2, WireOfArgument
<1>5. v \in outs[k].first .. outs[k].last
  <2>1. outs[k].first \in Nat /\ outs[k].last \in Nat
    BY <1>3, IntervalsAre
  <2> DEFINE i == w - Place(outs, k)
  <2>2. i \in 0..(LengthOf(outs[k]) - 1)
    BY <1>4
  <2> HIDE DEF i
  <2>3. outs[k].first + i \in outs[k].first .. outs[k].last
    BY <2>1, <2>2 DEF LengthOf
  <2>. QED  BY <2>3 DEF i
<1>6. LocationIn(ScopeWith(outs, ins, t, n), Depth + 1, t, w) = LocationOf(Depth, t, v)
  BY <1>1, <1>2, CalleeLocation
<1>7. stack'[Depth + 1][t] = ScopeWith(outs, ins, t, n)
  <2>1. t \in Type
    BY <1>3, IntervalsAre
  <2>. QED  BY <1>1, <2>1, PushIs
<1>8. CalleeAt(t, w) = LocationOf(Depth, t, v)
  BY <1>6, <1>7 DEF CalleeAt
<1>. QED  BY <1>3, <1>5, <1>8 DEF Output
LEMMA CalleeWire ==
  ASSUME NEW outs, NEW ins, InvokeRunning(outs, ins), NEW t \in Type,
         NEW w \in Wire \ stack'[Depth + 1][t].assigned
  PROVE  \/ Local(t, w)
         \/ \E k \in 1..Len(outs) : Output(outs, ins, t, w, k)
<1> DEFINE n == Len(outs) + Len(ins)
           params == outs \o ins
           s == stack'[Depth + 1][t]
<1>1. /\ outs \in OutputLists /\ ins \in InputLists /\ Arguments(outs, ins, n)
      /\ Push(outs, ins, n) /\ n \in 0..Len(params) /\ n \in Nat /\ Len(outs) \in Nat
      /\ params \in Seq(Interval) /\ Len(params) = n
  BY ParamsAre DEF InvokeRunning, Arguments
<1>2. s = ScopeWith(outs, ins, t, n)
  BY <1>1, PushIs
<1>3. s \in ScopeType /\ w \in Int /\ w \in Nat
  BY <1>1, <1>2, CalleeScope, CallAssumption DEF Wire
<1>4. CASE w >= s.firstLocal
  BY <1>3, <1>4, LocalWire DEF Local, CalleeAt
<1>5. CASE ~(w >= s.firstLocal)
  <2>1. w < Lengths(params, t)[n]
    <3>1. s.firstLocal = Lengths(params, t)[n]
      BY <1>2 DEF ScopeWith
    <3>2. s.firstLocal \in Int
      BY <1>3, CallAssumption DEF ScopeType
    <3>. QED  BY <1>3, <1>5, <3>1, <3>2
  <2>2. PICK k \in 1..n : params[k].type = t /\ In(w, params, k)
    BY <1>1, <1>3, <2>1, PlaceOf
  <2>3. ~(k > Len(outs))
    <3>1. SUFFICES ASSUME k > Len(outs)
                   PROVE  FALSE
      OBVIOUS
    <3>2. w \in CalleeWires(params, k)
      BY <1>1, <1>3, <2>2, WireOfArgument
    <3>3. w \in s.assigned
      BY <1>2, <2>2, <3>1, <3>2 DEF ScopeWith
    <3>. QED  BY <3>3
  <2>4. k \in 1..Len(outs)
    BY <1>1, <2>3
  <2>5. outs[k].type = t
    BY <1>1, <2>2, <2>4, ParamsAre
  <2>6. Output(outs, ins, t, w, k)
    BY <1>3, <2>2, <2>4, <2>5, OutputAt
  <2>. QED  BY <2>4, <2>6
<1>. QED  BY <1>4, <1>5

(* An input of the callee is where the caller holds it.                     *)
LEMMA InputAt ==
  ASSUME NEW outs, NEW ins, InvokeRunning(outs, ins), NEW t \in Type,
         NEW w \in stack'[Depth + 1][t].active
  PROVE  \E v \in Top(t).active : CalleeAt(t, w) = LocationOf(Depth, t, v)
<1> DEFINE n == Len(outs) + Len(ins)
           params == outs \o ins
           s == stack'[Depth + 1][t]
<1>1. /\ outs \in OutputLists /\ ins \in InputLists /\ Arguments(outs, ins, n)
      /\ Push(outs, ins, n) /\ n \in Nat
  BY ParamsAre DEF InvokeRunning, Arguments
<1>2. s = ScopeWith(outs, ins, t, n) /\ s \in ScopeType
  BY <1>1, CalleeScope, PushIs
<1>3. w \in Wire /\ w \in Int
  BY <1>2, CallAssumption DEF ScopeType, Wire
<1>4. PICK k \in 1..n : params[k].type = t /\ k > Len(outs) /\ w \in CalleeWires(params, k)
  BY <1>2 DEF ScopeWith
<1>5. In(w, params, k) /\ w - Place(params, k) \in 0..(LengthOf(params[k]) - 1)
  BY <1>1, <1>3, <1>4, WireOfArgument
<1> DEFINE i == w - Place(params, k)
           v == params[k].first + i
<1>6. params[k] \in Interval /\ params[k].first .. params[k].last \subseteq Top(t).active
  BY <1>1, <1>4, ArgumentIs
<1>7. v \in params[k].first .. params[k].last
  <2>1. params[k].first \in Nat /\ params[k].last \in Nat
    BY <1>6, IntervalsAre
  <2>2. i \in 0..(LengthOf(params[k]) - 1)
    BY <1>5
  <2> DEFINE f == params[k].first
             l == params[k].last
  <2>3. LengthOf(params[k]) = 1 + l - f
    BY DEF LengthOf
  <2> HIDE DEF i, f, l
  <2>4. f + i \in f..l
    BY <2>1, <2>2, <2>3, SMTT(30) DEF f, l
  <2>. QED  BY <2>4 DEF f, l
<1>8. LocationIn(ScopeWith(outs, ins, t, n), Depth + 1, t, w) = LocationOf(Depth, t, v)
  BY <1>1, <1>3, <1>4, <1>5, CalleeLocation
<1>9. CalleeAt(t, w) = LocationOf(Depth, t, v)
  BY <1>2, <1>8 DEF CalleeAt
<1>. QED  BY <1>6, <1>7, <1>9

LEMMA InvokeFree ==
  ASSUME NEW outs, NEW ins, InvokeRunning(outs, ins)
  PROVE  Free'
<1>1. /\ TypeOK /\ Sound /\ Depth' = Depth + 1 /\ DOMAIN stack = 1..Depth
      /\ Depth \in Nat /\ Depth \in DOMAIN stack
      /\ DOMAIN stack' = 1..(Depth + 1)
      /\ \A d \in DOMAIN stack, t \in Type :
           /\ stack'[d][t] = stack[d][t]
           /\ \A w : LocationOf(d, t, w)' = LocationOf(d, t, w)
           /\ Unassigned(d, t)' = Unassigned(d, t)
      /\ calls'[Depth] = outs
      /\ \A d \in DOMAIN calls : calls'[d] = calls[d]
      /\ DOMAIN calls = 1..(Depth - 1)
      /\ DOMAIN memory' = DOMAIN memory
  BY InvokeIs DEF InvokeRunning
<1>2. \A d \in DOMAIN stack, t \in Type :
        /\ \A w \in Unassigned(d, t) \ Awaited(d, t) : LocationOf(d, t, w) \notin DOMAIN memory
        /\ \A v, w \in Unassigned(d, t) : LocationOf(d, t, v) = LocationOf(d, t, w) => v = w
        /\ \A e \in (d + 1)..Depth : \A v \in Unassigned(d, t), w \in Unassigned(e, t) :
             LocationOf(d, t, v) = LocationOf(e, t, w) => v \in Awaited(d, t)
  BY <1>1 DEF Sound, Free
<1>3. \A t \in Type : Awaited(Depth, t) = {}
  BY DEF Awaited
<1>4. \A d \in DOMAIN stack, t \in Type :
        Awaited(d, t)' = IF d = Depth THEN OutputsOf(outs, t) ELSE Awaited(d, t)
  <2>1. SUFFICES ASSUME NEW d \in DOMAIN stack, NEW t \in Type
                 PROVE  Awaited(d, t)' = IF d = Depth THEN OutputsOf(outs, t) ELSE Awaited(d, t)
    OBVIOUS
  <2>2. Awaited(d, t)' = OutputsOf(calls'[d], t)
    <3>1. d # Depth + 1
      BY <1>1
    <3>. QED  BY <1>1, <3>1 DEF Awaited, OutputsOf
  <2>3. d # Depth => d \in DOMAIN calls
    BY <1>1
  <2>. QED  BY <1>1, <2>2, <2>3 DEF Awaited
<1>5. ASSUME NEW t \in Type, NEW w \in Wire \ stack'[Depth + 1][t].assigned
      PROVE  /\ Local(t, w) \/ \E k \in 1..Len(outs) : Output(outs, ins, t, w, k)
             /\ CalleeAt(t, w) \notin DOMAIN memory
             /\ \A d \in DOMAIN stack : \A v \in Unassigned(d, t) :
                  LocationOf(d, t, v) = CalleeAt(t, w) =>
                    v \in IF d = Depth THEN OutputsOf(outs, t) ELSE Awaited(d, t)
  <2>1. Local(t, w) \/ \E k \in 1..Len(outs) : Output(outs, ins, t, w, k)
    BY CalleeWire
  <2>2. CASE Local(t, w)
    <3>1. CalleeAt(t, w).depth = Depth + 1
      BY <2>2 DEF Local
    <3>2. \A loc \in DOMAIN memory : loc.depth <= Depth /\ loc \in Location
      BY <1>1 DEF TypeOK
    <3>3. \A loc \in Location : loc.depth \in Int
      BY DEF Location
    <3>4. CalleeAt(t, w) \notin DOMAIN memory
      BY <1>1, <3>1, <3>2, <3>3
    <3>5. ASSUME NEW d \in DOMAIN stack, NEW v \in Unassigned(d, t),
                 LocationOf(d, t, v) = CalleeAt(t, w)
          PROVE  FALSE
      <4>1. v \in Wire /\ d <= Depth /\ d \in Nat
        BY <1>1, StackFacts DEF Unassigned
      <4>2. LocationOf(d, t, v).depth <= d
        BY <1>1, <4>1, StackLocation DEF Sound
      <4>. QED  BY <1>1, <3>1, <3>5, <4>1, <4>2
    <3>. QED  BY <2>1, <3>4, <3>5
  <2>3. ASSUME NEW k \in 1..Len(outs), Output(outs, ins, t, w, k)
        PROVE  /\ CalleeAt(t, w) \notin DOMAIN memory
               /\ \A d \in DOMAIN stack : \A v \in Unassigned(d, t) :
                    LocationOf(d, t, v) = CalleeAt(t, w) =>
                      v \in IF d = Depth THEN OutputsOf(outs, t) ELSE Awaited(d, t)
    <3> DEFINE x == outs[k].first + (w - Place(outs, k))
    <3>1. /\ outs[k].type = t /\ x \in outs[k].first .. outs[k].last
          /\ x \in Unassigned(Depth, t) /\ CalleeAt(t, w) = LocationOf(Depth, t, x)
      BY <2>3 DEF Output
    <3> HIDE DEF x
    <3>2. CalleeAt(t, w) \notin DOMAIN memory
      BY <1>1, <1>2, <1>3, <3>1
    <3>3. x \in OutputsOf(outs, t)
      <4>1. k \in DOMAIN outs
        BY ListsAre DEF InvokeRunning, Arguments
      <4>. QED  BY <3>1, <4>1 DEF OutputsOf
    <3>4. ASSUME NEW d \in DOMAIN stack, NEW v \in Unassigned(d, t),
                 LocationOf(d, t, v) = CalleeAt(t, w)
          PROVE  v \in IF d = Depth THEN OutputsOf(outs, t) ELSE Awaited(d, t)
      <4>1. CASE d = Depth
        <5>1. \A a, b \in Unassigned(Depth, t) :
                LocationOf(Depth, t, a) = LocationOf(Depth, t, b) => a = b
          BY <1>1, <1>2
        <5>2. v \in Unassigned(Depth, t) /\ LocationOf(Depth, t, v) = LocationOf(Depth, t, x)
          BY <3>1, <3>4, <4>1
        <5>3. v = x
          BY <3>1, <5>1, <5>2
        <5>. QED  BY <3>3, <4>1, <5>3
      <4>2. CASE d # Depth
        <5>1. Depth \in (d + 1)..Depth
          BY <1>1, <4>2
        <5>. QED  BY <1>2, <3>1, <3>4, <4>2, <5>1
      <4>. QED  BY <4>1, <4>2
    <3>. QED  BY <3>2, <3>4
  <2>. QED  BY <2>1, <2>2, <2>3
<1>6. ASSUME NEW t \in Type, NEW v \in Wire \ stack'[Depth + 1][t].assigned,
             NEW w \in Wire \ stack'[Depth + 1][t].assigned,
             CalleeAt(t, v) = CalleeAt(t, w)
      PROVE  v = w
  <2>1. ASSUME NEW x, Local(t, x), NEW y, NEW k, Output(outs, ins, t, y, k),
               CalleeAt(t, x) = CalleeAt(t, y)
        PROVE  FALSE
    <3> DEFINE z == outs[k].first + (y - Place(outs, k))
    <3>1. z \in Unassigned(Depth, t) /\ CalleeAt(t, y) = LocationOf(Depth, t, z)
      BY <2>1 DEF Output
    <3> HIDE DEF z
    <3>2. LocationOf(Depth, t, z).depth <= Depth
      BY <1>1, <3>1, StackLocation DEF Sound, Unassigned
    <3>3. CalleeAt(t, x).depth = Depth + 1
      BY <2>1 DEF Local
    <3>. QED  BY <1>1, <2>1, <3>1, <3>2, <3>3
  <2>2. CASE Local(t, v) /\ Local(t, w)
    <3>1. CalleeAt(t, v).wire = v /\ CalleeAt(t, w).wire = w
      BY <2>2 DEF Local
    <3>. QED  BY <1>6, <3>1
  <2>3. ASSUME NEW j \in 1..Len(outs), NEW k \in 1..Len(outs),
               Output(outs, ins, t, v, j), Output(outs, ins, t, w, k)
        PROVE  v = w
    <3> DEFINE x == outs[j].first + (v - Place(outs, j))
               y == outs[k].first + (w - Place(outs, k))
    <3>1. /\ outs[j].type = t /\ x \in outs[j].first .. outs[j].last
          /\ x \in Unassigned(Depth, t) /\ CalleeAt(t, v) = LocationOf(Depth, t, x)
      BY <2>3 DEF Output
    <3>2. /\ outs[k].type = t /\ y \in outs[k].first .. outs[k].last
          /\ y \in Unassigned(Depth, t) /\ CalleeAt(t, w) = LocationOf(Depth, t, y)
      BY <2>3 DEF Output
    <3>3. outs \in Seq(Interval) /\ j \in DOMAIN outs /\ k \in DOMAIN outs /\ Disjoint(outs)
      BY ListsAre DEF InvokeRunning, Arguments
    <3>4. outs[j].first \in Int /\ Place(outs, j) \in Int /\ v \in Int /\ w \in Int
      <4>1. outs[j] \in Interval /\ j \in 1..Len(outs)
        BY <3>3
      <4>2. outs[j].first \in Int /\ Place(outs, j) \in Int
        BY <3>3, <4>1, IntervalsAre, PlaceFacts
      <4>3. v \in Int /\ w \in Int
        BY CallAssumption DEF Wire
      <4>. QED  BY <4>2, <4>3
    <3>5. x = y => (j = k => v = w)
      BY <3>4
    <3> HIDE DEF x, y
    <3>6. x = y
      <4>1. \A a, b \in Unassigned(Depth, t) :
              LocationOf(Depth, t, a) = LocationOf(Depth, t, b) => a = b
        BY <1>1, <1>2
      <4>2. LocationOf(Depth, t, x) = LocationOf(Depth, t, y)
        BY <1>6, <3>1, <3>2
      <4>. QED  BY <3>1, <3>2, <4>1, <4>2
    <3>7. j = k
      BY <3>1, <3>2, <3>3, <3>6 DEF Disjoint
    <3>. QED  BY <3>5, <3>6, <3>7
  <2>. QED  BY <1>5, <1>6, <2>1, <2>2, <2>3
<1>7. ASSUME NEW d \in DOMAIN stack', NEW t \in Type
      PROVE  /\ \A w \in Unassigned(d, t)' \ Awaited(d, t)' :
                  LocationOf(d, t, w)' \notin DOMAIN memory'
             /\ \A v, w \in Unassigned(d, t)' :
                  LocationOf(d, t, v)' = LocationOf(d, t, w)' => v = w
             /\ \A e \in (d + 1)..Depth' :
                  \A v \in Unassigned(d, t)', w \in Unassigned(e, t)' :
                    LocationOf(d, t, v)' = LocationOf(e, t, w)' => v \in Awaited(d, t)'
  <2>1. \A e : e = Depth + 1 =>
          /\ Unassigned(e, t)' = Wire \ stack'[Depth + 1][t].assigned
          /\ \A w : LocationOf(e, t, w)' = CalleeAt(t, w)
    BY DEF Unassigned, LocationOf, CalleeAt
  <2>2. CASE d \in DOMAIN stack
    <3>1. /\ \A w : LocationOf(d, t, w)' = LocationOf(d, t, w)
          /\ Unassigned(d, t)' = Unassigned(d, t)
          /\ Awaited(d, t)' = IF d = Depth THEN OutputsOf(outs, t) ELSE Awaited(d, t)
      BY <1>1, <1>4, <2>2
    <3>2. ASSUME NEW e \in (d + 1)..Depth',
                 NEW v \in Unassigned(d, t)', NEW w \in Unassigned(e, t)',
                 LocationOf(d, t, v)' = LocationOf(e, t, w)'
          PROVE  v \in Awaited(d, t)'
      <4>1. CASE e = Depth + 1
        BY <1>5, <2>1, <2>2, <3>1, <3>2, <4>1
      <4>2. CASE e # Depth + 1
        <5>1. e \in (d + 1)..Depth /\ e \in DOMAIN stack /\ d # Depth
          BY <1>1, <2>2, <4>2
        <5>2. /\ \A x : LocationOf(e, t, x)' = LocationOf(e, t, x)
              /\ Unassigned(e, t)' = Unassigned(e, t)
          BY <1>1, <5>1
        <5>. QED  BY <1>2, <2>2, <3>1, <3>2, <5>1, <5>2
      <4>. QED  BY <4>1, <4>2
    <3>3. \A w \in Unassigned(d, t) \ Awaited(d, t)' : LocationOf(d, t, w) \notin DOMAIN memory
      BY <1>2, <1>3, <2>2, <3>1
    <3>. QED  BY <1>1, <1>2, <2>2, <3>1, <3>2, <3>3
  <2>3. CASE d = Depth + 1
    <3>1. (d + 1)..Depth' = {}
      BY <1>1, <2>3
    <3>. QED  BY <1>1, <1>5, <1>6, <2>1, <2>3, <3>1
  <2>. QED  BY <1>1, <2>2, <2>3
<1>. QED  BY <1>7 DEF Free
LEMMA InvokeLinked ==
  ASSUME NEW outs, NEW ins, InvokeRunning(outs, ins), NEW d \in DOMAIN calls'
  PROVE  Linked(calls[d], d)'
<1>1. /\ TypeOK /\ Sound /\ DOMAIN stack = 1..Depth /\ Depth \in Nat /\ Depth \in DOMAIN stack
      /\ \A e \in DOMAIN stack, t \in Type :
           /\ \A w : LocationOf(e, t, w)' = LocationOf(e, t, w)
           /\ Unassigned(e, t)' = Unassigned(e, t)
      /\ DOMAIN calls' = 1..Depth /\ calls'[Depth] = outs
      /\ \A e \in DOMAIN calls : calls'[e] = calls[e]
      /\ DOMAIN calls = 1..(Depth - 1)
  BY InvokeIs
<1>2. CASE d # Depth
  <2>1. /\ d \in DOMAIN calls /\ d \in DOMAIN stack /\ d + 1 \in DOMAIN stack
        /\ calls'[d] = calls[d]
    BY <1>1, <1>2
  <2>2. calls[d] \in Seq(Interval) /\ Linked(calls[d], d)
    BY <1>1, <2>1, SoundFacts DEF Sound
  <2>3. \A k \in DOMAIN calls[d] : calls[d][k].type \in Type
    BY <2>2, IntervalsAre
  <2>4. \A t \in Type : \A w :
          /\ LocationOf(d, t, w)' = LocationOf(d, t, w)
          /\ LocationOf(d + 1, t, w)' = LocationOf(d + 1, t, w)
    BY <1>1, <2>1
  <2>5. \A t \in Type : Unassigned(d, t)' = Unassigned(d, t)
    BY <1>1, <2>1
  <2>. QED  BY <2>1, <2>2, <2>3, <2>4, <2>5 DEF Linked
<1>3. CASE d = Depth
  <2>1. /\ outs \in OutputLists /\ ins \in InputLists /\ outs \in Seq(Interval)
        /\ Arguments(outs, ins, Len(outs) + Len(ins)) /\ Disjoint(outs)
    BY ListsAre DEF InvokeRunning, Arguments
  <2>2. ASSUME NEW k \in DOMAIN outs
        PROVE  LET t == outs[k].type
               IN  /\ outs[k].first .. outs[k].last \subseteq Unassigned(d, t)'
                   /\ \A i \in 0..(LengthOf(outs[k]) - 1) :
                        LocationOf(d + 1, t, Place(outs, k) + i)'
                          = LocationOf(d, t, outs[k].first + i)'
    <3> DEFINE t == outs[k].type
    <3>1. /\ k \in 1..Len(outs) /\ k \in 1..(Len(outs) + Len(ins)) /\ k <= Len(outs)
          /\ (outs \o ins)[k] = outs[k] /\ outs[k] \in Interval /\ t \in Type
      BY <2>1, ParamsAre, IntervalsAre
    <3>2. outs[k].first .. outs[k].last \subseteq Unassigned(Depth, t)
      BY <2>1, <3>1, ArgumentIs
    <3>3. ASSUME NEW i \in 0..(LengthOf(outs[k]) - 1)
          PROVE  LocationOf(d + 1, t, Place(outs, k) + i)' = LocationOf(d, t, outs[k].first + i)'
      <4> DEFINE b == Place(outs, k)
                 w == b + i
      <4>1. Place(outs \o ins, k) = b /\ b \in Nat /\ i \in Nat /\ i < LengthOf(outs[k])
            /\ LengthOf(outs[k]) \in Nat
        BY <2>1, <3>1, PlaceOfOutput, PlaceFacts, IntervalsAre
      <4>2. In(w, outs \o ins, k) /\ w \in Int
        BY <3>1, <4>1 DEF In
      <4>3. Output(outs, ins, t, w, k)
        BY <3>1, <4>2, OutputAt
      <4> HIDE DEF b
      <4>4. w - b = i
        BY <4>1
      <4>5. CalleeAt(t, w) = LocationOf(Depth, t, outs[k].first + i)
        BY <4>3, <4>4 DEF Output, b
      <4>6. LocationOf(d + 1, t, w)' = CalleeAt(t, w)
        BY <1>3 DEF LocationOf, CalleeAt
      <4>7. LocationOf(d, t, outs[k].first + i)' = LocationOf(Depth, t, outs[k].first + i)
        BY <1>1, <1>3, <3>1
      <4>. QED  BY <4>5, <4>6, <4>7 DEF b
    <3>4. Unassigned(d, t)' = Unassigned(Depth, t)
      BY <1>1, <1>3, <3>1
    <3>. QED  BY <3>2, <3>3, <3>4
  <2>3. calls'[d] = outs
    BY <1>1, <1>3
  <2>. QED  BY <2>1, <2>2, <2>3 DEF Linked
<1>. QED  BY <1>2, <1>3

LEMMA InvokeActive ==
  ASSUME NEW outs, NEW ins, InvokeRunning(outs, ins), NEW S, ActiveIn(S),
         NEW d \in DOMAIN stack', NEW t \in Type, NEW w \in stack'[d][t].active
  PROVE  LocationOf(d, t, w)' \in S
<1>1. /\ TypeOK /\ Sound /\ DOMAIN stack = 1..Depth
      /\ Depth \in Nat /\ Depth \in DOMAIN stack
      /\ DOMAIN stack' = 1..(Depth + 1)
      /\ \A e \in DOMAIN stack, u \in Type :
           /\ stack'[e][u] = stack[e][u]
           /\ \A v : LocationOf(e, u, v)' = LocationOf(e, u, v)
  BY InvokeIs DEF InvokeRunning
<1>2. CASE d \in DOMAIN stack
  BY <1>1, <1>2 DEF ActiveIn
<1>3. CASE d = Depth + 1
  <2>1. PICK v \in Top(t).active : CalleeAt(t, w) = LocationOf(Depth, t, v)
    BY <1>3, InputAt
  <2>2. LocationOf(d, t, w)' = CalleeAt(t, w)
    BY <1>3 DEF LocationOf, CalleeAt
  <2>. QED  BY <1>1, <2>1, <2>2 DEF ActiveIn, Top
<1>. QED  BY <1>1, <1>2, <1>3

LEMMA InvokeSound ==
  ASSUME NEW outs, NEW ins, InvokeRunning(outs, ins)
  PROVE  Sound'
<1>1. /\ TypeOK /\ Sound /\ Depth' = Depth + 1 /\ DOMAIN stack = 1..Depth
      /\ Depth \in Nat /\ Depth \in DOMAIN stack
      /\ DOMAIN stack' = 1..(Depth + 1)
      /\ \A d \in DOMAIN stack, t \in Type :
           /\ stack'[d][t] = stack[d][t]
           /\ \A w : LocationOf(d, t, w)' = LocationOf(d, t, w)
      /\ memory' = memory
  BY InvokeIs DEF InvokeRunning
<1>2. Arguments(outs, ins, Len(outs) + Len(ins)) /\ Push(outs, ins, Len(outs) + Len(ins))
  BY DEF InvokeRunning
<1>3. Len(calls') = Len(calls) + 1
  BY <1>1 DEF InvokeRunning, TypeOK
<1>4. ASSUME NEW d \in DOMAIN stack', NEW t \in Type
      PROVE  Mapped(stack'[d][t], d)
  <2>1. CASE d \in DOMAIN stack
    <3>1. Mapped(stack[d][t], d) /\ stack'[d][t] = stack[d][t]
      BY <1>1, <2>1 DEF Sound
    <3>. QED  BY <3>1
  <2>2. CASE d = Depth + 1
    <3>1. Mapped(ScopeWith(outs, ins, t, Len(outs) + Len(ins)), Depth + 1)
      BY <1>2, CalleeScope
    <3>2. stack'[Depth + 1][t] = ScopeWith(outs, ins, t, Len(outs) + Len(ins))
      BY <1>2, PushIs
    <3>. QED  BY <2>2, <3>1, <3>2
  <2>. QED  BY <1>1, <2>1, <2>2
<1>5. ASSUME NEW d \in DOMAIN stack', NEW t \in Type, NEW w \in stack'[d][t].active
      PROVE  LocationOf(d, t, w)' \in DOMAIN memory
  BY <1>1, InvokeActive DEF Sound
<1>6. ActiveIn(DOMAIN memory)'
  BY <1>1, <1>5 DEF ActiveIn
<1>7. Depth' = Len(calls') + 1
  BY <1>1, <1>3 DEF Sound
<1>8. Free' /\ \A d \in DOMAIN calls' : Linked(calls[d], d)'
  BY InvokeFree, InvokeLinked
<1>. QED  BY <1>1, <1>4, <1>6, <1>7, <1>8 DEF Sound

LEMMA InvokeHeld ==
  ASSUME TypeOK, Sound, Checked = TRUE,
         NEW outs \in OutputLists, NEW ins \in InputLists, Invoke(outs, ins)
  PROVE  InvokeRunning(outs, ins) /\ Held' /\ Kept
<1>1. outs \in Seq(Interval) /\ ins \in Seq(Interval)
  BY ListsAre
<1>2. Len(outs) + Len(ins) \in 0..(Len(outs) + Len(ins))
  BY <1>1
<1>3. InvokeRunning(outs, ins)
  BY <1>2 DEF Invoke, InvokeRunning, Arguments
<1>4. calls' \in Seq(Seq(Interval)) /\ failed' \in BOOLEAN
  BY <1>1, <1>3 DEF InvokeRunning, TypeOK
<1>5. TypeOK'
  BY <1>3, <1>4, PushTyped DEF InvokeRunning
<1>6. Sound'
  BY <1>3, InvokeSound
<1>7. Depth' >= Len(calls') + 1
  <2>1. Depth' = Len(calls') + 1 /\ Len(calls') \in Nat
    BY <1>4, <1>6 DEF Sound
  <2>. QED  BY <2>1
<1>8. Kept
  BY <1>3 DEF InvokeRunning, Kept
<1>. QED  BY <1>3, <1>5, <1>6, <1>7, <1>8 DEF Held

LEMMA InvokeRefusedHeld ==
  ASSUME TypeOK, Sound, NEW outs \in OutputLists, NEW ins \in InputLists,
         NEW n \in Nat, InvokeRefused(outs, ins, n)
  PROVE  Held' /\ Kept
<1>1. outs \in Seq(Interval) /\ ins \in Seq(Interval)
  BY ListsAre
<1>2. n \in 0..(Len(outs) + Len(ins))
  BY <1>1 DEF InvokeRefused
<1>3. Arguments(outs, ins, n) /\ Push(outs, ins, n)
      /\ UNCHANGED <<memory, constructed, calls>> /\ failed' = TRUE
  BY <1>2 DEF InvokeRefused, Arguments, Refused
<1>4. TypeOK'
  BY <1>3, PushTyped DEF TypeOK
<1>5. Depth' >= Len(calls') + 1
  <2>1. Depth' = Depth + 1 /\ Depth \in Nat /\ Depth = Len(calls) + 1
    BY <1>3, PushIs, StackFacts DEF Sound
  <2>. QED  BY <1>3, <2>1
<1>. QED  BY <1>3, <1>4, <1>5 DEF Held, Kept
(* The rest of invoke. A fold over the positions of a list stays in a set.  *)
LEMMA StaysIn ==
  ASSUME NEW S, NEW N \in Nat, NEW g, g[0] \in S,
         \A n \in 1..N : g[n - 1] \in S => g[n] \in S
  PROVE  \A n \in 0..N : g[n] \in S
<1> DEFINE Failed == {n \in 0..N : g[n] \notin S}
<1>1. SUFFICES ASSUME Failed # {}
               PROVE  FALSE
  OBVIOUS
<1>2. PICK n \in Failed : \A m \in Failed : n <= m
  BY <1>1, LeastNat, Failed \subseteq Nat, Zenon
<1>3. n # 0
  OBVIOUS
<1>4. n \in 1..N /\ n - 1 \in 0..N /\ ~(n <= n - 1)
  BY <1>3
<1>5. g[n - 1] \in S
  BY <1>2, <1>4
<1>. QED  BY <1>4, <1>5

LEMMA LastOfRun ==
  ASSUME NEW held \in SUBSET Int, NEW b \in Int, \A x \in held : x <= b, NEW w \in held
  PROVE  \E x \in held : w <= x /\ w..x \subseteq held /\ x + 1 \notin held
<1> DEFINE T == {x \in held : w <= x /\ w..x \subseteq held}
<1>1. w \in T
  <2>1. w..w = {w} /\ w <= w
    OBVIOUS
  <2>. QED  BY <2>1
<1>2. T \subseteq Int /\ T # {} /\ \A x \in T : x <= b
  BY <1>1
<1>3. PICK x \in T : \A y \in T : y <= x
  BY <1>2, GreatestInt, Zenon
<1>4. x + 1 \notin held
  <2>1. SUFFICES ASSUME x + 1 \in held
                 PROVE  FALSE
    OBVIOUS
  <2>2. x \in Int /\ w \in Int /\ w <= x + 1 /\ ~(x + 1 <= x)
    BY <1>2
  <2>3. w..(x + 1) \subseteq held
    <3>1. SUFFICES ASSUME NEW y \in w..(x + 1)
                   PROVE  y \in held
      OBVIOUS
    <3>2. y \in w..x \/ y = x + 1
      BY <2>2
    <3>. QED  BY <2>1, <3>2
  <2>4. x + 1 \in T
    BY <2>1, <2>2, <2>3
  <2>. QED  BY <1>3, <2>2, <2>4
<1>. QED  BY <1>4

LEMMA MarkPartsTyped ==
  ASSUME NEW scope \in ScopeType, NEW active \in SUBSET Wire, NEW p \in Interval,
         NEW place \in Nat
  PROVE  MarkParts(scope, active, p, place) \in ScopeType
<1> DEFINE N == LengthOf(p)
           held == active \cap (place .. (place + N - 1))
           firsts == {w \in held : w - 1 \notin held}
           lastOf(w) == CHOOSE x \in held : w <= x /\ w..x \subseteq held /\ x + 1 \notin held
           in(w) == (p.first + place - w) % (TopWire + 1)
           mark(n, s) == LET w == place + n - 1
                         IN  IF w \in firsts THEN MarkIn(s, in(w), in(lastOf(w))) ELSE s
           Def(f) == f = [n \in 0..N |->
                            LET w == place + n - 1
                            IN  IF n = 0 THEN scope
                                ELSE IF w \in firsts
                                     THEN MarkIn(f[n - 1], in(w), in(lastOf(w)))
                                     ELSE f[n - 1]]
           step == [n \in 1..N |-> [s \in ScopeType |-> mark(n, s)]]
<1>1. N \in Nat /\ p.first \in Int
  BY IntervalsAre
<1>2. \A w \in firsts : in(w) \in Wire /\ in(lastOf(w)) \in Wire
  <2>1. SUFFICES ASSUME NEW w \in firsts
                 PROVE  in(w) \in Wire /\ in(lastOf(w)) \in Wire
    OBVIOUS
  <2> DEFINE b == place + N - 1
  <2>2. held \in SUBSET Int /\ b \in Int /\ (\A x \in held : x <= b) /\ w \in held
    BY <1>1
  <2> HIDE DEF held, b
  <2>3. lastOf(w) \in held
    BY <2>2, LastOfRun
  <2>4. \A x \in Int : in(x) \in Wire
    BY <1>1, CallAssumption DEF Wire
  <2>. QED  BY <2>2, <2>3, <2>4
<1> HIDE DEF firsts, in, lastOf
<1>3. ASSUME NEW n \in 1..N, NEW s \in ScopeType
      PROVE  mark(n, s) \in ScopeType
  <2> DEFINE w == place + n - 1
  <2>1. CASE w \in firsts
    <3>1. in(w) \in Int /\ in(lastOf(w)) \in Int /\ in(w)..in(lastOf(w)) \subseteq Wire
      BY <1>2, <2>1, CallAssumption DEF Wire
    <3>2. MarkIn(s, in(w), in(lastOf(w))) \in ScopeType
      BY <3>1, MarkInFacts
    <3>. QED  BY <2>1, <3>2
  <2>2. CASE w \notin firsts
    BY <2>2
  <2>. QED  BY <2>1, <2>2
<1> HIDE DEF mark
<1>4. step \in [1..N -> [ScopeType -> ScopeType]]
  BY <1>3
<1>5. \A n \in 1..N, s \in ScopeType : step[n][s] = mark(n, s)
  OBVIOUS
<1> HIDE DEF step, N
<1>6. PICK f \in [0..N -> ScopeType] : IteratesAt(f, N, scope, step)
  BY <1>1, <1>4, IterationAtExists, Zenon
<1>7. ASSUME NEW n \in 0..N
      PROVE  f[n] = IF n = 0 THEN scope ELSE mark(n, f[n - 1])
  <2>1. CASE n = 0
    BY <1>6, <2>1 DEF IteratesAt
  <2>2. CASE n # 0
    <3>1. n \in 1..N /\ n - 1 \in 0..N
      BY <1>1, <2>2
    <3>2. f[n] = step[n][f[n - 1]] /\ f[n - 1] \in ScopeType
      BY <1>6, <2>2, <3>1 DEF IteratesAt
    <3>. QED  BY <1>5, <2>2, <3>1, <3>2
  <2>. QED  BY <2>1, <2>2
<1>8. f = [n \in 0..N |-> IF n = 0 THEN scope ELSE mark(n, f[n - 1])]
  BY <1>6, <1>7
<1>9. \A h : Def(h) <=> h = [n \in 0..N |-> IF n = 0 THEN scope ELSE mark(n, h[n - 1])]
  BY DEF mark
<1> DEFINE g == CHOOSE h : Def(h)
<1>10. MarkParts(scope, active, p, place) = g[N]
  BY DEF MarkParts, N, firsts, in, lastOf
<1> HIDE DEF Def
<1>11. Def(f)
  BY <1>8, <1>9
<1>12. Def(g)
  BY <1>11, Zenon
<1> HIDE DEF g
<1>13. g = [n \in 0..N |-> IF n = 0 THEN scope ELSE mark(n, g[n - 1])]
  BY <1>9, <1>12
<1>14. g[0] = scope /\ \A n \in 1..N : g[n] = mark(n, g[n - 1])
  BY <1>1, <1>13
<1>15. \A n \in 1..N : g[n - 1] \in ScopeType => g[n] \in ScopeType
  BY <1>3, <1>14
<1>16. \A n \in 0..N : g[n] \in ScopeType
  BY <1>1, <1>14, <1>15, StaysIn
<1>. QED  BY <1>1, <1>10, <1>16
(* How the outputs are marked in the calling scope, one after the other.    *)
Marked(g, outs, t) ==
  /\ \A k \in 0..Len(outs) : g[k] \in ScopeType
  /\ g[0] = stack[Depth - 1][t]
  /\ \A k \in 1..Len(outs) :
       g[k] = IF outs[k].type = t THEN CheckOutput(g[k - 1], outs[k], Top(t), Place(outs, k))
              ELSE g[k - 1]
  /\ CheckOutputs(outs, t) = g[Len(outs)]

LEMMA CheckOutputsAre ==
  ASSUME TypeOK, Depth >= 2, NEW outs \in Seq(Interval), NEW t \in Type
  PROVE  \E g : Marked(g, outs, t)
<1> DEFINE N == Len(outs)
           start == stack[Depth - 1][t]
           mark(k, s) == IF outs[k].type = t
                         THEN CheckOutput(s, outs[k], Top(t), Place(outs, k))
                         ELSE s
           Def(f) == f = [k \in 0..N |->
                            IF k = 0 THEN stack[Depth - 1][t]
                            ELSE IF outs[k].type = t
                                 THEN CheckOutput(f[k - 1], outs[k], Top(t), Place(outs, k))
                            ELSE f[k - 1]]
           step == [k \in 1..N |-> [s \in ScopeType |-> mark(k, s)]]
<1>1. N \in Nat /\ start \in ScopeType /\ Top(t) \in ScopeType
  <2>1. Depth \in DOMAIN stack /\ Depth - 1 \in DOMAIN stack
    BY StackFacts
  <2>. QED  BY <2>1, StackFacts DEF Top
<1>2. ASSUME NEW k \in 1..N, NEW s \in ScopeType
      PROVE  mark(k, s) \in ScopeType
  <2>1. /\ outs[k] \in Interval /\ Place(outs, k) \in Nat
        /\ outs[k].first \in Int /\ outs[k].last \in Int
        /\ outs[k].first .. outs[k].last \subseteq Wire
    BY IntervalsAre, PlaceFacts
  <2>2. MarkIn(s, outs[k].first, outs[k].last) \in ScopeType
    BY <2>1, MarkInFacts
  <2>3. Top(t).active \in SUBSET Wire
    BY <1>1 DEF ScopeType
  <2>4. MarkParts(s, Top(t).active, outs[k], Place(outs, k)) \in ScopeType
    BY <2>1, <2>3, MarkPartsTyped
  <2>. QED  BY <2>2, <2>4 DEF CheckOutput
<1> HIDE DEF mark, start
<1>3. step \in [1..N -> [ScopeType -> ScopeType]]
  BY <1>2
<1>4. \A n \in 1..N, s \in ScopeType : step[n][s] = mark(n, s)
  OBVIOUS
<1> HIDE DEF step, N
<1>5. PICK f \in [0..N -> ScopeType] : IteratesAt(f, N, start, step)
  BY <1>1, <1>3, IterationAtExists, Zenon
<1>6. ASSUME NEW n \in 0..N
      PROVE  f[n] = IF n = 0 THEN start ELSE mark(n, f[n - 1])
  <2>1. CASE n = 0
    BY <1>5, <2>1 DEF IteratesAt
  <2>2. CASE n # 0
    <3>1. n \in 1..N /\ n - 1 \in 0..N
      BY <1>1, <2>2
    <3>2. f[n] = step[n][f[n - 1]] /\ f[n - 1] \in ScopeType
      BY <1>5, <2>2, <3>1 DEF IteratesAt
    <3>. QED  BY <1>4, <2>2, <3>1, <3>2
  <2>. QED  BY <2>1, <2>2
<1>7. f = [n \in 0..N |-> IF n = 0 THEN start ELSE mark(n, f[n - 1])]
  BY <1>5, <1>6
<1>8. \A h : Def(h) <=> h = [n \in 0..N |-> IF n = 0 THEN start ELSE mark(n, h[n - 1])]
  BY DEF mark, start
<1> DEFINE g == CHOOSE h : Def(h)
<1>9. CheckOutputs(outs, t) = g[N]
  BY DEF CheckOutputs, N
<1> HIDE DEF Def
<1>10. Def(f)
  BY <1>7, <1>8
<1>11. Def(g)
  BY <1>10, Zenon
<1> HIDE DEF g
<1>12. g = [n \in 0..N |-> IF n = 0 THEN start ELSE mark(n, g[n - 1])]
  BY <1>8, <1>11
<1>13. g[0] = start /\ \A n \in 1..N : g[n] = mark(n, g[n - 1])
  BY <1>1, <1>12
<1>14. \A n \in 1..N : g[n - 1] \in ScopeType => g[n] \in ScopeType
  BY <1>2, <1>13
<1>15. \A n \in 0..N : g[n] \in ScopeType
  BY <1>1, <1>13, <1>14, StaysIn
<1>. QED  BY <1>9, <1>13, <1>15 DEF Marked, N, mark, start

LEMMA ReturnIs ==
  ASSUME TypeOK, Depth >= Len(calls) + 1, Return
  PROVE  /\ stack' \in Seq([Type -> ScopeType])
         /\ Depth \in Nat /\ Depth >= 2 /\ Depth' = Depth - 1 /\ Depth' \in 1..MaxDepth
         /\ DOMAIN stack' = 1..(Depth - 1)
         /\ \A d \in 1..(Depth - 2) : stack'[d] = stack[d]
         /\ \A t \in Type : stack'[Depth - 1][t] = CheckOutputs(Last(calls), t)
         /\ Last(calls) = calls[Len(calls)] /\ Last(calls) \in Seq(Interval)
         /\ Len(calls) \in Nat /\ Len(calls) # 0 /\ DOMAIN calls = 1..Len(calls)
         /\ calls' \in Seq(Seq(Interval)) /\ Len(calls') = Len(calls) - 1
         /\ DOMAIN calls' = 1..(Len(calls) - 1)
         /\ \A d \in 1..(Len(calls) - 1) : calls'[d] = calls[d]
<1> DEFINE outs == Last(calls)
           top == [t \in Type |-> CheckOutputs(outs, t)]
           below == SubSeq(stack, 1, Depth - 2)
<1>1. calls \in Seq(Seq(Interval)) /\ calls # << >>
  BY DEF TypeOK, Return
<1>2. Len(calls) \in Nat /\ Len(calls) # 0 /\ DOMAIN calls = 1..Len(calls)
  BY <1>1
<1>3. outs = calls[Len(calls)] /\ outs \in Seq(Interval)
  BY <1>1, <1>2 DEF Last
<1>4. Depth \in Nat /\ Depth >= 2 /\ Depth <= MaxDepth /\ MaxDepth \in Nat
  BY <1>2, StackFacts, CallAssumption
<1>5. calls' = SubSeq(calls, 1, Len(calls) - 1)
  BY DEF Return, Front
<1>6. /\ calls' \in Seq(Seq(Interval)) /\ Len(calls') = Len(calls) - 1
      /\ DOMAIN calls' = 1..(Len(calls) - 1)
      /\ \A d \in 1..(Len(calls) - 1) : calls'[d] = calls[d]
  BY <1>1, <1>2, <1>5
<1> HIDE DEF outs
<1>7. top \in [Type -> ScopeType]
  <2>1. ASSUME NEW t \in Type
        PROVE  CheckOutputs(outs, t) \in ScopeType
    <3>1. PICK g : Marked(g, outs, t)
      BY <1>3, <1>4, CheckOutputsAre
    <3>2. Len(outs) \in 0..Len(outs)
      BY <1>3
    <3>. QED  BY <3>1, <3>2 DEF Marked
  <2>. QED  BY <2>1
<1>8. stack' = Append(below, top)
  BY DEF Return, outs
<1>9. \A t \in Type : top[t] = CheckOutputs(outs, t)
  OBVIOUS
<1> HIDE DEF top
<1>10. stack \in Seq([Type -> ScopeType]) /\ Len(stack) = Depth
  BY DEF TypeOK, Depth
<1>11. /\ below \in Seq([Type -> ScopeType]) /\ Len(below) = Depth - 2
       /\ \A d \in 1..(Depth - 2) : below[d] = stack[d]
  BY <1>4, <1>10
<1> HIDE DEF below
<1>12. /\ stack' \in Seq([Type -> ScopeType]) /\ Len(stack') = Depth - 1
       /\ DOMAIN stack' = 1..(Depth - 1)
       /\ \A d \in 1..(Depth - 2) : stack'[d] = below[d]
       /\ stack'[Depth - 1] = top
  BY <1>4, <1>7, <1>8, <1>11
<1>13. Depth - 1 \in 1..MaxDepth
  BY <1>4
<1>14. Depth' = Depth - 1
  BY <1>12 DEF Depth
<1>15. \A t \in Type : stack'[Depth - 1][t] = CheckOutputs(outs, t)
  BY <1>9, <1>12
<1>16. \A d \in 1..(Depth - 2) : stack'[d] = stack[d]
  BY <1>11, <1>12
<1>. QED
  BY <1>2, <1>3, <1>4, <1>6, <1>12, <1>13, <1>14, <1>15, <1>16, Zenon DEF outs

LEMMA ReturnTyped ==
  ASSUME TypeOK, Depth >= Len(calls) + 1, Return
  PROVE  TypeOK' /\ Depth' >= Len(calls') + 1 /\ Kept
<1>1. /\ stack' \in Seq([Type -> ScopeType]) /\ Depth' = Depth - 1 /\ Depth' \in 1..MaxDepth
      /\ calls' \in Seq(Seq(Interval)) /\ Len(calls') = Len(calls) - 1 /\ Len(calls) \in Nat
      /\ Depth \in Nat
  BY ReturnIs
<1> DEFINE popped == {loc \in (DOMAIN memory) \cup constructed : Popped(loc)}
<1>2. /\ DOMAIN memory' = (DOMAIN memory) \ popped
      /\ \A loc \in DOMAIN memory' : memory'[loc] = memory[loc]
      /\ constructed' = constructed \ popped
  BY DEF Return
<1>3. failed' \in BOOLEAN
  BY DEF Return, TypeOK
<1>4. ASSUME NEW loc \in (DOMAIN memory') \cup constructed'
      PROVE  loc.depth <= Depth'
  <2>1. loc \in (DOMAIN memory) \cup constructed /\ ~Popped(loc)
    BY <1>2
  <2>2. loc \in Location /\ loc.depth <= Depth /\ loc.depth # Depth
    BY <2>1 DEF TypeOK, Popped
  <2>. QED  BY <1>1, <2>2 DEF Location
<1>5. TypeOK'
  BY <1>1, <1>2, <1>3, <1>4 DEF TypeOK
<1>6. Depth' >= Len(calls') + 1
  BY <1>1
<1>. QED  BY <1>2, <1>5, <1>6 DEF Kept
(* A return of a call that gave all its outputs.                            *)
Returning(outs) ==
  /\ TypeOK /\ Sound /\ Return /\ outs = Last(calls)
  /\ \A k \in DOMAIN outs : Delivered(outs[k], Top(outs[k].type), Place(outs, k))

LEMMA ReturningIs ==
  ASSUME NEW outs, Returning(outs)
  PROVE  /\ Depth \in Nat /\ Depth >= 2 /\ Depth' = Depth - 1
         /\ DOMAIN stack = 1..Depth /\ DOMAIN stack' = 1..(Depth - 1)
         /\ DOMAIN calls = 1..(Depth - 1) /\ DOMAIN calls' = 1..(Depth - 2)
         /\ Len(calls') = Depth - 2
         /\ outs = calls[Depth - 1] /\ outs \in Seq(Interval)
         /\ \A d \in 1..(Depth - 2) : stack'[d] = stack[d] /\ calls'[d] = calls[d]
         /\ \A t \in Type : stack'[Depth - 1][t] = CheckOutputs(outs, t)
<1>1. Depth = Len(calls) + 1 /\ DOMAIN stack = 1..Depth /\ TypeOK /\ Return /\ outs = Last(calls)
  BY StackFacts DEF Returning, Sound
<1>2. Depth >= Len(calls) + 1
  BY <1>1, StackFacts
<1>3. /\ Depth \in Nat /\ Depth >= 2 /\ Depth' = Depth - 1
      /\ DOMAIN stack' = 1..(Depth - 1)
      /\ \A d \in 1..(Depth - 2) : stack'[d] = stack[d]
      /\ \A t \in Type : stack'[Depth - 1][t] = CheckOutputs(outs, t)
      /\ outs = calls[Len(calls)] /\ outs \in Seq(Interval)
      /\ Len(calls) \in Nat /\ DOMAIN calls = 1..Len(calls)
      /\ Len(calls') = Len(calls) - 1
      /\ DOMAIN calls' = 1..(Len(calls) - 1)
      /\ \A d \in 1..(Len(calls) - 1) : calls'[d] = calls[d]
  BY <1>1, <1>2, ReturnIs, Zenon
<1>4. Len(calls) = Depth - 1
  BY <1>1, <1>3
<1>5. Len(calls) - 1 = Depth - 2
  BY <1>3, <1>4
<1>. QED  BY <1>1, <1>3, <1>4, <1>5, Zenon

FirstOutputsOf(outs, t, n) ==
  UNION {outs[k].first .. outs[k].last : k \in {j \in 1..n : outs[j].type = t}}

(* The calling scope after the outputs have been marked: each of them is    *)
(* marked as a whole, since it is apart from those before it.               *)
LEMMA OutputsMarked ==
  ASSUME NEW outs, Returning(outs), NEW t \in Type
  PROVE  LET s == stack[Depth - 1][t]
             r == CheckOutputs(outs, t)
         IN  /\ r.mapped = s.mapped /\ r.firstLocal = s.firstLocal
             /\ r.assigned = s.assigned \cup OutputsOf(outs, t)
             /\ r.active = s.active \cup OutputsOf(outs, t)
<1> DEFINE s == stack[Depth - 1][t]
           N == Len(outs)
           first(n) == FirstOutputsOf(outs, t, n)
<1>1. /\ TypeOK /\ Sound /\ Depth \in Nat /\ Depth >= 2 /\ outs = calls[Depth - 1]
      /\ outs \in Seq(Interval) /\ Depth - 1 \in DOMAIN calls /\ Depth - 1 \in DOMAIN stack
  BY ReturningIs DEF Returning
<1>2. N \in Nat /\ DOMAIN outs = 1..N
  BY <1>1
<1>3. PICK g : Marked(g, outs, t)
  BY <1>1, CheckOutputsAre
<1>4. /\ \A k \in 0..N : g[k] \in ScopeType
      /\ g[0] = s
      /\ \A k \in 1..N :
           g[k] = IF outs[k].type = t THEN CheckOutput(g[k - 1], outs[k], Top(t), Place(outs, k))
                  ELSE g[k - 1]
      /\ CheckOutputs(outs, t) = g[N]
  BY <1>3 DEF Marked
<1>5. \A k \in 1..N : /\ outs[k] \in Interval
                      /\ outs[k].first \in Int /\ outs[k].last \in Int
                      /\ outs[k].first <= outs[k].last
                      /\ outs[k].first .. outs[k].last \subseteq Wire
  BY <1>1, <1>2, IntervalsAre
<1>6. ASSUME NEW k \in 1..N, outs[k].type = t
      PROVE  /\ (outs[k].first .. outs[k].last) \cap s.assigned = {}
             /\ \A j \in 1..N : j # k /\ outs[j].type = t =>
                  (outs[j].first .. outs[j].last) \cap (outs[k].first .. outs[k].last) = {}
             /\ Delivered(outs[k], Top(t), Place(outs, k))
  <2>1. outs[k].first .. outs[k].last \subseteq Unassigned(Depth - 1, t)
    BY <1>1, <1>2, <1>6, LinkedFacts
  <2>2. Disjoint(outs)
    BY <1>1 DEF Sound, Linked
  <2>3. Delivered(outs[k], Top(t), Place(outs, k))
    BY <1>2, <1>6 DEF Returning
  <2>. QED  BY <1>2, <1>6, <2>1, <2>2, <2>3 DEF Unassigned, Disjoint
<1>7. s.active \subseteq s.assigned
  BY <1>1 DEF Sound, Mapped
<1> DEFINE P(n) == /\ g[n].mapped = s.mapped /\ g[n].firstLocal = s.firstLocal
                   /\ g[n].assigned = s.assigned \cup first(n)
                   /\ g[n].active = s.active \cup first(n)
<1> HIDE DEF s, N
<1>8. P(0)
  BY <1>4 DEF FirstOutputsOf
<1>9. ASSUME NEW n \in 1..N, P(n - 1)
      PROVE  P(n)
  <2>1. n - 1 \in 0..N /\ n \in 0..N /\ n \in Int
    BY <1>2
  <2>2. CASE outs[n].type # t
    <3>1. first(n) = first(n - 1)
      <4>1. {j \in 1..n : outs[j].type = t} = {j \in 1..(n - 1) : outs[j].type = t}
        BY <2>1, <2>2
      <4>. QED  BY <4>1, Zenon DEF FirstOutputsOf
    <3>2. g[n] = g[n - 1]
      BY <1>4, <2>2
    <3>. QED  BY <1>9, <3>1, <3>2
  <2>3. CASE outs[n].type = t
    <3> DEFINE f == outs[n].first
               l == outs[n].last
    <3>1. first(n) = first(n - 1) \cup (f..l)
      <4>1. {j \in 1..n : outs[j].type = t} = {j \in 1..(n - 1) : outs[j].type = t} \cup {n}
        BY <2>1, <2>3
      <4>. QED  BY <4>1 DEF FirstOutputsOf
    <3>2. g[n] = MarkIn(g[n - 1], f, l)
      BY <1>4, <1>6, <2>3 DEF CheckOutput
    <3>3. first(n - 1) \cap (f..l) = {}
      <4>1. \A j \in 1..(n - 1) : j \in 1..N /\ j # n
        BY <1>2, <2>1
      <4>. QED  BY <1>6, <2>3, <4>1 DEF FirstOutputsOf
    <3> HIDE DEF first
    <3>4. /\ g[n - 1] \in ScopeType /\ f \in Int /\ l \in Int /\ f <= l /\ f..l \subseteq Wire
          /\ g[n - 1].active \subseteq g[n - 1].assigned
          /\ g[n - 1].assigned \cap (f..l) = {}
      BY <1>4, <1>5, <1>6, <1>7, <1>9, <2>1, <2>3, <3>3
    <3> DEFINE r == g[n - 1]
    <3>r. /\ r \in ScopeType /\ r.active \subseteq r.assigned /\ r.assigned \cap (f..l) = {}
      BY <3>4
    <3> HIDE DEF f, l, r
    <3>5. /\ MarkIn(r, f, l).mapped = r.mapped
          /\ MarkIn(r, f, l).firstLocal = r.firstLocal
          /\ MarkIn(r, f, l).assigned = r.assigned \cup (f..l)
          /\ MarkIn(r, f, l).active = r.active \cup (f..l)
      BY <3>4, <3>r, MarkInFacts
    <3> USE DEF r
    <3>. QED  BY <1>9, <3>1, <3>2, <3>5
  <2>. QED  BY <2>2, <2>3
<1> HIDE DEF P
<1>10. P(N)
  <2> DEFINE Failed == {n \in 0..N : ~P(n)}
  <2>1. SUFFICES ASSUME Failed # {}
                 PROVE  FALSE
    BY <1>2 DEF N
  <2>2. PICK n \in Failed : \A m \in Failed : n <= m
    BY <2>1, LeastNat, Failed \subseteq Nat, Zenon
  <2>3. n # 0
    BY <1>8
  <2>4. n \in 1..N /\ n - 1 \in 0..N /\ ~(n <= n - 1)
    BY <1>2, <2>3
  <2>5. P(n - 1)
    BY <2>2, <2>4
  <2>. QED  BY <1>9, <2>4, <2>5
<1>11. first(N) = OutputsOf(outs, t)
  BY <1>2 DEF FirstOutputsOf, OutputsOf
<1>. QED  BY <1>4, <1>10, <1>11 DEF P, s
(* What is left, seen from depth d: the calling scope has the outputs, and  *)
(* every wire is where it was.                                              *)
LEMMA ReturnLeaves ==
  ASSUME NEW outs, Returning(outs), NEW d \in 1..(Depth - 1), NEW t \in Type
  PROVE  LET W == IF d = Depth - 1 THEN OutputsOf(outs, t) ELSE {}
         IN  /\ stack'[d][t].mapped = stack[d][t].mapped
             /\ stack'[d][t].firstLocal = stack[d][t].firstLocal
             /\ stack'[d][t].assigned = stack[d][t].assigned \cup W
             /\ stack'[d][t].active = stack[d][t].active \cup W
             /\ \A w : LocationOf(d, t, w)' = LocationOf(d, t, w)
             /\ Unassigned(d, t)' = Unassigned(d, t) \ W
             /\ Awaited(d, t)' = Awaited(d, t) \ W
<1> DEFINE W == IF d = Depth - 1 THEN OutputsOf(outs, t) ELSE {}
<1>1. /\ Depth \in Nat /\ Depth >= 2 /\ Depth' = Depth - 1 /\ outs = calls[Depth - 1]
      /\ \A e \in 1..(Depth - 2) : stack'[e] = stack[e] /\ calls'[e] = calls[e]
      /\ stack'[Depth - 1][t] = CheckOutputs(outs, t)
  BY ReturningIs
<1>2. /\ stack'[d][t].mapped = stack[d][t].mapped
      /\ stack'[d][t].firstLocal = stack[d][t].firstLocal
      /\ stack'[d][t].assigned = stack[d][t].assigned \cup W
      /\ stack'[d][t].active = stack[d][t].active \cup W
  <2>1. CASE d = Depth - 1
    BY <1>1, <2>1, OutputsMarked
  <2>2. CASE d # Depth - 1
    BY <1>1, <2>2
  <2>. QED  BY <2>1, <2>2
<1>3. d # Depth /\ (d # Depth - 1 => d \in 1..(Depth - 2))
  BY <1>1
<1>4. Awaited(d, t) = OutputsOf(calls[d], t)
  BY <1>3 DEF Awaited
<1>5. Awaited(d, t)' = IF d = Depth - 1 THEN {} ELSE OutputsOf(calls'[d], t)
  BY <1>1 DEF Awaited, OutputsOf
<1>6. Awaited(d, t)' = Awaited(d, t) \ W
  <2>1. CASE d = Depth - 1
    BY <1>1, <1>4, <1>5, <2>1
  <2>2. CASE d # Depth - 1
    <3>1. calls'[d] = calls[d]
      BY <1>1, <1>3, <2>2
    <3>. QED  BY <1>4, <1>5, <2>2, <3>1, Zenon
  <2>. QED  BY <2>1, <2>2
<1>7. Unassigned(d, t)' = Unassigned(d, t) \ W
  BY <1>2 DEF Unassigned
<1>8. \A w : LocationOf(d, t, w)' = LocationOf(d, t, w)
  BY <1>2, SameLayout DEF LocationOf
<1>. QED  BY <1>2, <1>6, <1>7, <1>8

LEMMA ReturnFree ==
  ASSUME NEW outs, Returning(outs)
  PROVE  Free'
<1>1. /\ Depth \in Nat /\ Depth >= 2 /\ Depth' = Depth - 1 /\ outs = calls[Depth - 1]
      /\ DOMAIN stack = 1..Depth /\ DOMAIN stack' = 1..(Depth - 1) /\ Sound
  BY ReturningIs DEF Returning
<1>2. SUFFICES ASSUME NEW d \in 1..(Depth - 1), NEW t \in Type
               PROVE  /\ \A w \in Unassigned(d, t)' \ Awaited(d, t)' :
                           LocationOf(d, t, w)' \notin DOMAIN memory'
                      /\ \A v, w \in Unassigned(d, t)' :
                           LocationOf(d, t, v)' = LocationOf(d, t, w)' => v = w
                      /\ \A e \in (d + 1)..(Depth - 1) :
                           \A v \in Unassigned(d, t)', w \in Unassigned(e, t)' :
                             LocationOf(d, t, v)' = LocationOf(e, t, w)' => v \in Awaited(d, t)'
  BY <1>1 DEF Free
<1> DEFINE W == IF d = Depth - 1 THEN OutputsOf(outs, t) ELSE {}
<1>3. /\ \A w : LocationOf(d, t, w)' = LocationOf(d, t, w)
      /\ Unassigned(d, t)' = Unassigned(d, t) \ W
      /\ Awaited(d, t)' = Awaited(d, t) \ W
  BY ReturnLeaves
<1>4. d \in DOMAIN stack
  BY <1>1
<1>5. /\ \A w \in Unassigned(d, t) \ Awaited(d, t) : LocationOf(d, t, w) \notin DOMAIN memory
      /\ \A v, w \in Unassigned(d, t) : LocationOf(d, t, v) = LocationOf(d, t, w) => v = w
      /\ \A e \in (d + 1)..Depth : \A v \in Unassigned(d, t), w \in Unassigned(e, t) :
           LocationOf(d, t, v) = LocationOf(e, t, w) => v \in Awaited(d, t)
  BY <1>1, <1>4 DEF Sound, Free
<1>6. DOMAIN memory' \subseteq DOMAIN memory
  BY DEF Returning, Return
<1>7. ASSUME NEW e \in (d + 1)..(Depth - 1), NEW v \in Unassigned(d, t)', NEW w \in Unassigned(e, t)',
             LocationOf(d, t, v)' = LocationOf(e, t, w)'
      PROVE  v \in Awaited(d, t)'
  <2>1. e \in 1..(Depth - 1) /\ e \in (d + 1)..Depth /\ d # Depth - 1
    BY <1>1
  <2>2. w \in Unassigned(e, t) /\ LocationOf(e, t, w)' = LocationOf(e, t, w)
    BY <2>1, ReturnLeaves
  <2>. QED  BY <1>3, <1>5, <1>7, <2>1, <2>2
<1> HIDE DEF W
<1>. QED  BY <1>3, <1>5, <1>6, <1>7

LEMMA ReturnLinked ==
  ASSUME NEW outs, Returning(outs), NEW d \in DOMAIN calls'
  PROVE  Linked(calls[d], d)'
<1>1. /\ Depth \in Nat /\ d \in 1..(Depth - 2) /\ calls'[d] = calls[d] /\ TypeOK /\ Sound
      /\ d \in DOMAIN calls
  BY ReturningIs DEF Returning
<1>2. /\ d \in 1..(Depth - 1) /\ d + 1 \in 1..(Depth - 1) /\ d # Depth - 1
      /\ calls[d] \in Seq(Interval) /\ Linked(calls[d], d)
  BY <1>1, SoundFacts DEF Sound
<1>3. ASSUME NEW u \in Type
      PROVE  /\ Unassigned(d, u)' = Unassigned(d, u)
             /\ \A w : /\ LocationOf(d, u, w)' = LocationOf(d, u, w)
                       /\ LocationOf(d + 1, u, w)' = LocationOf(d + 1, u, w)
  <2>1. /\ Unassigned(d, u)' = Unassigned(d, u) \ {}
        /\ \A w : LocationOf(d, u, w)' = LocationOf(d, u, w)
    BY <1>2, ReturnLeaves
  <2>2. ASSUME NEW e \in 1..(Depth - 1)
        PROVE  \A w : LocationOf(e, u, w)' = LocationOf(e, u, w)
    BY ReturnLeaves
  <2>3. \A w : LocationOf(d + 1, u, w)' = LocationOf(d + 1, u, w)
    <3> DEFINE e == d + 1
    <3>1. e \in 1..(Depth - 1)
      BY <1>2
    <3> HIDE DEF e
    <3>2. \A w : LocationOf(e, u, w)' = LocationOf(e, u, w)
      BY <2>2, <3>1
    <3>. QED  BY <3>2 DEF e
  <2>. QED  BY <2>1, <2>3
<1>4. \A k \in DOMAIN calls[d] : calls[d][k].type \in Type
  BY <1>2, IntervalsAre
<1>. QED  BY <1>1, <1>2, <1>3, <1>4 DEF Linked

(* What is active after a return is in a set S without the callee's own     *)
(* memory, if what was active before is in S.                               *)
LEMMA ReturnActive ==
  ASSUME NEW outs, Returning(outs), NEW S, ActiveIn(S),
         NEW d \in DOMAIN stack', NEW t \in Type, NEW w \in stack'[d][t].active
  PROVE  LocationOf(d, t, w)' \in {loc \in S : ~Popped(loc)}
<1>1. /\ Depth \in Nat /\ Depth >= 2 /\ outs = calls[Depth - 1] /\ outs \in Seq(Interval)
      /\ DOMAIN stack = 1..Depth /\ DOMAIN stack' = 1..(Depth - 1) /\ TypeOK /\ Sound
      /\ DOMAIN calls = 1..(Depth - 1)
  BY ReturningIs DEF Returning
<1>2. /\ d \in 1..(Depth - 1) /\ d \in DOMAIN stack /\ d < Depth /\ d \in Nat
      /\ Depth \in DOMAIN stack
  BY <1>1
<1>3. /\ stack'[d][t].active = stack[d][t].active
           \cup (IF d = Depth - 1 THEN OutputsOf(outs, t) ELSE {})
      /\ LocationOf(d, t, w)' = LocationOf(d, t, w)
  BY <1>2, ReturnLeaves
<1>4. w \in Wire /\ LocationOf(d, t, w) \in S
  <2>1. CASE w \in stack[d][t].active
    <3>1. stack[d][t] \in ScopeType
      BY <1>1, <1>2, StackFacts
    <3>. QED  BY <1>2, <2>1, <3>1 DEF ActiveIn, ScopeType
  <2>2. CASE d = Depth - 1 /\ w \in OutputsOf(outs, t)
    <3>1. PICK k \in DOMAIN outs : outs[k].type = t /\ w \in outs[k].first .. outs[k].last
      BY <2>2 DEF OutputsOf
    <3>2. /\ outs[k] \in Interval /\ outs[k].first \in Nat /\ outs[k].last \in Nat
          /\ outs[k].first .. outs[k].last \subseteq Wire /\ Place(outs, k) \in Nat
          /\ LengthOf(outs[k]) \in Nat
      <4>1. outs[k] \in Interval /\ k \in 1..Len(outs)
        BY <1>1, <3>1
      <4>2. Place(outs, k) \in Nat
        BY <1>1, <4>1, PlaceFacts
      <4>. QED  BY <4>1, <4>2, IntervalsAre
    <3> DEFINE i == w - outs[k].first
               x == Place(outs, k) + i
    <3>3. /\ i \in 0..(LengthOf(outs[k]) - 1) /\ w = outs[k].first + i
          /\ x \in Place(outs, k) .. (Place(outs, k) + LengthOf(outs[k]) - 1)
      BY <3>1, <3>2 DEF LengthOf
    <3>4. x \in stack[Depth][t].active
      BY <3>1, <3>3 DEF Returning, Delivered, Top
    <3>5. LocationOf(Depth, t, x) \in S
      BY <1>2, <3>4 DEF ActiveIn
    <3>6. d \in DOMAIN calls /\ d + 1 = Depth /\ calls[d] = outs
      BY <1>1, <2>2
    <3>7. Linked(outs, d)
      BY <1>1, <3>6 DEF Sound
    <3> HIDE DEF i
    <3>8. LocationOf(d + 1, t, Place(outs, k) + i) = LocationOf(d, t, outs[k].first + i)
      BY <3>1, <3>3, <3>7 DEF Linked
    <3>. QED  BY <3>1, <3>2, <3>3, <3>5, <3>6, <3>8
  <2>. QED  BY <1>3, <2>1, <2>2
<1>5. LocationOf(d, t, w) \in Location /\ LocationOf(d, t, w).depth <= d
  BY <1>1, <1>2, <1>4, StackLocation DEF Sound
<1>6. LocationOf(d, t, w).depth # Depth
  BY <1>2, <1>5 DEF Location
<1>. QED  BY <1>3, <1>4, <1>6 DEF Popped

LEMMA ReturnSound ==
  ASSUME NEW outs, Returning(outs)
  PROVE  Sound'
<1>1. /\ Depth \in Nat /\ Depth >= 2 /\ Depth' = Depth - 1 /\ Len(calls') = Depth - 2
      /\ DOMAIN stack = 1..Depth /\ DOMAIN stack' = 1..(Depth - 1)
      /\ outs = calls[Depth - 1] /\ TypeOK /\ Sound /\ Return
      /\ DOMAIN calls = 1..(Depth - 1) /\ Depth - 1 \in DOMAIN calls
  BY ReturningIs DEF Returning
<1>2. /\ DOMAIN memory' = {loc \in DOMAIN memory : ~Popped(loc)}
      /\ \A loc \in DOMAIN memory' : memory'[loc] = memory[loc]
  BY <1>1 DEF Return
<1>3. \A loc \in DOMAIN memory' : memory'[loc] \in Value
  BY <1>1, <1>2 DEF Sound
<1>4. ASSUME NEW d \in DOMAIN stack', NEW t \in Type
      PROVE  Mapped(stack'[d][t], d)
  <2> DEFINE W == IF d = Depth - 1 THEN OutputsOf(outs, t) ELSE {}
  <2>1. /\ stack'[d][t].mapped = stack[d][t].mapped
        /\ stack'[d][t].firstLocal = stack[d][t].firstLocal
        /\ stack'[d][t].assigned = stack[d][t].assigned \cup W
        /\ stack'[d][t].active = stack[d][t].active \cup W
    BY <1>1, ReturnLeaves
  <2>2. Mapped(stack[d][t], d)
    BY <1>1 DEF Sound
  <2>. QED  BY <2>1, <2>2 DEF Mapped
<1>5. ActiveIn(DOMAIN memory)'
  <2>1. ActiveIn(DOMAIN memory)
    BY <1>1 DEF Sound
  <2>2. \A d \in DOMAIN stack', t \in Type : \A w \in stack'[d][t].active :
          LocationOf(d, t, w)' \in {loc \in DOMAIN memory : ~Popped(loc)}
    BY <2>1, ReturnActive
  <2>. QED  BY <1>2, <2>2 DEF ActiveIn
<1>6. Free' /\ \A d \in DOMAIN calls' : Linked(calls[d], d)'
  BY ReturnFree, ReturnLinked
<1>7. Depth' = Len(calls') + 1
  BY <1>1
<1>. QED  BY <1>3, <1>4, <1>5, <1>6, <1>7 DEF Sound

LEMMA ReturnHeld ==
  ASSUME Held, Return
  PROVE  Held' /\ Kept
<1>1. TypeOK' /\ Depth' >= Len(calls') + 1 /\ Kept
  BY ReturnTyped DEF Held
<1>2. ASSUME failed' = FALSE
      PROVE  Sound'
  <2>1. failed = FALSE
    <3>1. failed \in BOOLEAN
      BY DEF Held, TypeOK
    <3>. QED  BY <1>2, <3>1 DEF Return
  <2>2. Returning(Last(calls))
    BY <1>2, <2>1 DEF Returning, Held, Return
  <2>. QED  BY <2>2, ReturnSound
<1>3. failed' \in BOOLEAN
  BY <1>1 DEF TypeOK
<1>. QED  BY <1>1, <1>2, <1>3 DEF Held
-----------------------------------------------------------------------------
(* All the actions.                                                         *)
LEMMA HeldInit == Init => Held
<1> SUFFICES ASSUME Init PROVE Held
  OBVIOUS
<1>1. /\ stack = <<[t \in Type |-> EmptyScope]>> /\ memory = << >> /\ constructed = {}
      /\ calls = << >> /\ failed = FALSE
  BY DEF Init
<1>2. EmptyScope \in ScopeType
  BY CallAssumption DEF EmptyScope, ScopeType
<1>3. /\ stack \in Seq([Type -> ScopeType]) /\ Depth = 1 /\ DOMAIN stack = {1}
      /\ \A t \in Type : stack[1][t] = EmptyScope
  BY <1>1, <1>2 DEF Depth
<1>4. DOMAIN memory = {} /\ DOMAIN calls = {} /\ calls \in Seq(Seq(Interval)) /\ Len(calls) = 0
  BY <1>1
<1>5. TypeOK
  <2>1. 1 \in 1..MaxDepth
    BY CallAssumption
  <2>2. failed \in BOOLEAN /\ constructed \subseteq Location /\ constructed = {}
    BY <1>1
  <2>. QED  BY <1>3, <1>4, <2>1, <2>2, Zenon DEF TypeOK
<1>6. ASSUME NEW t \in Type
      PROVE  Mapped(stack[1][t], 1)
  BY <1>3, CallAssumption DEF Mapped, EmptyScope
<1>7. ASSUME NEW t \in Type, NEW w \in Wire
      PROVE  LocationOf(1, t, w) = [type |-> t, depth |-> 1, wire |-> w]
  <2>1. w >= EmptyScope.firstLocal
    BY CallAssumption DEF EmptyScope, Wire
  <2>. QED  BY <1>2, <1>3, <2>1, LocalWire DEF LocationOf
<1>8. Free
  <2>1. \A t \in Type : Unassigned(1, t) = Wire
    BY <1>3 DEF Unassigned, EmptyScope
  <2>2. \A t \in Type, v, w \in Wire : LocationOf(1, t, v) = LocationOf(1, t, w) => v = w
    BY <1>7
  <2>3. (1 + 1)..1 = {}
    OBVIOUS
  <2>. QED  BY <1>3, <1>4, <2>1, <2>2, <2>3 DEF Free
<1>9. ActiveIn(DOMAIN memory)
  BY <1>3 DEF ActiveIn, EmptyScope
<1>10. Sound
  BY <1>3, <1>4, <1>6, <1>8, <1>9 DEF Sound
<1>. QED  BY <1>3, <1>4, <1>5, <1>10 DEF Held

(* After a refusal, calls only return.                                      *)
LEMMA NextRuns ==
  ASSUME Next, ~Running
  PROVE  Return
<1>1. ~Refuse
  BY DEF Refuse
<1>2. \A t, out, ins : ~Gate(t, out, ins)
  BY DEF Gate
<1>3. \A out, n : ~PublicInMulti(out, n) /\ ~PrivateInMulti(out, n)
  BY DEF PublicInMulti, PrivateInMulti
<1>4. \A out, ins, k : ~CopyMulti(out, ins, k)
  BY DEF CopyMulti
<1>5. \A out, in : ~Convert(out, in)
  BY DEF Convert
<1>6. \A p, last : ~Delete(p, last)
  BY DEF Delete
<1>7. \A outs, ins, n : ~Invoke(outs, ins) /\ ~InvokeRefused(outs, ins, n)
  BY DEF Invoke, InvokeRefused
<1>. QED  BY <1>1, <1>2, <1>3, <1>4, <1>5, <1>6, <1>7, Zenon DEF Next

LEMMA HeldStep ==
  ASSUME Checked = TRUE, Held, [Next]_vars
  PROVE  Held' /\ Kept
<1>1. CASE UNCHANGED vars
  BY <1>1 DEF vars, Held, TypeOK, Sound, Free, Linked, ActiveIn, Kept, Depth, Unassigned, Awaited,
              LocationOf
<1>2. CASE Return
  BY <1>2, ReturnHeld
<1>3. CASE Refuse
  BY <1>3, RefuseHeld
<1>4. CASE Running /\ Next /\ ~Return /\ ~Refuse
  <2>1. TypeOK /\ Sound
    BY <1>4 DEF Running, Held
  <2>2. CASE \E t \in Type, out \in Arg, ins \in SUBSET Arg :
               Cardinality(ins) <= 2 /\ Gate(t, out, ins)
    BY <2>1, <2>2, GateHeld
  <2>3. CASE \E out \in Interval, n \in 0..MaxLength :
               n <= LengthOf(out) /\ (PublicInMulti(out, n) \/ PrivateInMulti(out, n))
    <3>1. PICK out \in Interval, n \in 0..MaxLength :
                 n <= LengthOf(out) /\ (PublicInMulti(out, n) \/ PrivateInMulti(out, n))
      BY <2>3
    <3>2. n \in 0..LengthOf(out)
      BY <3>1, IntervalsAre, CallAssumption
    <3>. QED  BY <2>1, <3>1, <3>2, PublicInMultiHeld, PrivateInMultiHeld
  <2>4. CASE \E out \in Interval, ins \in InputLists : \E k \in 0..Len(ins) : CopyMulti(out, ins, k)
    <3>1. PICK out \in Interval, ins \in InputLists : \E k \in 0..Len(ins) : CopyMulti(out, ins, k)
      BY <2>4
    <3>2. ins \in Seq(Interval)
      BY ListsAre
    <3>. QED  BY <2>1, <3>1, <3>2, CopyMultiHeld
  <2>5. CASE \E out, in \in Interval : Convert(out, in)
    BY <2>1, <2>5, ConvertHeld
  <2>6. CASE \E p \in Interval : \E last \in (p.first - 1) .. p.last : Delete(p, last)
    BY <2>1, <2>6, DeleteHeld
  <2>7. CASE \E outs \in OutputLists, ins \in InputLists :
               \/ Invoke(outs, ins)
               \/ \E n \in 0..(MaxOutputs + MaxInputs) : InvokeRefused(outs, ins, n)
    <3>1. PICK outs \in OutputLists, ins \in InputLists :
                 \/ Invoke(outs, ins)
                 \/ \E n \in 0..(MaxOutputs + MaxInputs) : InvokeRefused(outs, ins, n)
      BY <2>7
    <3>2. 0..(MaxOutputs + MaxInputs) \subseteq Nat
      BY CallAssumption
    <3>. QED  BY <2>1, <3>1, <3>2, InvokeHeld, InvokeRefusedHeld
  <2>. QED  BY <1>4, <2>2, <2>3, <2>4, <2>5, <2>6, <2>7 DEF Next
<1>5. Next => Running \/ Return
  BY NextRuns
<1>. QED  BY <1>1, <1>2, <1>3, <1>4, <1>5

(* Every wire that is active in a scope, local or mapped through any number *)
(* of scopes, is held by memory as long as nothing was refused.             *)
THEOREM ActiveIsHeld ==
  ASSUME Checked = TRUE
  PROVE  Spec => []ActiveHeld
<1>1. Held /\ [Next]_vars => Held'
  BY HeldStep
<1>2. Held => ActiveHeld
  BY DEF Held, Sound, ActiveIn, ActiveHeld
<1>. QED  BY HeldInit, <1>1, <1>2, PTL DEF Spec

(* No step changes the value at a location that holds one, also when a call *)
(* returns after a directive in it was refused.                             *)
THEOREM WritesOnce ==
  ASSUME Checked = TRUE
  PROVE  Spec => WriteOnce
<1>1. Held /\ [Next]_vars => Held'
  BY HeldStep
<1>2. Held /\ [Next]_vars =>
        [\A loc \in (DOMAIN memory) \cap (DOMAIN memory') : memory'[loc] = memory[loc]]_vars
  BY HeldStep DEF Kept
<1>. QED  BY HeldInit, <1>1, <1>2, PTL DEF Spec, WriteOnce
-----------------------------------------------------------------------------
(* Where no interval of public inputs is read, a constructor ran for each   *)
(* active wire.                                                             *)
Built ==
  /\ Held
  /\ ~failed => ActiveIn(constructed)

LEMMA AssignedBuilt ==
  ASSUME TypeOK, Sound, ActiveIn(constructed),
         NEW t \in Type, NEW f \in Int, NEW l \in Int, f <= l,
         f..l \subseteq Unassigned(Depth, t), MarkTop(t, f, l), UNCHANGED calls,
         Construct(Depth, t, f..l)
  PROVE  ActiveIn(constructed)'
<1>1. AssignsTop(t, f..l)
  <2>1. f..l \subseteq Wire
    BY DEF Unassigned
  <2>2. Mapped(Top(t), Depth)
    BY SoundFacts
  <2>. QED  BY <2>1, <2>2, MarkTopAssigns
<1> DEFINE W == f..l
<1>2. constructed' = constructed \cup Locations(Depth, t, W)
  BY DEF Construct
<1> HIDE DEF W
<1>3. ASSUME NEW d \in DOMAIN stack, NEW u \in Type, NEW w \in stack'[d][u].active
      PROVE  LocationOf(d, u, w)' \in constructed'
  <2>1. LocationOf(d, u, w)' = LocationOf(d, u, w)
    BY <1>1, LocationKept DEF W
  <2>2. CASE w \in stack[d][u].active
    BY <1>2, <2>1, <2>2 DEF ActiveIn
  <2>3. CASE d = Depth /\ u = t /\ w \in W
    BY <1>2, <2>1, <2>3 DEF Locations
  <2>. QED  BY <1>1, <2>2, <2>3 DEF AssignsTop, W
<1>. QED  BY <1>1, <1>3 DEF ActiveIn, AssignsTop

LEMMA GateBuilt ==
  ASSUME TypeOK, Sound, ActiveIn(constructed),
         NEW t \in Type, NEW out \in Arg, NEW ins, Gate(t, out, ins)
  PROVE  ActiveIn(constructed)'
<1>1. out \in Int /\ out..out = {out} /\ out \in Wire /\ out <= out
  BY CallAssumption DEF Arg, Wire
<1>2. out..out \subseteq Unassigned(Depth, t)
  BY <1>1 DEF Gate, Top, Unassigned
<1>3. MarkTop(t, out, out) /\ UNCHANGED calls /\ Construct(Depth, t, out..out)
  BY <1>1 DEF Gate
<1>. QED  BY <1>1, <1>2, <1>3, AssignedBuilt

LEMMA IntervalBuilt ==
  ASSUME TypeOK, Sound, ActiveIn(constructed),
         NEW out \in Interval, FindsOutputs(Depth, out),
         MarkTop(out.type, out.first, out.last), UNCHANGED calls,
         Construct(Depth, out.type, out.first .. out.last)
  PROVE  ActiveIn(constructed)'
<1> DEFINE f == out.first
           l == out.last
           t == out.type
<1>1. /\ t \in Type /\ f \in Int /\ l \in Int /\ f <= l /\ f..l \subseteq Unassigned(Depth, t)
      /\ MarkTop(t, f, l) /\ Construct(Depth, t, f..l)
  BY FoundOutputs
<1> HIDE DEF f, l, t
<1>. QED  BY <1>1, AssignedBuilt

LEMMA PrivateInMultiBuilt ==
  ASSUME TypeOK, Sound, ActiveIn(constructed), failed' = FALSE,
         NEW out \in Interval, NEW n \in 0..LengthOf(out), PrivateInMulti(out, n)
  PROVE  ActiveIn(constructed)'
<1> DEFINE g == out.first + n - 1
<1>1. /\ out.first \in Int /\ out.last \in Int /\ out.first .. out.last \subseteq Wire
      /\ LengthOf(out) \in Nat /\ out.first + LengthOf(out) - 1 = out.last
      /\ out.first <= out.last
  BY FoundOutputs DEF PrivateInMulti
<1>2. n = LengthOf(out)
  <2>1. ~(n < LengthOf(out))
    BY DEF PrivateInMulti
  <2>. QED  BY <1>1, <2>1
<1>3. g = out.last /\ g % (TopWire + 1) = out.last
  <2>1. g = out.last /\ out.last \in 0..TopWire
    BY <1>1, <1>2 DEF Wire
  <2>. QED  BY <2>1, CallAssumption
<1>4. /\ MarkTop(out.type, out.first, g % (TopWire + 1)) /\ UNCHANGED calls
      /\ Construct(Depth, out.type, out.first .. g) /\ FindsOutputs(Depth, out)
  BY DEF PrivateInMulti
<1> HIDE DEF g
<1>. QED  BY <1>3, <1>4, IntervalBuilt

LEMMA CopyMultiBuilt ==
  ASSUME TypeOK, Sound, ActiveIn(constructed), failed' = FALSE,
         NEW out \in Interval, NEW ins \in Seq(Interval),
         NEW k \in 0..Len(ins), CopyMulti(out, ins, k)
  PROVE  ActiveIn(constructed)'
<1> DEFINE done == Copied(out, ins, k)
           g == out.first + done - 1
<1>1. LengthOf(out) \in Nat /\ out.first + LengthOf(out) - 1 = out.last
  BY FoundOutputs DEF CopyMulti
<1>2. k = Len(ins)
  <2>1. ~(k < Len(ins))
    BY DEF CopyMulti
  <2>. QED  BY <2>1
<1>3. done = LengthOf(out)
  BY <1>2 DEF CopyMulti
<1>4. g = out.last
  BY <1>1, <1>3
<1>5. /\ MarkTop(out.type, out.first, g) /\ UNCHANGED calls
      /\ Construct(Depth, out.type, out.first .. g) /\ FindsOutputs(Depth, out)
  BY DEF CopyMulti
<1> HIDE DEF g
<1>. QED  BY <1>4, <1>5, IntervalBuilt

LEMMA DeleteBuilt ==
  ASSUME TypeOK, Sound, ActiveIn(constructed),
         NEW p \in Interval, NEW last \in (p.first - 1) .. p.last, Delete(p, last)
  PROVE  ActiveIn(constructed)'
<1>1. DOMAIN stack' = DOMAIN stack
  BY DeleteIs
<1>2. constructed' = constructed \ Locations(Depth, p.type, p.first .. last)
  BY DEF Delete
<1>3. \A d \in DOMAIN stack, u \in Type : \A w \in stack'[d][u].active :
        LocationOf(d, u, w)' \in constructed'
  BY <1>2, DeleteActive
<1>. QED  BY <1>1, <1>3 DEF ActiveIn

LEMMA InvokeBuilt ==
  ASSUME NEW outs, NEW ins, InvokeRunning(outs, ins), ActiveIn(constructed),
         UNCHANGED constructed
  PROVE  ActiveIn(constructed)'
<1>1. \A d \in DOMAIN stack', t \in Type : \A w \in stack'[d][t].active :
        LocationOf(d, t, w)' \in constructed
  BY InvokeActive
<1>. QED  BY <1>1 DEF ActiveIn

LEMMA ReturnBuilt ==
  ASSUME NEW outs, Returning(outs), ActiveIn(constructed)
  PROVE  ActiveIn(constructed)'
<1>1. {loc \in constructed : ~Popped(loc)} = constructed'
  BY DEF Returning, Return
<1>2. \A d \in DOMAIN stack', t \in Type : \A w \in stack'[d][t].active :
        LocationOf(d, t, w)' \in {loc \in constructed : ~Popped(loc)}
  BY ReturnActive
<1>. QED  BY <1>1, <1>2 DEF ActiveIn

LEMMA BuiltStep ==
  ASSUME Checked = TRUE, "publicInMulti" \notin Directives, Built, [Next]_vars
  PROVE  Built'
<1>1. Held' /\ Held
  BY HeldStep DEF Built
<1>2. SUFFICES ASSUME failed' = FALSE
               PROVE  ActiveIn(constructed)'
  BY <1>1 DEF Built, Held, TypeOK
<1>3. CASE UNCHANGED vars
  BY <1>1, <1>2, <1>3 DEF vars, Built, ActiveIn, LocationOf
<1>4. CASE Return
  <2>1. failed = FALSE
    BY <1>1, <1>2, <1>4 DEF Held, TypeOK, Return
  <2>2. Returning(Last(calls)) /\ ActiveIn(constructed)
    BY <1>1, <1>2, <1>4, <2>1 DEF Returning, Held, Return, Built
  <2>. QED  BY <2>2, ReturnBuilt
<1>5. CASE Running /\ Next /\ ~Return
  <2>1. TypeOK /\ Sound /\ ActiveIn(constructed)
    BY <1>5 DEF Running, Built, Held
  <2>2. ~Refuse
    BY <1>2 DEF Refuse, Refused
  <2>3. CASE \E t \in Type, out \in Arg, ins \in SUBSET Arg :
               Cardinality(ins) <= 2 /\ Gate(t, out, ins)
    BY <2>1, <2>3, GateBuilt
  <2>4. CASE \E out \in Interval, n \in 0..MaxLength :
               n <= LengthOf(out) /\ (PublicInMulti(out, n) \/ PrivateInMulti(out, n))
    <3>1. PICK out \in Interval, n \in 0..MaxLength :
                 n <= LengthOf(out) /\ (PublicInMulti(out, n) \/ PrivateInMulti(out, n))
      BY <2>4
    <3>2. n \in 0..LengthOf(out)
      BY <3>1, IntervalsAre, CallAssumption
    <3>3. PrivateInMulti(out, n)
      BY <3>1 DEF PublicInMulti
    <3>. QED  BY <1>2, <2>1, <3>2, <3>3, PrivateInMultiBuilt
  <2>5. CASE \E out \in Interval, ins \in InputLists : \E k \in 0..Len(ins) : CopyMulti(out, ins, k)
    <3>1. PICK out \in Interval, ins \in InputLists : \E k \in 0..Len(ins) : CopyMulti(out, ins, k)
      BY <2>5
    <3>2. ins \in Seq(Interval)
      BY ListsAre
    <3>. QED  BY <1>2, <2>1, <3>1, <3>2, CopyMultiBuilt
  <2>6. CASE \E out, in \in Interval : Convert(out, in)
    <3>1. PICK out, in \in Interval : Convert(out, in)
      BY <2>6
    <3>. QED  BY <2>1, <3>1, IntervalBuilt DEF Convert
  <2>7. CASE \E p \in Interval : \E last \in (p.first - 1) .. p.last : Delete(p, last)
    BY <2>1, <2>7, DeleteBuilt
  <2>8. CASE \E outs \in OutputLists, ins \in InputLists :
               \/ Invoke(outs, ins)
               \/ \E n \in 0..(MaxOutputs + MaxInputs) : InvokeRefused(outs, ins, n)
    <3>1. PICK outs \in OutputLists, ins \in InputLists :
                 \/ Invoke(outs, ins)
                 \/ \E n \in 0..(MaxOutputs + MaxInputs) : InvokeRefused(outs, ins, n)
      BY <2>8
    <3>2. Invoke(outs, ins)
      BY <1>2, <3>1 DEF InvokeRefused, Refused
    <3>3. InvokeRunning(outs, ins) /\ UNCHANGED constructed
      BY <2>1, <3>2, InvokeHeld DEF Invoke
    <3>. QED  BY <2>1, <3>3, InvokeBuilt
  <2>. QED  BY <1>5, <2>2, <2>3, <2>4, <2>5, <2>6, <2>7, <2>8 DEF Next
<1>6. Next => Running \/ Return
  BY NextRuns
<1>. QED  BY <1>3, <1>4, <1>5, <1>6

(* The destructor of a scope and deleteRange, which destroy active wires,   *)
(* destroy only wires that were constructed, as long as nothing was refused *)
(* and no interval of public inputs was read.                               *)
THEOREM ActiveIsConstructed ==
  ASSUME Checked = TRUE, "publicInMulti" \notin Directives
  PROVE  Spec => []ActiveConstructed
<1>1. Built /\ [Next]_vars => Built'
  BY BuiltStep
<1>2. Built => ActiveConstructed
  BY DEF Built, ActiveIn, ActiveConstructed
<1>3. Init => Built
  <2>1. Init => \A d \in DOMAIN stack, t \in Type : stack[d][t].active = {}
    BY DEF Init, EmptyScope
  <2>. QED  BY <2>1, HeldInit DEF Built, ActiveIn
<1>. QED  BY <1>1, <1>2, <1>3, PTL DEF Spec

-----------------------------------------------------------------------------
(* The refinement of PureCalls: what each step makes of the frames, which   *)
(* are what a call by value sees of the scopes. Only the top frame changes  *)
(* when a directive is evaluated, a call adds one, a return joins the top   *)
(* two; every other frame stays because a step writes only to locations of  *)
(* wires that are unassigned in all scopes (Free).                          *)

(* Sequences of frames, of which a step changes only the end.               *)
IsList(e, n) == e = [i \in 1..n |-> e[i]]

LEMMA LastReplaced ==
  ASSUME NEW e, NEW g, NEW n \in Nat, n # 0,
         IsList(e, n), IsList(g, n),
         \A i \in 1..(n - 1) : g[i] = e[i]
  PROVE  Len(e) = n /\ g = [e EXCEPT ![Len(e)] = g[n]]
<1> DEFINE S == {e[i] : i \in 1..n}
<1>1. e \in [1..n -> S]
  BY DEF IsList
<1> HIDE DEF S
<1>2. e \in Seq(S) /\ Len(e) = n
  BY <1>1
<1>3. n \in 1..n /\ \A i \in 1..n : i # n => i \in 1..(n - 1)
  OBVIOUS
<1>4. DOMAIN e = 1..n /\ DOMAIN g = 1..n /\ g = [i \in 1..n |-> g[i]]
  BY Zenon DEF IsList
<1>5. [e EXCEPT ![n] = g[n]] = [i \in 1..n |-> IF i = n THEN g[n] ELSE e[i]]
  BY <1>4
<1>6. [i \in 1..n |-> IF i = n THEN g[n] ELSE e[i]] = [i \in 1..n |-> g[i]]
  BY <1>3
<1>. QED  BY <1>2, <1>4, <1>5, <1>6, Zenon

LEMMA LastAdded ==
  ASSUME NEW e, NEW g, NEW n \in Nat,
         IsList(e, n), IsList(g, n + 1),
         \A i \in 1..n : g[i] = e[i]
  PROVE  Len(e) = n /\ g = Append(e, g[n + 1])
<1> DEFINE S == {e[i] : i \in 1..n} \cup {g[i] : i \in 1..(n + 1)}
           x == g[n + 1]
<1>1. e \in [1..n -> S] /\ g \in [1..(n + 1) -> S] /\ x \in S
  BY DEF IsList
<1> HIDE DEF S, x
<1>2. e \in Seq(S) /\ Len(e) = n /\ g \in Seq(S) /\ Len(g) = n + 1
  BY <1>1
<1> DEFINE h == Append(e, x)
<1>3. /\ h \in Seq(S) /\ Len(h) = Len(e) + 1 /\ h[Len(e) + 1] = x
      /\ \A i \in 1..Len(e) : h[i] = e[i]
  BY <1>1, <1>2, AppendProperties
<1> HIDE DEF h
<1>6. Len(h) = n + 1 /\ h[n + 1] = x /\ \A i \in 1..n : h[i] = e[i]
  BY <1>2, <1>3, Zenon
<1>4. \A i \in 1..(n + 1) : h[i] = g[i]
  <2>1. SUFFICES ASSUME NEW i \in 1..(n + 1)
                 PROVE  h[i] = g[i]
    OBVIOUS
  <2>2. i \in 1..n \/ i = n + 1
    OBVIOUS
  <2>. QED  BY <1>6, <2>2 DEF x
<1>5. g = h
  BY <1>2, <1>3, <1>4, <1>6, SeqEqual
<1>. QED  BY <1>2, <1>5 DEF h, x

LEMMA LastTwoJoined ==
  ASSUME NEW e, NEW g, NEW n \in Nat, n >= 2,
         IsList(e, n), IsList(g, n - 1),
         \A i \in 1..(n - 2) : g[i] = e[i]
  PROVE  Len(e) = n /\ g = Append(SubSeq(e, 1, Len(e) - 2), g[n - 1])
<1> DEFINE S == {e[i] : i \in 1..n}
           m == n - 2
           b == SubSeq(e, 1, m)
<1>1. e \in [1..n -> S] /\ m \in Nat /\ m + 1 = n - 1
  BY DEF IsList
<1> HIDE DEF S
<1>2. e \in Seq(S) /\ Len(e) = n
  BY <1>1
<1>3. e \in Seq(S) /\ Len(e) = n /\ m \in Nat /\ m <= n
  BY <1>1, <1>2
<1> HIDE DEF m
<1>5. b \in Seq(S) /\ Len(b) = m /\ \A i \in 1..m : b[i] = e[i]
  BY <1>3
<1> HIDE DEF b
<1>6. IsList(b, m)
  <2>1. b \in [1..m -> S]
    BY <1>5
  <2>. QED  BY <2>1 DEF IsList
<1>7. IsList(g, m + 1) /\ \A i \in 1..m : g[i] = b[i]
  <2>1. m + 1 = n - 1
    BY <1>1
  <2>3. \A i \in 1..m : g[i] = e[i]
    BY DEF m
  <2>. QED  BY <1>5, <2>1, <2>3, Zenon
<1>8. g = Append(b, g[m + 1])
  <2>1. m \in Nat
    BY <1>3
  <2>. QED  BY <2>1, <1>6, <1>7, LastAdded, Zenon
<1>. QED  BY <1>1, <1>2, <1>8 DEF b, m

(* The frames of a running program.                                         *)
LEMMA FramesAre ==
  ASSUME TypeOK, failed = FALSE
  PROVE  /\ IsList(Frames, Depth)
         /\ \A d \in 1..Depth : Frames[d] = Frame(d)
<1>1. DOMAIN stack = 1..Depth
  BY StackFacts
<1>2. Frames = [d \in 1..Depth |-> Frame(d)]
  BY <1>1, Zenon DEF Frames
<1>. QED  BY <1>2 DEF IsList

LEMMA NextFramesAre ==
  ASSUME TypeOK', failed' = FALSE
  PROVE  /\ IsList(Frames', Depth')
         /\ \A d \in 1..Depth' : Frames'[d] = Frame(d)'
<1>1. stack' \in Seq([Type -> ScopeType]) /\ Depth' = Len(stack')
  BY DEF TypeOK, Depth
<1>2. DOMAIN stack' = 1..Depth'
  BY <1>1
<1>3. Frames' = [d \in 1..Depth' |-> Frame(d)']
  BY <1>2, Zenon DEF Frames
<1>. QED  BY <1>3 DEF IsList

(* The fields of the frame at depth d.                                      *)
ActiveWires(d) == UNION {{t} \X stack[d][t].active : t \in Type}

UsedWires(d) == UNION {{t} \X stack[d][t].assigned : t \in Type}

Values(d) == [w \in ActiveWires(d) |-> memory[LocationOf(d, w[1], w[2])]]

OutputsAt(d) == IF d = 1 THEN <<>> ELSE calls[d - 1]

LEMMA FrameIs ==
  ASSUME NEW d
  PROVE  /\ Frame(d) = [values |-> Values(d), used |-> UsedWires(d), outputs |-> OutputsAt(d)]
         /\ Frame(d)' = [values |-> Values(d)', used |-> UsedWires(d)', outputs |-> OutputsAt(d)']
<1>1. Frame(d) = [values |-> Values(d), used |-> UsedWires(d), outputs |-> OutputsAt(d)]
  BY Zenon DEF Frame, Values, ActiveWires, UsedWires, OutputsAt
<1>2. Frame(d)' = [values |-> Values(d)', used |-> UsedWires(d)', outputs |-> OutputsAt(d)']
  BY Zenon DEF Frame, Values, ActiveWires, UsedWires, OutputsAt
<1>. QED  BY <1>1, <1>2

LEMMA FieldsAre ==
  ASSUME NEW d
  PROVE  /\ Frame(d).values = Values(d) /\ Frame(d).used = UsedWires(d)
         /\ Frame(d).outputs = OutputsAt(d)
<1>1. Frame(d) = [values |-> Values(d), used |-> UsedWires(d), outputs |-> OutputsAt(d)]
  BY FrameIs
<1>. QED  BY <1>1

LEMMA WiresAre ==
  ASSUME NEW d, NEW w
  PROVE  /\ w \in ActiveWires(d) <=> \E t \in Type : \E v \in stack[d][t].active : w = <<t, v>>
         /\ w \in UsedWires(d) <=> \E t \in Type : \E v \in stack[d][t].assigned : w = <<t, v>>
         /\ w \in ActiveWires(d)' <=> \E t \in Type : \E v \in stack'[d][t].active : w = <<t, v>>
         /\ w \in UsedWires(d)' <=> \E t \in Type : \E v \in stack'[d][t].assigned : w = <<t, v>>
<1>1. w \in ActiveWires(d) <=> \E t \in Type : \E v \in stack[d][t].active : w = <<t, v>>
  BY DEF ActiveWires
<1>2. w \in UsedWires(d) <=> \E t \in Type : \E v \in stack[d][t].assigned : w = <<t, v>>
  BY DEF UsedWires
<1>3. w \in ActiveWires(d)' <=> \E t \in Type : \E v \in stack'[d][t].active : w = <<t, v>>
  BY DEF ActiveWires
<1>4. w \in UsedWires(d)' <=> \E t \in Type : \E v \in stack'[d][t].assigned : w = <<t, v>>
  BY DEF UsedWires
<1>. QED  BY <1>1, <1>2, <1>3, <1>4

(* A frame whose wires a step leaves alone.                                 *)
LEMMA FrameKept ==
  ASSUME NEW d,
         \A t \in Type : /\ stack'[d][t].active = stack[d][t].active
                         /\ stack'[d][t].assigned = stack[d][t].assigned,
         \A t \in Type : \A w \in stack[d][t].active :
           /\ LocationOf(d, t, w)' = LocationOf(d, t, w)
           /\ memory'[LocationOf(d, t, w)] = memory[LocationOf(d, t, w)],
         OutputsAt(d)' = OutputsAt(d)
  PROVE  Frame(d)' = Frame(d)
<1>1. ActiveWires(d)' = ActiveWires(d) /\ UsedWires(d)' = UsedWires(d)
  <2>1. \A w : w \in ActiveWires(d)' <=> w \in ActiveWires(d)
    BY WiresAre
  <2>2. \A w : w \in UsedWires(d)' <=> w \in UsedWires(d)
    BY WiresAre
  <2>. QED  BY <2>1, <2>2
<1>2. ASSUME NEW w \in ActiveWires(d)
      PROVE  memory'[LocationOf(d, w[1], w[2])'] = memory[LocationOf(d, w[1], w[2])]
  <2>1. PICK t \in Type : \E v \in stack[d][t].active : w = <<t, v>>
    BY WiresAre
  <2>2. PICK v \in stack[d][t].active : w = <<t, v>>
    BY <2>1
  <2>3. w[1] = t /\ w[2] = v
    BY <2>2
  <2>4. /\ LocationOf(d, t, v)' = LocationOf(d, t, v)
        /\ memory'[LocationOf(d, t, v)] = memory[LocationOf(d, t, v)]
    BY <2>2
  <2>. QED  BY <2>3, <2>4
<1>3. Values(d)' = Values(d)
  BY <1>1, <1>2 DEF Values
<1>. QED  BY <1>1, <1>3, FrameIs

LEMMA WriteExact ==
  ASSUME TypeOK, Sound, NEW t \in Type, NEW vals, Write(Depth, t, vals),
         DOMAIN vals \subseteq Unassigned(Depth, t), NEW v \in DOMAIN vals
  PROVE  memory'[LocationOf(Depth, t, v)] = vals[v]
<1>1. Wrote(Depth, t, vals)
  BY WriteIs
<1>2. LocationOf(Depth, t, v) \in Locations(Depth, t, DOMAIN vals)
  BY DEF Locations
<1>3. PICK w \in DOMAIN vals :
         LocationOf(Depth, t, w) = LocationOf(Depth, t, v)
         /\ memory'[LocationOf(Depth, t, v)] = vals[w]
  BY <1>1, <1>2 DEF Wrote
<1>4. w = v
  BY <1>3, StackFacts DEF Sound, Free
<1>. QED  BY <1>3, <1>4

(* A directive that gives values to the interval p, of a running program.   *)
Assigning(p, vals) ==
  /\ TypeOK /\ Sound /\ failed = FALSE /\ failed' = FALSE
  /\ p \in Interval /\ p.first .. p.last \subseteq Unassigned(Depth, p.type)
  /\ vals \in [p.first .. p.last -> Value]
  /\ Write(Depth, p.type, vals) /\ MarkTop(p.type, p.first, p.last)
  /\ TypeOK' /\ UNCHANGED calls

LEMMA AssignFrames ==
  ASSUME NEW p, NEW vals, Assigning(p, vals), NEW n, n = Depth
  PROVE  /\ AssignsTop(p.type, p.first .. p.last)
         /\ \A d \in 1..(Depth - 1) : Frame(d)' = Frame(d)
         /\ UsedWires(n)' = UsedWires(n) \cup Pure!WiresOf(p)
         /\ ActiveWires(n)' = ActiveWires(n) \cup Pure!WiresOf(p)
         /\ OutputsAt(n)' = OutputsAt(n)
<1> DEFINE t == p.type
           W == p.first .. p.last
<1>1. /\ t \in Type /\ p.first \in Int /\ p.last \in Int /\ p.first <= p.last
      /\ W \subseteq Wire /\ W \subseteq Unassigned(Depth, t)
  BY IntervalsAre DEF Assigning
<1>2. TypeOK /\ Sound /\ Write(Depth, t, vals) /\ MarkTop(t, p.first, p.last) /\ calls' = calls
      /\ DOMAIN vals = W
  BY DEF Assigning
<1>3. AssignsTop(t, W)
  BY <1>1, <1>2, SoundFacts, MarkTopAssigns
<1>4. /\ \A loc \in DOMAIN memory : memory'[loc] = memory[loc]
      /\ ActiveIn(DOMAIN memory)
  BY <1>1, <1>2, WriteOfUnassigned DEF Sound
<1>5. Depth \in DOMAIN stack /\ DOMAIN stack = 1..Depth /\ Depth \in Nat
  BY <1>2, StackFacts
<1> HIDE DEF W, t
<1>12. \A d \in DOMAIN stack, u \in Type :
         /\ stack'[d][u].assigned = stack[d][u].assigned \cup (IF d = Depth /\ u = t THEN W ELSE {})
         /\ stack'[d][u].active = stack[d][u].active \cup (IF d = Depth /\ u = t THEN W ELSE {})
  BY <1>3, Zenon DEF AssignsTop
<1>13. ASSUME NEW d \in DOMAIN stack, NEW u \in Type
       PROVE  /\ ~(d = Depth /\ u = t) => /\ stack'[d][u].assigned = stack[d][u].assigned
                                          /\ stack'[d][u].active = stack[d][u].active
              /\ d = Depth /\ u = t => /\ stack'[d][u].assigned = stack[d][u].assigned \cup W
                                       /\ stack'[d][u].active = stack[d][u].active \cup W
  <2> DEFINE V == IF d = Depth /\ u = t THEN W ELSE {}
  <2>1. /\ stack'[d][u].assigned = stack[d][u].assigned \cup V
        /\ stack'[d][u].active = stack[d][u].active \cup V
    BY <1>12
  <2>2. /\ d = Depth /\ u = t => V = W
        /\ ~(d = Depth /\ u = t) => V = {}
    BY Zenon
  <2> HIDE DEF V
  <2>. QED  BY <2>1, <2>2
<1>6. ASSUME NEW d \in 1..(Depth - 1)
      PROVE  Frame(d)' = Frame(d)
  <2>1. d \in DOMAIN stack /\ d # Depth
    BY <1>5
  <2>2. \A u \in Type : /\ stack'[d][u].active = stack[d][u].active
                        /\ stack'[d][u].assigned = stack[d][u].assigned
    BY <1>13, <2>1, Zenon
  <2>3. ASSUME NEW u \in Type, NEW w \in stack[d][u].active
        PROVE  /\ LocationOf(d, u, w)' = LocationOf(d, u, w)
               /\ memory'[LocationOf(d, u, w)] = memory[LocationOf(d, u, w)]
    BY <1>3, <1>4, <2>1, LocationKept DEF ActiveIn
  <2>4. OutputsAt(d)' = OutputsAt(d)
    BY <1>2 DEF OutputsAt
  <2>. QED  BY <2>2, <2>3, <2>4, FrameKept
<1>7. ASSUME NEW w
      PROVE  w \in Pure!WiresOf(p) <=> \E v \in W : w = <<t, v>>
  BY DEF Pure!WiresOf, W, t
<1>8. /\ \A u \in Type : u # t => /\ stack'[n][u].active = stack[n][u].active
                                  /\ stack'[n][u].assigned = stack[n][u].assigned
      /\ stack'[n][t].active = stack[n][t].active \cup W
      /\ stack'[n][t].assigned = stack[n][t].assigned \cup W
  BY <1>1, <1>5, <1>13, Zenon
<1>9. \A w : w \in ActiveWires(n)' <=> w \in ActiveWires(n) \cup Pure!WiresOf(p)
  <2>1. TAKE w
  <2>3. w \in ActiveWires(n)' <=> \E u \in Type : \E v \in stack'[n][u].active : w = <<u, v>>
    BY WiresAre
  <2>4. w \in ActiveWires(n) <=> \E u \in Type : \E v \in stack[n][u].active : w = <<u, v>>
    BY WiresAre
  <2>. QED  BY <1>1, <1>7, <1>8, <2>3, <2>4
<1>10. \A w : w \in UsedWires(n)' <=> w \in UsedWires(n) \cup Pure!WiresOf(p)
  <2>1. TAKE w
  <2>3. w \in UsedWires(n)' <=> \E u \in Type : \E v \in stack'[n][u].assigned : w = <<u, v>>
    BY WiresAre
  <2>4. w \in UsedWires(n) <=> \E u \in Type : \E v \in stack[n][u].assigned : w = <<u, v>>
    BY WiresAre
  <2>. QED  BY <1>1, <1>7, <1>8, <2>3, <2>4
<1>11. OutputsAt(n)' = OutputsAt(n)
  BY <1>2 DEF OutputsAt
<1>. QED  BY <1>3, <1>6, <1>9, <1>10, <1>11 DEF W, t

LEMMA AssignMaps ==
  ASSUME NEW p, NEW vals, Assigning(p, vals)
  PROVE  \E pure \in [Pure!WiresOf(p) -> Value] : Pure!Assign(p, pure)
<1>0. PICK n \in Nat : n = Depth
  BY StackFacts DEF Assigning
<1> DEFINE t == p.type
           W == p.first .. p.last
           pure == [w \in Pure!WiresOf(p) |-> vals[w[2]]]
           new == [values |-> Pure!With(Frame(n).values, pure),
                   used |-> Frame(n).used \cup Pure!WiresOf(p),
                   outputs |-> Frame(n).outputs]
<1>1. /\ n = Depth /\ TypeOK /\ Sound /\ TypeOK' /\ failed = FALSE /\ failed' = FALSE
      /\ W \subseteq Unassigned(n, t) /\ Write(n, t, vals) /\ vals \in [W -> Value]
      /\ DOMAIN vals = W /\ t \in Type
  BY <1>0, IntervalsAre DEF Assigning
<1>2. /\ n \in Nat /\ n # 0 /\ n \in DOMAIN stack /\ n \in 1..n
  BY <1>1, StackFacts
<1>3. /\ AssignsTop(t, W)
      /\ \A d \in 1..(n - 1) : Frame(d)' = Frame(d)
      /\ UsedWires(n)' = UsedWires(n) \cup Pure!WiresOf(p)
      /\ ActiveWires(n)' = ActiveWires(n) \cup Pure!WiresOf(p)
      /\ OutputsAt(n)' = OutputsAt(n)
  BY <1>0, AssignFrames
<1>4. Depth' = n
  BY <1>1, <1>3 DEF AssignsTop
<1>5. /\ \A loc \in DOMAIN memory : memory'[loc] = memory[loc]
      /\ ActiveIn(DOMAIN memory)
  BY <1>1, WriteOfUnassigned DEF Sound
<1>6. \A w : w \in Pure!WiresOf(p) <=> \E v \in W : w = <<t, v>>
  BY DEF Pure!WiresOf
<1> HIDE DEF W, t
<1>7. pure \in [Pure!WiresOf(p) -> Value]
  <2>1. ASSUME NEW w \in Pure!WiresOf(p)
        PROVE  vals[w[2]] \in Value
    <3>1. PICK v \in W : w = <<t, v>>
      BY <1>6
    <3>2. w[2] = v
      BY <3>1
    <3>. QED  BY <1>1, <3>2
  <2>. QED  BY <2>1
<1>8. ASSUME NEW w \in ActiveWires(n)'
      PROVE  memory'[LocationOf(n, w[1], w[2])'] =
               IF w \in DOMAIN pure THEN pure[w] ELSE Values(n)[w]
  <2>1. DOMAIN pure = Pure!WiresOf(p)
    OBVIOUS
  <2>2. CASE w \in Pure!WiresOf(p)
    <3>1. PICK v \in W : w = <<t, v>>
      BY <1>6, <2>2
    <3>2. w[1] = t /\ w[2] = v
      BY <3>1
    <3>3. LocationOf(n, t, v)' = LocationOf(n, t, v)
      BY <1>1, <1>2, <1>3, <1>4, LocationKept
    <3>4. memory'[LocationOf(n, t, v)] = vals[v]
      BY <1>1, WriteExact
    <3>5. pure[w] = vals[v]
      BY <2>2, <3>2
    <3>. QED  BY <2>1, <2>2, <3>2, <3>3, <3>4, <3>5
  <2>3. CASE w \in ActiveWires(n) /\ w \notin Pure!WiresOf(p)
    <3>1. PICK u \in Type : \E v \in stack[n][u].active : w = <<u, v>>
      BY <2>3, WiresAre
    <3>2. PICK v \in stack[n][u].active : w = <<u, v>>
      BY <3>1
    <3>3. w[1] = u /\ w[2] = v
      BY <3>2
    <3>4. LocationOf(n, u, v)' = LocationOf(n, u, v)
      BY <1>2, <1>3, <1>4, LocationKept
    <3>5. LocationOf(n, u, v) \in DOMAIN memory
      BY <1>2, <1>5 DEF ActiveIn
    <3>6. Values(n)[w] = memory[LocationOf(n, u, v)]
      BY <2>3, <3>3 DEF Values
    <3>. QED  BY <1>5, <2>1, <2>3, <3>3, <3>4, <3>5, <3>6
  <2>. QED  BY <1>3, <2>2, <2>3
<1>9. Values(n)' = Pure!With(Values(n), pure)
  <2>1. DOMAIN Values(n) = ActiveWires(n) /\ DOMAIN pure = Pure!WiresOf(p)
    BY DEF Values
  <2>2. Values(n)' = [w \in ActiveWires(n)' |-> memory'[LocationOf(n, w[1], w[2])']]
    BY DEF Values
  <2> HIDE DEF pure
  <2>. QED  BY <1>3, <1>8, <2>1, <2>2 DEF Pure!With
<1> HIDE DEF pure
<1>10. Frame(n)' = new
  <2>1. Frame(n)' = [values |-> Values(n)', used |-> UsedWires(n)', outputs |-> OutputsAt(n)']
    BY FrameIs
  <2>2. /\ Frame(n).values = Values(n) /\ Frame(n).used = UsedWires(n)
        /\ Frame(n).outputs = OutputsAt(n)
    BY FieldsAre
  <2>. QED  BY <1>3, <1>9, <2>1, <2>2, Zenon
<1>11. /\ IsList(Frames, n) /\ IsList(Frames', n)
       /\ \A d \in 1..n : Frames[d] = Frame(d)
       /\ \A d \in 1..n : Frames'[d] = Frame(d)'
  BY <1>1, <1>4, FramesAre, NextFramesAre
<1>12. \A d \in 1..(n - 1) : Frames'[d] = Frames[d]
  BY <1>2, <1>3, <1>11
<1>13. Len(Frames) = n /\ Frames' = [Frames EXCEPT ![Len(Frames)] = Frames'[n]]
  <2> DEFINE g == Frames'
  <2>1. IsList(g, n) /\ \A d \in 1..(n - 1) : g[d] = Frames[d]
    BY <1>11, <1>12
  <2> HIDE DEF g
  <2>2. Len(Frames) = n /\ g = [Frames EXCEPT ![Len(Frames)] = g[n]]
    BY <1>2, <1>11, <2>1, LastReplaced
  <2>. QED  BY <2>2 DEF g
<1>14. Frames[n] = Frame(n) /\ Frames'[n] = new
  BY <1>2, <1>10, <1>11
<1>15. Pure!WiresOf(p) \cap Frame(n).used = {}
  <2>1. \A w \in UsedWires(n) : w \notin Pure!WiresOf(p)
    <3>1. TAKE w \in UsedWires(n)
    <3>2. PICK u \in Type : \E v \in stack[n][u].assigned : w = <<u, v>>
      BY WiresAre
    <3>3. PICK v \in stack[n][u].assigned : w = <<u, v>>
      BY <3>2
    <3>4. \A x \in W : x \notin stack[n][t].assigned
      BY <1>1 DEF Unassigned
    <3>. QED  BY <1>6, <3>3, <3>4
  <2>. QED  BY <2>1, FieldsAre
<1>16. Pure!Assign(p, pure)
  <2>1. Pure!Current = Frame(n)
    BY <1>13, <1>14 DEF Pure!Current
  <2>2. Frames' = [Frames EXCEPT ![Len(Frames)] =
                     [values |-> Pure!With(Frames[Len(Frames)].values, pure),
                      used |-> Frames[Len(Frames)].used \cup Pure!WiresOf(p),
                      outputs |-> Frames[Len(Frames)].outputs]]
    BY <1>13, <1>14, Zenon
  <2>3. UNCHANGED failed
    BY <1>1
  <2>. QED  BY <1>15, <2>1, <2>2, <2>3, Zenon DEF Pure!Assign
<1>. QED  BY <1>7, <1>16

LEMMA AssigningMaps ==
  ASSUME NEW p, NEW vals, Assigning(p, vals)
  PROVE  Pure!Next
<1>1. p \in Interval /\ ~failed
  BY DEF Assigning
<1>2. PICK pure \in [Pure!WiresOf(p) -> Value] : Pure!Assign(p, pure)
  BY AssignMaps
<1>. QED  BY <1>1, <1>2, Zenon DEF Pure!Next

LEMMA FailMaps ==
  ASSUME failed = FALSE, failed' = TRUE
  PROVE  Pure!Next
<1>1. Frames' = <<>>
  BY DEF Frames
<1>. QED  BY <1>1, Zenon DEF Pure!Next, Pure!Fail

(* The directives that give values to wires.                                *)
LEMMA GateMaps ==
  ASSUME TypeOK, Sound, TypeOK', failed = FALSE, failed' = FALSE,
         NEW t \in Type, NEW out \in Arg, NEW ins, Gate(t, out, ins)
  PROVE  Pure!Next
<1> DEFINE p == [type |-> t, first |-> out, last |-> out]
<1>1. out \in Int /\ out..out = {out} /\ out \in Wire /\ out - out < MaxLength /\ out <= out
  BY CallAssumption DEF Arg, Wire
<1>2. {out} \subseteq Unassigned(Depth, t)
  BY <1>1 DEF Gate, Top, Unassigned
<1>3. MarkTop(t, out, out) /\ UNCHANGED calls
  BY DEF Gate
<1>4. PICK v \in Value : Write(Depth, t, [w \in {out} |-> v])
  BY Zenon DEF Gate, Refused
<1> DEFINE vals == [w \in {out} |-> v]
<1>5. vals \in [out..out -> Value] /\ Write(Depth, t, vals)
  BY <1>1, <1>4
<1>6. p \in Interval /\ p.type = t /\ p.first = out /\ p.last = out
  BY <1>1 DEF Interval
<1> HIDE DEF p, vals
<1>7. Assigning(p, vals)
  BY <1>1, <1>2, <1>3, <1>5, <1>6 DEF Assigning
<1>. QED  BY <1>7, AssigningMaps

LEMMA PublicInMultiMaps ==
  ASSUME TypeOK, Sound, TypeOK', failed = FALSE, failed' = FALSE,
         NEW out \in Interval, NEW n \in 0..LengthOf(out), PublicInMulti(out, n)
  PROVE  Pure!Next
<1>1. /\ out.first .. out.last \subseteq Unassigned(Depth, out.type)
      /\ LengthOf(out) \in Nat /\ out.first + LengthOf(out) - 1 = out.last
  BY FoundOutputs DEF PublicInMulti
<1>2. n = LengthOf(out)
  <2>1. ~(n < LengthOf(out))
    BY DEF PublicInMulti
  <2>. QED  BY <1>1, <2>1
<1>3. PICK vals \in [out.first .. (out.first + n - 1) -> Value] : Write(Depth, out.type, vals)
  BY DEF PublicInMulti
<1>4. vals \in [out.first .. out.last -> Value]
  BY <1>1, <1>2
<1>5. MarkTop(out.type, out.first, out.last) /\ UNCHANGED calls
  BY DEF PublicInMulti
<1>6. Assigning(out, vals)
  BY <1>1, <1>3, <1>4, <1>5 DEF Assigning
<1>. QED  BY <1>6, AssigningMaps

LEMMA PrivateInMultiMaps ==
  ASSUME TypeOK, Sound, TypeOK', failed = FALSE, failed' = FALSE,
         NEW out \in Interval, NEW n \in 0..LengthOf(out), PrivateInMulti(out, n)
  PROVE  Pure!Next
<1>1. /\ out.first .. out.last \subseteq Unassigned(Depth, out.type)
      /\ LengthOf(out) \in Nat /\ out.first + LengthOf(out) - 1 = out.last
      /\ out.last \in 0..TopWire
  BY FoundOutputs DEF PrivateInMulti, Wire
<1>2. n = LengthOf(out)
  <2>1. ~(n < LengthOf(out))
    BY DEF PrivateInMulti
  <2>. QED  BY <1>1, <2>1
<1>3. PICK vals \in [out.first .. (out.first + n - 1) -> Value] : Write(Depth, out.type, vals)
  BY DEF PrivateInMulti
<1>4. vals \in [out.first .. out.last -> Value]
  BY <1>1, <1>2
<1>5. MarkTop(out.type, out.first, (out.first + n - 1) % (TopWire + 1)) /\ UNCHANGED calls
  BY DEF PrivateInMulti
<1>6. (out.first + n - 1) % (TopWire + 1) = out.last
  <2>1. \A g \in 0..TopWire : g % (TopWire + 1) = g
    BY CallAssumption
  <2>. QED  BY <1>1, <1>2, <2>1
<1>7. Assigning(out, vals)
  BY <1>1, <1>3, <1>4, <1>5, <1>6 DEF Assigning
<1>. QED  BY <1>7, AssigningMaps

LEMMA ConvertMaps ==
  ASSUME TypeOK, Sound, TypeOK', failed = FALSE, failed' = FALSE,
         NEW out \in Interval, NEW in \in Interval, Convert(out, in)
  PROVE  Pure!Next
<1>1. out.first .. out.last \subseteq Unassigned(Depth, out.type)
  BY FoundOutputs DEF Convert
<1>2. PICK vals \in [out.first .. out.last -> Value] : Write(Depth, out.type, vals)
  BY DEF Convert
<1>3. MarkTop(out.type, out.first, out.last) /\ UNCHANGED calls
  BY DEF Convert
<1>4. Assigning(out, vals)
  BY <1>1, <1>2, <1>3 DEF Assigning
<1>. QED  BY <1>4, AssigningMaps

LEMMA CopyMultiMaps ==
  ASSUME TypeOK, Sound, TypeOK', failed = FALSE, failed' = FALSE, Checked = TRUE,
         NEW out \in Interval, NEW ins \in Seq(Interval),
         NEW k \in 0..Len(ins), CopyMulti(out, ins, k)
  PROVE  Pure!Next
<1> DEFINE f == out.first
           t == out.type
           done == Copied(out, ins, k)
           read == CopiedValues(out, ins, done)
           vals == [w \in f..(f + done - 1) |-> read[w - f]]
<1>1. /\ f \in Int /\ out.last \in Int
      /\ f..out.last \subseteq Unassigned(Depth, t)
      /\ LengthOf(out) \in Nat /\ f + LengthOf(out) - 1 = out.last
  BY FoundOutputs DEF CopyMulti
<1>2. CopiesActive(out, ins)
  BY DEF CopyMulti, CopiesActive
<1>3. /\ MarkTop(t, f, f + done - 1) /\ ~(k < Len(ins)) /\ UNCHANGED calls
      /\ Write(Depth, t, vals)
      /\ Copied(out, ins, Len(ins)) = LengthOf(out)
  BY DEF CopyMulti
<1>4. read \in [0..(done - 1) -> Value]
  BY <1>2, CopiedValuesAre
<1>5. k = Len(ins)
  BY <1>3
<1>6. done = LengthOf(out)
  BY <1>3, <1>5
<1> HIDE DEF read, done
<1>7. f + done - 1 = out.last
  BY <1>1, <1>6
<1>8. vals \in [f..out.last -> Value]
  <2>1. ASSUME NEW w \in f..(f + done - 1)
        PROVE  read[w - f] \in Value
    <3>1. w - f \in 0..(done - 1)
      BY <1>1, <1>6
    <3>. QED  BY <1>4, <3>1
  <2>. QED  BY <1>7, <2>1
<1> HIDE DEF vals
<1>9. Assigning(out, vals)
  BY <1>1, <1>3, <1>7, <1>8 DEF Assigning
<1>. QED  BY <1>9, AssigningMaps

(* A deletion: the wires go, and what the others refer to stays.            *)
LEMMA DeleteMaps ==
  ASSUME TypeOK, Sound, TypeOK', failed = FALSE, failed' = FALSE,
         NEW p \in Interval, NEW last \in (p.first - 1) .. p.last, Delete(p, last)
  PROVE  Pure!Next
<1>0. PICK n \in Nat : n = Depth
  BY StackFacts
<1> DEFINE t == p.type
           W == p.first .. p.last
           gone == Locations(Depth, t, p.first .. last)
           old == Frame(n).values
           new == [values |-> [w \in (DOMAIN old) \ Pure!WiresOf(p) |-> old[w]],
                   used |-> Frame(n).used, outputs |-> Frame(n).outputs]
<1>1. /\ t \in Type /\ p.first \in Int /\ p.last \in Int /\ p.first <= p.last /\ last \in Int
      /\ n \in DOMAIN stack /\ DOMAIN stack = 1..n /\ n \in 1..n /\ n # 0
  BY <1>0, IntervalsAre, StackFacts
<1>2. /\ W \subseteq stack[n][t].active /\ UNCHANGED calls
      /\ memory' = [loc \in (DOMAIN memory) \ gone |-> memory[loc]]
      /\ ~(last < p.last)
  BY <1>0 DEF Delete, Top
<1>3. last = p.last
  BY <1>1, <1>2
<1>4. /\ Depth' = n
      /\ \A d \in DOMAIN stack, u \in Type :
           /\ stack'[d][u].mapped = stack[d][u].mapped
           /\ stack'[d][u].firstLocal = stack[d][u].firstLocal
           /\ stack'[d][u].assigned = stack[d][u].assigned
           /\ stack'[d][u].active = stack[d][u].active \ (IF d = n /\ u = t THEN W ELSE {})
  BY <1>0, <1>3, DeleteIs
<1>5. ASSUME NEW d \in DOMAIN stack, NEW u \in Type
      PROVE  /\ ~(d = n /\ u = t) => stack'[d][u].active = stack[d][u].active
             /\ d = n /\ u = t => stack'[d][u].active = stack[d][u].active \ W
             /\ stack'[d][u].assigned = stack[d][u].assigned
             /\ \A w : LocationOf(d, u, w)' = LocationOf(d, u, w)
  <2> DEFINE V == IF d = n /\ u = t THEN W ELSE {}
  <2>1. stack'[d][u].active = stack[d][u].active \ V
    BY <1>4
  <2>2. /\ d = n /\ u = t => V = W
        /\ ~(d = n /\ u = t) => V = {}
    BY Zenon
  <2> HIDE DEF V
  <2>3. \A w : LocationOf(d, u, w)' = LocationOf(d, u, w)
    BY <1>4, SameLayout DEF LocationOf
  <2>. QED  BY <1>4, <2>1, <2>2, <2>3
<1> HIDE DEF gone
<1>6. ASSUME NEW d \in DOMAIN stack, NEW u \in Type, NEW w \in stack'[d][u].active
      PROVE  memory'[LocationOf(d, u, w)] = memory[LocationOf(d, u, w)]
  <2>1. ActiveIn(DOMAIN memory)
    BY DEF Sound
  <2>2. LocationOf(d, u, w)' \in (DOMAIN memory) \ gone
    BY <2>1, DeleteActive DEF gone
  <2>. QED  BY <1>2, <1>5, <2>2
<1>7. \A x : x \in Pure!WiresOf(p) <=> \E v \in W : x = <<t, v>>
  BY DEF Pure!WiresOf
<1> HIDE DEF W, t
<1>8. ASSUME NEW d \in 1..(n - 1)
      PROVE  Frame(d)' = Frame(d)
  <2>1. d \in DOMAIN stack /\ d # n
    BY <1>1
  <2>2. \A u \in Type : /\ stack'[d][u].active = stack[d][u].active
                        /\ stack'[d][u].assigned = stack[d][u].assigned
    BY <1>5, <2>1
  <2>3. \A u \in Type : \A w \in stack[d][u].active :
          /\ LocationOf(d, u, w)' = LocationOf(d, u, w)
          /\ memory'[LocationOf(d, u, w)] = memory[LocationOf(d, u, w)]
    BY <1>5, <1>6, <2>1, <2>2
  <2>4. OutputsAt(d)' = OutputsAt(d)
    BY <1>2 DEF OutputsAt
  <2>. QED  BY <2>2, <2>3, <2>4, FrameKept
<1>9. ActiveWires(n)' = ActiveWires(n) \ Pure!WiresOf(p)
  <2>1. ASSUME NEW w
        PROVE  w \in ActiveWires(n)' <=> w \in ActiveWires(n) \ Pure!WiresOf(p)
    <3>1. /\ w \in ActiveWires(n)' <=> \E u \in Type : \E v \in stack'[n][u].active : w = <<u, v>>
          /\ w \in ActiveWires(n) <=> \E u \in Type : \E v \in stack[n][u].active : w = <<u, v>>
      BY WiresAre
    <3>2. \A u \in Type : u # t => stack'[n][u].active = stack[n][u].active
      BY <1>1, <1>5, Zenon
    <3>3. stack'[n][t].active = stack[n][t].active \ W
      BY <1>1, <1>5, Zenon
    <3>. QED  BY <1>1, <1>7, <3>1, <3>2, <3>3
  <2>. QED  BY <2>1
<1>10. UsedWires(n)' = UsedWires(n)
  <2>1. \A w : w \in UsedWires(n)' <=> w \in UsedWires(n)
    BY <1>1, <1>5, WiresAre
  <2>. QED  BY <2>1
<1>11. OutputsAt(n)' = OutputsAt(n)
  BY <1>2 DEF OutputsAt
<1>12. old = Values(n) /\ Frame(n).used = UsedWires(n) /\ Frame(n).outputs = OutputsAt(n)
  BY FieldsAre
<1>13. Values(n)' = [w \in (DOMAIN old) \ Pure!WiresOf(p) |-> old[w]]
  <2>1. DOMAIN Values(n) = ActiveWires(n)
    BY DEF Values
  <2>2. ASSUME NEW w \in ActiveWires(n)'
        PROVE  memory'[LocationOf(n, w[1], w[2])'] = Values(n)[w]
    <3>1. PICK u \in Type : \E v \in stack'[n][u].active : w = <<u, v>>
      BY WiresAre
    <3>2. PICK v \in stack'[n][u].active : w = <<u, v>>
      BY <3>1
    <3>3. w[1] = u /\ w[2] = v
      BY <3>2
    <3>4. memory'[LocationOf(n, u, v)] = memory[LocationOf(n, u, v)]
      BY <1>1, <1>6
    <3>5. LocationOf(n, u, v)' = LocationOf(n, u, v)
      BY <1>1, <1>5
    <3>6. Values(n)[w] = memory[LocationOf(n, u, v)]
      BY <1>9, <3>3 DEF Values
    <3>. QED  BY <3>3, <3>4, <3>5, <3>6
  <2>3. Values(n)' = [w \in ActiveWires(n)' |-> memory'[LocationOf(n, w[1], w[2])']]
    BY DEF Values
  <2>. QED  BY <1>9, <1>12, <2>1, <2>2, <2>3
<1>14. Frame(n)' = new
  <2>1. Frame(n)' = [values |-> Values(n)', used |-> UsedWires(n)', outputs |-> OutputsAt(n)']
    BY FrameIs
  <2>. QED  BY <1>10, <1>11, <1>12, <1>13, <2>1, Zenon
<1>15. /\ IsList(Frames, n) /\ IsList(Frames', n)
       /\ \A d \in 1..n : Frames[d] = Frame(d)
       /\ \A d \in 1..n : Frames'[d] = Frame(d)'
  BY <1>0, <1>4, FramesAre, NextFramesAre
<1>16. Len(Frames) = n /\ Frames' = [Frames EXCEPT ![Len(Frames)] = Frames'[n]]
  <2> DEFINE g == Frames'
  <2>1. IsList(g, n) /\ \A d \in 1..(n - 1) : g[d] = Frames[d]
    BY <1>1, <1>8, <1>15
  <2> HIDE DEF g
  <2>2. Len(Frames) = n /\ g = [Frames EXCEPT ![Len(Frames)] = g[n]]
    BY <1>1, <1>15, <2>1, LastReplaced
  <2>. QED  BY <2>2 DEF g
<1>17. Frames[n] = Frame(n) /\ Frames'[n] = new
  BY <1>1, <1>14, <1>15
<1>18. Pure!WiresOf(p) \subseteq DOMAIN Frame(n).values
  <2>1. DOMAIN Frame(n).values = ActiveWires(n)
    BY FieldsAre DEF Values
  <2>2. ASSUME NEW w \in Pure!WiresOf(p)
        PROVE  w \in ActiveWires(n)
    BY <1>1, <1>2, <1>7, WiresAre
  <2>. QED  BY <2>1, <2>2
<1>19. Pure!Delete(p)
  <2>1. Pure!Current = Frame(n)
    BY <1>16, <1>17 DEF Pure!Current
  <2>2. Frames' = [Frames EXCEPT ![Len(Frames)] =
                     [values |-> [w \in (DOMAIN Frames[Len(Frames)].values) \ Pure!WiresOf(p) |->
                                    Frames[Len(Frames)].values[w]],
                      used |-> Frames[Len(Frames)].used,
                      outputs |-> Frames[Len(Frames)].outputs]]
    BY <1>16, <1>17, Zenon
  <2>3. UNCHANGED failed
    OBVIOUS
  <2>. QED  BY <1>18, <2>1, <2>2, <2>3, Zenon DEF Pure!Delete
<1>20. ~failed
  OBVIOUS
<1>. QED  BY <1>19, <1>20, Zenon DEF Pure!Next

(* How a call's parameters are renamed.                                     *)
LEMMA StartIs ==
  ASSUME NEW params, NEW k
  PROVE  Pure!Start(params, k) = Place(params, k)
BY Zenon DEF Pure!Start, Place, Lengths, LengthOf

Renamed(params, k, i) ==
  <<<<params[k].type, params[k].first + i>>, <<params[k].type, Place(params, k) + i>>>>

LEMMA RenamingIs ==
  ASSUME NEW params \in Seq(Interval), NEW ks, ks \subseteq 1..Len(params), NEW r
  PROVE  r \in Pure!Renaming(params, ks) <=>
           \E k \in ks : \E i \in 0..(LengthOf(params[k]) - 1) : r = Renamed(params, k, i)
<1>1. \A k \in ks : 0..(params[k].last - params[k].first) = 0..(LengthOf(params[k]) - 1)
  <2>1. TAKE k \in ks
  <2>2. params[k] \in Interval
    OBVIOUS
  <2>3. params[k].last \in Int /\ params[k].first \in Int
    BY <2>2, IntervalsAre
  <2>. QED  BY <2>3 DEF LengthOf
<1>2. r \in Pure!Renaming(params, ks) <=>
        \E k \in ks : \E i \in 0..(params[k].last - params[k].first) :
          r = <<<<params[k].type, params[k].first + i>>,
                <<params[k].type, Pure!Start(params, k) + i>>>>
  BY DEF Pure!Renaming
<1>3. r \in Pure!Renaming(params, ks) <=>
        \E k \in ks : \E i \in 0..(params[k].last - params[k].first) : r = Renamed(params, k, i)
  BY <1>2, StartIs, Zenon DEF Renamed
<1>. QED  BY <1>1, <1>3, Zenon

(* An input of a call is where its caller has it, and active there.         *)
LEMMA InputFrom ==
  ASSUME NEW outs, NEW ins, InvokeRunning(outs, ins),
         NEW k \in (Len(outs) + 1)..(Len(outs) + Len(ins)),
         NEW i \in 0..(LengthOf((outs \o ins)[k]) - 1)
  PROVE  LET p == (outs \o ins)[k]
             v == Place(outs \o ins, k) + i
         IN  /\ p.type \in Type
             /\ p.first + i \in stack[Depth][p.type].active
             /\ v \in stack'[Depth + 1][p.type].active
             /\ CalleeAt(p.type, v) = LocationOf(Depth, p.type, p.first + i)
<1> DEFINE params == outs \o ins
           p == params[k]
           v == Place(params, k) + i
           n == Len(outs) + Len(ins)
           t == p.type
<1>1. /\ Arguments(outs, ins, n) /\ Push(outs, ins, n) /\ outs \in OutputLists /\ ins \in InputLists
  BY DEF InvokeRunning, Arguments
<1>2. Len(outs) \in Nat /\ Len(ins) \in Nat
  BY <1>1, ParamsAre
<1>3. k \in 1..n /\ k > Len(outs) /\ n \in Nat
  BY <1>2
<1>4. p \in Interval /\ p.first .. p.last \subseteq Top(t).active
  BY <1>1, <1>3, ArgumentIs
<1>5. /\ t \in Type /\ p.first \in Nat /\ p.last \in Nat /\ LengthOf(p) \in Nat
  BY <1>4, IntervalsAre
<1>6. Place(params, k) \in Nat
  BY <1>1, <1>3, ArgumentAt
<1> HIDE DEF params, n
<1>7. i \in 0..(LengthOf(p) - 1)
  BY DEF params
<1> HIDE DEF p
<1>8. p.first + i \in p.first .. p.last
  BY <1>5, <1>7 DEF LengthOf
<1>9. v \in Int /\ In(v, params, k) /\ v - Place(params, k) = i
  <2>1. i \in 0..(LengthOf(params[k]) - 1) /\ LengthOf(params[k]) \in Nat
    BY <1>5, <1>7 DEF p
  <2> DEFINE b == Place(params, k)
             l == LengthOf(params[k])
  <2>2. b \in Nat /\ l \in Nat /\ i \in 0..(l - 1) /\ v = b + i
    BY <1>6, <2>1
  <2> HIDE DEF b, l, v
  <2>3. v \in Int /\ b <= v /\ v < b + l /\ v - b = i
    BY <2>2
  <2>. QED  BY <2>3, Zenon DEF In, b, l
<1> HIDE DEF v
<1>10. stack'[Depth + 1][t] = ScopeWith(outs, ins, t, n)
  BY <1>1, <1>5, PushIs
<1>11. LocationIn(ScopeWith(outs, ins, t, n), Depth + 1, t, v) =
         LocationOf(Depth, t, p.first + (v - Place(params, k)))
  BY <1>1, <1>3, <1>9, CalleeLocation DEF p, params
<1>12. CalleeAt(t, v) = LocationOf(Depth, t, p.first + i)
  BY <1>9, <1>10, <1>11 DEF CalleeAt
<1>13. v \in CalleeWires(params, k)
  BY <1>1, <1>3, <1>9, WireOfArgument DEF params
<1>14. v \in ScopeWith(outs, ins, t, n).active
  BY <1>3, <1>13 DEF ScopeWith, params, p
<1>. QED  BY <1>4, <1>5, <1>8, <1>10, <1>12, <1>14 DEF Top, p, v, params

(* What a call sees of its scopes: copies of its caller's inputs.           *)
InputRenaming(outs, ins) ==
  Pure!Renaming(outs \o ins, (Len(outs) + 1)..Len(outs \o ins))

LEMMA InputsRenamed ==
  ASSUME NEW outs, NEW ins, InvokeRunning(outs, ins), NEW n \in Nat, n = Depth,
         NEW m \in Nat, m = n + 1, NEW r \in InputRenaming(outs, ins)
  PROVE  /\ r[1] \in ActiveWires(n) /\ r[2] \in ActiveWires(m)'
         /\ LocationOf(m, r[2][1], r[2][2])' = LocationOf(n, r[1][1], r[1][2])
<1> DEFINE params == outs \o ins
<1>1. outs \in OutputLists /\ ins \in InputLists
  BY DEF InvokeRunning, Arguments
<1>2. /\ params \in Seq(Interval) /\ Len(params) = Len(outs) + Len(ins)
      /\ Len(outs) \in Nat /\ Len(ins) \in Nat
  BY <1>1, ParamsAre
<1>3. (Len(outs) + 1)..Len(params) \subseteq 1..Len(params)
  BY <1>2
<1>4. r \in Pure!Renaming(params, (Len(outs) + 1)..Len(params))
  BY DEF InputRenaming
<1>5. PICK k \in (Len(outs) + 1)..Len(params) :
         \E i \in 0..(LengthOf(params[k]) - 1) : r = Renamed(params, k, i)
  <2> HIDE DEF params
  <2>. QED  BY <1>2, <1>3, <1>4, RenamingIs
<1>6. PICK i \in 0..(LengthOf(params[k]) - 1) : r = Renamed(params, k, i)
  BY <1>5
<1> DEFINE t == params[k].type
           v == Place(params, k) + i
           u == params[k].first + i
<1>7. k \in (Len(outs) + 1)..(Len(outs) + Len(ins))
  BY <1>2, <1>5
<1>8. /\ t \in Type /\ u \in stack[Depth][t].active /\ v \in stack'[Depth + 1][t].active
      /\ CalleeAt(t, v) = LocationOf(Depth, t, u)
  BY <1>7, InputFrom
<1>9. r = <<<<t, u>>, <<t, v>>>>
  BY <1>6 DEF Renamed
<1> HIDE DEF t, v, u
<1>10. /\ r[1] = <<t, u>> /\ r[2] = <<t, v>> /\ r[1][1] = t /\ r[1][2] = u
       /\ r[2][1] = t /\ r[2][2] = v
  BY <1>9
<1>11. CalleeAt(t, v) = LocationOf(m, t, v)'
  BY DEF CalleeAt, LocationOf
<1>12. r[1] \in ActiveWires(n) /\ r[2] \in ActiveWires(m)'
  BY <1>8, <1>10, WiresAre
<1>. QED  BY <1>8, <1>10, <1>11, <1>12

LEMMA InvokeMaps ==
  ASSUME NEW outs, NEW ins, InvokeRunning(outs, ins), TypeOK', failed = FALSE
  PROVE  Pure!Next
<1>1. PICK n \in Nat : n = Depth
  BY InvokeIs
<1>2. PICK m \in Nat : m = n + 1
  OBVIOUS
<1> DEFINE params == outs \o ins
           renamed == InputRenaming(outs, ins)
           inputs == {r[2] : r \in renamed}
           callerWire(w) == (CHOOSE r \in renamed : r[2] = w)[1]
           old == Pure!Current
           new == [values |-> [w \in inputs |-> old.values[callerWire(w)]],
                   used |-> inputs, outputs |-> outs]
           N == Len(outs) + Len(ins)
<1>3. /\ TypeOK /\ Depth' = m /\ DOMAIN stack = 1..n /\ n \in DOMAIN stack /\ n # 0
      /\ \A d \in DOMAIN stack, t \in Type :
           /\ stack'[d][t] = stack[d][t]
           /\ \A w : LocationOf(d, t, w)' = LocationOf(d, t, w)
      /\ calls'[n] = outs /\ DOMAIN calls = 1..(n - 1)
      /\ \A d \in DOMAIN calls : calls'[d] = calls[d]
  BY <1>1, <1>2, InvokeIs
<1>4. /\ memory' = memory /\ failed' = FALSE /\ outs \in OutputLists /\ ins \in InputLists
      /\ Arguments(outs, ins, N) /\ Push(outs, ins, N)
  BY DEF InvokeRunning, Arguments
<1>5. /\ params \in Seq(Interval) /\ Len(params) = N /\ Len(outs) \in Nat /\ Len(ins) \in Nat
      /\ N \in Nat
  BY <1>4, ParamsAre
<1>6. ASSUME NEW d \in 1..n
      PROVE  Frame(d)' = Frame(d)
  <2>1. /\ d \in DOMAIN stack /\ d \in Nat
        /\ \A t \in Type : /\ stack'[d][t].active = stack[d][t].active
                           /\ stack'[d][t].assigned = stack[d][t].assigned
    BY <1>3
  <2>2. \A t \in Type : \A w \in stack[d][t].active :
          /\ LocationOf(d, t, w)' = LocationOf(d, t, w)
          /\ memory'[LocationOf(d, t, w)] = memory[LocationOf(d, t, w)]
    BY <1>3, <1>4, <2>1
  <2>3. d # 1 => d - 1 \in DOMAIN calls
    BY <1>3
  <2>4. OutputsAt(d)' = OutputsAt(d)
    BY <1>3, <2>3 DEF OutputsAt
  <2>. QED  BY <2>1, <2>2, <2>4, FrameKept
<1>7. ASSUME NEW r \in renamed
      PROVE  /\ r[1] \in ActiveWires(n) /\ r[2] \in ActiveWires(m)'
             /\ LocationOf(m, r[2][1], r[2][2])' = LocationOf(n, r[1][1], r[1][2])
  BY <1>1, <1>2, InputsRenamed
<1>8. \A t \in Type : stack'[m][t] = ScopeWith(outs, ins, t, N)
  BY <1>1, <1>2, <1>4, PushIs
<1>9. ASSUME NEW w \in ActiveWires(m)'
      PROVE  w \in inputs
  <2>1. PICK t \in Type : \E v \in stack'[m][t].active : w = <<t, v>>
    BY WiresAre
  <2>2. PICK v \in stack'[m][t].active : w = <<t, v>>
    BY <2>1
  <2>3. PICK k \in 1..N : params[k].type = t /\ k > Len(outs) /\ v \in CalleeWires(params, k)
    <3>1. v \in ScopeWith(outs, ins, t, N).active
      BY <1>8, <2>2
    <3>. QED  BY <3>1 DEF ScopeWith
  <2>4. Place(params, k) \in Nat /\ LengthOf(params[k]) \in Nat
    BY <1>4, ArgumentAt, <2>3
  <2> DEFINE i == v - Place(params, k)
  <2>5. i \in 0..(LengthOf(params[k]) - 1) /\ v = Place(params, k) + i
    BY <2>3, <2>4 DEF CalleeWires
  <2>6. k \in (Len(outs) + 1)..Len(params) /\ (Len(outs) + 1)..Len(params) \subseteq 1..Len(params)
    BY <1>5, <2>3
  <2> HIDE DEF i, params, N
  <2> DEFINE r == Renamed(params, k, i)
  <2>7. r[2] = w
    BY <2>2, <2>3, <2>5 DEF Renamed
  <2> HIDE DEF r
  <2>8. \E j \in (Len(outs) + 1)..Len(params) :
          \E x \in 0..(LengthOf(params[j]) - 1) : r = Renamed(params, j, x)
    BY <2>5, <2>6 DEF r
  <2>9. r \in Pure!Renaming(params, (Len(outs) + 1)..Len(params))
    BY <1>5, <2>6, <2>8, RenamingIs
  <2>10. r \in renamed
    BY <2>9 DEF InputRenaming, params
  <2>. QED  BY <2>7, <2>10
<1> HIDE DEF renamed
<1>10. ActiveWires(m)' = inputs
  BY <1>7, <1>9
<1>11. UsedWires(m)' = inputs
  <2>1. \A t \in Type : stack'[m][t].assigned = stack'[m][t].active
    <3>1. TAKE t \in Type
    <3>2. ScopeWith(outs, ins, t, N).assigned = ScopeWith(outs, ins, t, N).active
      BY DEF ScopeWith
    <3>. QED  BY <1>8, <3>2, Zenon
  <2>2. \A w : w \in UsedWires(m)' <=> w \in ActiveWires(m)'
    BY <2>1, WiresAre
  <2>. QED  BY <1>10, <2>2
<1>12. OutputsAt(m)' = outs
  <2>1. m # 1 /\ m - 1 = n
    BY <1>3, <1>2
  <2>. QED  BY <1>3, <2>1 DEF OutputsAt
<1>13. /\ IsList(Frames, n) /\ IsList(Frames', m)
       /\ \A d \in 1..n : Frames[d] = Frame(d)
       /\ \A d \in 1..m : Frames'[d] = Frame(d)'
  BY <1>1, <1>3, <1>4, FramesAre, NextFramesAre
<1>14. m \in 1..m /\ n \in 1..n /\ \A d \in 1..n : d \in 1..m
  BY <1>3, <1>2
<1>15. Len(Frames) = n /\ Frames' = Append(Frames, Frames'[m])
  <2> DEFINE g == Frames'
  <2>1. IsList(g, n + 1) /\ \A d \in 1..n : g[d] = Frames[d]
    BY <1>2, <1>6, <1>13, <1>14
  <2> HIDE DEF g
  <2>2. Len(Frames) = n /\ g = Append(Frames, g[n + 1])
    BY <1>13, <2>1, LastAdded
  <2>. QED  BY <1>2, <2>2 DEF g
<1>16. old = Frame(n)
  BY <1>13, <1>14, <1>15 DEF Pure!Current
<1> HIDE DEF old
<1>17. old.values = Values(n) /\ DOMAIN old.values = ActiveWires(n)
  BY <1>16, FieldsAre DEF Values
<1>18. ASSUME NEW w \in inputs
       PROVE  memory'[LocationOf(m, w[1], w[2])'] = old.values[callerWire(w)]
  <2> DEFINE c == CHOOSE r \in renamed : r[2] = w
  <2>1. c \in renamed /\ c[2] = w
    BY DEF inputs
  <2> HIDE DEF c
  <2>2. /\ c[1] \in ActiveWires(n)
        /\ LocationOf(m, w[1], w[2])' = LocationOf(n, c[1][1], c[1][2])
    BY <1>7, <2>1
  <2>3. Values(n)[c[1]] = memory[LocationOf(n, c[1][1], c[1][2])]
    BY <2>2 DEF Values
  <2>. QED  BY <1>4, <1>17, <2>2, <2>3 DEF c
<1>19. Values(m)' = [w \in inputs |-> old.values[callerWire(w)]]
  <2>1. Values(m)' = [w \in ActiveWires(m)' |-> memory'[LocationOf(m, w[1], w[2])']]
    BY DEF Values
  <2> HIDE DEF inputs, callerWire
  <2>. QED  BY <1>10, <1>18, <2>1
<1> HIDE DEF inputs, callerWire
<1>20. Frame(m)' = new
  BY <1>11, <1>12, <1>19, FrameIs, Zenon
<1>21. Frames'[m] = new
  BY <1>20, <1>13, <1>14
<1>22. Pure!Call(outs, ins)
  <2>2. \A r \in renamed : r[1] \in DOMAIN old.values
    BY <1>7, <1>17
  <2>3. Frames' = Append(Frames,
          [values |-> [w \in inputs |-> old.values[callerWire(w)]],
           used |-> inputs, outputs |-> outs])
    BY <1>15, <1>21
  <2>4. UNCHANGED failed
    BY <1>4
  <2>. QED  BY <2>2, <2>3, <2>4, Zenon
            DEF Pure!Call, InputRenaming, renamed, inputs, callerWire, old
<1>23. ~failed
  OBVIOUS
<1>. QED  BY <1>4, <1>22, <1>23, Zenon DEF Pure!Next

(* What a return sees of its scopes: the callee's outputs, copied to wires  *)
(* that its caller has not assigned.                                        *)
OutputRenaming(outs) == Pure!Renaming(outs, DOMAIN outs)

LEMMA OutputRenamed ==
  ASSUME NEW outs, Returning(outs), NEW r
  PROVE  r \in OutputRenaming(outs) <=>
           \E k \in DOMAIN outs : \E i \in 0..(LengthOf(outs[k]) - 1) : r = Renamed(outs, k, i)
<1>1. outs \in Seq(Interval) /\ DOMAIN outs \subseteq 1..Len(outs)
  BY ReturningIs
<1>. QED  BY <1>1, RenamingIs DEF OutputRenaming

LEMMA OutputsRenamed ==
  ASSUME NEW outs, Returning(outs), NEW n \in Nat, n = Depth,
         NEW c \in Nat, c = n - 1, NEW r \in OutputRenaming(outs)
  PROVE  /\ \E t \in Type : \E v \in OutputsOf(outs, t) :
              r[1] = <<t, v>> /\ v \in Unassigned(c, t)
         /\ r[2] \in ActiveWires(n)
         /\ LocationOf(n, r[2][1], r[2][2]) = LocationOf(c, r[1][1], r[1][2])
<1>1. /\ outs \in Seq(Interval) /\ DOMAIN calls = 1..(n - 1) /\ outs = calls[c] /\ n >= 2
      /\ n \in Nat
  BY ReturningIs
<1>2. PICK k \in DOMAIN outs :
         \E i \in 0..(LengthOf(outs[k]) - 1) : r = Renamed(outs, k, i)
  BY OutputRenamed
<1>3. PICK i \in 0..(LengthOf(outs[k]) - 1) : r = Renamed(outs, k, i)
  BY <1>2
<1> DEFINE t == outs[k].type
           v == Place(outs, k) + i
           u == outs[k].first + i
<1>4. /\ outs[k] \in Interval /\ k \in 1..Len(outs)
  BY <1>1, <1>2
<1>5. /\ t \in Type /\ outs[k].first \in Nat /\ outs[k].last \in Nat
      /\ LengthOf(outs[k]) \in Nat /\ Place(outs, k) \in Nat
  <2>1. Place(outs, k) \in Nat
    BY <1>1, <1>4, PlaceFacts
  <2>. QED  BY <1>4, <2>1, IntervalsAre
<1>6. u \in outs[k].first .. outs[k].last
  BY <1>3, <1>5 DEF LengthOf
<1>7. v \in Place(outs, k) .. (Place(outs, k) + LengthOf(outs[k]) - 1)
  BY <1>3, <1>5
<1>8. v \in stack[n][t].active
  BY <1>2, <1>7 DEF Returning, Delivered, Top
<1>9. c \in DOMAIN calls /\ c + 1 = n
  BY <1>1
<1>10. Linked(outs, c)
  BY <1>1, <1>9 DEF Returning, Sound
<1>11. LocationOf(c + 1, t, v) = LocationOf(c, t, u)
  BY <1>2, <1>3, <1>10 DEF Linked
<1>12. u \in Unassigned(c, t)
  BY <1>2, <1>6, <1>10 DEF Linked
<1>13. u \in OutputsOf(outs, t)
  BY <1>2, <1>6 DEF OutputsOf
<1>14. r = <<<<t, u>>, <<t, v>>>>
  BY <1>3 DEF Renamed
<1> HIDE DEF t, v, u
<1>15. /\ r[1] = <<t, u>> /\ r[2] = <<t, v>> /\ r[1][1] = t /\ r[1][2] = u
       /\ r[2][1] = t /\ r[2][2] = v
  BY <1>14
<1>16. r[2] \in ActiveWires(n)
  BY <1>5, <1>8, <1>15, WiresAre
<1>. QED  BY <1>5, <1>9, <1>11, <1>12, <1>13, <1>15, <1>16

LEMMA OutputsFromAll ==
  ASSUME NEW outs, Returning(outs), NEW t \in Type, NEW v \in OutputsOf(outs, t)
  PROVE  \E r \in OutputRenaming(outs) : r[1] = <<t, v>>
<1>1. outs \in Seq(Interval)
  BY ReturningIs
<1>2. PICK k \in DOMAIN outs : outs[k].type = t /\ v \in outs[k].first .. outs[k].last
  BY DEF OutputsOf
<1>3. outs[k].first \in Nat /\ outs[k].last \in Nat
  BY <1>1, <1>2, IntervalsAre
<1> DEFINE i == v - outs[k].first
           r == Renamed(outs, k, i)
<1>4. i \in 0..(LengthOf(outs[k]) - 1) /\ outs[k].first + i = v
  BY <1>2, <1>3 DEF LengthOf
<1>5. r[1] = <<t, v>>
  BY <1>2, <1>4 DEF Renamed
<1> HIDE DEF i
<1>6. r \in OutputRenaming(outs)
  <2> HIDE DEF r
  <2>1. \E x \in 0..(LengthOf(outs[k]) - 1) : r = Renamed(outs, k, x)
    BY <1>4 DEF r
  <2>. QED  BY <2>1, OutputRenamed
<1>. QED  BY <1>5, <1>6

LEMMA OutputsApart ==
  ASSUME NEW outs, Returning(outs), NEW r \in OutputRenaming(outs),
         NEW s \in OutputRenaming(outs), r[1] = s[1]
  PROVE  r = s
<1>1. /\ outs \in Seq(Interval) /\ Depth \in Nat /\ Depth >= 2
      /\ outs = calls[Depth - 1] /\ DOMAIN calls = 1..(Depth - 1)
  BY ReturningIs
<1>2. Disjoint(outs)
  BY <1>1 DEF Returning, Sound, Linked
<1>3. PICK j \in DOMAIN outs :
         \E i \in 0..(LengthOf(outs[j]) - 1) : r = Renamed(outs, j, i)
  BY OutputRenamed
<1>4. PICK x \in 0..(LengthOf(outs[j]) - 1) : r = Renamed(outs, j, x)
  BY <1>3
<1>5. PICK k \in DOMAIN outs :
         \E i \in 0..(LengthOf(outs[k]) - 1) : s = Renamed(outs, k, i)
  BY OutputRenamed
<1>6. PICK y \in 0..(LengthOf(outs[k]) - 1) : s = Renamed(outs, k, y)
  BY <1>5
<1>7. /\ outs[j].first \in Nat /\ outs[j].last \in Nat
      /\ outs[k].first \in Nat /\ outs[k].last \in Nat
  BY <1>1, <1>3, <1>5, IntervalsAre
<1>8. outs[j].type = outs[k].type /\ outs[j].first + x = outs[k].first + y
  <2>1. r[1] = <<outs[j].type, outs[j].first + x>> /\ s[1] = <<outs[k].type, outs[k].first + y>>
    BY <1>4, <1>6 DEF Renamed
  <2>2. \A a, b, c, d : <<a, b>> = <<c, d>> => a = c /\ b = d
    OBVIOUS
  <2>3. <<outs[j].type, outs[j].first + x>> = <<outs[k].type, outs[k].first + y>>
    BY <2>1, Zenon
  <2>. QED  BY <2>2, <2>3, Zenon
<1>9. /\ outs[j].first + x \in outs[j].first .. outs[j].last
      /\ outs[k].first + y \in outs[k].first .. outs[k].last
  BY <1>4, <1>6, <1>7 DEF LengthOf
<1>10. j = k
  BY <1>2, <1>8, <1>9 DEF Disjoint
<1>11. x = y
  BY <1>4, <1>6, <1>7, <1>8, <1>10
<1>. QED  BY <1>4, <1>6, <1>10, <1>11

LEMMA ReturnMaps ==
  ASSUME NEW outs, Returning(outs), TypeOK', failed = FALSE, failed' = FALSE
  PROVE  Pure!Next
<1>1. PICK n \in Nat : n = Depth
  BY ReturningIs
<1>2. PICK c \in Nat : c = n - 1
  BY <1>1, ReturningIs
<1> DEFINE callee == Pure!Current
           renamed == Pure!Renaming(callee.outputs, DOMAIN callee.outputs)
           results == {r[1] : r \in renamed}
           calleeWire(w) == (CHOOSE r \in renamed : r[1] = w)[2]
           caller == Frames[Len(Frames) - 1]
           copied == [w \in results |-> callee.values[calleeWire(w)]]
           new == [values |-> Pure!With(caller.values, copied),
                   used |-> caller.used \cup results, outputs |-> caller.outputs]
<1>3. /\ TypeOK /\ Sound /\ Depth' = c /\ DOMAIN stack = 1..n /\ DOMAIN stack' = 1..c /\ n >= 2
      /\ calls[c] = outs /\ DOMAIN calls = 1..c /\ DOMAIN calls' = 1..(c - 1)
      /\ \A d \in 1..(c - 1) : stack'[d] = stack[d] /\ calls'[d] = calls[d]
      /\ n \in 1..n /\ c \in 1..c /\ c \in 1..n /\ c # n
  BY <1>1, <1>2, ReturningIs DEF Returning
<1>4. /\ DOMAIN memory' = {loc \in DOMAIN memory : ~Popped(loc)}
      /\ \A loc \in DOMAIN memory' : memory'[loc] = memory[loc]
  BY DEF Returning, Return
<1>5. ASSUME NEW d \in 1..c, NEW t \in Type
      PROVE  /\ d # c => /\ stack'[d][t].active = stack[d][t].active
                         /\ stack'[d][t].assigned = stack[d][t].assigned
             /\ d = c => /\ stack'[d][t].active = stack[d][t].active \cup OutputsOf(outs, t)
                         /\ stack'[d][t].assigned = stack[d][t].assigned \cup OutputsOf(outs, t)
             /\ \A w : LocationOf(d, t, w)' = LocationOf(d, t, w)
             /\ \A w \in stack'[d][t].active :
                  memory'[LocationOf(d, t, w)] = memory[LocationOf(d, t, w)]
  <2> DEFINE W == IF d = Depth - 1 THEN OutputsOf(outs, t) ELSE {}
  <2>1. /\ stack'[d][t].assigned = stack[d][t].assigned \cup W
        /\ stack'[d][t].active = stack[d][t].active \cup W
        /\ \A w : LocationOf(d, t, w)' = LocationOf(d, t, w)
    BY <1>1, <1>2, ReturnLeaves
  <2>2. (d = c => W = OutputsOf(outs, t)) /\ (d # c => W = {})
    BY <1>1, <1>2, Zenon
  <2> HIDE DEF W
  <2>3. ActiveIn(DOMAIN memory)
    BY <1>3 DEF Sound
  <2>4. \A w \in stack'[d][t].active : LocationOf(d, t, w)' \in {loc \in DOMAIN memory : ~Popped(loc)}
    BY <1>3, <2>3, ReturnActive
  <2>5. \A w \in stack'[d][t].active :
          memory'[LocationOf(d, t, w)] = memory[LocationOf(d, t, w)]
    BY <1>4, <2>1, <2>4
  <2>. QED  BY <2>1, <2>2, <2>5
<1>6. ASSUME NEW d \in 1..(c - 1)
      PROVE  Frame(d)' = Frame(d)
  <2>1. d \in 1..c /\ d # c
    BY <1>3
  <2>2. \A t \in Type : /\ stack'[d][t].active = stack[d][t].active
                        /\ stack'[d][t].assigned = stack[d][t].assigned
    BY <1>5, <2>1
  <2>3. \A t \in Type : \A w \in stack[d][t].active :
          /\ LocationOf(d, t, w)' = LocationOf(d, t, w)
          /\ memory'[LocationOf(d, t, w)] = memory[LocationOf(d, t, w)]
    BY <1>5, <2>1, <2>2
  <2>4. d # 1 => d - 1 \in 1..(c - 1)
    BY <1>3
  <2>5. OutputsAt(d)' = OutputsAt(d)
    BY <1>3, <2>4 DEF OutputsAt
  <2>. QED  BY <2>2, <2>3, <2>5, FrameKept
<1>7. /\ IsList(Frames, n) /\ IsList(Frames', c)
      /\ \A d \in 1..n : Frames[d] = Frame(d)
      /\ \A d \in 1..c : Frames'[d] = Frame(d)'
  BY <1>1, <1>3, FramesAre, NextFramesAre
<1>8. /\ Len(Frames) = n
      /\ Frames' = Append(SubSeq(Frames, 1, Len(Frames) - 2), Frames'[c])
  <2> DEFINE g == Frames'
  <2>1. /\ IsList(g, n - 1) /\ n - 2 = c - 1
        /\ \A d \in 1..(c - 1) : d \in 1..n /\ d \in 1..c
    BY <1>2, <1>3, <1>7
  <2>2. \A d \in 1..(n - 2) : g[d] = Frames[d]
    BY <1>6, <1>7, <2>1
  <2> HIDE DEF g
  <2>3. Len(Frames) = n /\ g = Append(SubSeq(Frames, 1, Len(Frames) - 2), g[n - 1])
    BY <1>3, <1>7, <2>1, <2>2, LastTwoJoined
  <2>. QED  BY <1>2, <2>3 DEF g
<1>9. callee = Frame(n) /\ caller = Frame(c)
  BY <1>2, <1>3, <1>7, <1>8 DEF Pure!Current
<1> HIDE DEF callee, caller
<1>10. /\ callee.values = Values(n) /\ DOMAIN callee.values = ActiveWires(n)
      /\ callee.outputs = outs
      /\ caller.values = Values(c) /\ DOMAIN caller.values = ActiveWires(c)
      /\ caller.used = UsedWires(c) /\ caller.outputs = OutputsAt(c)
  <2>1. n # 1
    BY <1>3
  <2>. QED  BY <1>2, <1>3, <1>9, <2>1, FieldsAre DEF Values, OutputsAt
<1>11. renamed = OutputRenaming(outs)
  BY <1>10 DEF OutputRenaming
<1> HIDE DEF renamed
<1>12. ASSUME NEW r \in renamed
      PROVE  /\ \E t \in Type : \E v \in OutputsOf(outs, t) :
                  r[1] = <<t, v>> /\ v \in Unassigned(c, t)
             /\ r[2] \in ActiveWires(n)
             /\ LocationOf(n, r[2][1], r[2][2]) = LocationOf(c, r[1][1], r[1][2])
  BY <1>1, <1>2, <1>11, OutputsRenamed
<1>13. \A t \in Type : \A v \in OutputsOf(outs, t) : <<t, v>> \in results
  BY <1>11, OutputsFromAll
<1>14. \A r, s \in renamed : r[1] = s[1] => r = s
  BY <1>11, OutputsApart
<1>15. \A w : w \in results <=> \E t \in Type : \E v \in OutputsOf(outs, t) : w = <<t, v>>
  BY <1>12, <1>13
<1>16. results \cap caller.used = {}
  <2>1. ASSUME NEW w \in results, w \in UsedWires(c)
        PROVE  FALSE
    <3>1. PICK r \in renamed : r[1] = w
      OBVIOUS
    <3>2. PICK t \in Type : \E v \in OutputsOf(outs, t) : w = <<t, v>> /\ v \in Unassigned(c, t)
      BY <1>12, <3>1
    <3>3. PICK u \in Type : \E v \in stack[c][u].assigned : w = <<u, v>>
      BY <2>1, WiresAre
    <3>. QED  BY <3>2, <3>3 DEF Unassigned
  <2>. QED  BY <1>10, <2>1
<1> HIDE DEF results, calleeWire
<1>17. ActiveWires(c)' = ActiveWires(c) \cup results /\ UsedWires(c)' = UsedWires(c) \cup results
  <2>1. \A t \in Type : /\ stack'[c][t].active = stack[c][t].active \cup OutputsOf(outs, t)
                        /\ stack'[c][t].assigned = stack[c][t].assigned \cup OutputsOf(outs, t)
    BY <1>3, <1>5
  <2>2. \A w : w \in ActiveWires(c)' <=> w \in ActiveWires(c) \cup results
    BY <1>15, <2>1, WiresAre
  <2>3. \A w : w \in UsedWires(c)' <=> w \in UsedWires(c) \cup results
    BY <1>15, <2>1, WiresAre
  <2>. QED  BY <2>2, <2>3
<1>18. OutputsAt(c)' = OutputsAt(c)
  <2>1. c # 1 => c - 1 \in 1..(c - 1)
    BY <1>3
  <2>. QED  BY <1>3, <2>1 DEF OutputsAt
<1>19. ASSUME NEW w \in ActiveWires(c)'
       PROVE  /\ memory'[LocationOf(c, w[1], w[2])'] = memory[LocationOf(c, w[1], w[2])]
  <2>1. PICK t \in Type : \E v \in stack'[c][t].active : w = <<t, v>>
    BY WiresAre
  <2>2. PICK v \in stack'[c][t].active : w = <<t, v>>
    BY <2>1
  <2>3. w[1] = t /\ w[2] = v
    BY <2>2
  <2>. QED  BY <1>3, <1>5, <2>3
<1>20. ASSUME NEW w \in ActiveWires(c)'
       PROVE  memory'[LocationOf(c, w[1], w[2])'] =
                IF w \in DOMAIN copied THEN copied[w] ELSE caller.values[w]
  <2>1. DOMAIN copied = results
    OBVIOUS
  <2>2. CASE w \in results
    <3> DEFINE r == CHOOSE r \in renamed : r[1] = w
    <3>1. r \in renamed /\ r[1] = w
      BY <2>2 DEF results
    <3>2. copied[w] = callee.values[r[2]]
      BY <2>2 DEF calleeWire
    <3> HIDE DEF r
    <3>3. r[2] \in ActiveWires(n) /\ LocationOf(n, r[2][1], r[2][2]) = LocationOf(c, w[1], w[2])
      BY <1>12, <3>1
    <3>4. Values(n)[r[2]] = memory[LocationOf(n, r[2][1], r[2][2])]
      BY <3>3 DEF Values
    <3> HIDE DEF copied
    <3>. QED  BY <1>10, <1>19, <2>1, <2>2, <3>2, <3>3, <3>4
  <2>3. CASE w \notin results
    <3>1. w \in ActiveWires(c)
      BY <1>17, <2>3
    <3>2. Values(c)[w] = memory[LocationOf(c, w[1], w[2])]
      BY <3>1 DEF Values
    <3> HIDE DEF copied
    <3>. QED  BY <1>10, <1>19, <2>1, <2>3, <3>2
  <2>. QED  BY <2>2, <2>3
<1>21. Values(c)' = Pure!With(caller.values, copied)
  <2>1. DOMAIN copied = results
    OBVIOUS
  <2>2. Values(c)' = [w \in ActiveWires(c)' |-> memory'[LocationOf(c, w[1], w[2])']]
    BY DEF Values
  <2> HIDE DEF copied
  <2>. QED  BY <1>10, <1>17, <1>20, <2>1, <2>2 DEF Pure!With
<1> HIDE DEF copied
<1>22. Frame(c)' = new
  <2>1. Frame(c)' = [values |-> Values(c)', used |-> UsedWires(c)', outputs |-> OutputsAt(c)']
    BY FrameIs
  <2>. QED  BY <1>10, <1>17, <1>18, <1>21, <2>1, Zenon
<1>23. Pure!Return
  <2>1. Len(Frames) > 1
    BY <1>3, <1>8
  <2>2. \A r \in renamed : r[2] \in DOMAIN callee.values
    BY <1>10, <1>12
  <2>3. Frames' = Append(SubSeq(Frames, 1, Len(Frames) - 2), new)
    BY <1>3, <1>7, <1>8, <1>22, Zenon
  <2>4. UNCHANGED failed
    OBVIOUS
  <2>. QED  BY <1>14, <1>16, <2>1, <2>2, <2>3, <2>4, Zenon
            DEF Pure!Return, renamed, results, calleeWire, callee, caller, copied
<1>24. ~failed
  OBVIOUS
<1>. QED  BY <1>23, <1>24, Zenon DEF Pure!Next

(* All the steps.                                                           *)
LEMMA InitMaps == Init => Pure!Init
<1> SUFFICES ASSUME Init PROVE Pure!Init
  OBVIOUS
<1>1. stack = <<[t \in Type |-> EmptyScope]>> /\ failed = FALSE
  BY DEF Init
<1>2. DOMAIN stack = 1..1 /\ \A t \in Type : stack[1][t] = EmptyScope
  BY <1>1
<1>3. ActiveWires(1) = {} /\ UsedWires(1) = {}
  BY <1>2 DEF ActiveWires, UsedWires, EmptyScope
<1>4. Values(1) = <<>> /\ OutputsAt(1) = <<>>
  BY <1>3 DEF Values, OutputsAt
<1>5. Frame(1) = [values |-> <<>>, used |-> {}, outputs |-> <<>>]
  BY <1>3, <1>4, FrameIs, Zenon
<1>6. Frames = [d \in 1..1 |-> Frame(d)]
  BY <1>1, <1>2, Zenon DEF Frames
<1> DEFINE f == [values |-> <<>>, used |-> {}, outputs |-> <<>>]
<1>7. Frame(1) = f
  BY <1>5
<1> HIDE DEF f
<1>8. Frames = <<f>>
  BY <1>6, <1>7
<1>. QED  BY <1>1, <1>8, Zenon DEF Pure!Init, f

LEMMA StepMaps ==
  ASSUME Checked = TRUE, Held, [Next]_vars
  PROVE  [Pure!Next]_Pure!pureVars
<1>1. TypeOK' /\ failed \in BOOLEAN /\ failed' \in BOOLEAN
  BY HeldStep DEF Held, TypeOK
<1>2. CASE UNCHANGED vars
  <2>1. Frames' = Frames /\ failed' = failed
    BY <1>2, Zenon DEF vars, Frames, Frame, LocationOf, Depth
  <2>. QED  BY <2>1, Zenon DEF Pure!pureVars
<1>3. CASE Next /\ failed = TRUE
  <2>1. Return
    BY <1>3, NextRuns DEF Running
  <2>2. failed' = TRUE
    BY <1>3, <2>1, Zenon DEF Return
  <2>3. Frames' = Frames
    BY <1>3, <2>2 DEF Frames
  <2>. QED  BY <1>3, <2>2, <2>3, Zenon DEF Pure!pureVars
<1>4. CASE failed = FALSE /\ failed' = TRUE
  BY <1>4, FailMaps
<1>5. CASE Next /\ failed = FALSE /\ failed' = FALSE
  <2>1. TypeOK /\ Sound /\ TypeOK' /\ failed = FALSE /\ failed' = FALSE
    BY <1>1, <1>5 DEF Held
  <2>2. CASE \E t \in Type, out \in Arg, ins \in SUBSET Arg :
               Cardinality(ins) <= 2 /\ Gate(t, out, ins)
    BY <2>1, <2>2, GateMaps
  <2>3. CASE \E out \in Interval, n \in 0..MaxLength :
               n <= LengthOf(out) /\ (PublicInMulti(out, n) \/ PrivateInMulti(out, n))
    <3>1. PICK out \in Interval, n \in 0..MaxLength :
                 n <= LengthOf(out) /\ (PublicInMulti(out, n) \/ PrivateInMulti(out, n))
      BY <2>3
    <3>2. n \in 0..LengthOf(out)
      BY <3>1, IntervalsAre, CallAssumption
    <3>. QED  BY <2>1, <3>1, <3>2, PublicInMultiMaps, PrivateInMultiMaps
  <2>4. CASE \E out \in Interval, ins \in InputLists : \E k \in 0..Len(ins) : CopyMulti(out, ins, k)
    <3>1. PICK out \in Interval, ins \in InputLists : \E k \in 0..Len(ins) : CopyMulti(out, ins, k)
      BY <2>4
    <3>2. ins \in Seq(Interval)
      BY ListsAre
    <3>. QED  BY <2>1, <3>1, <3>2, CopyMultiMaps
  <2>5. CASE \E out, in \in Interval : Convert(out, in)
    BY <2>1, <2>5, ConvertMaps
  <2>6. CASE \E p \in Interval : \E last \in (p.first - 1) .. p.last : Delete(p, last)
    BY <2>1, <2>6, DeleteMaps
  <2>7. CASE \E outs \in OutputLists, ins \in InputLists :
               \/ Invoke(outs, ins)
               \/ \E n \in 0..(MaxOutputs + MaxInputs) : InvokeRefused(outs, ins, n)
    <3>1. PICK outs \in OutputLists, ins \in InputLists :
                 \/ Invoke(outs, ins)
                 \/ \E n \in 0..(MaxOutputs + MaxInputs) : InvokeRefused(outs, ins, n)
      BY <2>7
    <3>2. Invoke(outs, ins)
      BY <2>1, <3>1 DEF InvokeRefused, Refused
    <3>3. InvokeRunning(outs, ins)
      BY <2>1, <3>2, InvokeHeld
    <3>. QED  BY <2>1, <3>3, InvokeMaps
  <2>8. CASE Return
    <3>1. Returning(Last(calls))
      BY <2>1, <2>8 DEF Returning, Return
    <3>. QED  BY <2>1, <3>1, ReturnMaps
  <2>9. ~Refuse
    BY <2>1 DEF Refuse, Refused
  <2>. QED  BY <1>5, <2>2, <2>3, <2>4, <2>5, <2>6, <2>7, <2>8, <2>9, Zenon DEF Next
<1>. QED  BY <1>1, <1>2, <1>3, <1>4, <1>5

(* A program whose calls map wires by reference, at any depth, behaves as   *)
(* one whose calls copy their inputs in and their outputs out.              *)
THEOREM CallsArePure ==
  ASSUME Checked = TRUE
  PROVE  Spec => IsPureCalls
<1>1. Held /\ [Next]_vars => Held'
  BY HeldStep
<1>2. Held /\ [Next]_vars => [Pure!Next]_Pure!pureVars
  BY StepMaps
<1>. QED  BY HeldInit, InitMaps, <1>1, <1>2, PTL DEF Spec, IsPureCalls, Pure!Spec
=============================================================================
