-------------------------- MODULE IterPlugin_proofs --------------------------
(***************************************************************************)
(* Proofs about IterPlugin, for maps of any number of parameters, wires    *)
(* and iterations whose places agree (Aligned): every iteration finds its  *)
(* slices, and reads and assigns its own chunks. The argument:             *)
(*   - the signature of the plugin, and where its parameters lie;          *)
(*   - the slices that an iteration maps lie within the parameters behind  *)
(*     them, and apart (Chunk);                                            *)
(*   - the invariant says which wires hold what at each phase;             *)
(*   - one lemma for each action; the theorems put these together.         *)
(***************************************************************************)
EXTENDS IterPlugin, FiniteSetTheorems, SequenceTheorems, WellFoundedInduction, TLAPS

-----------------------------------------------------------------------------
(* Induction over data: a set of numbers that is not empty has a least      *)
(* member, among others the numbers for which a claim fails.                *)

(* A nonempty set of natural numbers has a least member.                    *)
LEMMA LeastNat ==
  ASSUME NEW T, T \subseteq Nat, T # {}
  PROVE  \E x \in T : \A y \in T : x <= y
<1> DEFINE R == OpToRel(<, Nat)
<1>1. \E x \in T : \A y \in T : ~(<<y, x>> \in R)
  BY NatLessThanWellFounded, WFMin
<1>2. \A x, y \in Nat : <<y, x>> \in R <=> y < x
  BY DEF OpToRel
<1> HIDE DEF R
<1>3. PICK x \in T : \A y \in T : ~(<<y, x>> \in R)
  BY <1>1, Zenon
<1>4. ASSUME NEW y \in T
      PROVE  x <= y
  <2>1. x \in Nat /\ y \in Nat
    OBVIOUS
  <2>2. ~(y < x)
    BY <1>2, <1>3, <2>1
  <2>. QED  BY <2>1, <2>2
<1>. QED  BY <1>4

(* f holds the states that N rounds of a loop go through, which a function  *)
(* exists for: what a recursive definition over positions defines.          *)
IteratesAt(f, N, start, step) ==
  \A n \in 0..N : f[n] = IF n = 0 THEN start ELSE step[n][f[n - 1]]

LEMMA IterationAtExists ==
  ASSUME NEW S, NEW start \in S, NEW N \in Nat, NEW step \in [1..N -> [S -> S]]
  PROVE  \E f \in [0..N -> S] : IteratesAt(f, N, start, step)
<1> DEFINE Good(f, n) ==
      /\ f \in [0..n -> S]
      /\ f[0] = start
      /\ \A k \in 1..n : f[k] = step[k][f[k - 1]]
    Failed == {n \in 0..N : ~ \E f : Good(f, n)}
<1>1. Failed = {}
  <2>1. SUFFICES ASSUME Failed # {}
                 PROVE  FALSE
    OBVIOUS
  <2>2. PICK n \in Failed : \A m \in Failed : n <= m
    BY <2>1, LeastNat, Failed \subseteq Nat, Zenon
  <2>3. CASE n = 0
    <3>1. Good([k \in 0..0 |-> start], 0)
      OBVIOUS
    <3>. QED  BY <2>3, <3>1, <2>2
  <2>4. CASE n # 0
    <3>1. n \in Nat /\ n - 1 \in Nat /\ ~(n <= n - 1) /\ n \in 1..N /\ n - 1 \in 0..N
      BY <2>4
    <3>2. PICK f : Good(f, n - 1)
      BY <3>1, <2>2
    <3> DEFINE g == [k \in 0..n |-> IF k < n THEN f[k] ELSE step[n][f[n - 1]]]
    <3>3. \A k \in 0..(n - 1) : f[k] \in S /\ k \in 0..n /\ k < n
      BY <3>1, <3>2
    <3>4. g \in [0..n -> S]
      <4>1. step[n][f[n - 1]] \in S
        BY <3>3, <3>1, n - 1 \in 0..(n - 1)
      <4>2. ASSUME NEW k \in 0..n
            PROVE  (IF k < n THEN f[k] ELSE step[n][f[n - 1]]) \in S
        BY <4>1, <3>3, <3>1
      <4>. QED  BY <4>2
    <3>5. g[0] = start
      BY <3>1, <3>2
    <3>6. ASSUME NEW k \in 1..n
          PROVE  g[k] = step[k][g[k - 1]]
      <4>1. k - 1 \in 0..n /\ k - 1 < n /\ k \in 0..n
        BY <3>1
      <4>2. g[k - 1] = f[k - 1]
        BY <4>1
      <4>3. CASE k < n
        BY <4>1, <4>2, <4>3, <3>2, k \in 1..(n - 1), <3>1
      <4>4. CASE ~(k < n)
        BY <4>1, <4>2, <4>4, k = n, <3>1
      <4>. QED  BY <4>3, <4>4
    <3>7. Good(g, n)
      BY <3>4, <3>5, <3>6
    <3>. QED  BY <3>7, <2>2
  <2>. QED  BY <2>3, <2>4
<1>2. PICK f : Good(f, N)
  BY <1>1, N \in 0..N
<1>3. ASSUME NEW n \in 0..N
      PROVE  f[n] = IF n = 0 THEN start ELSE step[n][f[n - 1]]
  BY <1>2, n # 0 => n \in 1..N
<1>. QED  BY <1>2, <1>3 DEF IteratesAt

(* The joins of the first sequences of a sequence of sequences.             *)
IsJoin(f, ss, S) ==
  /\ f \in [0..Len(ss) -> Seq(S)] /\ f[0] = <<>>
  /\ \A n \in 1..Len(ss) : f[n] = f[n - 1] \o ss[n]

(* FlattenSeq is the last of them.                                          *)
LEMMA FlattenIs ==
  ASSUME NEW S, NEW ss \in Seq(Seq(S))
  PROVE  \E f : IsJoin(f, ss, S) /\ FlattenSeq(ss) = f[Len(ss)]
<1> DEFINE N == Len(ss)
           Q == Seq(S)
<1>1. N \in Nat /\ (\A n \in 1..N : ss[n] \in Q) /\ <<>> \in Q
  OBVIOUS
<1>2. CASE N = 0
  <2>1. ss = <<>> /\ FlattenSeq(ss) = <<>>
    BY <1>2 DEF FlattenSeq
  <2>2. IsJoin([n \in 0..0 |-> <<>>], ss, S)
    BY <1>2 DEF IsJoin
  <2>. QED  BY <1>2, <2>1, <2>2
<1>3. CASE N # 0
  <2> DEFINE step == [n \in 1..N |-> [s \in Q |-> s \o ss[n]]]
             Def(f) == f = [n \in 1..N |-> IF n = 1 THEN ss[n] ELSE f[n - 1] \o ss[n]]
             g == CHOOSE f : Def(f)
  <2>1. \A s, t \in Q : s \o t \in Q
    OBVIOUS
  <2>2. step \in [1..N -> [Q -> Q]] /\ \A n \in 1..N, s \in Q : step[n][s] = s \o ss[n]
    BY <1>1, <2>1
  <2>3. \A s \in Q : <<>> \o s = s
    OBVIOUS
  <2> HIDE DEF N, Q, step
  <2>4. PICK f \in [0..N -> Q] : IteratesAt(f, N, <<>>, step)
    BY <1>1, <2>2, IterationAtExists, Zenon
  <2>5. f[0] = <<>> /\ \A n \in 1..N : f[n] = f[n - 1] \o ss[n] /\ f[n - 1] \in Q /\ n - 1 \in 0..N
    <3>1. 0 \in 0..N
      BY <1>1
    <3>2. f[0] = <<>>
      BY <2>4, <3>1 DEF IteratesAt
    <3>3. ASSUME NEW n \in 1..N
          PROVE  f[n] = f[n - 1] \o ss[n] /\ f[n - 1] \in Q /\ n - 1 \in 0..N
      <4>1. n \in 0..N /\ n # 0 /\ n - 1 \in 0..N
        BY <1>1
      <4>2. f[n] = step[n][f[n - 1]]
        BY <2>4, <4>1 DEF IteratesAt
      <4>. QED  BY <2>2, <2>4, <4>1, <4>2
    <3>. QED  BY <3>2, <3>3
  <2>6. Def([n \in 1..N |-> f[n]])
    <3> DEFINE h == [n \in 1..N |-> f[n]]
    <3>1. ASSUME NEW n \in 1..N
          PROVE  h[n] = IF n = 1 THEN ss[n] ELSE h[n - 1] \o ss[n]
      <4>1. CASE n = 1
        <5>1. f[n] = f[n - 1] \o ss[n] /\ ss[n] \in Q
          BY <1>1, <2>5
        <5>2. n - 1 = 0
          BY <4>1
        <5>3. f[n] = <<>> \o ss[n]
          BY <2>5, <5>1, <5>2
        <5>. QED  BY <2>3, <4>1, <5>1, <5>3
      <4>2. CASE n # 1
        <5>1. n - 1 \in 1..N
          BY <1>1, <4>2
        <5>2. h[n - 1] = f[n - 1] /\ h[n] = f[n]
          BY <5>1
        <5>3. h[n] = h[n - 1] \o ss[n]
          BY <2>5, <5>2
        <5>. QED  BY <4>2, <5>3
      <4>. QED  BY <4>1, <4>2
    <3>2. h = [n \in 1..N |-> h[n]]
      OBVIOUS
    <3> HIDE DEF h
    <3>3. h = [n \in 1..N |-> IF n = 1 THEN ss[n] ELSE h[n - 1] \o ss[n]]
      BY <3>1, <3>2
    <3>4. Def(h)
      BY <3>3
    <3>. QED  BY <3>4 DEF h
  <2>7. Def(g)
    BY <2>6, Zenon
  <2> HIDE DEF g
  <2>8. \A n \in 1..N : g[n] = IF n = 1 THEN ss[n] ELSE g[n - 1] \o ss[n]
    BY <2>7
  <2> HIDE DEF Def
  <2>9. FlattenSeq(ss) = g[N]
    BY <1>3 DEF FlattenSeq, g, Def, N
  <2>10. \A n \in 1..N : g[n] = f[n]
    <3> DEFINE Failed == {n \in 1..N : g[n] # f[n]}
    <3>1. SUFFICES ASSUME Failed # {}
                   PROVE  FALSE
      OBVIOUS
    <3>2. PICK n \in Failed : \A m \in Failed : n <= m
      BY <1>1, <3>1, LeastNat, Failed \subseteq Nat, Zenon
    <3>3. CASE n = 1
      <4>1. n \in 1..N /\ n - 1 = 0
        BY <3>2, <3>3
      <4>2. f[n] = f[n - 1] \o ss[n] /\ ss[n] \in Q /\ g[n] = ss[n]
        BY <1>1, <2>5, <2>8, <3>3, <4>1
      <4>3. f[n] = <<>> \o ss[n]
        BY <2>5, <4>1, <4>2
      <4>. QED  BY <2>3, <3>2, <4>2, <4>3
    <3>4. CASE n # 1
      <4>1. n - 1 \in 1..N /\ ~(n <= n - 1) /\ n \in 1..N
        BY <1>1, <3>2, <3>4
      <4>2. g[n - 1] = f[n - 1]
        BY <3>2, <4>1
      <4>. QED  BY <2>5, <2>8, <3>2, <3>4, <4>1, <4>2
    <3>. QED  BY <3>3, <3>4
  <2>11. N \in 1..N
    BY <1>1, <1>3
  <2>12. IsJoin(f, ss, S)
    BY <2>4, <2>5 DEF IsJoin, N, Q
  <2>. QED  BY <2>9, <2>10, <2>11, <2>12 DEF N
<1>. QED  BY <1>2, <1>3

(* Each sequence lies in the join of all behind those before it.            *)
JoinAt(f, ss, k) ==
  \A x \in 1..Len(ss[k]) :
    /\ Len(f[k - 1]) + x \in 1..Len(f[Len(ss)])
    /\ f[Len(ss)][Len(f[k - 1]) + x] = ss[k][x]

LEMMA JoinKeeps ==
  ASSUME NEW S, NEW ss \in Seq(Seq(S)), NEW f, IsJoin(f, ss, S), NEW k \in 1..Len(ss)
  PROVE  JoinAt(f, ss, k)
<1> DEFINE N == Len(ss)
           b == Len(f[k - 1])
           Kept(n) == \A x \in 1..Len(ss[k]) : b + x \in 1..Len(f[n]) /\ f[n][b + x] = ss[k][x]
           Failed == {n \in k..N : ~ Kept(n)}
<1>0. N \in Nat /\ k \in Nat /\ \A n \in 1..N : ss[n] \in Seq(S)
  OBVIOUS
<1>1. /\ N \in Nat /\ k \in Nat /\ (\A n \in 1..N : ss[n] \in Seq(S))
      /\ f \in [0..N -> Seq(S)] /\ \A n \in 1..N : f[n] = f[n - 1] \o ss[n]
  BY <1>0 DEF IsJoin
<1>2. \A n \in 0..N : f[n] \in Seq(S)
  BY <1>1
<1>3. f[k - 1] \in Seq(S) /\ ss[k] \in Seq(S) /\ b \in Nat
  BY <1>1, <1>2, k - 1 \in 0..N
<1>4. \A s, r \in Seq(S) : \A x \in 1..Len(r) :
        Len(s) + x \in 1..Len(s \o r) /\ (s \o r)[Len(s) + x] = r[x]
  OBVIOUS
<1>5. \A s, r \in Seq(S) : \A y \in 1..Len(s) : y \in 1..Len(s \o r) /\ (s \o r)[y] = s[y]
  OBVIOUS
<1> HIDE DEF N, b
<1>6. Kept(k)
  <2>1. f[k] = f[k - 1] \o ss[k]
    BY <1>1 DEF N
  <2>2. PICK r \in Seq(S) : r = f[k - 1]
    BY <1>3
  <2>3. PICK q \in Seq(S) : q = ss[k]
    BY <1>3
  <2>4. \A x \in 1..Len(q) : Len(r) + x \in 1..Len(r \o q) /\ (r \o q)[Len(r) + x] = q[x]
    BY <1>4
  <2>. QED  BY <2>1, <2>2, <2>3, <2>4 DEF b
<1>7. Failed = {}
  <2>1. SUFFICES ASSUME Failed # {}
                 PROVE  FALSE
    OBVIOUS
  <2>2. PICK n \in Failed : \A i \in Failed : n <= i
    BY <1>1, <2>1, LeastNat, Failed \subseteq Nat, Zenon
  <2>3. n \in k..N /\ ~ Kept(n)
    OBVIOUS
  <2>4. n # k
    BY <1>6, <2>3
  <2>5. n - 1 \in k..N /\ ~(n <= n - 1) /\ n \in 1..N /\ n - 1 \in 0..N
    BY <1>1, <2>3, <2>4
  <2>6. Kept(n - 1)
    BY <2>2, <2>5
  <2>7. f[n] = f[n - 1] \o ss[n] /\ f[n - 1] \in Seq(S) /\ ss[n] \in Seq(S)
    BY <1>1, <1>2, <2>5
  <2>8. Kept(n)
    BY <1>5, <2>6, <2>7, ZenonT(30)
  <2>. QED  BY <2>3, <2>8
<1>8. Kept(N)
  BY <1>1, <1>7, N \in k..N DEF N
<1>. QED  BY <1>8 DEF JoinAt, b, N

(* RemoveAt shifts the elements after position i back by one place.         *)
LEMMA RemoveAtProperties ==
  ASSUME NEW S, NEW s \in Seq(S), NEW i \in 1..Len(s)
  PROVE  /\ RemoveAt(s, i) \in Seq(S)
         /\ Len(RemoveAt(s, i)) = Len(s) - 1
         /\ \A x \in 1..(Len(s) - 1) :
              RemoveAt(s, i)[x] = IF x < i THEN s[x] ELSE s[x + 1]
<1> DEFINE low == SubSeq(s, 1, i - 1)
           high == SubSeq(s, i + 1, Len(s))
<1>1. low \in Seq(S) /\ Len(low) = i - 1 /\ \A x \in 1..(i - 1) : low[x] = s[x]
  OBVIOUS
<1>2. /\ high \in Seq(S) /\ Len(high) = Len(s) - i
      /\ \A x \in 1..(Len(s) - i) : high[x] = s[i + x]
  OBVIOUS
<1>3. RemoveAt(s, i) = low \o high
  BY DEF RemoveAt
<1> HIDE DEF low, high
<1>4. RemoveAt(s, i) \in Seq(S) /\ Len(RemoveAt(s, i)) = Len(s) - 1
  BY <1>1, <1>2, <1>3
<1>5. ASSUME NEW x \in 1..(Len(s) - 1)
      PROVE  RemoveAt(s, i)[x] = IF x < i THEN s[x] ELSE s[x + 1]
  <2>1. CASE x < i
    BY <1>1, <1>2, <1>3, <2>1
  <2>2. CASE x >= i
    <3>1. RemoveAt(s, i)[x] = high[x - i + 1]
      BY <1>1, <1>2, <1>3, <2>2
    <3>. QED  BY <1>2, <2>2, <3>1
  <2>. QED  BY <2>1, <2>2
<1>. QED  BY <1>4, <1>5
-----------------------------------------------------------------------------
(* Products of natural numbers.                                             *)
LEMMA ProductGrows ==
  ASSUME NEW a \in Nat, NEW b \in Nat, NEW c \in Nat, a <= b
  PROVE  a * c <= b * c /\ c * a <= c * b /\ a * c \in Nat /\ b * c \in Nat
<1>1. PICK d \in Nat : b = a + d
  <2>1. b - a \in Nat /\ b = a + (b - a)
    OBVIOUS
  <2>. QED  BY <2>1
<1>2. b * c = a * c + d * c /\ d * c \in Nat /\ a * c \in Nat
  BY <1>1
<1>3. c * a = a * c /\ c * b = b * c
  OBVIOUS
<1>. QED  BY <1>2, <1>3

LEMMA ProductStep ==
  ASSUME NEW a \in Nat, NEW b \in Nat, NEW c \in Nat, a < b
  PROVE  a * c + c <= b * c /\ a * c \in Nat /\ b * c \in Nat
<1>1. (a + 1) * c <= b * c /\ b * c \in Nat
  BY ProductGrows, a + 1 \in Nat, a + 1 <= b
<1>2. (a + 1) * c = a * c + c /\ a * c \in Nat
  OBVIOUS
<1>. QED  BY <1>1, <1>2

-----------------------------------------------------------------------------
(* Parameters of any length, the plugin's among them.                       *)
Sized == [type : Type, length : Nat]

LEMMA LengthsAre ==
  ASSUME NEW params \in Seq(Sized), NEW t
  PROVE  /\ Lengths(params, t) \in [0..Len(params) -> Nat]
         /\ Lengths(params, t)[0] = 0
         /\ \A n \in 1..Len(params) :
              Lengths(params, t)[n] =
                Lengths(params, t)[n - 1]
                  + IF params[n].type = t THEN params[n].length ELSE 0
<1> DEFINE N == Len(params)
           inc(n) == IF params[n].type = t THEN params[n].length ELSE 0
           step == [n \in 1..N |-> [s \in Nat |-> s + inc(n)]]
           Def(f) == f = [n \in 0..N |-> IF n = 0 THEN 0 ELSE f[n - 1] + inc(n)]
<1>1. N \in Nat /\ \A n \in 1..N : params[n] \in Sized
  OBVIOUS
<1>2. \A n \in 1..N : inc(n) \in Nat
  BY <1>1 DEF Sized
<1> HIDE DEF inc
<1>3. step \in [1..N -> [Nat -> Nat]]
  BY <1>2
<1>4. \A n \in 1..N, s \in Nat : step[n][s] = s + inc(n)
  OBVIOUS
<1> HIDE DEF step, N
<1>5. PICK f \in [0..N -> Nat] : IteratesAt(f, N, 0, step)
  BY <1>1, <1>3, IterationAtExists, Zenon
<1>6. ASSUME NEW n \in 0..N
      PROVE  f[n] = IF n = 0 THEN 0 ELSE f[n - 1] + inc(n)
  <2>1. CASE n = 0
    BY <1>5, <2>1 DEF IteratesAt
  <2>2. CASE n # 0
    <3>1. n \in 1..N /\ n - 1 \in 0..N
      BY <1>1, <2>2
    <3>2. f[n] = step[n][f[n - 1]]
      BY <1>5, <2>2 DEF IteratesAt
    <3>3. f[n - 1] \in Nat
      BY <1>5, <3>1
    <3>. QED  BY <1>4, <2>2, <3>1, <3>2, <3>3
  <2>. QED  BY <2>1, <2>2
<1>7. f = [n \in 0..N |-> IF n = 0 THEN 0 ELSE f[n - 1] + inc(n)]
  BY <1>5, <1>6
<1> DEFINE g == CHOOSE h : Def(h)
<1>8. Def(f)
  BY <1>7
<1>9. Def(g)
  BY <1>8, Zenon
<1> HIDE DEF g
<1>10. \A n \in 0..N : g[n] = IF n = 0 THEN 0 ELSE g[n - 1] + inc(n)
  BY <1>9
<1> HIDE DEF Def
<1>11. g = Lengths(params, t)
  BY DEF g, Def, Lengths, inc, N
<1>12. \A n \in 0..N : g[n] = f[n]
  <2> DEFINE Failed == {n \in 0..N : g[n] # f[n]}
  <2>1. SUFFICES ASSUME Failed # {}
                 PROVE  FALSE
    OBVIOUS
  <2>2. PICK n \in Failed : \A m \in Failed : n <= m
    BY <1>1, <2>1, LeastNat, Failed \subseteq Nat, Zenon
  <2>3. n # 0 /\ n - 1 \in 0..N /\ ~(n <= n - 1) /\ n \in 0..N
    BY <1>1, <1>6, <1>10
  <2>4. g[n - 1] = f[n - 1]
    BY <2>2, <2>3
  <2>. QED  BY <1>6, <1>10, <2>3, <2>4
<1>13. \A n \in 0..N : g[n] \in Nat
  BY <1>5, <1>12
<1>14. DOMAIN g = 0..N /\ g = [n \in 0..N |-> g[n]]
  BY <1>9 DEF Def
<1>15. g \in [0..N -> Nat]
  BY <1>13, <1>14
<1>16. g[0] = 0
  BY <1>1, <1>10
<1>17. \A n \in 1..N : g[n] = g[n - 1] + inc(n)
  BY <1>1, <1>10
<1>. QED  BY <1>11, <1>15, <1>16, <1>17 DEF inc, N

(* What comes later in the list lies further up.                            *)
LEMMA LengthsGrow ==
  ASSUME NEW params \in Seq(Sized), NEW t,
         NEW m \in 0..Len(params), NEW n \in 0..Len(params), m <= n
  PROVE  /\ Lengths(params, t)[m] \in Nat /\ Lengths(params, t)[n] \in Nat
         /\ Lengths(params, t)[m] <= Lengths(params, t)[n]
<1> DEFINE L == Lengths(params, t)
           N == Len(params)
           Failed == {k \in 0..N : m <= k /\ ~(L[m] <= L[k])}
<1>0. \A k \in 1..N : params[k] \in Sized
  OBVIOUS
<1>1. L \in [0..N -> Nat] /\ N \in Nat
  BY LengthsAre
<1>2. \A k \in 1..N : L[k - 1] <= L[k]
  <2>1. SUFFICES ASSUME NEW k \in 1..N
                 PROVE  L[k - 1] <= L[k]
    OBVIOUS
  <2>2. L[k] = L[k - 1] + IF params[k].type = t THEN params[k].length ELSE 0
    BY LengthsAre
  <2>3. params[k].length \in Nat
    BY <1>0 DEF Sized
  <2>4. k - 1 \in 0..N
    BY <1>1
  <2>5. L[k - 1] \in Nat
    BY <1>1, <2>4
  <2>. QED  BY <2>2, <2>3, <2>5
<1> HIDE DEF L, N
<1>3. Failed = {}
  <2>1. SUFFICES ASSUME Failed # {}
                 PROVE  FALSE
    OBVIOUS
  <2>2. PICK k \in Failed : \A i \in Failed : k <= i
    BY <1>1, <2>1, LeastNat, Failed \subseteq Nat, Zenon
  <2>3. k \in 0..N /\ m <= k /\ ~(L[m] <= L[k]) /\ m \in 0..N
    BY DEF N
  <2>4. k # m
    BY <1>1, <2>3
  <2>5. k \in 1..N /\ k - 1 \in 0..N /\ m <= k - 1 /\ ~(k <= k - 1)
    BY <1>1, <2>3, <2>4
  <2>6. L[m] <= L[k - 1]
    BY <2>2, <2>5
  <2>. QED  BY <1>1, <1>2, <2>3, <2>5, <2>6
<1>. QED  BY <1>1, <1>3 DEF L, N

(* n parameters of at most b wires have at most n * b.                      *)
LEMMA LengthsBounded ==
  ASSUME NEW params \in Seq(Sized), NEW t, NEW n \in 0..Len(params), NEW b \in Nat,
         \A k \in 1..Len(params) : params[k].length <= b
  PROVE  Lengths(params, t)[n] <= n * b
<1> DEFINE L == Lengths(params, t)
           N == Len(params)
           Failed == {k \in 0..N : ~(L[k] <= k * b)}
<1>0. \A k \in 1..N : params[k] \in Sized
  OBVIOUS
<1>1. L \in [0..N -> Nat] /\ N \in Nat /\ L[0] = 0
  BY LengthsAre
<1>2. \A k \in 1..N : L[k] <= L[k - 1] + b
  <2>1. SUFFICES ASSUME NEW k \in 1..N
                 PROVE  L[k] <= L[k - 1] + b
    OBVIOUS
  <2>2. L[k] = L[k - 1] + IF params[k].type = t THEN params[k].length ELSE 0
    BY LengthsAre
  <2>3. params[k].length \in Nat /\ params[k].length <= b
    BY <1>0 DEF Sized
  <2>4. L[k - 1] \in Nat
    BY <1>1, k - 1 \in 0..N
  <2>. QED  BY <1>1, <2>2, <2>3, <2>4
<1> HIDE DEF L, N
<1>3. Failed = {}
  <2>1. SUFFICES ASSUME Failed # {}
                 PROVE  FALSE
    OBVIOUS
  <2>2. PICK k \in Failed : \A i \in Failed : k <= i
    BY <1>1, <2>1, LeastNat, Failed \subseteq Nat, Zenon
  <2>3. k \in 0..N /\ ~(L[k] <= k * b)
    OBVIOUS
  <2>4. k # 0
    BY <1>1, <2>3
  <2>5. k \in 1..N /\ k - 1 \in 0..N /\ ~(k <= k - 1) /\ k \in Nat
    BY <1>1, <2>3, <2>4
  <2>6. L[k - 1] <= (k - 1) * b
    BY <2>2, <2>5
  <2>7. (k - 1) * b + b = k * b
    BY <1>1, <2>5
  <2>8. L[k - 1] \in Nat /\ L[k] \in Nat
    BY <1>1, <2>5
  <2>9. L[k] <= L[k - 1] + b
    BY <1>2, <2>5
  <2>. QED  BY <1>1, <2>3, <2>5, <2>6, <2>7, <2>8, <2>9
<1>. QED  BY <1>3 DEF L, N

(* Where a parameter begins and ends, and that it ends below the later ones *)
(* of its type.                                                             *)
LEMMA PlaceFacts ==
  ASSUME NEW params \in Seq(Sized), NEW k \in 1..Len(params)
  PROVE  /\ Place(params, k) \in Nat /\ params[k].length \in Nat
         /\ \A n \in k..Len(params) :
              Place(params, k) + params[k].length <= Lengths(params, params[k].type)[n]
<1>1. k - 1 \in 0..Len(params) /\ k \in 0..Len(params)
  OBVIOUS
<1>2. params[k] \in Sized
  OBVIOUS
<1>3. Lengths(params, params[k].type)[k] = Place(params, k) + params[k].length
  BY LengthsAre DEF Place
<1>4. Place(params, k) \in Nat /\ params[k].length \in Nat
  <2>1. Lengths(params, params[k].type) \in [0..Len(params) -> Nat]
    BY LengthsAre
  <2>. QED  BY <1>1, <1>2, <2>1 DEF Place, Sized
<1>5. \A n \in k..Len(params) : Lengths(params, params[k].type)[k] <= Lengths(params, params[k].type)[n]
  <2>1. \A n \in k..Len(params) : n \in 0..Len(params) /\ k <= n
    BY <1>1
  <2>. QED  BY <1>1, <2>1, LengthsGrow
<1>. QED  BY <1>3, <1>4, <1>5

LEMMA WiresApart ==
  ASSUME NEW params \in Seq(Sized), NEW i \in 1..Len(params), NEW k \in 1..Len(params),
         params[i].type = params[k].type, i # k
  PROVE  WiresOf(params, i) \cap WiresOf(params, k) = {}
<1>1. ASSUME NEW a \in 1..Len(params), NEW b \in 1..Len(params),
             params[a].type = params[b].type, a < b
      PROVE  Place(params, a) + params[a].length <= Place(params, b)
  <2>1. b - 1 \in a..Len(params)
    BY <1>1
  <2>. QED  BY <1>1, <2>1, PlaceFacts DEF Place
<1>2. \A a \in 1..Len(params) : Place(params, a) \in Nat /\ params[a].length \in Nat
  BY PlaceFacts
<1>3. i < k \/ k < i
  OBVIOUS
<1>4. \/ Place(params, i) + params[i].length <= Place(params, k)
      \/ Place(params, k) + params[k].length <= Place(params, i)
  BY <1>1, <1>3
<1>. QED  BY <1>2, <1>4 DEF WiresOf

-----------------------------------------------------------------------------
(* The parameters of the plugin function and of the iterated function. The  *)
(* function's parameter k is a slice of the plugin's parameter Behind(m, k), *)
(* unless it is the iteration's number; a closure is all of it.             *)
Plugin(m) == Signature(m).outputs \o Signature(m).inputs
Function(m) == m.outputs \o m.inputs
Outs(m) == Len(m.outputs)

IsNumber(m, k) == m.enumerated /\ k = Outs(m) + m.closures + 1
IsClosure(m, k) == k > Outs(m) /\ k <= Outs(m) + m.closures
Behind(m, k) == IF m.enumerated /\ k > Outs(m) + m.closures THEN k - 1 ELSE k

MapShape(m) ==
  /\ m.outputs \in Seq(Parameter) /\ Len(m.outputs) \in Nat /\ Len(m.outputs) <= MaxOutputs
  /\ m.inputs \in Seq(Parameter) /\ Len(m.inputs) \in Nat
  /\ m.closures \in Nat /\ m.count \in 1..MaxCount /\ m.enumerated \in BOOLEAN
  /\ m.closures <= Len(m.inputs) /\ (m.enumerated => m.closures + 1 <= Len(m.inputs))
  /\ Len(Signature(m).inputs) <= MaxInputs

LEMMA BoundedSeqIs ==
  ASSUME NEW S, NEW n \in Nat, NEW s \in BoundedSeq(S, n)
  PROVE  s \in Seq(S) /\ Len(s) \in Nat /\ Len(s) <= n
<1>1. PICK l \in 0..n : s \in [1..l -> S]
  BY DEF BoundedSeq, SeqOf
<1>2. s \in Seq(S) /\ Len(s) = l
  BY <1>1
<1>. QED  BY <1>1, <1>2

LEMMA MapsAre ==
  ASSUME NEW m \in Maps
  PROVE  MapShape(m) /\ (Aligned => PlacesAgree(m))
<1>1. /\ m.outputs \in BoundedSeq(Parameter, MaxOutputs)
      /\ m.inputs \in BoundedSeq(Parameter, MaxInputs + 1)
      /\ m.closures \in 0..MaxInputs /\ m.count \in 1..MaxCount /\ m.enumerated \in BOOLEAN
      /\ TypeChecks(m) /\ Len(Signature(m).inputs) <= MaxInputs
      /\ Aligned => PlacesAgree(m)
  BY DEF Maps
<1>2. MaxOutputs \in Nat /\ MaxInputs + 1 \in Nat
  BY IterAssumption
<1>3. /\ m.outputs \in Seq(Parameter) /\ Len(m.outputs) \in Nat /\ Len(m.outputs) <= MaxOutputs
      /\ m.inputs \in Seq(Parameter) /\ Len(m.inputs) \in Nat
  BY <1>1, <1>2, BoundedSeqIs, Zenon
<1>4. m.closures \in Nat /\ m.closures <= Len(m.inputs) /\ (m.enumerated => m.closures + 1 <= Len(m.inputs))
  BY <1>1, <1>3 DEF TypeChecks
<1>. QED  BY <1>1, <1>3, <1>4 DEF MapShape

LEMMA ParameterIs ==
  ASSUME NEW p \in Parameter
  PROVE  p \in Sized /\ p.type \in Type /\ p.length \in Nat \ {0} /\ p.length <= MaxLength
BY IterAssumption DEF Parameter, Sized

LEMMA EnlargedIs ==
  ASSUME NEW p \in Parameter, NEW c \in Nat
  PROVE  /\ Enlarged(p, c) \in Sized
         /\ Enlarged(p, c).type = p.type /\ Enlarged(p, c).length = c * p.length
<1>1. p \in [type : Type, length : Nat] /\ c * p.length \in Nat
  BY ParameterIs DEF Sized
<1>. QED  BY <1>1 DEF Enlarged, Sized

(* The plugin's signature, parameter by parameter.                          *)
SignatureShape(m) ==
  LET out == Signature(m).outputs
      in == Signature(m).inputs
      drop == IF m.enumerated THEN 1 ELSE 0
  IN  /\ out \in Seq(Sized) /\ Len(out) = Len(m.outputs)
      /\ \A i \in 1..Len(m.outputs) :
           out[i].type = m.outputs[i].type /\ out[i].length = m.count * m.outputs[i].length
      /\ in \in Seq(Sized) /\ Len(in) = Len(m.inputs) - drop
      /\ \A i \in 1..m.closures : in[i] = m.inputs[i]
      /\ \A i \in (m.closures + 1 + drop)..Len(m.inputs) :
           /\ in[i - drop].type = m.inputs[i].type
           /\ in[i - drop].length = m.count * m.inputs[i].length

LEMMA SignatureIs ==
  ASSUME NEW m, MapShape(m)
  PROVE  SignatureShape(m)
<1> DEFINE out == Signature(m).outputs
           in == Signature(m).inputs
           sized == [i \in DOMAIN m.inputs |->
                       IF i <= m.closures THEN m.inputs[i] ELSE Enlarged(m.inputs[i], m.count)]
           N == Len(m.inputs)
           drop == IF m.enumerated THEN 1 ELSE 0
<1>1. /\ m.outputs \in Seq(Parameter) /\ m.inputs \in Seq(Parameter) /\ N \in Nat
      /\ DOMAIN m.outputs = 1..Len(m.outputs) /\ DOMAIN m.inputs = 1..N
      /\ m.count \in Nat /\ m.closures \in Nat /\ m.closures + drop <= N
      /\ m.enumerated \in BOOLEAN /\ Len(m.outputs) \in Nat
  BY DEF MapShape
<1>2. /\ out = [i \in DOMAIN m.outputs |-> Enlarged(m.outputs[i], m.count)]
      /\ in = IF m.enumerated THEN RemoveAt(sized, m.closures + 1) ELSE sized
  BY DEF Signature
<1>3. \A i \in 1..Len(m.outputs) :
        /\ Enlarged(m.outputs[i], m.count) \in Sized
        /\ Enlarged(m.outputs[i], m.count).type = m.outputs[i].type
        /\ Enlarged(m.outputs[i], m.count).length = m.count * m.outputs[i].length
  <2>1. \A i \in 1..Len(m.outputs) : m.outputs[i] \in Parameter
    BY <1>1
  <2>. QED  BY <1>1, <2>1, EnlargedIs
<1>4. \A i \in 1..N :
        /\ m.inputs[i] \in Sized /\ Enlarged(m.inputs[i], m.count) \in Sized
        /\ Enlarged(m.inputs[i], m.count).type = m.inputs[i].type
        /\ Enlarged(m.inputs[i], m.count).length = m.count * m.inputs[i].length
  <2>1. \A i \in 1..N : m.inputs[i] \in Parameter
    BY <1>1
  <2>. QED  BY <1>1, <2>1, EnlargedIs, ParameterIs
<1>5. out \in Seq(Sized) /\ Len(out) = Len(m.outputs)
  BY <1>1, <1>2, <1>3
<1>6. \A i \in 1..Len(m.outputs) :
        out[i].type = m.outputs[i].type /\ out[i].length = m.count * m.outputs[i].length
  BY <1>1, <1>2, <1>3
<1>7. sized \in Seq(Sized) /\ Len(sized) = N
  <2>1. sized \in [1..N -> Sized]
    BY <1>1, <1>4
  <2>. QED  BY <1>1, <2>1
<1>8. /\ \A i \in 1..m.closures : sized[i] = m.inputs[i]
      /\ \A i \in (m.closures + 1)..N :
           /\ sized[i].type = m.inputs[i].type
           /\ sized[i].length = m.count * m.inputs[i].length
  <2>1. \A i \in 1..m.closures : i \in 1..N /\ i <= m.closures
    BY <1>1
  <2>2. \A i \in (m.closures + 1)..N : i \in 1..N /\ ~(i <= m.closures)
    BY <1>1
  <2>. QED  BY <1>1, <1>4, <2>1, <2>2
<1> HIDE DEF sized
<1>9. /\ in \in Seq(Sized) /\ Len(in) = N - drop
      /\ \A i \in 1..m.closures : in[i] = m.inputs[i]
      /\ \A i \in (m.closures + 1 + drop)..N :
           /\ in[i - drop].type = m.inputs[i].type
           /\ in[i - drop].length = m.count * m.inputs[i].length
  <2>1. CASE ~ m.enumerated
    <3>1. in = sized /\ drop = 0
      BY <1>2, <2>1
    <3>2. \A i \in (m.closures + 1 + drop)..N : i - drop = i /\ i \in (m.closures + 1)..N
      BY <1>1, <3>1
    <3>. QED  BY <1>7, <1>8, <3>1, <3>2
  <2>2. CASE m.enumerated
    <3>1. in = RemoveAt(sized, m.closures + 1) /\ drop = 1
      BY <1>2, <2>2
    <3>2. m.closures + 1 \in 1..Len(sized)
      BY <1>1, <1>7, <3>1
    <3>3. /\ in \in Seq(Sized) /\ Len(in) = N - 1
          /\ \A i \in 1..(N - 1) : in[i] = IF i < m.closures + 1 THEN sized[i] ELSE sized[i + 1]
      BY <1>7, <3>1, <3>2, RemoveAtProperties
    <3>4. \A i \in 1..m.closures : i \in 1..(N - 1) /\ i < m.closures + 1
      BY <1>1, <3>1
    <3>5. \A i \in (m.closures + 1 + drop)..N :
            /\ i - drop \in 1..(N - 1) /\ ~(i - drop < m.closures + 1) /\ (i - drop) + 1 = i
            /\ i \in (m.closures + 1)..N
      BY <1>1, <3>1
    <3> HIDE DEF in, drop
    <3>. QED  BY <1>8, <3>1, <3>3, <3>4, <3>5
  <2>. QED  BY <1>1, <2>1, <2>2
<1> HIDE DEF in, out
<1>. QED  BY <1>5, <1>6, <1>9 DEF SignatureShape, in, out

FunctionShape(m) ==
  /\ Function(m) \in Seq(Parameter) /\ Outs(m) \in Nat
  /\ Len(Function(m)) = Outs(m) + Len(m.inputs) /\ Len(Function(m)) \in Nat
  /\ DOMAIN Function(m) = 1..Len(Function(m))
  /\ \A k \in 1..Outs(m) : k \in 1..Len(Function(m)) /\ Function(m)[k] = m.outputs[k]
  /\ \A i \in 1..Len(m.inputs) : /\ Outs(m) + i \in 1..Len(Function(m))
                                 /\ Function(m)[Outs(m) + i] = m.inputs[i]

LEMMA FunctionIs ==
  ASSUME NEW m, MapShape(m)
  PROVE  FunctionShape(m)
<1>1. PICK o \in Seq(Parameter) : o = m.outputs
  BY DEF MapShape
<1>2. PICK i \in Seq(Parameter) : i = m.inputs
  BY DEF MapShape
<1>3. Function(m) = o \o i /\ Outs(m) = Len(o)
  BY <1>1, <1>2 DEF Function, Outs
<1>4. /\ o \o i \in Seq(Parameter) /\ Len(o) \in Nat /\ Len(i) \in Nat
      /\ Len(o \o i) = Len(o) + Len(i) /\ DOMAIN (o \o i) = 1..Len(o \o i)
      /\ \A k \in 1..Len(o) : k \in 1..Len(o \o i) /\ (o \o i)[k] = o[k]
      /\ \A k \in 1..Len(i) : Len(o) + k \in 1..Len(o \o i) /\ (o \o i)[Len(o) + k] = i[k]
  OBVIOUS
<1> DEFINE F == o \o i
<1>5. F = Function(m)
  BY <1>3
<1> HIDE DEF F
<1>6. /\ F \in Seq(Parameter) /\ Len(F) = Len(o) + Len(i) /\ DOMAIN F = 1..Len(F) /\ Len(F) \in Nat
      /\ \A k \in 1..Len(o) : k \in 1..Len(F) /\ F[k] = o[k]
      /\ \A k \in 1..Len(i) : Len(o) + k \in 1..Len(F) /\ F[Len(o) + k] = i[k]
  BY <1>4 DEF F
<1>. QED  BY <1>1, <1>2, <1>3, <1>4, <1>5, <1>6 DEF FunctionShape

PluginShape(m) ==
  /\ Plugin(m) \in Seq(Sized) /\ Len(Plugin(m)) \in Nat
  /\ Outs(m) <= Len(Plugin(m)) /\ Len(Plugin(m)) <= MaxOutputs + MaxInputs
  /\ Len(Plugin(m)) = Outs(m) + Len(Signature(m).inputs)
  /\ \A k \in 1..Outs(m) : Plugin(m)[k] = Signature(m).outputs[k]
  /\ \A i \in 1..Len(Signature(m).inputs) : Plugin(m)[Outs(m) + i] = Signature(m).inputs[i]

LEMMA PluginIs ==
  ASSUME NEW m, MapShape(m)
  PROVE  PluginShape(m)
<1>0. SignatureShape(m)
  BY SignatureIs
<1>1. PICK o \in Seq(Sized) : o = Signature(m).outputs /\ Len(o) = Outs(m)
  BY <1>0 DEF SignatureShape, Outs
<1>2. PICK i \in Seq(Sized) : i = Signature(m).inputs /\ Len(i) <= MaxInputs
  BY <1>0 DEF SignatureShape, MapShape
<1>3. Plugin(m) = o \o i
  BY <1>1, <1>2 DEF Plugin
<1>4. /\ o \o i \in Seq(Sized) /\ Len(o) \in Nat /\ Len(i) \in Nat
      /\ Len(o \o i) = Len(o) + Len(i)
      /\ \A k \in 1..Len(o) : (o \o i)[k] = o[k]
      /\ \A k \in 1..Len(i) : (o \o i)[Len(o) + k] = i[k]
  OBVIOUS
<1>5. Len(o) <= MaxOutputs /\ MaxOutputs \in Nat /\ MaxInputs \in Nat
  BY <1>1, IterAssumption DEF MapShape, Outs
<1>6. Len(o) <= Len(o \o i) /\ Len(o \o i) <= MaxOutputs + MaxInputs /\ Len(o \o i) \in Nat
  BY <1>2, <1>4, <1>5
<1>. QED  BY <1>1, <1>2, <1>3, <1>4, <1>6 DEF PluginShape

BehindIs(m, k) ==
  /\ Behind(m, k) \in 1..Len(Plugin(m))
  /\ k <= Outs(m) => Behind(m, k) = k
  /\ k > Outs(m) => Behind(m, k) > Outs(m)
  /\ Plugin(m)[Behind(m, k)].type = Function(m)[k].type
  /\ Plugin(m)[Behind(m, k)].length =
       IF IsClosure(m, k) THEN Function(m)[k].length ELSE m.count * Function(m)[k].length

LEMMA BehindEach ==
  ASSUME NEW m, MapShape(m), NEW k \in 1..Len(Function(m)), ~ IsNumber(m, k)
  PROVE  BehindIs(m, k)
<1> DEFINE O == Outs(m)
           C == m.closures
           N == Len(m.inputs)
           P == Plugin(m)
           F == Function(m)
           in == Signature(m).inputs
           drop == IF m.enumerated THEN 1 ELSE 0
<1>1. SignatureShape(m) /\ PluginShape(m)
  BY SignatureIs, PluginIs
<1>2. /\ O \in Nat /\ C \in Nat /\ N \in Nat /\ Len(F) = O + N /\ C + drop <= N
      /\ drop \in {0, 1} /\ (m.enumerated <=> drop = 1)
  BY FunctionIs DEF MapShape, FunctionShape
<1>3. /\ Len(P) = O + Len(in) /\ Len(in) = N - drop
      /\ \A i \in 1..O : P[i].type = m.outputs[i].type /\ P[i].length = m.count * m.outputs[i].length
      /\ \A i \in 1..Len(in) : P[O + i] = in[i]
      /\ \A i \in 1..C : in[i] = m.inputs[i]
      /\ \A i \in (C + 1 + drop)..N :
           in[i - drop].type = m.inputs[i].type /\ in[i - drop].length = m.count * m.inputs[i].length
  BY <1>1 DEF SignatureShape, PluginShape, Outs
<1>4. /\ \A i \in 1..O : F[i] = m.outputs[i]
      /\ \A i \in 1..N : F[O + i] = m.inputs[i]
  BY FunctionIs DEF FunctionShape
<1>5. /\ IsNumber(m, k) <=> m.enumerated /\ k = O + C + 1
      /\ IsClosure(m, k) <=> k > O /\ k <= O + C
      /\ Behind(m, k) = IF m.enumerated /\ k > O + C THEN k - 1 ELSE k
  BY DEF IsNumber, IsClosure, Behind
<1> HIDE DEF P, F, O, C, N, in, drop
<1>6. k \in 1..(O + N)
  BY <1>2 DEF F
<1>7. CASE k <= O
  <2>1. k \in 1..O /\ Behind(m, k) = k /\ k \in 1..Len(P) /\ ~ IsClosure(m, k) /\ ~(k > O)
    BY <1>2, <1>3, <1>5, <1>6, <1>7
  <2>. QED  BY <1>3, <1>4, <2>1 DEF BehindIs, P, F, O
<1>8. CASE k > O /\ k <= O + C
  <2>1. PICK i \in 1..C : k = O + i
    BY <1>2, <1>6, <1>8, k - O \in 1..C, k = O + (k - O)
  <2>2. i \in 1..N /\ i \in 1..Len(in) /\ O + i \in 1..Len(P)
    BY <1>2, <1>3, SMTT(30)
  <2>3. Behind(m, k) = k /\ IsClosure(m, k) /\ ~(k <= O)
    BY <1>2, <1>5, <1>6, <1>8
  <2>4. P[k] = in[i] /\ F[k] = m.inputs[i] /\ in[i] = m.inputs[i]
    BY <1>3, <1>4, <2>1, <2>2
  <2>. QED  BY <1>8, <2>1, <2>2, <2>3, <2>4 DEF BehindIs, P, F, O
<1>9. CASE k > O + C
  <2>1. k - drop > O + C
    BY <1>2, <1>5, <1>6, <1>9
  <2>2. Behind(m, k) = k - drop /\ ~ IsClosure(m, k) /\ ~(k <= O) /\ k > O /\ k - drop > O
    BY <1>2, <1>5, <1>6, <1>9, <2>1
  <2>3. PICK i \in (C + 1 + drop)..N : k = O + i
    <3>1. k - O \in (C + 1 + drop)..N /\ k = O + (k - O)
      BY <1>2, <1>6, <2>1
    <3>. QED  BY <3>1
  <2>4. i \in 1..N /\ i - drop \in 1..Len(in) /\ O + (i - drop) = k - drop /\ k - drop \in 1..Len(P)
    BY <1>2, <1>3, <2>3
  <2>5. P[k - drop] = in[i - drop] /\ F[k] = m.inputs[i]
    BY <1>3, <1>4, <2>3, <2>4
  <2>. QED  BY <1>3, <2>2, <2>3, <2>4, <2>5 DEF BehindIs, P, F, O
<1>. QED  BY <1>2, <1>6, <1>7, <1>8, <1>9

(* Each parameter of the plugin is behind one of the function.              *)
LEMMA BehindSome ==
  ASSUME NEW m, MapShape(m), NEW q \in 1..Len(Plugin(m))
  PROVE  \E k \in 1..Len(Function(m)) : ~ IsNumber(m, k) /\ Behind(m, k) = q
<1> DEFINE O == Outs(m)
           C == m.closures
           N == Len(m.inputs)
           drop == IF m.enumerated THEN 1 ELSE 0
           k == IF q <= O + C THEN q ELSE q + drop
<1>1. /\ O \in Nat /\ C \in Nat /\ N \in Nat /\ Len(Function(m)) = O + N /\ C + drop <= N
      /\ drop \in {0, 1} /\ (m.enumerated <=> drop = 1)
  BY FunctionIs DEF MapShape, FunctionShape
<1>0. PluginShape(m) /\ SignatureShape(m)
  BY PluginIs, SignatureIs
<1>2. Len(Plugin(m)) = O + N - drop
  <2>1. Len(Plugin(m)) = Outs(m) + Len(Signature(m).inputs)
    BY <1>0 DEF PluginShape
  <2>2. Len(Signature(m).inputs) = N - drop
    BY <1>0 DEF SignatureShape
  <2>. QED  BY <1>1, <2>1, <2>2
<1>3. \A x : /\ IsNumber(m, x) <=> m.enumerated /\ x = O + C + 1
             /\ Behind(m, x) = IF m.enumerated /\ x > O + C THEN x - 1 ELSE x
  BY DEF IsNumber, Behind
<1> HIDE DEF O, C, N, drop
<1>4. q \in 1..(O + N - drop)
  BY <1>2
<1>5. k \in 1..(O + N) /\ ~ IsNumber(m, k) /\ Behind(m, k) = q
  BY <1>1, <1>3, <1>4
<1>. QED  BY <1>1, <1>5

LEMMA BehindApart ==
  ASSUME NEW m, MapShape(m), NEW i \in 1..Len(Function(m)), NEW k \in 1..Len(Function(m)),
         ~ IsNumber(m, i), ~ IsNumber(m, k), Behind(m, i) = Behind(m, k)
  PROVE  i = k
<1>1. Outs(m) \in Nat /\ m.closures \in Nat /\ Len(Function(m)) \in Nat /\ m.enumerated \in BOOLEAN
  BY FunctionIs DEF MapShape, FunctionShape
<1>. QED  BY <1>1 DEF IsNumber, Behind

(* No parameter reaches the wires that hold the iteration's number.         *)
MostWires == MaxCount * MaxLength

LEMMA PluginBelow ==
  ASSUME NEW m, MapShape(m), NEW q \in 1..Len(Plugin(m))
  PROVE  /\ Place(Plugin(m), q) \in Nat /\ Plugin(m)[q].length \in Nat
         /\ Place(Plugin(m), q) + Plugin(m)[q].length <= MostWires * (MaxOutputs + MaxInputs)
<1> DEFINE P == Plugin(m)
<1>1. PluginShape(m)
  BY PluginIs
<1>2. /\ MaxCount \in Nat /\ MaxLength \in Nat /\ MostWires \in Nat /\ m.count \in Nat
      /\ MaxOutputs + MaxInputs \in Nat /\ m.count <= MaxCount /\ 1 <= m.count
  BY IterAssumption DEF MapShape, MostWires
<1>3. ASSUME NEW r \in 1..Len(P)
      PROVE  P[r].length <= MostWires
  <2>1. PICK k \in 1..Len(Function(m)) : ~ IsNumber(m, k) /\ Behind(m, k) = r
    BY BehindSome
  <2>2. P[r].length = Function(m)[k].length \/ P[r].length = m.count * Function(m)[k].length
    BY <2>1, BehindEach DEF BehindIs
  <2>3. PICK l \in Nat : l = Function(m)[k].length /\ l <= MaxLength
    BY FunctionIs, ParameterIs DEF FunctionShape
  <2>4. m.count * l <= MaxCount * l /\ MaxCount * l <= MaxCount * MaxLength /\ 1 * l <= m.count * l
    BY <1>2, <2>3, ProductGrows
  <2>5. m.count * l \in Nat /\ MaxCount * l \in Nat /\ 1 * l = l
    BY <1>2
  <2>6. \A a, b, c, d \in Nat : b <= c /\ c <= d /\ a <= b => a <= d /\ b <= d
    OBVIOUS
  <2>7. l <= MostWires /\ m.count * l <= MostWires
    BY <1>2, <2>3, <2>4, <2>5, <2>6, SMTT(30) DEF MostWires
  <2>. QED  BY <2>2, <2>3, <2>7
<1>4. P \in Seq(Sized) /\ Len(P) \in Nat /\ Len(P) <= MaxOutputs + MaxInputs
  BY <1>1 DEF PluginShape
<1> HIDE DEF P
<1>5. q \in 1..Len(P) /\ Len(P) \in q..Len(P) /\ Len(P) \in 0..Len(P)
  BY <1>4 DEF P
<1>6. /\ Place(P, q) \in Nat /\ P[q].length \in Nat
      /\ Place(P, q) + P[q].length <= Lengths(P, P[q].type)[Len(P)]
  BY <1>4, <1>5, PlaceFacts
<1>7. Lengths(P, P[q].type)[Len(P)] <= Len(P) * MostWires
  BY <1>2, <1>3, <1>4, <1>5, LengthsBounded
<1>8. Lengths(P, P[q].type)[Len(P)] \in Nat
  BY <1>4, <1>5, LengthsAre
<1>9. Len(P) * MostWires <= (MaxOutputs + MaxInputs) * MostWires /\ Len(P) * MostWires \in Nat
  BY <1>2, <1>4, ProductGrows
<1>10. (MaxOutputs + MaxInputs) * MostWires = MostWires * (MaxOutputs + MaxInputs)
  BY <1>2
<1>11. (MaxOutputs + MaxInputs) * MostWires \in Nat
  BY <1>2
<1>. QED  BY <1>6, <1>7, <1>8, <1>9, <1>10, <1>11 DEF P

-----------------------------------------------------------------------------
(* Parameters that follow have no part in the place of one.                 *)
LEMMA LengthsOfPrefix ==
  ASSUME NEW first \in Seq(Sized), NEW rest \in Seq(Sized), NEW t,
         NEW n \in 0..Len(first)
  PROVE  Lengths(first \o rest, t)[n] = Lengths(first, t)[n]
<1> DEFINE params == first \o rest
           L == Lengths(params, t)
           M == Lengths(first, t)
           N == Len(first)
           Failed == {k \in 0..N : L[k] # M[k]}
<1>1. /\ params \in Seq(Sized) /\ N \in Nat /\ N <= Len(params) /\ Len(params) \in Nat
      /\ \A k \in 1..N : params[k] = first[k]
  OBVIOUS
<1> HIDE DEF params
<1>2. L[0] = 0 /\ M[0] = 0
  BY <1>1, LengthsAre
<1>3. \A k \in 1..N : L[k - 1] = M[k - 1] => L[k] = M[k]
  <2>1. SUFFICES ASSUME NEW k \in 1..N, L[k - 1] = M[k - 1]
                 PROVE  L[k] = M[k]
    OBVIOUS
  <2>2. L[k] = L[k - 1] + IF params[k].type = t THEN params[k].length ELSE 0
    BY <1>1, LengthsAre, k \in 1..Len(params)
  <2>3. M[k] = M[k - 1] + IF first[k].type = t THEN first[k].length ELSE 0
    BY LengthsAre
  <2>. QED  BY <1>1, <2>1, <2>2, <2>3
<1> HIDE DEF L, M, N
<1>4. Failed = {}
  <2>1. SUFFICES ASSUME Failed # {}
                 PROVE  FALSE
    OBVIOUS
  <2>2. PICK k \in Failed : \A i \in Failed : k <= i
    BY <1>1, <2>1, LeastNat, Failed \subseteq Nat, Zenon
  <2>3. k \in 0..N /\ L[k] # M[k]
    OBVIOUS
  <2>4. k # 0
    BY <1>2, <2>3
  <2>5. k \in 1..N /\ k - 1 \in 0..N /\ ~(k <= k - 1)
    BY <1>1, <2>3, <2>4
  <2>6. L[k - 1] = M[k - 1]
    BY <2>2, <2>5
  <2>. QED  BY <1>3, <2>3, <2>5, <2>6
<1>. QED  BY <1>4 DEF L, M, N, params

(* The slice of the plugin's wires that is the function's parameter k in    *)
(* iteration i.                                                             *)
From(m, k, i) ==
  Place(Plugin(m), Behind(m, k)) + IF IsClosure(m, k) THEN 0 ELSE i * Function(m)[k].length

Chunk(m, k, i) == From(m, k, i) .. (From(m, k, i) + Function(m)[k].length - 1)

LEMMA ChunkWithin ==
  ASSUME NEW m, MapShape(m), NEW k \in 1..Len(Function(m)), ~ IsNumber(m, k),
         NEW i \in 0..(m.count - 1)
  PROVE  /\ From(m, k, i) \in Nat /\ Function(m)[k].length \in Nat \ {0}
         /\ Place(Plugin(m), Behind(m, k)) <= From(m, k, i)
         /\ From(m, k, i) + Function(m)[k].length
              <= Place(Plugin(m), Behind(m, k)) + Plugin(m)[Behind(m, k)].length
         /\ Chunk(m, k, i) \subseteq WiresOf(Plugin(m), Behind(m, k))
<1> DEFINE q == Behind(m, k)
           l == Function(m)[k].length
           p == Place(Plugin(m), q)
           x == IF IsClosure(m, k) THEN 0 ELSE i * l
<1>1. BehindIs(m, k)
  BY BehindEach
<1>2. q \in 1..Len(Plugin(m)) /\ Plugin(m)[q].length = IF IsClosure(m, k) THEN l ELSE m.count * l
  BY <1>1 DEF BehindIs
<1>3. l \in Nat \ {0} /\ i \in Nat /\ m.count \in Nat /\ i < m.count
  BY FunctionIs, ParameterIs, SMTT(30) DEF FunctionShape, MapShape
<1>4. p \in Nat /\ Plugin(m)[q].length \in Nat
  BY <1>2, PluginBelow
<1>5. i * l + l <= m.count * l /\ i * l \in Nat /\ m.count * l \in Nat
  BY <1>3, ProductStep
<1>6. From(m, k, i) = p + x
  BY DEF From
<1>7. x \in Nat /\ x + l <= Plugin(m)[q].length
  BY <1>2, <1>3, <1>5
<1>8. Chunk(m, k, i) = (p + x)..(p + x + l - 1) /\ WiresOf(Plugin(m), q) = p..(p + Plugin(m)[q].length - 1)
  BY <1>6 DEF Chunk, WiresOf
<1> HIDE DEF q, l, p, x
<1>9. Chunk(m, k, i) \subseteq WiresOf(Plugin(m), q)
  <2>1. PICK a \in Nat, b \in Nat, c \in Nat, d \in Nat :
          a = p /\ b = x /\ c = l /\ d = Plugin(m)[q].length /\ b + c <= d
    BY <1>3, <1>4, <1>7
  <2>2. (a + b)..(a + b + c - 1) \subseteq a..(a + d - 1)
    BY <2>1
  <2>. QED  BY <1>8, <2>1, <2>2
<1>10. p + x \in Nat /\ p <= p + x /\ p + x + l <= p + Plugin(m)[q].length
  BY <1>3, <1>4, <1>7
<1>. QED  BY <1>3, <1>6, <1>9, <1>10 DEF q, l, p

(* What the code adds up is where the parameters lie, if the places agree.  *)
Advanced(m) ==
  Signature(m).outputs \o
    [n \in 1..(Len(m.inputs) - 1) |->
       [type |-> m.inputs[n].type,
        length |-> IF m.enumerated /\ n = m.closures + 1 THEN 0
                   ELSE Signature(m).inputs[n].length]]

AdvancedShape(m) ==
  LET A == Advanced(m)
      O == Outs(m)
  IN  /\ A \in Seq(Sized) /\ Len(A) = O + (Len(m.inputs) - 1)
      /\ \A n \in 1..(Len(m.inputs) - 1) :
           /\ A[O + n].type = m.inputs[n].type
           /\ A[O + n].length = IF m.enumerated /\ n = m.closures + 1 THEN 0
                                ELSE Signature(m).inputs[n].length
      /\ \A t : Lengths(A, t)[O] = Lengths(Signature(m).outputs, t)[O]

LEMMA AdvancedIs ==
  ASSUME NEW m, MapShape(m), Len(m.inputs) # 0
  PROVE  AdvancedShape(m)
<1> DEFINE N == Len(m.inputs)
           in == Signature(m).inputs
           drop == IF m.enumerated THEN 1 ELSE 0
           e(n) == [type |-> m.inputs[n].type,
                    length |-> IF m.enumerated /\ n = m.closures + 1 THEN 0 ELSE in[n].length]
           r == [n \in 1..(N - 1) |-> e(n)]
<1>1. SignatureShape(m) /\ N \in Nat /\ N # 0 /\ m.inputs \in Seq(Parameter) /\ drop \in {0, 1}
  BY SignatureIs DEF MapShape
<1>2. in \in Seq(Sized) /\ Len(in) = N - drop
  BY <1>1 DEF SignatureShape
<1>3. PICK o \in Seq(Sized) : o = Signature(m).outputs /\ Len(o) = Outs(m)
  BY <1>1 DEF SignatureShape, Outs
<1>4. \A n \in 1..(N - 1) : in[n] \in Sized /\ m.inputs[n] \in Parameter
  <2>1. \A n \in 1..(N - 1) : n \in 1..Len(in) /\ n \in 1..N
    BY <1>1, <1>2
  <2> HIDE DEF N, in, drop
  <2>2. \A n \in 1..Len(in) : in[n] \in Sized
    BY <1>2
  <2>3. \A n \in 1..N : m.inputs[n] \in Parameter
    BY <1>1 DEF N
  <2>. QED  BY <2>1, <2>2, <2>3
<1>5. \A n \in 1..(N - 1) : e(n) \in Sized
  <2>1. \A n \in 1..(N - 1) : in[n].length \in Nat /\ m.inputs[n].type \in Type
    BY <1>4, ParameterIs DEF Sized
  <2>. QED  BY <2>1 DEF Sized
<1>6. \A n : /\ e(n).type = m.inputs[n].type
             /\ e(n).length = IF m.enumerated /\ n = m.closures + 1 THEN 0 ELSE in[n].length
  OBVIOUS
<1> HIDE DEF e
<1>7. r \in Seq(Sized) /\ Len(r) = N - 1 /\ \A n \in 1..(N - 1) : r[n] = e(n)
  <2>1. r \in [1..(N - 1) -> Sized] /\ N - 1 \in Nat
    BY <1>1, <1>5
  <2>. QED  BY <2>1
<1>8. Advanced(m) = o \o r
  BY <1>3 DEF Advanced, e
<1> HIDE DEF r, N
<1>9. /\ o \o r \in Seq(Sized) /\ Len(o \o r) = Len(o) + (N - 1)
      /\ \A n \in 1..(N - 1) : (o \o r)[Len(o) + n] = r[n]
  BY <1>7
<1>10. \A t : Lengths(o \o r, t)[Len(o)] = Lengths(o, t)[Len(o)]
  BY <1>7, LengthsOfPrefix, Len(o) \in 0..Len(o)
<1> DEFINE A == o \o r
<1>11. A = Advanced(m)
  BY <1>8
<1> HIDE DEF A, in
<1>12. /\ A \in Seq(Sized) /\ Len(A) = Outs(m) + (N - 1)
       /\ \A n \in 1..(N - 1) : A[Outs(m) + n] = e(n)
       /\ \A t : Lengths(A, t)[Outs(m)] = Lengths(o, t)[Outs(m)]
  BY <1>3, <1>7, <1>9, <1>10 DEF A
<1>. QED  BY <1>3, <1>6, <1>11, <1>12 DEF AdvancedShape, N, in

LEMMA AdvancedAgrees ==
  ASSUME NEW m, MapShape(m), PlacesAgree(m), NEW t, NEW i \in 1..Len(m.inputs),
         ~ IsNumber(m, Outs(m) + i)
  PROVE  Lengths(Advanced(m), t)[Outs(m) + i - 1]
           = Lengths(Plugin(m), t)[Behind(m, Outs(m) + i) - 1]
<1> DEFINE N == Len(m.inputs)
           O == Outs(m)
           C == m.closures
           in == Signature(m).inputs
           drop == IF m.enumerated THEN 1 ELSE 0
           A == Advanced(m)
           P == Plugin(m)
           L == Lengths(A, t)
           M == Lengths(P, t)
           r(n) == IF m.enumerated /\ n > C THEN n - 1 ELSE n
           Failed == {n \in 0..(N - 1) : L[O + n] # M[O + r(n)]}
<1>1. /\ N \in Nat /\ N # 0 /\ O \in Nat /\ C \in Nat /\ drop \in {0, 1} /\ C + drop <= N
      /\ (m.enumerated <=> drop = 1) /\ m.enumerated \in BOOLEAN
  BY FunctionIs DEF MapShape, FunctionShape
<1>2. AdvancedShape(m) /\ PluginShape(m) /\ SignatureShape(m)
  BY <1>1, AdvancedIs, PluginIs, SignatureIs
<1>3. /\ A \in Seq(Sized) /\ Len(A) = O + (N - 1)
      /\ \A n \in 1..(N - 1) :
           /\ A[O + n].type = m.inputs[n].type
           /\ A[O + n].length = IF m.enumerated /\ n = C + 1 THEN 0 ELSE in[n].length
      /\ L[O] = Lengths(Signature(m).outputs, t)[O]
  BY <1>2 DEF AdvancedShape
<1>4. /\ P \in Seq(Sized) /\ Len(P) = O + (N - drop)
      /\ \A n \in 1..(N - drop) : P[O + n] = in[n]
      /\ \A n \in 1..C : in[n] = m.inputs[n]
      /\ \A n \in (C + 1 + drop)..N :
           in[n - drop].type = m.inputs[n].type /\ in[n - drop].length = m.count * m.inputs[n].length
  BY <1>2 DEF PluginShape, SignatureShape
<1>5. M[O] = Lengths(Signature(m).outputs, t)[O]
  <2>1. PICK o \in Seq(Sized) : o = Signature(m).outputs /\ Len(o) = O
    BY <1>2 DEF SignatureShape, Outs
  <2>2. PICK s \in Seq(Sized) : s = in
    BY <1>2 DEF SignatureShape
  <2>3. P = o \o s
    BY <2>1, <2>2 DEF Plugin
  <2>. QED  BY <1>1, <2>1, <2>3, LengthsOfPrefix, O \in 0..Len(o)
<1>6. \A n \in 1..Len(A) : L[n] = L[n - 1] + IF A[n].type = t THEN A[n].length ELSE 0
  BY <1>3, LengthsAre
<1>7. \A n \in 1..Len(P) : M[n] = M[n - 1] + IF P[n].type = t THEN P[n].length ELSE 0
  <2>1. P \in Seq(Sized)
    BY <1>4
  <2>. QED  BY <2>1, LengthsAre
<1>8. \A n \in 0..Len(A) : L[n] \in Nat
  BY <1>3, LengthsAre
<1>9. \A n \in (C + 2)..N : m.enumerated => m.inputs[n].length = m.inputs[n - 1].length
  BY DEF PlacesAgree
<1>10. /\ ~(m.enumerated /\ O + i = O + C + 1)
       /\ Behind(m, O + i) = IF m.enumerated /\ O + i > O + C THEN (O + i) - 1 ELSE O + i
  <2>1. ~(m.enumerated /\ O + i = O + C + 1)
    BY DEF IsNumber
  <2>2. Behind(m, O + i) = IF m.enumerated /\ O + i > O + C THEN (O + i) - 1 ELSE O + i
    BY Zenon DEF Behind
  <2>. QED  BY <2>1, <2>2
<1> HIDE DEF N, O, C, in, drop, A, P, L, M
<1>11. ASSUME NEW n \in 1..(N - 1), L[O + (n - 1)] = M[O + r(n - 1)]
       PROVE  L[O + n] = M[O + r(n)]
  <2>1. /\ n \in Nat /\ O + n \in 1..Len(A) /\ (O + n) - 1 = O + (n - 1)
        /\ L[O + n] = L[O + (n - 1)] + IF A[O + n].type = t THEN A[O + n].length ELSE 0
    <3>1. n \in Nat /\ O + n \in 1..Len(A) /\ (O + n) - 1 = O + (n - 1)
      BY <1>1, <1>3
    <3>. QED  BY <1>6, <3>1
  <2>2. CASE m.enumerated /\ n = C + 1
    <3>1. r(n) = n - 1 /\ r(n - 1) = n - 1
      BY <1>1, <2>1, <2>2, SMTT(30)
    <3>2. A[O + n].length = 0 /\ L[O + (n - 1)] \in Nat
      BY <1>1, <1>3, <1>8, <2>1, <2>2, O + (n - 1) \in 0..Len(A)
    <3>. QED  BY <1>11, <2>1, <3>1, <3>2
  <2>3. CASE m.enumerated => n <= C
    <3>1. r(n) = n /\ r(n - 1) = n - 1
      BY <1>1, <2>1, <2>3
    <3>2. n \in 1..(N - drop) /\ O + n \in 1..Len(P)
      BY <1>1, <1>4, <2>3
    <3>3. P[O + n] = in[n]
      BY <1>4, <3>2
    <3>4. in[n].type = m.inputs[n].type
      <4>1. CASE n <= C
        BY <1>4, <4>1, n \in 1..C
      <4>2. CASE n > C
        BY <1>1, <1>4, <2>3, <4>2, drop = 0, n \in (C + 1 + drop)..N, n - drop = n
      <4>. QED  BY <1>1, <2>1, <4>1, <4>2
    <3>5. A[O + n].type = m.inputs[n].type /\ A[O + n].length = in[n].length
      BY <1>1, <1>3, <2>3
    <3>6. M[O + n] = M[O + (n - 1)] + IF P[O + n].type = t THEN P[O + n].length ELSE 0
      BY <1>7, <2>1, <3>2
    <3>. QED  BY <1>11, <2>1, <3>1, <3>3, <3>4, <3>5, <3>6
  <2>4. CASE m.enumerated /\ n > C + 1
    <3>1. r(n) = n - 1 /\ r(n - 1) = (n - 1) - 1 /\ drop = 1
      BY <1>1, <2>1, <2>4
    <3>2. n - 1 \in 1..(N - drop) /\ O + (n - 1) \in 1..Len(P) /\ (O + (n - 1)) - 1 = O + ((n - 1) - 1)
      BY <1>1, <1>4, <2>1, <2>4, <3>1
    <3>3. P[O + (n - 1)] = in[n - 1]
      BY <1>4, <3>2
    <3>4. n \in (C + 1 + drop)..N /\ n + 1 \in (C + 1 + drop)..N /\ n - drop = n - 1 /\ (n + 1) - drop = n
      BY <1>1, <2>1, <2>4, <3>1
    <3>5. in[n - 1].type = m.inputs[n].type /\ in[n - 1].length = m.count * m.inputs[n].length
      BY <1>4, <3>4
    <3>6. in[n].length = m.count * m.inputs[n + 1].length
      BY <1>4, <3>4
    <3>7. n + 1 \in (C + 2)..N /\ (n + 1) - 1 = n
      BY <1>1, <2>1, <2>4
    <3>8. m.inputs[n + 1].length = m.inputs[n].length
      BY <1>9, <2>4, <3>7
    <3>9. A[O + n].type = m.inputs[n].type /\ A[O + n].length = in[n].length
      BY <1>1, <1>3, <2>4
    <3>10. M[O + (n - 1)] = M[O + ((n - 1) - 1)]
             + IF P[O + (n - 1)].type = t THEN P[O + (n - 1)].length ELSE 0
      BY <1>7, <3>2
    <3>. QED  BY <1>11, <2>1, <3>1, <3>3, <3>5, <3>6, <3>8, <3>9, <3>10
  <2>. QED  BY <1>1, <2>1, <2>2, <2>3, <2>4
<1>12. L[O + 0] = M[O + r(0)]
  BY <1>1, <1>3, <1>5, O + 0 = O, r(0) = 0
<1>13. Failed = {}
  <2>1. SUFFICES ASSUME Failed # {}
                 PROVE  FALSE
    OBVIOUS
  <2>2. PICK n \in Failed : \A k \in Failed : n <= k
    BY <1>1, <2>1, LeastNat, Failed \subseteq Nat, Zenon
  <2>3. n \in 0..(N - 1) /\ L[O + n] # M[O + r(n)]
    OBVIOUS
  <2>4. n # 0
    BY <1>12, <2>3
  <2>5. n \in 1..(N - 1) /\ n - 1 \in 0..(N - 1) /\ ~(n <= n - 1)
    BY <1>1, <2>3, <2>4
  <2>6. L[O + (n - 1)] = M[O + r(n - 1)]
    BY <2>2, <2>5
  <2>. QED  BY <1>11, <2>3, <2>5, <2>6
<1>14. i - 1 \in 0..(N - 1)
  BY <1>1 DEF N
<1>15. L[O + (i - 1)] = M[O + r(i - 1)]
  BY <1>13, <1>14
<1>16. O + (i - 1) = O + i - 1 /\ O + r(i - 1) = Behind(m, O + i) - 1
  <2>1. i \in Nat /\ i # 0
    BY <1>1 DEF N
  <2>2. CASE m.enumerated /\ i > C
    BY <1>1, <1>10, <2>1, <2>2
  <2>3. CASE ~(m.enumerated /\ i > C)
    BY <1>1, <1>10, <2>1, <2>3
  <2>. QED  BY <2>2, <2>3
<1>. QED  BY <1>15, <1>16 DEF L, M, A, P, O

LEMMA CheckPlaceAgrees ==
  ASSUME NEW m, MapShape(m), PlacesAgree(m), NEW i \in 1..Outs(m)
  PROVE  Place(Signature(m).outputs, i)
           = IF m.outputs[i].type + 1 < i
             THEN Signature(m).outputs[m.outputs[i].type + 1].length ELSE 0
<1> DEFINE out == Signature(m).outputs
           t == m.outputs[i].type
           L == Lengths(out, t)
           O == Outs(m)
           want(n) == IF t + 1 <= n THEN out[t + 1].length ELSE 0
           Failed == {n \in 0..(i - 1) : L[n] # want(n)}
<1>1. SignatureShape(m) /\ O \in Nat /\ i \in Nat
  BY SignatureIs, FunctionIs DEF FunctionShape
<1>2. /\ out \in Seq(Sized) /\ Len(out) = O
      /\ \A n \in 1..O : out[n].type = m.outputs[n].type
  BY <1>1 DEF SignatureShape, Outs
<1>3. t \in Nat
  <2>1. m.outputs[i] \in Parameter
    BY DEF MapShape, Outs
  <2>. QED  BY <2>1, ParameterIs DEF Type
<1>4. \A n \in 1..(i - 1) : n \in 1..O /\ m.outputs[n].type = n - 1
  <2>1. \A n \in 1..(O - 1) : m.outputs[n].type = n - 1
    BY DEF PlacesAgree, Outs
  <2>. QED  BY <1>1, <2>1
<1>5. \A n \in 1..O : L[n] = L[n - 1] + IF out[n].type = t THEN out[n].length ELSE 0
  BY <1>2, LengthsAre
<1>6. L[0] = 0 /\ \A n \in 0..O : L[n] \in Nat
  BY <1>2, LengthsAre
<1>7. \A n \in 1..O : out[n].length \in Nat
  <2>1. \A n \in 1..O : out[n] \in Sized
    BY <1>2
  <2>. QED  BY <2>1 DEF Sized
<1>8. Place(out, i) = L[i - 1]
  BY <1>2 DEF Place
<1> HIDE DEF out, t, L, O
<1>9. Failed = {}
  <2>1. SUFFICES ASSUME Failed # {}
                 PROVE  FALSE
    OBVIOUS
  <2>2. PICK n \in Failed : \A k \in Failed : n <= k
    BY <1>1, <2>1, LeastNat, Failed \subseteq Nat, Zenon
  <2>3. n \in 0..(i - 1) /\ L[n] # want(n)
    OBVIOUS
  <2>4. n # 0
    BY <1>3, <1>6, <2>3
  <2>5. n \in 1..(i - 1) /\ n - 1 \in 0..(i - 1) /\ ~(n <= n - 1) /\ n \in Nat
    BY <1>1, <2>3, <2>4
  <2>6. L[n - 1] = want(n - 1)
    BY <2>2, <2>5
  <2>7. /\ n \in 1..O /\ out[n].type = n - 1 /\ out[n].length \in Nat
        /\ L[n] = L[n - 1] + IF out[n].type = t THEN out[n].length ELSE 0
    BY <1>2, <1>4, <1>5, <1>7, <2>5
  <2>8. CASE t = n - 1
    <3>1. want(n) = out[n].length /\ want(n - 1) = 0
      BY <1>3, <2>5, <2>8, t + 1 = n
    <3>. QED  BY <2>3, <2>6, <2>7, <2>8, <3>1
  <2>9. CASE t # n - 1
    <3>1. want(n) = want(n - 1)
      BY <1>3, <2>5, <2>9
    <3>2. L[n - 1] \in Nat
      <4>1. n - 1 \in 0..O
        BY <1>1, <2>5, <2>7
      <4>. QED  BY <1>6, <4>1
    <3>. QED  BY <2>3, <2>6, <2>7, <2>9, <3>1, <3>2
  <2>. QED  BY <2>8, <2>9
<1>10. L[i - 1] = want(i - 1)
  BY <1>1, <1>9, i - 1 \in 0..(i - 1)
<1>11. t + 1 <= i - 1 <=> t + 1 < i
  BY <1>1, <1>3
<1>. QED  BY <1>8, <1>10, <1>11 DEF out, t

(* The outputs come first, also by themselves.                              *)
LEMMA OutputPlaces ==
  ASSUME NEW m, MapShape(m), NEW k \in 1..Outs(m)
  PROVE  /\ Place(Signature(m).outputs, k) = Place(Plugin(m), k)
         /\ WiresOf(Signature(m).outputs, k) = WiresOf(Plugin(m), k)
<1>1. SignatureShape(m) /\ PluginShape(m) /\ Outs(m) \in Nat
  BY SignatureIs, PluginIs, FunctionIs DEF FunctionShape
<1>2. PICK o \in Seq(Sized) : o = Signature(m).outputs /\ Len(o) = Outs(m)
  BY <1>1 DEF SignatureShape, Outs
<1>3. PICK i \in Seq(Sized) : i = Signature(m).inputs
  BY <1>1 DEF SignatureShape
<1>4. Plugin(m) = o \o i /\ Plugin(m)[k] = o[k]
  BY <1>1, <1>2, <1>3 DEF Plugin, PluginShape
<1>5. k - 1 \in 0..Len(o)
  BY <1>1, <1>2
<1>6. Lengths(o \o i, o[k].type)[k - 1] = Lengths(o, o[k].type)[k - 1]
  BY <1>5, LengthsOfPrefix
<1>7. Place(Signature(m).outputs, k) = Place(Plugin(m), k)
  BY <1>2, <1>4, <1>6 DEF Place
<1>. QED  BY <1>2, <1>4, <1>7 DEF WiresOf

(* In a join of slices, one for each parameter of a type, each slice lies   *)
(* at the place of its parameter.                                           *)
Sliced(slices, params, t, S) ==
  /\ slices \in Seq(Seq(S)) /\ Len(slices) = Len(params)
  /\ \A k \in 1..Len(params) :
       Len(slices[k]) = IF params[k].type = t THEN params[k].length ELSE 0

SlicesPlaced(wires, slices, params, t, S) ==
  /\ wires \in Seq(S)
  /\ \A k \in 1..Len(params) : params[k].type = t =>
       \A n \in 0..(params[k].length - 1) :
         /\ Place(params, k) + n + 1 \in 1..Len(wires)
         /\ wires[Place(params, k) + n + 1] = slices[k][n + 1]

LEMMA FlattenPlaces ==
  ASSUME NEW params \in Seq(Sized), NEW t, NEW S, NEW slices, Sliced(slices, params, t, S)
  PROVE  SlicesPlaced(FlattenSeq(slices), slices, params, t, S)
<1> DEFINE L == Lengths(params, t)
           N == Len(params)
<1>1. slices \in Seq(Seq(S)) /\ Len(slices) = N /\ N \in Nat
  BY DEF Sliced
<1>2. PICK f : IsJoin(f, slices, S) /\ FlattenSeq(slices) = f[Len(slices)]
  BY <1>1, FlattenIs
<1>3. f \in [0..N -> Seq(S)] /\ f[0] = <<>> /\ FlattenSeq(slices) = f[N]
  BY <1>1, <1>2 DEF IsJoin
<1>4. L \in [0..N -> Nat] /\ L[0] = 0
  BY LengthsAre
<1>5. \A n \in 1..N : L[n] = L[n - 1] + Len(slices[n])
  <2>1. \A n \in 1..N : L[n] = L[n - 1] + IF params[n].type = t THEN params[n].length ELSE 0
    BY LengthsAre
  <2>2. \A n \in 1..N : Len(slices[n]) = IF params[n].type = t THEN params[n].length ELSE 0
    BY DEF Sliced
  <2>. QED  BY <2>1, <2>2
<1>6. \A k \in 1..N : params[k].type = t => Place(params, k) = L[k - 1] /\ Len(slices[k]) = params[k].length
  BY DEF Place, Sliced
<1> HIDE DEF L
<1> DEFINE Failed == {n \in 0..N : Len(f[n]) # L[n]}
<1>7. Failed = {}
  <2>1. SUFFICES ASSUME Failed # {}
                 PROVE  FALSE
    OBVIOUS
  <2>2. PICK n \in Failed : \A k \in Failed : n <= k
    BY <1>1, <2>1, LeastNat, Failed \subseteq Nat, Zenon
  <2>3. n \in 0..N /\ Len(f[n]) # L[n]
    OBVIOUS
  <2>4. n # 0
    BY <1>3, <1>4, <2>3, Len(<<>>) = 0
  <2>5. n \in 1..N /\ n - 1 \in 0..N /\ ~(n <= n - 1)
    BY <1>1, <2>3, <2>4
  <2>6. Len(f[n - 1]) = L[n - 1]
    BY <2>2, <2>5
  <2>7. f[n] = f[n - 1] \o slices[n]
    BY <1>1, <1>2, <2>5 DEF IsJoin
  <2>8. f[n - 1] \in Seq(S) /\ slices[n] \in Seq(S)
    <3>1. n \in 1..Len(slices)
      BY <1>1, <2>5
    <3>2. slices[n] \in Seq(S)
      BY <1>1, <3>1
    <3>. QED  BY <1>3, <2>5, <3>2
  <2>9. Len(f[n]) = Len(f[n - 1]) + Len(slices[n])
    BY <2>7, <2>8
  <2>. QED  BY <1>5, <2>3, <2>5, <2>6, <2>9
<1>8. ASSUME NEW k \in 1..N, params[k].type = t, NEW n \in 0..(params[k].length - 1)
      PROVE  /\ Place(params, k) + n + 1 \in 1..Len(FlattenSeq(slices))
             /\ FlattenSeq(slices)[Place(params, k) + n + 1] = slices[k][n + 1]
  <2>1. /\ k - 1 \in 0..N /\ k - 1 \in Nat /\ Place(params, k) = Len(f[k - 1])
        /\ n + 1 \in 1..Len(slices[k]) /\ Len(f[k - 1]) \in Nat /\ n \in Nat
    <3>1. k - 1 \in 0..N /\ Place(params, k) = L[k - 1] /\ Len(slices[k]) = params[k].length
      BY <1>1, <1>6, <1>8
    <3>2. Len(f[k - 1]) = L[k - 1] /\ L[k - 1] \in Nat
      BY <1>4, <1>7, <3>1
    <3>3. Len(slices[k]) \in Nat
      BY <1>1
    <3>. QED  BY <1>8, <3>1, <3>2, <3>3
  <2>2. /\ Len(f[k - 1]) + (n + 1) \in 1..Len(f[N])
        /\ f[N][Len(f[k - 1]) + (n + 1)] = slices[k][n + 1]
    <3>1. JoinAt(f, slices, k)
      BY <1>1, <1>2, JoinKeeps
    <3>. QED  BY <1>1, <2>1, <3>1 DEF JoinAt
  <2>3. Place(params, k) + n + 1 = Len(f[k - 1]) + (n + 1)
    <3>1. \A a, b \in Nat : a + b + 1 = a + (b + 1)
      OBVIOUS
    <3>. QED  BY <2>1, <3>1
  <2>. QED  BY <1>3, <2>2, <2>3
<1>9. FlattenSeq(slices) \in Seq(S)
  BY <1>1, <1>3
<1>. QED  BY <1>8, <1>9 DEF SlicesPlaced

-----------------------------------------------------------------------------
(* The slices that the plugin computes: where parameter k of the function   *)
(* begins in this scope.                                                    *)
First(m, k) == IF IsNumber(m, k) THEN enumPlace + 1 ELSE From(m, k, j)

IsCall(m) == map = m /\ signature = Signature(m)

LEMMA CallShape ==
  ASSUME NEW m \in Maps, Aligned
  PROVE  MapShape(m) /\ PlacesAgree(m)
BY MapsAre

LEMMA CallIs ==
  ASSUME NEW m, MapShape(m), IsCall(m)
  PROVE  /\ PluginParams = Plugin(m) /\ FunctionParams = Function(m)
         /\ OutputKs = 1..Outs(m) /\ InputKs = (Outs(m) + 1)..Len(Plugin(m))
         /\ DOMAIN FunctionParams = 1..Len(Function(m))
         /\ DOMAIN PluginParams = 1..Len(Plugin(m))
<1>1. PluginParams = Plugin(m) /\ FunctionParams = Function(m)
  BY DEF IsCall, PluginParams, FunctionParams, Plugin, Function
<1>2. OutputKs = 1..Outs(m)
  BY DEF IsCall, OutputKs, Outs
<1>3. InputKs = (Outs(m) + 1)..Len(Plugin(m))
  BY <1>1 DEF IsCall, InputKs, Outs
<1>4. Plugin(m) \in Seq(Sized)
  BY PluginIs DEF PluginShape
<1>5. DOMAIN Plugin(m) = 1..Len(Plugin(m))
  BY <1>4
<1>6. DOMAIN Function(m) = 1..Len(Function(m))
  BY FunctionIs DEF FunctionShape
<1>. QED  BY <1>1, <1>2, <1>3, <1>5, <1>6

LEMMA OutputFirstIs ==
  ASSUME NEW m, MapShape(m), IsCall(m), NEW k \in 1..Outs(m)
  PROVE  OutputFirst(k) = First(m, k) /\ ~ IsNumber(m, k)
<1>1. Outs(m) \in Nat /\ m.closures \in Nat /\ Function(m)[k] = m.outputs[k]
  BY FunctionIs DEF FunctionShape, MapShape
<1>2. ~ IsNumber(m, k) /\ ~ IsClosure(m, k) /\ Behind(m, k) = k
  BY <1>1 DEF IsNumber, IsClosure, Behind
<1>3. Place(signature.outputs, k) = Place(Plugin(m), k)
  BY OutputPlaces DEF IsCall
<1>. QED  BY <1>1, <1>2, <1>3 DEF OutputFirst, First, From, IsCall

LEMMA InputFirstIs ==
  ASSUME NEW m, MapShape(m), PlacesAgree(m), IsCall(m), NEW i \in 1..Len(m.inputs)
  PROVE  /\ InputFirst(i) = First(m, Outs(m) + i)
         /\ InputLength(i) = m.inputs[i].length
<1> DEFINE O == Outs(m)
           C == m.closures
           k == O + i
<1>1. /\ O \in Nat /\ C \in Nat /\ Len(m.inputs) \in Nat /\ m.enumerated \in BOOLEAN
      /\ Function(m)[k] = m.inputs[i] /\ k \in 1..Len(Function(m))
  BY FunctionIs DEF FunctionShape, MapShape
<1>2. /\ IsNumber(m, k) <=> EnumInput(i)
      /\ IsClosure(m, k) <=> i <= C
  BY <1>1, SMTT(30) DEF IsNumber, IsClosure, EnumInput, IsCall
<1>3. EnumInput(i) => ~(i <= C)
  BY <1>1 DEF EnumInput, IsCall
<1>4. CASE EnumInput(i)
  <2>1. InputFirst(i) = enumPlace + 1
    BY <1>3, <1>4 DEF InputFirst, IsCall
  <2>. QED  BY <1>2, <1>4, <2>1 DEF First, InputLength, IsCall
<1>5. CASE ~ EnumInput(i)
  <2>1. Lengths(Advanced(m), m.inputs[i].type)[Outs(m) + i - 1]
          = Lengths(Plugin(m), m.inputs[i].type)[Behind(m, k) - 1]
    BY <1>2, <1>5, AdvancedAgrees
  <2>2. Advances = Advanced(m)
    BY DEF Advances, Advanced, EnumInput, IsCall
  <2>3. InputStart(i) = Lengths(Plugin(m), m.inputs[i].type)[Behind(m, k) - 1]
    BY <2>1, <2>2 DEF InputStart, IsCall, Outs
  <2>4. Plugin(m)[Behind(m, k)].type = m.inputs[i].type
    BY <1>1, <1>2, <1>5, BehindEach DEF BehindIs
  <2>5. InputStart(i) = Place(Plugin(m), Behind(m, k))
    BY <2>3, <2>4 DEF Place
  <2>6. CASE i <= C
    <3>1. InputFirst(i) = InputStart(i)
      BY <1>5, <2>6 DEF InputFirst, IsCall
    <3>2. Place(Plugin(m), Behind(m, k)) + 0 = Place(Plugin(m), Behind(m, k))
      <4>1. Behind(m, k) \in 1..Len(Plugin(m))
        BY <1>1, <1>2, <1>5, BehindEach DEF BehindIs
      <4>. QED  BY <4>1, PluginBelow
    <3>3. First(m, k) = Place(Plugin(m), Behind(m, k))
      BY <1>2, <1>5, <2>6, <3>2 DEF First, From
    <3>. QED  BY <2>5, <2>6, <3>1, <3>3 DEF InputLength, IsCall
  <2>7. CASE ~(i <= C)
    <3>1. SliceLength(i) = m.inputs[i].length
      <4>1. CASE m.enumerated
        <5>1. i \in (C + 2)..Len(m.inputs)
          BY <1>1, <1>5, <2>7, <4>1 DEF EnumInput, IsCall
        <5>2. m.inputs[i].length = m.inputs[i - 1].length
          BY <4>1, <5>1 DEF PlacesAgree
        <5>. QED  BY <4>1, <5>2 DEF SliceLength, IsCall
      <4>2. CASE ~ m.enumerated
        BY <4>2 DEF SliceLength, IsCall
      <4>. QED  BY <4>1, <4>2
    <3>2. InputFirst(i) = InputStart(i) + j * SliceLength(i)
      BY <1>5, <2>7 DEF InputFirst, IsCall
    <3>3. First(m, k) = Place(Plugin(m), Behind(m, k)) + j * m.inputs[i].length
      BY <1>1, <1>2, <1>5, <2>7 DEF First, From
    <3>. QED  BY <1>5, <2>5, <2>7, <3>1, <3>2, <3>3 DEF InputLength, IsCall
  <2>. QED  BY <2>6, <2>7
<1>. QED  BY <1>4, <1>5

(* A slice that is found is mapped as it is.                                *)
SliceWires(m, k) == First(m, k) .. (First(m, k) + Function(m)[k].length - 1)

Found(m, k) ==
  LET t == Function(m)[k].type
  IN  /\ IF k <= Outs(m) THEN SliceWires(m, k) \cap assigned[t] = {}
         ELSE SliceWires(m, k) \subseteq active[t]
      /\ InOneRange(t, SliceWires(m, k))

LEMMA SliceOfIs ==
  ASSUME NEW m, MapShape(m), PlacesAgree(m), IsCall(m),
         NEW k \in 1..Len(Function(m)), Found(m, k)
  PROVE  SliceOf(k) = [n \in 1..Function(m)[k].length |-> First(m, k) + n - 1]
<1>1. /\ Outs(m) \in Nat /\ Len(m.inputs) \in Nat /\ Outs(m) = Len(map.outputs)
      /\ Len(Function(m)) = Outs(m) + Len(m.inputs)
  BY FunctionIs DEF FunctionShape, MapShape, IsCall, Outs
<1>2. OutputKs = 1..Outs(m) /\ FunctionParams = Function(m)
  BY CallIs
<1>3. CASE k <= Outs(m)
  <2>1. k \in OutputKs /\ k \in 1..Outs(m)
    BY <1>1, <1>2, <1>3
  <2>2. OutputFirst(k) = First(m, k)
    BY <2>1, OutputFirstIs
  <2>3. SliceWires(m, k) \cap assigned[Function(m)[k].type] = {} /\ InOneRange(Function(m)[k].type, SliceWires(m, k))
    BY <1>3 DEF Found
  <2>. QED  BY <1>2, <2>1, <2>2, <2>3 DEF SliceOf, SliceWires
<1>4. CASE ~(k <= Outs(m))
  <2>1. PICK i \in 1..Len(m.inputs) : k = Outs(m) + i /\ k - Len(map.outputs) = i
    <3>1. PICK O \in Nat : O = Outs(m)
      BY <1>1
    <3>2. PICK N \in Nat : N = Len(m.inputs)
      BY <1>1
    <3>3. k \in 1..(O + N) /\ ~(k <= O)
      BY <1>1, <1>4, <3>1, <3>2
    <3>4. k - O \in 1..N /\ k = O + (k - O)
      BY <3>3
    <3>. QED  BY <1>1, <3>1, <3>2, <3>4
  <2>2. k \notin OutputKs /\ Function(m)[k] = m.inputs[i]
    BY <1>1, <1>2, <1>4, <2>1, FunctionIs DEF FunctionShape
  <2>3. InputFirst(i) = First(m, k) /\ InputLength(i) = Function(m)[k].length
    BY <2>1, <2>2, InputFirstIs
  <2>4. SliceWires(m, k) \subseteq active[Function(m)[k].type] /\ InOneRange(Function(m)[k].type, SliceWires(m, k))
    BY <1>4 DEF Found
  <2>. QED  BY <1>2, <2>1, <2>2, <2>3, <2>4 DEF SliceOf, SliceWires
<1>. QED  BY <1>3, <1>4

-----------------------------------------------------------------------------
(* The wires of the iteration's number: at the top of the index type, a new *)
(* block for each iteration, above all parameters.                          *)
NumberLength(m) == IF m.enumerated THEN m.inputs[m.closures + 1].length ELSE 0
NumberType(m) == m.inputs[m.closures + 1].type
NumberPlace(m, rounds) == TopWire - rounds * NumberLength(m)
ParameterEnd == MostWires * (MaxOutputs + MaxInputs)

LEMMA NumberRoom ==
  ASSUME NEW m, MapShape(m), NEW r \in 0..m.count
  PROVE  /\ NumberPlace(m, r) \in Nat /\ NumberPlace(m, r) <= TopWire
         /\ ParameterEnd \in Nat /\ ParameterEnd < NumberPlace(m, r)
         /\ NumberLength(m) \in Nat
         /\ NumberPlace(m, r + 1) + NumberLength(m) = NumberPlace(m, r)
<1> DEFINE l == NumberLength(m)
           C == MaxOutputs + MaxInputs
<1>1. /\ l \in Nat /\ l <= MaxLength /\ MaxLength \in Nat /\ MaxCount \in Nat /\ C \in Nat
      /\ r \in Nat /\ r <= MaxCount /\ m.count \in Nat
  <2>1. m.count \in Nat /\ m.count <= MaxCount /\ MaxLength \in Nat /\ MaxCount \in Nat /\ C \in Nat
    BY IterAssumption DEF MapShape
  <2>2. l \in Nat /\ l <= MaxLength
    <3>1. CASE m.enumerated
      <4>1. m.closures + 1 \in 1..Len(m.inputs) /\ m.inputs \in Seq(Parameter)
        BY <3>1 DEF MapShape
      <4>2. m.inputs[m.closures + 1] \in Parameter
        BY <4>1
      <4>. QED  BY <3>1, <4>2, ParameterIs DEF NumberLength
    <3>2. CASE ~ m.enumerated
      BY <2>1, <3>2 DEF NumberLength
    <3>. QED  BY <3>1, <3>2
  <2>. QED  BY <2>1, <2>2
<1> HIDE DEF l, C
<1>2. r * l <= MaxCount * l /\ MaxCount * l <= MostWires /\ r * l \in Nat /\ MostWires \in Nat
  BY <1>1, ProductGrows DEF MostWires
<1>3. MostWires * C \in Nat /\ TopWire \in Nat /\ TopWire > MostWires * C + MostWires
  <2>1. MaxCount * MaxLength * (MaxOutputs + MaxInputs + 1) = MostWires * (C + 1)
    BY DEF MostWires, C
  <2>2. MostWires * (C + 1) = MostWires * C + MostWires /\ MostWires * C \in Nat
    BY <1>1, <1>2
  <2>. QED  BY <2>1, <2>2, IterAssumption
<1>4. (r + 1) * l = r * l + l
  BY <1>1
<1>5. ParameterEnd = MostWires * C
  BY DEF ParameterEnd, C
<1>6. NumberPlace(m, r) = TopWire - r * l /\ NumberPlace(m, r + 1) = TopWire - (r + 1) * l
  BY DEF NumberPlace, l
<1>7. PICK p \in Nat : p = r * l /\ p <= MostWires
  BY <1>1, <1>2
<1>8. PICK e \in Nat : e = MostWires * C
  BY <1>3
<1>. QED  BY <1>1, <1>2, <1>3, <1>4, <1>5, <1>6, <1>7, <1>8 DEF l

-----------------------------------------------------------------------------
(* The arguments of iteration i, and everything that can be one.            *)
DigitOf(i, length, n) ==
  IF length = 1 THEN i % Modulus ELSE (i \div 2^(length - 1 - n)) % 2

ArgumentOf(m, i, p, n) ==
  IF p <= m.closures THEN [input |-> p, element |-> n]
  ELSE IF m.enumerated /\ p = m.closures + 1
       THEN [digit |-> DigitOf(i, m.inputs[p].length, n)]
       ELSE [input |-> IF m.enumerated THEN p - 1 ELSE p,
             element |-> i * m.inputs[p].length + n]

ArgumentsOf(m, i) ==
  [p \in DOMAIN m.inputs |-> [n \in 0..(m.inputs[p].length - 1) |-> ArgumentOf(m, i, p, n)]]

AnyArguments(m) == {ArgumentsOf(m, i) : i \in Nat}

(* The shapes of the state, and where its numbers stand at each phase.      *)
Rounds == IF phase \in {"remap", "evaluate", "check"} THEN j + 1 ELSE j

Shape(m) ==
  /\ phase \in {"enter", "unassign", "enumerate", "remap", "evaluate", "check", "done"}
  /\ j \in 0..m.count
  /\ phase # "done" => j < m.count
  /\ phase \in {"enter", "unassign"} => j = 0
  /\ enumPlace = NumberPlace(m, Rounds)
  /\ assigned \in [Type -> SUBSET (0..TopWire)]
  /\ active \in [Type -> SUBSET (0..TopWire)]
  /\ \A t \in Type : active[t] \subseteq assigned[t]
  /\ mapped \in [Type -> Seq(0..TopWire)]
  /\ written \subseteq 1..Outs(m)
  /\ seen \in Seq(AnyArguments(m))
  /\ Len(seen) = IF phase = "check" THEN j + 1 ELSE j

(* Wire w of type t holds v.                                                *)
Holds(t, w, v) == w \in active[t] /\ <<t, w>> \in DOMAIN value /\ value[<<t, w>>] = v

(* The inputs of the plugin keep their values.                              *)
InputsHeld(m) ==
  \A q \in (Outs(m) + 1)..Len(Plugin(m)) : \A w \in WiresOf(Plugin(m), q) :
    Holds(Plugin(m)[q].type, w, [input |-> q - Outs(m), element |-> w - Place(Plugin(m), q)])

(* The outputs of this and of later iterations are not assigned.            *)
OutputsFree(m) ==
  phase \notin {"enter", "unassign"} =>
    \A o \in 1..Outs(m) : \A w \in WiresOf(Plugin(m), o) :
      w >= From(m, o, j) => w \notin assigned[m.outputs[o].type]

(* The number of this iteration is there, from its place on.                *)
NumberHeld(m) ==
  (m.enumerated /\ phase \in {"remap", "evaluate", "check"}) =>
    \A n \in 0..(NumberLength(m) - 1) :
      Holds(NumberType(m), enumPlace + 1 + n, [digit |-> DigitOf(j, NumberLength(m), n)])

(* The iteration's scope has its parameters' slices.                        *)
Shown(m) ==
  phase \in {"evaluate", "check"} =>
    \A k \in 1..Len(Function(m)) : \A n \in 0..(Function(m)[k].length - 1) :
      LET wires == mapped[Function(m)[k].type]
          place == Place(Function(m), k) + n + 1
      IN  place \in 1..Len(wires) /\ wires[place] = First(m, k) + n

(* The outputs that the function assigned have their values, and the        *)
(* arguments that it read were those of the iteration.                      *)
ResultsHeld(m) ==
  phase = "check" =>
    /\ seen[j + 1] = ArgumentsOf(m, j)
    /\ \A o \in written : \A n \in 0..(m.outputs[o].length - 1) :
         LET wire == <<m.outputs[o].type, From(m, o, j) + n>>
         IN  /\ wire \in DOMAIN value
             /\ value[wire] = [output |-> o, element |-> n, iteration |-> j]

Inv(m) ==
  /\ IsCall(m) /\ Shape(m) /\ InputsHeld(m) /\ OutputsFree(m) /\ NumberHeld(m)
  /\ Shown(m) /\ ResultsHeld(m)

IInv == \E m \in Maps : Inv(m)

-----------------------------------------------------------------------------
(* The wires of the plugin's parameters are wires of this scope, and none   *)
(* of them reaches the wires of the iteration's number.                     *)
Below(m, q) ==
  /\ Plugin(m)[q].type \in Type
  /\ \A w \in WiresOf(Plugin(m), q) : w \in 0..TopWire /\ w < ParameterEnd

LEMMA PluginWires ==
  ASSUME NEW m, MapShape(m), NEW q \in 1..Len(Plugin(m))
  PROVE  Below(m, q)
<1>1. Plugin(m) \in Seq(Sized)
  BY PluginIs DEF PluginShape
<1>2. Plugin(m)[q].type \in Type
  <2>1. Plugin(m)[q] \in Sized
    BY <1>1
  <2>. QED  BY <2>1 DEF Sized
<1>3. PICK p \in Nat, l \in Nat : /\ p = Place(Plugin(m), q) /\ l = Plugin(m)[q].length
                                  /\ p + l <= ParameterEnd
  BY PluginBelow DEF ParameterEnd
<1>4. 0 \in 0..m.count
  BY IterAssumption DEF MapShape
<1>5. ParameterEnd \in Nat /\ ParameterEnd < TopWire /\ TopWire \in Nat
  BY <1>4, NumberRoom, IterAssumption
<1>6. WiresOf(Plugin(m), q) = p..(p + l - 1)
  BY <1>3 DEF WiresOf
<1>7. \A w \in p..(p + l - 1) : w \in 0..TopWire /\ w < ParameterEnd
  BY <1>3, <1>5, SMTT(30)
<1>. QED  BY <1>2, <1>6, <1>7 DEF Below

(* Only one parameter of the plugin has a wire.                             *)
LEMMA PluginApart ==
  ASSUME NEW m, MapShape(m), NEW p \in 1..Len(Plugin(m)), NEW q \in 1..Len(Plugin(m)),
         Plugin(m)[p].type = Plugin(m)[q].type,
         NEW w \in WiresOf(Plugin(m), p), w \in WiresOf(Plugin(m), q)
  PROVE  p = q
<1>1. Plugin(m) \in Seq(Sized)
  BY PluginIs DEF PluginShape
<1>. QED  BY <1>1, WiresApart

LEMMA InitInv ==
  ASSUME Aligned, Init
  PROVE  IInv
<1>1. PICK m \in Maps : m = map
  BY DEF Init
<1> DEFINE P == Plugin(m)
           L == Len(P)
           O == Outs(m)
<1>2. MapShape(m) /\ IsCall(m)
  BY <1>1, CallShape DEF Init, IsCall
<1>3. /\ PluginParams = P /\ InputKs = (O + 1)..L /\ O \in Nat /\ L \in Nat
      /\ \A q \in (O + 1)..L : q \in 1..L
  <2>1. PluginParams = P /\ InputKs = (O + 1)..L /\ O \in Nat /\ L \in Nat
    BY <1>2, CallIs, PluginIs, FunctionIs DEF PluginShape, FunctionShape
  <2>. QED  BY <2>1
<1>4. \A t \in Type : assigned[t] = OfType(P, (O + 1)..L, t) /\ active = assigned
  BY <1>3 DEF Init
<1>5. assigned \in [Type -> SUBSET (0..TopWire)]
  <2>1. ASSUME NEW t \in Type, NEW w \in OfType(P, (O + 1)..L, t)
        PROVE  w \in 0..TopWire
    <3>1. PICK q \in (O + 1)..L : w \in WiresOf(P, q)
      BY <2>1 DEF OfType
    <3>. QED  BY <1>2, <1>3, <3>1, PluginWires DEF Below
  <2>2. \A t \in Type : OfType(P, (O + 1)..L, t) \in SUBSET (0..TopWire)
    BY <2>1
  <2>3. assigned = [t \in Type |-> OfType(P, (O + 1)..L, t)]
    BY <1>3 DEF Init
  <2>. QED  BY <2>2, <2>3
<1>6. Shape(m)
  <2>1. phase = "enter" /\ j = 0 /\ written = {} /\ seen = <<>> /\ enumPlace = TopWire
    BY DEF Init
  <2>2. m.count \in Nat /\ 1 <= m.count
    BY <1>2, IterAssumption DEF MapShape
  <2>3. NumberPlace(m, 0) = TopWire
    <3>1. 0 \in 0..m.count
      BY <2>2
    <3>2. NumberLength(m) \in Nat /\ TopWire \in Nat
      BY <1>2, <3>1, NumberRoom, IterAssumption
    <3>. QED  BY <3>2 DEF NumberPlace
  <2>4. mapped \in [Type -> Seq(0..TopWire)]
    BY DEF Init
  <2>5. seen \in Seq(AnyArguments(m)) /\ Len(seen) = 0
    BY <2>1
  <2>6. Rounds = 0
    BY <2>1 DEF Rounds
  <2>7. active = assigned
    BY DEF Init
  <2>8. enumPlace = NumberPlace(m, Rounds)
    BY <2>1, <2>3, <2>6
  <2>9. active \in [Type -> SUBSET (0..TopWire)] /\ \A t \in Type : active[t] \subseteq assigned[t]
    BY <1>5, <2>7
  <2>10. j \in 0..m.count /\ j < m.count /\ written \subseteq 1..Outs(m)
    BY <2>1, <2>2
  <2>11. /\ phase \in {"enter", "unassign", "enumerate", "remap", "evaluate", "check", "done"}
         /\ Len(seen) = IF phase = "check" THEN j + 1 ELSE j
    BY <2>1, <2>5
  <2>. QED  BY <1>5, <2>1, <2>4, <2>5, <2>8, <2>9, <2>10, <2>11, Zenon DEF Shape
<1>7. InputsHeld(m)
  <2>1. SUFFICES ASSUME NEW q \in (O + 1)..L, NEW w \in WiresOf(P, q)
                 PROVE  Holds(P[q].type, w, [input |-> q - O, element |-> w - Place(P, q)])
    BY DEF InputsHeld
  <2> DEFINE t == P[q].type
  <2>2. q \in 1..L /\ t \in Type
    BY <1>2, <1>3, PluginWires DEF Below
  <2>3. w \in active[t]
    <3>1. w \in OfType(P, (O + 1)..L, t)
      BY DEF OfType
    <3>. QED  BY <1>4, <2>2, <3>1
  <2>4. /\ value = [x \in UNION {{u} \X active[u] : u \in Type} |->
             LET k == CHOOSE k \in (O + 1)..L : P[k].type = x[1] /\ x[2] \in WiresOf(P, k)
             IN  [input |-> k - O, element |-> x[2] - Place(P, k)]]
    BY <1>1, <1>3 DEF Init, Outs
  <2>5. <<t, w>> \in UNION {{u} \X active[u] : u \in Type}
    BY <2>2, <2>3
  <2> DEFINE k == CHOOSE k \in (O + 1)..L : P[k].type = t /\ w \in WiresOf(P, k)
  <2>6. k \in (O + 1)..L /\ P[k].type = t /\ w \in WiresOf(P, k)
    OBVIOUS
  <2>7. k = q
    <3>1. PICK n \in 1..L : n = k
      BY <1>3, <2>6
    <3>2. P[n].type = P[q].type /\ w \in WiresOf(P, n)
      BY <2>6, <3>1
    <3>. HIDE DEF k
    <3>3. n = q
      BY <1>2, <2>2, <3>2, PluginApart
    <3>. QED  BY <3>1, <3>3
  <2>8. value[<<t, w>>] = [input |-> k - O, element |-> w - Place(P, k)]
    BY <2>4, <2>5
  <2>9. <<t, w>> \in DOMAIN value
    BY <2>4, <2>5
  <2>. HIDE DEF k
  <2>. QED  BY <2>3, <2>7, <2>8, <2>9 DEF Holds
<1>8. OutputsFree(m) /\ NumberHeld(m) /\ Shown(m) /\ ResultsHeld(m)
  BY DEF Init, OutputsFree, NumberHeld, Shown, ResultsHeld
<1>. QED  BY <1>2, <1>6, <1>7, <1>8 DEF Inv, IInv

(* The wires of the plugin's outputs, and that they are not its inputs'.    *)
OutputWires(m, t) ==
  UNION {WiresOf(Plugin(m), o) : o \in {k \in 1..Outs(m) : m.outputs[k].type = t}}

OutputsApart(m) ==
  /\ \A o \in 1..Outs(m) : /\ o \in 1..Len(Plugin(m))
                           /\ Plugin(m)[o].type = m.outputs[o].type /\ m.outputs[o].type \in Type
                           /\ Plugin(m)[o].length = m.count * m.outputs[o].length
                           /\ m.outputs[o] = Function(m)[o] /\ o \in 1..Len(Function(m))
                           /\ ~ IsNumber(m, o) /\ ~ IsClosure(m, o) /\ Behind(m, o) = o
  /\ \A t : OfType(Plugin(m), 1..Outs(m), t) = OutputWires(m, t)
  /\ \A t : OfType(Signature(m).outputs, 1..Outs(m), t) = OutputWires(m, t)
  /\ \A t : OutputWires(m, t) \subseteq 0..TopWire
  /\ \A q \in (Outs(m) + 1)..Len(Plugin(m)) :
       /\ q \in 1..Len(Plugin(m))
       /\ WiresOf(Plugin(m), q) \cap OutputWires(m, Plugin(m)[q].type) = {}

LEMMA OutputsAre ==
  ASSUME NEW m, MapShape(m)
  PROVE  OutputsApart(m)
<1> DEFINE P == Plugin(m)
           O == Outs(m)
           out == Signature(m).outputs
<1>1. /\ O \in Nat /\ Len(P) \in Nat /\ O <= Len(P)
      /\ \A q \in (O + 1)..Len(P) : q \in 1..Len(P)
      /\ \A o \in 1..O : o \in 1..Len(P)
  <2>1. O \in Nat /\ Len(P) \in Nat /\ O <= Len(P)
    BY PluginIs, FunctionIs DEF PluginShape, FunctionShape
  <2>. QED  BY <2>1
<1>2. \A o \in 1..O : P[o] = out[o] /\ out[o].type = m.outputs[o].type
                      /\ out[o].length = m.count * m.outputs[o].length
  BY PluginIs, SignatureIs DEF PluginShape, SignatureShape, Outs
<1>3. \A o \in 1..O : P[o].type = m.outputs[o].type /\ P[o].length = m.count * m.outputs[o].length
  BY <1>2
<1>4. \A o \in 1..O : m.outputs[o].type \in Type
  BY <1>1, <1>3, PluginWires DEF Below
<1>5. \A o \in 1..O : m.outputs[o] = Function(m)[o] /\ o \in 1..Len(Function(m))
  BY FunctionIs DEF FunctionShape
<1>6. \A o \in 1..O : ~ IsNumber(m, o) /\ ~ IsClosure(m, o) /\ Behind(m, o) = o
  <2>1. m.closures \in Nat
    BY DEF MapShape
  <2>. QED  BY <1>1, <2>1 DEF IsNumber, IsClosure, Behind
<1>7. \A t : OfType(P, 1..O, t) = OutputWires(m, t)
  <2>1. \A t : {k \in 1..O : P[k].type = t} = {k \in 1..O : m.outputs[k].type = t}
    BY <1>3
  <2>. QED  BY <2>1 DEF OfType, OutputWires
<1>8. \A t : OfType(out, 1..O, t) = OutputWires(m, t)
  <2>1. \A t : {k \in 1..O : out[k].type = t} = {k \in 1..O : m.outputs[k].type = t}
    BY <1>2
  <2>2. \A k \in 1..O : WiresOf(out, k) = WiresOf(P, k)
    BY OutputPlaces
  <2>. QED  BY <2>1, <2>2 DEF OfType, OutputWires
<1>9. \A t : OutputWires(m, t) \subseteq 0..TopWire
  <2>1. SUFFICES ASSUME NEW t, NEW w \in OutputWires(m, t) PROVE w \in 0..TopWire
    OBVIOUS
  <2>2. PICK o \in 1..O : w \in WiresOf(P, o)
    BY DEF OutputWires
  <2>. QED  BY <1>1, <2>2, PluginWires DEF Below
<1>10. \A q \in (O + 1)..Len(P) : WiresOf(P, q) \cap OutputWires(m, P[q].type) = {}
  <2>1. SUFFICES ASSUME NEW q \in (O + 1)..Len(P), NEW w \in WiresOf(P, q),
                        w \in OutputWires(m, P[q].type)
                 PROVE  FALSE
    OBVIOUS
  <2>2. PICK o \in 1..O : m.outputs[o].type = P[q].type /\ w \in WiresOf(P, o)
    BY <2>1 DEF OutputWires
  <2>3. o = q
    BY <1>1, <1>3, <2>2, PluginApart
  <2>. QED  BY <1>1, <2>2, <2>3
<1>. QED  BY <1>1, <1>3, <1>4, <1>5, <1>6, <1>7, <1>8, <1>9, <1>10, ZenonT(30) DEF OutputsApart

-----------------------------------------------------------------------------
(* Each step keeps the invariant.                                           *)
LEMMA EnterInv ==
  ASSUME NEW m \in Maps, Aligned, Inv(m), Enter
  PROVE  Inv(m)'
<1> DEFINE O == Outs(m)
<1>1. MapShape(m) /\ IsCall(m) /\ Shape(m) /\ InputsHeld(m) /\ OutputsApart(m)
  BY CallShape, OutputsAre DEF Inv
<1>2. PluginParams = Plugin(m) /\ OutputKs = 1..O
  BY <1>1, CallIs
<1>3. /\ phase = "enter" /\ phase' = "unassign"
      /\ UNCHANGED <<map, signature, j, enumPlace, value, mapped, written, seen>>
      /\ assigned' = [t \in Type |-> assigned[t] \cup OutputWires(m, t)]
      /\ active' = [t \in Type |-> active[t] \cup OutputWires(m, t)]
  BY <1>1, <1>2 DEF Enter, OutputsApart
<1>4. IsCall(m)'
  BY <1>1, <1>3 DEF IsCall
<1>5. Shape(m)'
  <2>1. /\ assigned \in [Type -> SUBSET (0..TopWire)] /\ active \in [Type -> SUBSET (0..TopWire)]
        /\ \A t \in Type : active[t] \subseteq assigned[t]
    BY <1>1 DEF Shape
  <2>2. /\ assigned' \in [Type -> SUBSET (0..TopWire)] /\ active' \in [Type -> SUBSET (0..TopWire)]
        /\ \A t \in Type : active'[t] \subseteq assigned'[t]
    BY <1>1, <1>3, <2>1 DEF OutputsApart
  <2>3. Rounds' = Rounds
    BY <1>3 DEF Rounds
  <2>4. /\ j' \in 0..m.count /\ j' < m.count /\ j' = 0 /\ enumPlace' = NumberPlace(m, Rounds')
        /\ mapped' \in [Type -> Seq(0..TopWire)] /\ written' \subseteq 1..O
        /\ seen' \in Seq(AnyArguments(m)) /\ Len(seen') = j'
    BY <1>1, <1>3, <2>3 DEF Shape
  <2>. QED  BY <1>3, <2>2, <2>4 DEF Shape
<1>6. InputsHeld(m)'
  <2>1. \A q \in (O + 1)..Len(Plugin(m)) : Plugin(m)[q].type \in Type
    BY <1>1, PluginWires DEF OutputsApart, Below
  <2>2. \A t \in Type : active[t] \subseteq active'[t]
    BY <1>3
  <2>. QED  BY <1>1, <1>3, <2>1, <2>2 DEF InputsHeld, Holds
<1>7. OutputsFree(m)' /\ NumberHeld(m)' /\ Shown(m)' /\ ResultsHeld(m)'
  BY <1>3 DEF OutputsFree, NumberHeld, Shown, ResultsHeld
<1>. QED  BY <1>4, <1>5, <1>6, <1>7 DEF Inv

LEMMA UnassignInv ==
  ASSUME NEW m \in Maps, Aligned, Inv(m), Unassign
  PROVE  Inv(m)'
<1> DEFINE O == Outs(m)
<1>1. MapShape(m) /\ IsCall(m) /\ Shape(m) /\ InputsHeld(m) /\ OutputsApart(m)
  BY CallShape, OutputsAre DEF Inv
<1>2. OutputKs = 1..O /\ signature = Signature(m)
  BY <1>1, CallIs DEF IsCall
<1>3. /\ phase = "unassign" /\ phase' = "enumerate"
      /\ UNCHANGED <<map, signature, j, enumPlace, value, mapped, written, seen>>
      /\ assigned' = [t \in Type |-> assigned[t] \ OutputWires(m, t)]
      /\ active' = [t \in Type |-> active[t] \ OutputWires(m, t)]
  BY <1>1, <1>2 DEF Unassign, Unmarked, Deactivated, OutputsApart
<1>4. IsCall(m)'
  BY <1>1, <1>3 DEF IsCall
<1>5. Shape(m)'
  <2>1. /\ assigned \in [Type -> SUBSET (0..TopWire)] /\ active \in [Type -> SUBSET (0..TopWire)]
        /\ \A t \in Type : active[t] \subseteq assigned[t]
    BY <1>1 DEF Shape
  <2>2. /\ assigned' \in [Type -> SUBSET (0..TopWire)] /\ active' \in [Type -> SUBSET (0..TopWire)]
        /\ \A t \in Type : active'[t] \subseteq assigned'[t]
    BY <1>3, <2>1
  <2>3. Rounds' = Rounds
    BY <1>3 DEF Rounds
  <2>4. /\ j' \in 0..m.count /\ j' < m.count /\ j' = 0 /\ enumPlace' = NumberPlace(m, Rounds')
        /\ mapped' \in [Type -> Seq(0..TopWire)] /\ written' \subseteq 1..O
        /\ seen' \in Seq(AnyArguments(m)) /\ Len(seen') = j'
    BY <1>1, <1>3, <2>3 DEF Shape
  <2>. QED  BY <1>3, <2>2, <2>4 DEF Shape
<1>6. InputsHeld(m)'
  <2>1. \A q \in (O + 1)..Len(Plugin(m)) : Plugin(m)[q].type \in Type
    BY <1>1, PluginWires DEF OutputsApart, Below
  <2>2. \A q \in (O + 1)..Len(Plugin(m)) : \A w \in WiresOf(Plugin(m), q) :
          w \in active[Plugin(m)[q].type] => w \in active'[Plugin(m)[q].type]
    BY <1>1, <1>3, <2>1 DEF OutputsApart
  <2>. QED  BY <1>1, <1>3, <2>1, <2>2 DEF InputsHeld, Holds
<1>7. OutputsFree(m)'
  <2>1. \A o \in 1..O : \A w \in WiresOf(Plugin(m), o) :
          /\ m.outputs[o].type \in Type /\ w \in OutputWires(m, m.outputs[o].type)
    BY <1>1 DEF OutputsApart, OutputWires
  <2>2. \A o \in 1..O : \A w \in WiresOf(Plugin(m), o) : w \notin assigned'[m.outputs[o].type]
    BY <1>3, <2>1
  <2>. QED  BY <2>2 DEF OutputsFree
<1>8. NumberHeld(m)' /\ Shown(m)' /\ ResultsHeld(m)'
  BY <1>3 DEF NumberHeld, Shown, ResultsHeld
<1>. QED  BY <1>4, <1>5, <1>6, <1>7, <1>8 DEF Inv

(* Where the number of the iteration is put.                                *)
NumberIs(m, r) ==
  /\ NumberType(m) \in Type /\ NumberLength(m) \in Nat \ {0}
  /\ NumberPlace(m, r + 1) \in Nat /\ NumberPlace(m, r) \in Nat
  /\ NumberPlace(m, r) <= TopWire /\ ParameterEnd \in Nat
  /\ ParameterEnd < NumberPlace(m, r + 1)
  /\ NumberPlace(m, r + 1) + NumberLength(m) = NumberPlace(m, r)

LEMMA NumberEach ==
  ASSUME NEW m, MapShape(m), m.enumerated, NEW r \in 0..(m.count - 1)
  PROVE  NumberIs(m, r)
<1>1. m.closures + 1 \in 1..Len(m.inputs) /\ m.inputs \in Seq(Parameter) /\ m.count \in Nat
  BY IterAssumption DEF MapShape
<1>2. m.inputs[m.closures + 1] \in Parameter
  BY <1>1
<1>3. NumberType(m) \in Type /\ NumberLength(m) \in Nat \ {0}
  BY <1>2, ParameterIs DEF NumberType, NumberLength
<1>4. r \in 0..m.count /\ r + 1 \in 0..m.count
  BY <1>1
<1>5. /\ NumberPlace(m, r) \in Nat /\ NumberPlace(m, r) <= TopWire
      /\ NumberPlace(m, r + 1) + NumberLength(m) = NumberPlace(m, r)
  BY <1>4, NumberRoom
<1>6. NumberPlace(m, r + 1) \in Nat /\ ParameterEnd \in Nat /\ ParameterEnd < NumberPlace(m, r + 1)
  BY <1>4, NumberRoom
<1>. QED  BY <1>3, <1>5, <1>6 DEF NumberIs

LEMMA EnumerateInv ==
  ASSUME NEW m \in Maps, Aligned, Inv(m), Enumerate
  PROVE  Inv(m)'
<1> DEFINE O == Outs(m)
           P == Plugin(m)
           T == NumberType(m)
           l == NumberLength(m)
<1>1. /\ MapShape(m) /\ IsCall(m) /\ Shape(m) /\ InputsHeld(m) /\ OutputsFree(m)
      /\ OutputsApart(m)
  BY CallShape, OutputsAre DEF Inv
<1>2. /\ phase = "enumerate" /\ phase' = "remap"
      /\ UNCHANGED <<map, signature, j, mapped, written, seen>>
  BY DEF Enumerate
<1>3. /\ j \in 0..(m.count - 1) /\ j \in Nat /\ enumPlace = NumberPlace(m, j)
      /\ Rounds' = j + 1
  <2>1. j \in 0..m.count /\ j < m.count /\ m.count \in Nat
    BY <1>1, <1>2, IterAssumption DEF Shape, MapShape
  <2>. QED  BY <1>1, <1>2, <2>1 DEF Shape, Rounds
<1>4. /\ assigned \in [Type -> SUBSET (0..TopWire)] /\ active \in [Type -> SUBSET (0..TopWire)]
      /\ \A t \in Type : active[t] \subseteq assigned[t]
  BY <1>1 DEF Shape
<1>5. IsCall(m)'
  BY <1>1, <1>2 DEF IsCall
<1>6. Shown(m)' /\ ResultsHeld(m)'
  BY <1>2 DEF Shown, ResultsHeld
<1>7. /\ j' \in 0..m.count /\ j' < m.count
      /\ mapped' \in [Type -> Seq(0..TopWire)] /\ written' \subseteq 1..O
      /\ seen' \in Seq(AnyArguments(m)) /\ Len(seen') = j'
  BY <1>1, <1>2 DEF Shape
<1>8. CASE ~ m.enumerated
  <2>1. UNCHANGED <<enumPlace, assigned, active, value>>
    BY <1>1, <1>8 DEF Enumerate, IsCall
  <2>2. enumPlace' = NumberPlace(m, Rounds')
    <3>1. NumberLength(m) = 0
      BY <1>8 DEF NumberLength
    <3>2. NumberPlace(m, j) = NumberPlace(m, j + 1)
      BY <1>3, <3>1 DEF NumberPlace
    <3>. QED  BY <1>3, <2>1, <3>2
  <2>3. Shape(m)'
    BY <1>2, <1>4, <1>7, <2>1, <2>2 DEF Shape
  <2>4. InputsHeld(m)' /\ OutputsFree(m)' /\ NumberHeld(m)'
    BY <1>1, <1>2, <1>8, <2>1 DEF InputsHeld, OutputsFree, NumberHeld, Holds
  <2>. QED  BY <1>5, <1>6, <2>3, <2>4 DEF Inv
<1>9. CASE m.enumerated
  <2>1. NumberIs(m, j)
    BY <1>1, <1>3, <1>9, NumberEach
  <2>2. EnumType = T /\ EnumLength = l
    BY <1>1, <1>9 DEF IsCall, EnumType, EnumLength, NumberType, NumberLength
  <2> DEFINE last == enumPlace
             first == enumPlace + 1 - l
             new == [w \in {T} \X (first..last) |->
                       [digit |-> IF l = 1 THEN j % Modulus
                                  ELSE (j \div 2^BitAt(first, last, w[2])) % 2]]
  <2>3. /\ enumPlace' = enumPlace - l
        /\ assigned' = [assigned EXCEPT ![T] = @ \cup (first..last)]
        /\ active' = [active EXCEPT ![T] = @ \cup (first..last)]
        /\ value' = Over(new, value)
    BY <1>1, <1>9, <2>2 DEF Enumerate, IsCall
  <2>4. /\ l \in Nat \ {0} /\ last \in Nat /\ last <= TopWire /\ TopWire \in Nat /\ T \in Type
        /\ first = enumPlace' + 1 /\ first \in Nat /\ last = enumPlace' + l
        /\ ParameterEnd \in Nat /\ ParameterEnd < first /\ enumPlace' \in Nat
        /\ enumPlace' = NumberPlace(m, j + 1)
    <3>1. PICK a \in Nat, b \in Nat, n \in Nat \ {0}, e \in Nat :
            /\ a = NumberPlace(m, j) /\ b = NumberPlace(m, j + 1) /\ n = l /\ e = ParameterEnd
            /\ b + n = a /\ e < b /\ a <= TopWire
      BY <2>1 DEF NumberIs
    <3>2. enumPlace = a /\ TopWire \in Nat /\ T \in Type
      BY <1>3, <2>1, <3>1, IterAssumption DEF NumberIs
    <3>. QED  BY <2>3, <3>1, <3>2
  <2>5. /\ DOMAIN new = {T} \X (first..last)
        /\ \A w \in first..last : new[<<T, w>>] =
             [digit |-> IF l = 1 THEN j % Modulus
                        ELSE (j \div 2^BitAt(first, last, w)) % 2]
    OBVIOUS
  <2>. HIDE DEF T, l, last, first, new
  <2>6. \A t \in Type : active[t] \subseteq active'[t]
    BY <1>4, <2>3, <2>4
  <2>7. \A t, w : w < ParameterEnd /\ w \in 0..TopWire => <<t, w>> \notin DOMAIN new
    BY <2>4, <2>5
  <2>8. Shape(m)'
    <3>1. first..last \subseteq 0..TopWire
      BY <2>4
    <3>2. /\ assigned' \in [Type -> SUBSET (0..TopWire)] /\ active' \in [Type -> SUBSET (0..TopWire)]
      BY <1>4, <2>3, <3>1
    <3>3. \A t \in Type : active'[t] \subseteq assigned'[t]
      BY <1>4, <2>3
    <3>4. enumPlace' = NumberPlace(m, Rounds')
      BY <1>3, <2>4
    <3>. QED  BY <1>2, <1>7, <3>2, <3>3, <3>4 DEF Shape
  <2>9. InputsHeld(m)'
    <3>1. SUFFICES ASSUME NEW q \in (O + 1)..Len(P), NEW w \in WiresOf(P, q)
                   PROVE  Holds(P[q].type, w, [input |-> q - O, element |-> w - Place(P, q)])'
      BY DEF InputsHeld
    <3>2. Holds(P[q].type, w, [input |-> q - O, element |-> w - Place(P, q)])
      BY <1>1 DEF InputsHeld
    <3>3. q \in 1..Len(P) /\ P[q].type \in Type /\ w < ParameterEnd /\ w \in 0..TopWire
      BY <1>1, PluginWires DEF OutputsApart, Below
    <3>4. <<P[q].type, w>> \notin DOMAIN new
      BY <2>7, <3>3
    <3>5. /\ <<P[q].type, w>> \in DOMAIN value'
          /\ value'[<<P[q].type, w>>] = value[<<P[q].type, w>>]
      BY <2>3, <3>2, <3>4 DEF Holds, Over
    <3>. QED  BY <2>6, <3>2, <3>3, <3>5 DEF Holds
  <2>10. OutputsFree(m)'
    <3>1. SUFFICES ASSUME NEW o \in 1..O, NEW w \in WiresOf(P, o), w >= From(m, o, j)
                   PROVE  w \notin assigned'[m.outputs[o].type]
      BY <1>2 DEF OutputsFree
    <3>2. w \notin assigned[m.outputs[o].type]
      BY <1>1, <1>2, <3>1 DEF OutputsFree
    <3>3. m.outputs[o].type \in Type /\ w < ParameterEnd /\ w \in 0..TopWire
      BY <1>1, PluginWires DEF OutputsApart, Below
    <3>4. w \notin first..last
      BY <2>4, <3>3
    <3>. QED  BY <1>4, <2>3, <3>2, <3>3, <3>4
  <2>11. NumberHeld(m)'
    <3>1. SUFFICES ASSUME NEW n \in 0..(l - 1)
                   PROVE  Holds(T, enumPlace + 1 + n, [digit |-> DigitOf(j, l, n)])'
      BY <1>2 DEF NumberHeld, l, T
    <3>2. PICK w \in first..last : w = enumPlace' + 1 + n /\ last - w = l - 1 - n
      BY <2>4
    <3>3. w \in active'[T]
      BY <1>4, <2>3, <2>4
    <3>4. new[<<T, w>>] = [digit |-> DigitOf(j, l, n)]
      BY <2>5, <3>2 DEF DigitOf, BitAt
    <3>5. <<T, w>> \in DOMAIN value' /\ value'[<<T, w>>] = new[<<T, w>>]
      <4>1. <<T, w>> \in DOMAIN new
        BY <2>5
      <4>. QED  BY <2>3, <4>1 DEF Over
    <3>6. l' = l /\ T' = T /\ j' = j
      BY <1>2
    <3>. QED  BY <3>2, <3>3, <3>4, <3>5, <3>6 DEF Holds
  <2>. QED  BY <1>5, <1>6, <2>8, <2>9, <2>10, <2>11 DEF Inv
<1>. QED  BY <1>8, <1>9

(* No slice is refused: the outputs of this iteration and of those after it *)
(* are not assigned, its inputs and its number are there, and each slice is *)
(* of one parameter, or of the wires above all of them.                     *)
AllFound(m, k) == Found(m, k) /\ SliceWires(m, k) \subseteq 0..TopWire

LEMMA FoundEach ==
  ASSUME NEW m \in Maps, Aligned, Inv(m), phase = "remap", NEW k \in 1..Len(Function(m))
  PROVE  AllFound(m, k)
<1> DEFINE O == Outs(m)
           P == Plugin(m)
           t == Function(m)[k].type
           W == SliceWires(m, k)
<1>1. /\ MapShape(m) /\ IsCall(m) /\ Shape(m) /\ InputsHeld(m) /\ OutputsFree(m)
      /\ OutputsApart(m) /\ NumberHeld(m)
  BY CallShape, OutputsAre DEF Inv
<1>2. j \in 0..(m.count - 1) /\ enumPlace = NumberPlace(m, j + 1) /\ O \in Nat
  <2>1. j \in 0..m.count /\ j < m.count /\ m.count \in Nat /\ O \in Nat
    BY <1>1, IterAssumption, FunctionIs, SMTT(30) DEF Shape, MapShape, FunctionShape
  <2>. QED  BY <1>1, <2>1 DEF Shape, Rounds
<1>3. CASE IsNumber(m, k)
  <2>1. /\ m.enumerated /\ k > O /\ Function(m)[k] = m.inputs[m.closures + 1]
    <3>1. m.enumerated /\ k = O + m.closures + 1 /\ m.closures \in Nat /\ m.closures + 1 \in 1..Len(m.inputs)
      BY <1>1, <1>3 DEF IsNumber, MapShape
    <3>2. Function(m)[O + (m.closures + 1)] = m.inputs[m.closures + 1]
      BY <1>1, <3>1, FunctionIs DEF FunctionShape
    <3>3. k = O + (m.closures + 1) /\ k > O
      BY <1>2, <3>1
    <3>. QED  BY <3>1, <3>2, <3>3
  <2>2. /\ t = NumberType(m) /\ Function(m)[k].length = NumberLength(m)
    BY <2>1 DEF NumberType, NumberLength
  <2>3. NumberIs(m, j)
    BY <1>1, <1>2, <2>1, NumberEach
  <2>4. PICK l \in Nat \ {0}, e \in Nat : l = NumberLength(m) /\ e = enumPlace /\ e + l <= TopWire
    BY <1>2, <2>3 DEF NumberIs
  <2>5. W = (e + 1)..(e + l) /\ TopWire \in Nat
    <3>1. W = (e + 1)..(e + 1 + l - 1)
      BY <1>3, <2>2, <2>4 DEF SliceWires, First
    <3>. QED  BY <2>4, <3>1, IterAssumption
  <2>6. W \subseteq active[t]
    <3>1. ASSUME NEW w \in W PROVE w \in active[t]
      <4>1. PICK n \in 0..(l - 1) : w = e + 1 + n
        <5>1. w \in (e + 1)..(e + l)
          BY <2>5
        <5>2. w - e - 1 \in 0..(l - 1) /\ w = e + 1 + (w - e - 1)
          BY <2>4, <5>1
        <5>. QED  BY <5>2
      <4>. QED  BY <1>1, <2>1, <2>2, <2>4, <4>1 DEF NumberHeld, Holds
    <3>. QED  BY <3>1
  <2>7. InOneRange(t, W) /\ W \subseteq 0..TopWire
    BY <2>4, <2>5 DEF InOneRange
  <2>. QED  BY <1>2, <2>1, <2>6, <2>7 DEF AllFound, Found
<1>4. CASE ~ IsNumber(m, k)
  <2> DEFINE q == Behind(m, k)
  <2>1. /\ q \in 1..Len(P) /\ (k <= O => q = k) /\ (k > O => q > O) /\ P[q].type = t
    BY <1>1, <1>4, BehindEach DEF BehindIs
  <2>2. W = Chunk(m, k, j)
    BY <1>4 DEF SliceWires, First, Chunk
  <2>3. W \subseteq WiresOf(P, q) /\ From(m, k, j) \in Nat
    BY <1>1, <1>2, <1>4, <2>2, ChunkWithin
  <2>4. W \subseteq 0..TopWire
    BY <1>1, <2>1, <2>3, PluginWires DEF Below
  <2>5. InOneRange(t, W)
    BY <1>1, <2>1, <2>3, CallIs DEF InOneRange
  <2>6. CASE k <= O
    <3>1. q = k /\ k \in 1..O /\ m.outputs[k].type = t
      BY <1>1, <1>2, <2>1, <2>6 DEF OutputsApart
    <3>2. \A w \in W : w >= From(m, k, j)
      BY <2>2, <2>3 DEF Chunk
    <3>3. \A w \in W : w \notin assigned[t]
      BY <1>1, <2>3, <3>1, <3>2 DEF OutputsFree
    <3>. QED  BY <2>4, <2>5, <2>6, <3>3 DEF AllFound, Found
  <2>7. CASE ~ (k <= O)
    <3>1. q \in (O + 1)..Len(P)
      BY <1>2, <2>1, <2>7
    <3>2. \A w \in WiresOf(P, q) : w \in active[t]
      BY <1>1, <2>1, <3>1 DEF InputsHeld, Holds
    <3>. QED  BY <2>3, <2>4, <2>5, <2>7, <3>2 DEF AllFound, Found
  <2>. QED  BY <2>6, <2>7
<1>. QED  BY <1>3, <1>4

LEMMA FunctionSeq ==
  ASSUME NEW A, NEW l \in Nat, NEW s \in [1..l -> A]
  PROVE  s \in Seq(A) /\ Len(s) = l
OBVIOUS

LEMMA RemapInv ==
  ASSUME NEW m \in Maps, Aligned, Inv(m), Remap
  PROVE  Inv(m)'
<1> DEFINE F == Function(m)
           N == Len(F)
           S == 0..TopWire
           slices(t) == [k \in 1..N |-> IF F[k].type = t THEN SliceOf(k) ELSE <<>>]
<1>1. /\ MapShape(m) /\ PlacesAgree(m) /\ IsCall(m) /\ Shape(m) /\ InputsHeld(m)
      /\ OutputsFree(m) /\ OutputsApart(m) /\ NumberHeld(m)
  BY CallShape, OutputsAre DEF Inv
<1>2. /\ phase = "remap" /\ phase' = "evaluate"
      /\ UNCHANGED <<map, signature, j, enumPlace, assigned, active, value, written, seen>>
      /\ mapped' = [t \in Type |-> FlattenSeq(slices(t))]
  BY <1>1, CallIs DEF Remap
<1>3. F \in Seq(Sized) /\ N \in Nat /\ \A k \in 1..N : F[k].type \in Type /\ F[k].length \in Nat \ {0}
  <2>1. F \in Seq(Parameter) /\ N \in Nat
    BY <1>1, FunctionIs DEF FunctionShape
  <2>2. \A k \in 1..N : F[k] \in Parameter
    BY <2>1
  <2>3. \A k \in 1..N : F[k].type \in Type /\ F[k].length \in Nat \ {0} /\ F[k] \in Sized
    BY <2>2, ParameterIs
  <2>4. F = [k \in 1..N |-> F[k]]
    BY <2>1
  <2>5. F \in Seq(Sized)
    BY <2>1, <2>3, <2>4
  <2>. QED  BY <2>1, <2>3, <2>5
<1>4. \A k \in 1..N : /\ SliceOf(k) = [n \in 1..F[k].length |-> First(m, k) + n - 1]
                      /\ SliceWires(m, k) \subseteq S
  BY <1>1, <1>2, FoundEach, SliceOfIs DEF AllFound
<1>5. \A k \in 1..N : /\ SliceOf(k) \in Seq(S) /\ Len(SliceOf(k)) = F[k].length
                      /\ \A n \in 0..(F[k].length - 1) : SliceOf(k)[n + 1] = First(m, k) + n
  <2>1. SUFFICES ASSUME NEW k \in 1..N
                 PROVE  /\ SliceOf(k) \in Seq(S) /\ Len(SliceOf(k)) = F[k].length
                        /\ \A n \in 0..(F[k].length - 1) : SliceOf(k)[n + 1] = First(m, k) + n
    OBVIOUS
  <2>2. PICK l \in Nat \ {0} : l = F[k].length
    BY <1>3
  <2>3. First(m, k) \in Int
    <3>1. j \in 0..(m.count - 1) /\ enumPlace = NumberPlace(m, j + 1)
      <4>1. j \in 0..m.count /\ j < m.count /\ m.count \in Nat
        BY <1>1, <1>2, IterAssumption DEF Shape, MapShape
      <4>. QED  BY <1>1, <1>2, <4>1 DEF Shape, Rounds
    <3>2. CASE IsNumber(m, k)
      <4>1. NumberIs(m, j)
        BY <1>1, <3>1, <3>2, NumberEach DEF IsNumber
      <4>. QED  BY <3>1, <3>2, <4>1 DEF First, NumberIs
    <3>3. CASE ~ IsNumber(m, k)
      BY <1>1, <3>1, <3>3, ChunkWithin DEF First
    <3>. QED  BY <3>2, <3>3
  <2>4. PICK f \in Int : f = First(m, k)
    BY <2>3
  <2>5. SliceOf(k) = [n \in 1..l |-> f + n - 1] /\ f..(f + l - 1) \subseteq S
    BY <1>4, <2>2, <2>4 DEF SliceWires
  <2>6. \A n \in 1..l : f + n - 1 \in f..(f + l - 1)
    BY <2>2, <2>4
  <2>7. SliceOf(k) \in [1..l -> S]
    BY <2>5, <2>6
  <2>8. SliceOf(k) \in Seq(S) /\ Len(SliceOf(k)) = l
    BY <2>2, <2>7, FunctionSeq
  <2>9. \A n \in 0..(l - 1) : n + 1 \in 1..l /\ f + (n + 1) - 1 = f + n
    BY <2>2, <2>4
  <2>10. \A n \in 0..(l - 1) : SliceOf(k)[n + 1] = f + n
    BY <2>5, <2>9
  <2>. QED  BY <2>2, <2>4, <2>8, <2>10
<1>. HIDE DEF F, N, S
<1>6. \A t : Sliced(slices(t), F, t, S)
  <2>1. SUFFICES ASSUME NEW t PROVE Sliced(slices(t), F, t, S)
    OBVIOUS
  <2>2. <<>> \in Seq(S) /\ Len(<<>>) = 0
    OBVIOUS
  <2>3. \A k \in 1..N : slices(t)[k] \in Seq(S)
    BY <1>5, <2>2
  <2>4. \A k \in 1..N : Len(slices(t)[k]) = IF F[k].type = t THEN F[k].length ELSE 0
    BY <1>5, <2>2
  <2>5. slices(t) \in Seq(Seq(S)) /\ Len(slices(t)) = N
    <3>1. slices(t) \in [1..N -> Seq(S)]
      BY <2>3
    <3>. QED  BY <1>3, <3>1
  <2>. QED  BY <2>4, <2>5 DEF Sliced, N
<1>7. \A t \in Type : SlicesPlaced(mapped'[t], slices(t), F, t, S)
  BY <1>2, <1>3, <1>6, FlattenPlaces
<1>8. mapped' \in [Type -> Seq(S)]
  BY <1>2, <1>7 DEF SlicesPlaced
<1>9. Shown(m)'
  <2>1. SUFFICES ASSUME NEW k \in 1..N, NEW n \in 0..(F[k].length - 1)
                 PROVE  /\ Place(F, k) + n + 1 \in 1..Len(mapped'[F[k].type])
                        /\ mapped'[F[k].type][Place(F, k) + n + 1] = First(m, k) + n
    BY <1>2 DEF Shown, F, N, First
  <2>2. F[k].type \in Type
    BY <1>3
  <2>3. /\ Place(F, k) + n + 1 \in 1..Len(mapped'[F[k].type])
        /\ mapped'[F[k].type][Place(F, k) + n + 1] = slices(F[k].type)[k][n + 1]
    BY <1>7, <2>2 DEF SlicesPlaced, N
  <2>4. slices(F[k].type)[k][n + 1] = First(m, k) + n
    BY <1>5
  <2>. QED  BY <2>3, <2>4
<1>10. IsCall(m)' /\ ResultsHeld(m)'
  BY <1>1, <1>2 DEF IsCall, ResultsHeld
<1>11. InputsHeld(m)' /\ OutputsFree(m)' /\ NumberHeld(m)'
  BY <1>1, <1>2 DEF InputsHeld, OutputsFree, NumberHeld, Holds
<1>12. Shape(m)'
  <2>1. Rounds' = Rounds
    BY <1>2 DEF Rounds
  <2>2. /\ j' \in 0..m.count /\ j' < m.count /\ enumPlace' = NumberPlace(m, Rounds')
        /\ written' \subseteq 1..Outs(m) /\ seen' \in Seq(AnyArguments(m)) /\ Len(seen') = j'
        /\ assigned' \in [Type -> SUBSET S] /\ active' \in [Type -> SUBSET S]
        /\ \A t \in Type : active'[t] \subseteq assigned'[t]
    BY <1>1, <1>2, <2>1 DEF Shape, S
  <2>. QED  BY <1>2, <1>8, <2>2 DEF Shape, S
<1>. QED  BY <1>9, <1>10, <1>11, <1>12 DEF Inv

(* The wires behind the iteration's parameters.                             *)
RoundIs(m) ==
  /\ j \in 0..(m.count - 1) /\ j \in Nat /\ m.count \in Nat /\ enumPlace = NumberPlace(m, j + 1)
  /\ \A k \in 1..Len(Function(m)) :
       First(m, k) \in Nat /\ Function(m)[k].length \in Nat \ {0}

LEMMA RoundFacts ==
  ASSUME NEW m \in Maps, Aligned, Inv(m), phase \in {"evaluate", "check"}
  PROVE  RoundIs(m)
<1>1. MapShape(m) /\ Shape(m)
  BY CallShape DEF Inv
<1>2. j \in 0..(m.count - 1) /\ j \in Nat /\ m.count \in Nat /\ enumPlace = NumberPlace(m, j + 1)
  <2>1. j \in 0..m.count /\ j < m.count /\ m.count \in Nat /\ enumPlace = NumberPlace(m, j + 1)
    BY <1>1, IterAssumption DEF Shape, MapShape, Rounds
  <2>. QED  BY <2>1
<1>3. ASSUME NEW k \in 1..Len(Function(m))
      PROVE  First(m, k) \in Nat /\ Function(m)[k].length \in Nat \ {0}
  <2>1. Function(m)[k] \in Parameter
    <3>1. Function(m) \in Seq(Parameter)
      BY <1>1, FunctionIs DEF FunctionShape
    <3>. QED  BY <3>1
  <2>2. CASE IsNumber(m, k)
    <3>1. NumberIs(m, j)
      BY <1>1, <1>2, <2>2, NumberEach DEF IsNumber
    <3>. QED  BY <1>2, <2>1, <2>2, <3>1, ParameterIs DEF First, NumberIs
  <2>3. CASE ~ IsNumber(m, k)
    BY <1>1, <1>2, <2>3, ChunkWithin DEF First
  <2>. QED  BY <2>2, <2>3
<1>. QED  BY <1>2, <1>3 DEF RoundIs

LEMMA SeenIs ==
  ASSUME NEW m \in Maps, Aligned, Inv(m), phase \in {"evaluate", "check"},
         NEW k \in 1..Len(Function(m)), NEW n \in 0..(Function(m)[k].length - 1)
  PROVE  Seen(k, n) = First(m, k) + n /\ Seen(k, n) # NoWire
<1>1. MapShape(m) /\ IsCall(m) /\ Shape(m) /\ RoundIs(m)
  BY CallShape, RoundFacts DEF Inv
<1>2. FunctionParams = Function(m)
  BY <1>1, CallIs
<1>3. Function(m)[k].type \in Type
  <2>1. Function(m) \in Seq(Parameter)
    BY <1>1, FunctionIs DEF FunctionShape
  <2>2. Function(m)[k] \in Parameter
    BY <2>1
  <2>. QED  BY <2>2, ParameterIs
<1>4. mapped[Function(m)[k].type] \in Seq(0..TopWire)
  BY <1>1, <1>3 DEF Shape
<1>5. /\ Place(Function(m), k) + n + 1 \in 1..Len(mapped[Function(m)[k].type])
      /\ mapped[Function(m)[k].type][Place(Function(m), k) + n + 1] = First(m, k) + n
  BY DEF Inv, Shown
<1>6. Seen(k, n) = First(m, k) + n
  <2>1. DOMAIN mapped[Function(m)[k].type] = 1..Len(mapped[Function(m)[k].type])
    BY <1>4
  <2>. QED  BY <1>2, <1>5, <2>1 DEF Seen
<1>7. First(m, k) \in Nat /\ Function(m)[k].length \in Nat \ {0}
  BY <1>1 DEF RoundIs
<1>. QED  BY <1>6, <1>7 DEF NoWire

(* What the function assigns to its output o: this iteration's elements of  *)
(* it, in their order.                                                      *)
GivenTo(m, o) ==
  /\ DOMAIN Given(o) = {m.outputs[o].type} \X Chunk(m, o, j)
  /\ Chunk(m, o, j) \subseteq WiresOf(Plugin(m), o)
  /\ \A n \in 0..(m.outputs[o].length - 1) :
       /\ From(m, o, j) + n \in Chunk(m, o, j)
       /\ Given(o)[<<m.outputs[o].type, From(m, o, j) + n>>]
            = [output |-> o, element |-> n, iteration |-> j]

LEMMA GivenIs ==
  ASSUME NEW m \in Maps, Aligned, Inv(m), phase = "evaluate", NEW o \in 1..Outs(m)
  PROVE  GivenTo(m, o)
<1> DEFINE t == m.outputs[o].type
           wire(n) == <<t, Seen(o, n)>>
<1>1. /\ MapShape(m) /\ IsCall(m) /\ RoundIs(m) /\ OutputsApart(m)
  BY CallShape, RoundFacts, OutputsAre DEF Inv
<1>2. /\ o \in 1..Len(Function(m)) /\ Function(m)[o] = m.outputs[o] /\ First(m, o) = From(m, o, j)
      /\ ~ IsNumber(m, o) /\ Behind(m, o) = o
  BY <1>1 DEF OutputsApart, First
<1>3. PICK l \in Nat \ {0}, f \in Nat : l = m.outputs[o].length /\ f = From(m, o, j)
  BY <1>1, <1>2 DEF RoundIs
<1>4. \A n \in 0..(l - 1) : Seen(o, n) = f + n /\ Seen(o, n) # NoWire
  BY <1>2, <1>3, SeenIs
<1>5. Chunk(m, o, j) = f..(f + l - 1)
  BY <1>2, <1>3 DEF Chunk
<1>6. Given(o) = [w \in {wire(n) : n \in 0..(l - 1)} \ {<<t, NoWire>>} |->
                    [output |-> o, element |-> CHOOSE n \in 0..(l - 1) : wire(n) = w, iteration |-> j]]
  BY <1>1, <1>3 DEF Given, IsCall
<1>7. {wire(n) : n \in 0..(l - 1)} \ {<<t, NoWire>>} = {t} \X (f..(f + l - 1))
  <2>1. ASSUME NEW w \in f..(f + l - 1) PROVE w - f \in 0..(l - 1) /\ w = f + (w - f)
    BY <1>3
  <2>2. \A n \in 0..(l - 1) : f + n \in f..(f + l - 1)
    BY <1>3
  <2>3. \A w \in f..(f + l - 1) : \E n \in 0..(l - 1) : wire(n) = <<t, w>>
    BY <1>4, <2>1
  <2>4. \A n \in 0..(l - 1) : wire(n) = <<t, f + n>> /\ wire(n) # <<t, NoWire>>
    BY <1>4
  <2> DEFINE A == {wire(n) : n \in 0..(l - 1)}
             B == {t} \X (f..(f + l - 1))
  <2>. HIDE DEF wire
  <2>5. ASSUME NEW x \in A PROVE x \in B /\ x # <<t, NoWire>>
    <3>1. PICK n \in 0..(l - 1) : x = wire(n)
      OBVIOUS
    <3>2. f + n \in f..(f + l - 1) /\ x = <<t, f + n>> /\ x # <<t, NoWire>>
      BY <2>2, <2>4, <3>1
    <3>. QED  BY <3>2
  <2>6. ASSUME NEW x \in B PROVE x \in A
    <3>1. PICK w \in f..(f + l - 1) : x = <<t, w>>
      OBVIOUS
    <3>2. PICK n \in 0..(l - 1) : wire(n) = <<t, w>>
      BY <2>3
    <3>. QED  BY <3>1, <3>2
  <2>. HIDE DEF A, B
  <2>7. A \ {<<t, NoWire>>} = B
    BY <2>5, <2>6
  <2>. QED  BY <2>7 DEF A, B
<1>8. ASSUME NEW n \in 0..(l - 1)
      PROVE  /\ f + n \in f..(f + l - 1)
             /\ Given(o)[<<t, f + n>>] = [output |-> o, element |-> n, iteration |-> j]
  <2>1. f + n \in f..(f + l - 1)
    BY <1>3
  <2> DEFINE c == CHOOSE x \in 0..(l - 1) : wire(x) = <<t, f + n>>
  <2>2. wire(n) = <<t, f + n>>
    BY <1>4
  <2>3. c \in 0..(l - 1) /\ wire(c) = <<t, f + n>>
    BY <2>2
  <2>4. \A x \in 0..(l - 1) : wire(x) = <<t, f + n>> => x = n
    <3>1. \A x \in 0..(l - 1) : wire(x) = <<t, f + x>>
      BY <1>4
    <3>2. \A x \in 0..(l - 1) : <<t, f + x>> = <<t, f + n>> => f + x = f + n
      OBVIOUS
    <3>3. \A x \in 0..(l - 1) : f + x = f + n => x = n
      BY <1>3
    <3>. HIDE DEF wire
    <3>. QED  BY <3>1, <3>2, <3>3
  <2>5. c = n
    <3>. HIDE DEF c, wire
    <3>. QED  BY <2>3, <2>4
  <2>6. <<t, f + n>> \in {t} \X (f..(f + l - 1))
    BY <2>1
  <2>7. Given(o)[<<t, f + n>>] = [output |-> o, element |-> c, iteration |-> j]
    BY <1>6, <1>7, <2>6
  <2>. QED  BY <2>1, <2>5, <2>7
<1>9. Chunk(m, o, j) \subseteq WiresOf(Plugin(m), o)
  BY <1>1, <1>2, ChunkWithin DEF RoundIs
<1>10. DOMAIN Given(o) = {t} \X (f..(f + l - 1))
  BY <1>6, <1>7
<1>. QED  BY <1>3, <1>5, <1>8, <1>9, <1>10 DEF GivenTo

(* What it assigns to several of them.                                      *)
ResultsTo(m, kept) ==
  /\ DOMAIN Results(kept) = UNION {{m.outputs[o].type} \X Chunk(m, o, j) : o \in kept}
  /\ \A o \in kept : \A n \in 0..(m.outputs[o].length - 1) :
       /\ <<m.outputs[o].type, From(m, o, j) + n>> \in DOMAIN Results(kept)
       /\ Results(kept)[<<m.outputs[o].type, From(m, o, j) + n>>]
            = [output |-> o, element |-> n, iteration |-> j]

LEMMA ResultsAre ==
  ASSUME NEW m \in Maps, Aligned, Inv(m), phase = "evaluate", NEW kept \in SUBSET (1..Outs(m))
  PROVE  ResultsTo(m, kept)
<1> DEFINE D == UNION {DOMAIN Given(o) : o \in kept}
<1>1. MapShape(m) /\ OutputsApart(m) /\ \A o \in 1..Outs(m) : GivenTo(m, o)
  BY CallShape, OutputsAre, GivenIs DEF Inv
<1>2. Results(kept) = [w \in D |-> LET o == CHOOSE o \in kept : w \in DOMAIN Given(o) IN Given(o)[w]]
  BY DEF Results
<1>3. \A o \in kept : DOMAIN Given(o) = {m.outputs[o].type} \X Chunk(m, o, j)
  BY <1>1 DEF GivenTo
<1>4. D = UNION {{m.outputs[o].type} \X Chunk(m, o, j) : o \in kept}
  BY <1>3
<1>5. ASSUME NEW o \in kept, NEW p \in kept, NEW w \in DOMAIN Given(o), w \in DOMAIN Given(p)
      PROVE  p = o
  <2>1. /\ o \in 1..Len(Plugin(m)) /\ p \in 1..Len(Plugin(m))
        /\ Plugin(m)[o].type = m.outputs[o].type /\ Plugin(m)[p].type = m.outputs[p].type
    BY <1>1 DEF OutputsApart
  <2>2. w \in {m.outputs[o].type} \X Chunk(m, o, j) /\ w \in {m.outputs[p].type} \X Chunk(m, p, j)
    BY <1>3, <1>5
  <2>3. /\ m.outputs[o].type = m.outputs[p].type
        /\ w[2] \in Chunk(m, o, j) /\ w[2] \in Chunk(m, p, j)
    BY <2>2
  <2>4. w[2] \in WiresOf(Plugin(m), o) /\ w[2] \in WiresOf(Plugin(m), p)
    BY <1>1, <2>3 DEF GivenTo
  <2>5. Plugin(m)[o].type = Plugin(m)[p].type
    BY <2>1, <2>3
  <2>. QED  BY <1>1, <2>1, <2>4, <2>5, PluginApart
<1>6. ASSUME NEW o \in kept, NEW w \in DOMAIN Given(o)
      PROVE  w \in DOMAIN Results(kept) /\ Results(kept)[w] = Given(o)[w]
  <2> DEFINE c == CHOOSE x \in kept : w \in DOMAIN Given(x)
  <2>1. c \in kept /\ w \in DOMAIN Given(c)
    OBVIOUS
  <2>2. c = o
    <3>. HIDE DEF c
    <3>. QED  BY <1>5, <2>1
  <2>3. w \in D
    OBVIOUS
  <2>4. Results(kept)[w] = Given(c)[w] /\ w \in DOMAIN Results(kept)
    BY <1>2, <2>3
  <2>. HIDE DEF c
  <2>. QED  BY <2>2, <2>4
<1>7. ASSUME NEW o \in kept, NEW n \in 0..(m.outputs[o].length - 1)
      PROVE  /\ <<m.outputs[o].type, From(m, o, j) + n>> \in DOMAIN Results(kept)
             /\ Results(kept)[<<m.outputs[o].type, From(m, o, j) + n>>]
                  = [output |-> o, element |-> n, iteration |-> j]
  <2>1. From(m, o, j) + n \in Chunk(m, o, j)
    BY <1>1 DEF GivenTo
  <2>2. Given(o)[<<m.outputs[o].type, From(m, o, j) + n>>] = [output |-> o, element |-> n, iteration |-> j]
    BY <1>1 DEF GivenTo
  <2>3. <<m.outputs[o].type, From(m, o, j) + n>> \in DOMAIN Given(o)
    BY <1>3, <2>1
  <2>. QED  BY <1>6, <2>2, <2>3
<1>8. DOMAIN Results(kept) = D
  BY <1>2
<1>. QED  BY <1>4, <1>7, <1>8 DEF ResultsTo

(* What the function reads: this iteration's arguments.                     *)
LEMMA ArgumentIs ==
  ASSUME NEW m \in Maps, Aligned, Inv(m), phase = "evaluate",
         NEW i \in 1..Len(m.inputs), NEW n \in 0..(m.inputs[i].length - 1)
  PROVE  Read(m.inputs[i].type, Seen(Outs(m) + i, n)) = ArgumentOf(m, j, i, n)
<1> DEFINE O == Outs(m)
           C == m.closures
           k == O + i
           t == m.inputs[i].type
           P == Plugin(m)
<1>1. /\ MapShape(m) /\ IsCall(m) /\ InputsHeld(m) /\ NumberHeld(m) /\ RoundIs(m)
  BY CallShape, RoundFacts DEF Inv
<1>2. /\ k \in 1..Len(Function(m)) /\ Function(m)[k] = m.inputs[i]
      /\ O \in Nat /\ i \in Nat /\ 1 <= i /\ C \in Nat /\ m.enumerated \in BOOLEAN
  BY <1>1, FunctionIs DEF FunctionShape, MapShape
<1>3. Seen(k, n) = First(m, k) + n
  BY <1>2, SeenIs
<1>4. /\ IsNumber(m, k) <=> m.enumerated /\ i = C + 1
      /\ IsClosure(m, k) <=> i <= C
      /\ ~(i <= C /\ i = C + 1)
  BY <1>2, SMTT(30) DEF IsNumber, IsClosure
<1>5. PICK l \in Nat \ {0} : l = m.inputs[i].length /\ n \in 0..(l - 1)
  BY <1>1, <1>2 DEF RoundIs
<1>6. CASE IsNumber(m, k)
  <2>1. i = C + 1 /\ m.enumerated /\ ~(i <= C)
    BY <1>4, <1>6
  <2>2. NumberLength(m) = l /\ NumberType(m) = t
    BY <1>5, <2>1 DEF NumberLength, NumberType
  <2>3. Holds(t, enumPlace + 1 + n, [digit |-> DigitOf(j, l, n)])
    BY <1>1, <1>5, <2>1, <2>2 DEF NumberHeld
  <2>4. Seen(k, n) = enumPlace + 1 + n
    BY <1>3, <1>6 DEF First
  <2>5. ArgumentOf(m, j, i, n) = [digit |-> DigitOf(j, l, n)]
    BY <1>5, <2>1 DEF ArgumentOf
  <2>. QED  BY <2>3, <2>4, <2>5 DEF Read, Holds
<1>7. CASE ~ IsNumber(m, k)
  <2> DEFINE q == Behind(m, k)
             w == First(m, k) + n
  <2>1. /\ q \in 1..Len(P) /\ q > O /\ P[q].type = t
        /\ q \in (O + 1)..Len(P)
    <3>1. q \in 1..Len(P) /\ q > O /\ P[q].type = t
      <4>1. k > O
        BY <1>2
      <4>. QED  BY <1>1, <1>2, <1>7, <4>1, BehindEach DEF BehindIs
    <3>. QED  BY <1>2, <3>1
  <2>2. /\ First(m, k) = From(m, k, j) /\ From(m, k, j) \in Nat
        /\ Chunk(m, k, j) \subseteq WiresOf(P, q)
    BY <1>1, <1>2, <1>7, ChunkWithin DEF First, RoundIs
  <2>3. w \in WiresOf(P, q)
    <3>1. Chunk(m, k, j) = From(m, k, j)..(From(m, k, j) + l - 1)
      BY <1>2, <1>5 DEF Chunk
    <3>2. w \in Chunk(m, k, j)
      BY <1>5, <2>2, <3>1
    <3>. QED  BY <2>2, <3>2
  <2>4. Holds(t, w, [input |-> q - O, element |-> w - Place(P, q)])
    BY <1>1, <2>1, <2>3 DEF InputsHeld
  <2>5. Read(t, w) = [input |-> q - O, element |-> w - Place(P, q)]
    BY <2>4 DEF Read, Holds
  <2>6. q - O = IF m.enumerated /\ i > C THEN i - 1 ELSE i
    BY <1>2 DEF Behind
  <2>7. PICK p \in Nat : p = Place(P, q)
    BY <1>1, <2>1, PluginBelow
  <2>8. w - p = IF i <= C THEN n ELSE j * l + n
    <3>1. From(m, k, j) = p + IF i <= C THEN 0 ELSE j * l
      BY <1>2, <1>4, <1>5, <2>7 DEF From
    <3>2. PICK x \in Nat : x = j * l
      BY <1>1, <1>5 DEF RoundIs
    <3>3. w = p + (IF i <= C THEN 0 ELSE x) + n
      BY <2>2, <3>1, <3>2
    <3>. QED  BY <1>5, <2>7, <3>2, <3>3
  <2>9. CASE i <= C
    <3>1. q - O = i /\ w - p = n
      BY <1>2, <2>6, <2>8, <2>9
    <3>2. ArgumentOf(m, j, i, n) = [input |-> i, element |-> n]
      BY <2>9 DEF ArgumentOf
    <3>. QED  BY <1>3, <2>5, <2>7, <3>1, <3>2
  <2>10. CASE ~(i <= C)
    <3>1. q - O = (IF m.enumerated THEN i - 1 ELSE i) /\ w - p = j * l + n
      BY <1>2, <2>6, <2>8, <2>10
    <3>2. ArgumentOf(m, j, i, n) = [input |-> IF m.enumerated THEN i - 1 ELSE i, element |-> j * l + n]
      BY <1>4, <1>5, <1>7, <2>10 DEF ArgumentOf
    <3>. QED  BY <1>3, <2>5, <2>7, <3>1, <3>2
  <2>. QED  BY <2>9, <2>10
<1>. QED  BY <1>6, <1>7

LEMMA EvaluateInv ==
  ASSUME NEW m \in Maps, Aligned, Inv(m), Evaluate
  PROVE  Inv(m)'
<1> DEFINE O == Outs(m)
           P == Plugin(m)
           T == NumberType(m)
<1>1. /\ MapShape(m) /\ IsCall(m) /\ Shape(m) /\ InputsHeld(m) /\ OutputsFree(m)
      /\ NumberHeld(m) /\ Shown(m) /\ OutputsApart(m) /\ phase = "evaluate"
  BY CallShape, OutputsAre DEF Inv, Evaluate
<1>2. PICK kept \in SUBSET (1..O) :
        /\ written' = kept /\ value' = Over(Results(kept), value)
        /\ phase' = "check"
        /\ UNCHANGED <<map, signature, j, enumPlace, assigned, active, mapped>>
  <2>1. OutputKs = 1..O
    BY <1>1, CallIs
  <2>. QED  BY <2>1 DEF Evaluate
<1>3. ResultsTo(m, kept) /\ RoundIs(m)
  BY <1>1, ResultsAre, RoundFacts
<1>4. seen' = Append(seen, ArgumentsOf(m, j))
  <2>1. seen' = Append(SubSeq(seen, 1, j),
          [i \in DOMAIN m.inputs |-> [n \in 0..(m.inputs[i].length - 1) |->
             Read(m.inputs[i].type, Seen(O + i, n))]])
    BY <1>1 DEF Evaluate, IsCall, Outs
  <2>2. DOMAIN m.inputs = 1..Len(m.inputs)
    BY <1>1 DEF MapShape
  <2>3. \A i \in 1..Len(m.inputs) : \A n \in 0..(m.inputs[i].length - 1) :
          Read(m.inputs[i].type, Seen(O + i, n)) = ArgumentOf(m, j, i, n)
    BY <1>1, ArgumentIs
  <2>4. ArgumentsOf(m, j) =
          [i \in DOMAIN m.inputs |-> [n \in 0..(m.inputs[i].length - 1) |->
             Read(m.inputs[i].type, Seen(O + i, n))]]
    BY <2>2, <2>3 DEF ArgumentsOf
  <2>5. seen \in Seq(AnyArguments(m)) /\ Len(seen) = j
    BY <1>1 DEF Shape
  <2>6. SubSeq(seen, 1, j) = seen
    BY <2>5
  <2>. QED  BY <2>1, <2>4, <2>6
<1>5. /\ seen' \in Seq(AnyArguments(m)) /\ Len(seen') = j + 1 /\ seen'[j + 1] = ArgumentsOf(m, j)
  <2>1. ArgumentsOf(m, j) \in AnyArguments(m)
    BY <1>3 DEF AnyArguments, RoundIs
  <2>2. seen \in Seq(AnyArguments(m)) /\ Len(seen) = j
    BY <1>1 DEF Shape
  <2>. QED  BY <1>4, <2>1, <2>2
<1>6. IsCall(m)' /\ Shown(m)' /\ OutputsFree(m)'
  BY <1>1, <1>2 DEF IsCall, Shown, OutputsFree, First
<1>7. Shape(m)'
  <2>1. Rounds' = Rounds
    BY <1>1, <1>2 DEF Rounds
  <2>2. /\ j' \in 0..m.count /\ j' < m.count /\ enumPlace' = NumberPlace(m, Rounds')
        /\ written' \subseteq 1..O /\ mapped' \in [Type -> Seq(0..TopWire)]
        /\ assigned' \in [Type -> SUBSET (0..TopWire)] /\ active' \in [Type -> SUBSET (0..TopWire)]
        /\ \A t \in Type : active'[t] \subseteq assigned'[t]
    BY <1>1, <1>2, <2>1 DEF Shape
  <2>3. Len(seen') = j' + 1
    BY <1>2, <1>5
  <2>. QED  BY <1>2, <1>5, <2>2, <2>3 DEF Shape
<1>8. \A t, w : <<t, w>> \in DOMAIN Results(kept) => w \in OutputWires(m, t) /\ w < ParameterEnd
  <2>1. SUFFICES ASSUME NEW t, NEW w, <<t, w>> \in DOMAIN Results(kept)
                 PROVE  w \in OutputWires(m, t) /\ w < ParameterEnd
    OBVIOUS
  <2>2. PICK o \in kept : <<t, w>> \in {m.outputs[o].type} \X Chunk(m, o, j)
    BY <1>3, <2>1 DEF ResultsTo
  <2>3. o \in 1..O /\ t = m.outputs[o].type /\ w \in WiresOf(P, o) /\ o \in 1..Len(P)
    BY <1>1, <2>2, GivenIs DEF GivenTo, OutputsApart
  <2>. QED  BY <1>1, <2>3, PluginWires DEF OutputWires, Below
<1>9. InputsHeld(m)'
  <2>1. SUFFICES ASSUME NEW q \in (O + 1)..Len(P), NEW w \in WiresOf(P, q)
                 PROVE  Holds(P[q].type, w, [input |-> q - O, element |-> w - Place(P, q)])'
    BY DEF InputsHeld
  <2>2. Holds(P[q].type, w, [input |-> q - O, element |-> w - Place(P, q)])
    BY <1>1 DEF InputsHeld
  <2>3. <<P[q].type, w>> \notin DOMAIN Results(kept)
    BY <1>1, <1>8 DEF OutputsApart
  <2>. QED  BY <1>2, <2>2, <2>3 DEF Holds, Over
<1>10. NumberHeld(m)'
  <2>1. SUFFICES ASSUME m.enumerated, NEW n \in 0..(NumberLength(m) - 1)
                 PROVE  Holds(T, enumPlace + 1 + n, [digit |-> DigitOf(j, NumberLength(m), n)])'
    BY <1>2 DEF NumberHeld
  <2>2. Holds(T, enumPlace + 1 + n, [digit |-> DigitOf(j, NumberLength(m), n)])
    BY <1>1, <2>1 DEF NumberHeld
  <2>3. ParameterEnd \in Nat /\ enumPlace \in Nat /\ ParameterEnd < enumPlace + 1 + n
    <3>1. NumberIs(m, j)
      BY <1>1, <1>3, <2>1, NumberEach DEF RoundIs
    <3>2. PICK e \in Nat, p \in Nat : e = enumPlace /\ p = ParameterEnd /\ p < e
      BY <1>3, <3>1 DEF NumberIs, RoundIs
    <3>3. PICK l \in Nat : l = NumberLength(m)
      BY <3>1 DEF NumberIs
    <3>. QED  BY <3>2, <3>3
  <2>4. <<T, enumPlace + 1 + n>> \notin DOMAIN Results(kept)
    <3>1. ~(enumPlace + 1 + n < ParameterEnd)
      BY <2>3
    <3>. QED  BY <1>8, <3>1
  <2>. QED  BY <1>2, <2>2, <2>4 DEF Holds, Over
<1>11. ResultsHeld(m)'
  <2>1. seen'[j' + 1] = ArgumentsOf(m, j')
    BY <1>2, <1>5
  <2>2. \A o \in kept : \A n \in 0..(m.outputs[o].length - 1) :
          /\ <<m.outputs[o].type, From(m, o, j) + n>> \in DOMAIN value'
          /\ value'[<<m.outputs[o].type, From(m, o, j) + n>>]
               = [output |-> o, element |-> n, iteration |-> j]
    BY <1>2, <1>3 DEF ResultsTo, Over
  <2>. QED  BY <1>2, <2>1, <2>2 DEF ResultsHeld
<1>. QED  BY <1>6, <1>7, <1>9, <1>10, <1>11 DEF Inv

(* The outputs that the iteration marks, and the wires that it deletes.     *)
Marks(m, t) == UNION {Chunk(m, o, j) : o \in {k \in written : m.outputs[k].type = t}}

Deleted(m, t) ==
  IF m.enumerated /\ t = NumberType(m)
  THEN (enumPlace + 1)..(enumPlace + NumberLength(m)) ELSE {}

CheckStep(m) ==
  /\ phase = "check" /\ phase' = IF j' = m.count THEN "done" ELSE "enumerate"
  /\ j' = j + 1 /\ written' = {} /\ mapped' = [t \in Type |-> <<>>]
  /\ UNCHANGED <<map, signature, enumPlace, seen>>
  /\ assigned' = [t \in Type |-> assigned[t] \cup Marks(m, t)]
  /\ active' = [t \in Type |-> (active[t] \cup Marks(m, t)) \ Deleted(m, t)]
  /\ value' = [w \in {x \in DOMAIN value : x[2] \notin Deleted(m, x[1])} |-> value[w]]

LEMMA CheckIs ==
  ASSUME NEW m \in Maps, Aligned, Inv(m), Check
  PROVE  CheckStep(m)
<1>1. /\ MapShape(m) /\ PlacesAgree(m) /\ IsCall(m) /\ Shape(m) /\ OutputsApart(m)
      /\ phase = "check"
  BY CallShape, OutputsAre DEF Inv, Check
<1>2. \A o \in 1..Outs(m) : Slice(o) = Chunk(m, o, j)
  <2>1. SUFFICES ASSUME NEW o \in 1..Outs(m) PROVE Slice(o) = Chunk(m, o, j)
    OBVIOUS
  <2>2. CheckPlace(o) = Place(Plugin(m), o)
    <3>1. CheckPlace(o) = Place(Signature(m).outputs, o)
      BY <1>1, CheckPlaceAgrees DEF CheckPlace, IsCall
    <3>. QED  BY <1>1, <3>1, OutputPlaces
  <2>3. /\ o \in 1..Len(Plugin(m)) /\ Behind(m, o) = o /\ ~ IsClosure(m, o)
        /\ Function(m)[o] = m.outputs[o] /\ o \in 1..Len(Function(m))
    BY <1>1 DEF OutputsApart
  <2>4. RoundIs(m)
    BY <1>1, RoundFacts
  <2>5. PICK p \in Nat, l \in Nat : p = Place(Plugin(m), o) /\ l = m.outputs[o].length
    BY <1>1, <2>3, <2>4, PluginBelow DEF RoundIs
  <2>6. PICK n \in Nat : n = j /\ j = n
    BY <2>4 DEF RoundIs
  <2>7. Slice(o) = (p + n * l)..(p + (n + 1) * l - 1)
    BY <1>1, <2>2, <2>5, <2>6 DEF Slice, IsCall
  <2>8. Chunk(m, o, j) = (p + n * l)..(p + n * l + l - 1)
    BY <2>3, <2>5, <2>6 DEF Chunk, From
  <2>9. p + (n + 1) * l - 1 = p + n * l + l - 1
    OBVIOUS
  <2>. QED  BY <2>7, <2>8, <2>9
<1>3. written \subseteq 1..Outs(m)
  BY <1>1 DEF Shape
<1>4. \A t : UNION {Slice(i) : i \in {k \in written : map.outputs[k].type = t}} = Marks(m, t)
  <2>1. SUFFICES ASSUME NEW t
                 PROVE UNION {Slice(i) : i \in {k \in written : map.outputs[k].type = t}} = Marks(m, t)
    OBVIOUS
  <2> DEFINE K == {k \in written : m.outputs[k].type = t}
  <2>2. \A i \in K : Slice(i) = Chunk(m, i, j)
    BY <1>2, <1>3
  <2>3. {k \in written : map.outputs[k].type = t} = K
    BY <1>1 DEF IsCall
  <2>4. Marks(m, t) = UNION {Chunk(m, i, j) : i \in K}
    BY DEF Marks
  <2>. HIDE DEF K
  <2>. QED  BY <2>2, <2>3, <2>4
<1>5. \A t : (IF map.enumerated /\ t = EnumType THEN EnumWires ELSE {}) = Deleted(m, t)
  BY <1>1 DEF IsCall, EnumType, EnumWires, EnumLength, Deleted, NumberType, NumberLength
<1>6. /\ j' = j + 1 /\ phase' = IF j' = m.count THEN "done" ELSE "enumerate"
      /\ written' = {} /\ mapped' = [t \in Type |-> <<>>]
      /\ UNCHANGED <<map, signature, enumPlace, seen>>
  BY <1>1 DEF Check, Following, IsCall
<1>7. /\ assigned' = [t \in Type |-> assigned[t] \cup
           UNION {Slice(i) : i \in {k \in written : map.outputs[k].type = t}}]
      /\ active' = [t \in Type |-> (active[t] \cup
           UNION {Slice(i) : i \in {k \in written : map.outputs[k].type = t}}) \
             IF map.enumerated /\ t = EnumType THEN EnumWires ELSE {}]
      /\ value' = [w \in {x \in DOMAIN value : x[2] \notin
             IF map.enumerated /\ x[1] = EnumType THEN EnumWires ELSE {}} |-> value[w]]
  BY DEF Check
<1>8. assigned' = [t \in Type |-> assigned[t] \cup Marks(m, t)]
  BY <1>4, <1>7
<1>9. active' = [t \in Type |-> (active[t] \cup Marks(m, t)) \ Deleted(m, t)]
  BY <1>4, <1>5, <1>7
<1>10. value' = [w \in {x \in DOMAIN value : x[2] \notin Deleted(m, x[1])} |-> value[w]]
  <2>1. {x \in DOMAIN value : x[2] \notin IF map.enumerated /\ x[1] = EnumType THEN EnumWires ELSE {}}
          = {x \in DOMAIN value : x[2] \notin Deleted(m, x[1])}
    BY <1>5
  <2>. QED  BY <1>7, <2>1
<1>. QED  BY <1>1, <1>6, <1>8, <1>9, <1>10 DEF CheckStep

(* What is marked are wires of outputs, and what is deleted is not.         *)
MarksApart(m) ==
  /\ \A t : Marks(m, t) \subseteq OutputWires(m, t)
  /\ \A t : \A w \in Deleted(m, t) : ~(w < ParameterEnd)
  /\ \A o \in 1..Outs(m) : \A w \in WiresOf(Plugin(m), o) :
       w \in Marks(m, m.outputs[o].type) <=> o \in written /\ w \in Chunk(m, o, j)

LEMMA MarksAre ==
  ASSUME NEW m \in Maps, Aligned, Inv(m), phase = "check"
  PROVE  MarksApart(m)
<1>1. MapShape(m) /\ Shape(m) /\ OutputsApart(m) /\ RoundIs(m)
  BY CallShape, OutputsAre, RoundFacts DEF Inv
<1>2. \A o \in written : o \in 1..Outs(m) /\ Chunk(m, o, j) \subseteq WiresOf(Plugin(m), o)
  <2>1. SUFFICES ASSUME NEW o \in written
                 PROVE  o \in 1..Outs(m) /\ Chunk(m, o, j) \subseteq WiresOf(Plugin(m), o)
    OBVIOUS
  <2>2. o \in 1..Outs(m)
    BY <1>1 DEF Shape
  <2>3. o \in 1..Len(Function(m)) /\ ~ IsNumber(m, o) /\ Behind(m, o) = o
    BY <1>1, <2>2 DEF OutputsApart
  <2>. QED  BY <1>1, <2>2, <2>3, ChunkWithin DEF RoundIs
<1>3. \A t : Marks(m, t) \subseteq OutputWires(m, t)
  BY <1>2 DEF Marks, OutputWires
<1>4. ASSUME NEW t, NEW w \in Deleted(m, t)
      PROVE  ~(w < ParameterEnd)
  <2>1. m.enumerated /\ w \in (enumPlace + 1)..(enumPlace + NumberLength(m))
    BY <1>4 DEF Deleted
  <2>2. NumberIs(m, j)
    BY <1>1, <2>1, NumberEach DEF RoundIs
  <2>3. PICK e \in Nat, p \in Nat, l \in Nat :
          e = enumPlace /\ p = ParameterEnd /\ l = NumberLength(m) /\ p < e
    BY <1>1, <2>2 DEF NumberIs, RoundIs
  <2>. QED  BY <2>1, <2>3
<1>5. ASSUME NEW o \in 1..Outs(m), NEW w \in WiresOf(Plugin(m), o)
      PROVE  w \in Marks(m, m.outputs[o].type) <=> o \in written /\ w \in Chunk(m, o, j)
  <2>1. ASSUME w \in Marks(m, m.outputs[o].type)
        PROVE  o \in written /\ w \in Chunk(m, o, j)
    <3>1. PICK p \in written : m.outputs[p].type = m.outputs[o].type /\ w \in Chunk(m, p, j)
      BY <2>1 DEF Marks
    <3>2. p \in 1..Outs(m) /\ w \in WiresOf(Plugin(m), p)
      BY <1>2, <3>1
    <3>3. /\ p \in 1..Len(Plugin(m)) /\ o \in 1..Len(Plugin(m))
          /\ Plugin(m)[p].type = Plugin(m)[o].type
      BY <1>1, <3>1, <3>2 DEF OutputsApart
    <3>4. p = o
      BY <1>1, <1>5, <3>2, <3>3, PluginApart
    <3>. QED  BY <3>1, <3>4
  <2>2. ASSUME o \in written, w \in Chunk(m, o, j)
        PROVE  w \in Marks(m, m.outputs[o].type)
    BY <2>2 DEF Marks
  <2>. QED  BY <2>1, <2>2
<1>. QED  BY <1>3, <1>4, <1>5 DEF MarksApart

LEMMA CheckInv ==
  ASSUME NEW m \in Maps, Aligned, Inv(m), Check
  PROVE  Inv(m)'
<1> DEFINE O == Outs(m)
           P == Plugin(m)
<1>1. /\ MapShape(m) /\ IsCall(m) /\ Shape(m) /\ InputsHeld(m) /\ OutputsFree(m)
      /\ OutputsApart(m) /\ CheckStep(m) /\ MarksApart(m) /\ RoundIs(m)
  BY CallShape, OutputsAre, CheckIs, MarksAre, RoundFacts DEF Inv, Check
<1>2. /\ phase = "check" /\ phase' \in {"done", "enumerate"}
      /\ phase' = IF j' = m.count THEN "done" ELSE "enumerate"
      /\ j' = j + 1 /\ written' = {} /\ mapped' = [t \in Type |-> <<>>]
      /\ UNCHANGED <<map, signature, enumPlace, seen>>
      /\ assigned' = [t \in Type |-> assigned[t] \cup Marks(m, t)]
      /\ active' = [t \in Type |-> (active[t] \cup Marks(m, t)) \ Deleted(m, t)]
      /\ value' = [w \in {x \in DOMAIN value : x[2] \notin Deleted(m, x[1])} |-> value[w]]
  BY <1>1 DEF CheckStep
<1>3. /\ assigned \in [Type -> SUBSET (0..TopWire)] /\ active \in [Type -> SUBSET (0..TopWire)]
      /\ \A t \in Type : active[t] \subseteq assigned[t]
  BY <1>1 DEF Shape
<1>4. IsCall(m)'
  BY <1>1, <1>2 DEF IsCall
<1>5. NumberHeld(m)' /\ Shown(m)' /\ ResultsHeld(m)'
  BY <1>2 DEF NumberHeld, Shown, ResultsHeld
<1>6. Shape(m)'
  <2>1. \A t \in Type : Marks(m, t) \subseteq 0..TopWire
    BY <1>1 DEF MarksApart, OutputsApart
  <2>2. /\ assigned' \in [Type -> SUBSET (0..TopWire)] /\ active' \in [Type -> SUBSET (0..TopWire)]
        /\ \A t \in Type : active'[t] \subseteq assigned'[t]
    BY <1>2, <1>3, <2>1
  <2>3. Rounds' = j + 1
    BY <1>2 DEF Rounds
  <2>4. enumPlace' = NumberPlace(m, Rounds')
    BY <1>1, <1>2, <2>3 DEF RoundIs
  <2>5. j' \in 0..m.count /\ (phase' # "done" => j' < m.count)
    <3>1. j \in 0..(m.count - 1) /\ m.count \in Nat
      BY <1>1 DEF RoundIs
    <3>. QED  BY <1>2, <3>1
  <2>6. mapped' \in [Type -> Seq(0..TopWire)] /\ written' \subseteq 1..O
    BY <1>2
  <2>7. seen' \in Seq(AnyArguments(m)) /\ Len(seen') = j'
    BY <1>1, <1>2 DEF Shape
  <2>. QED  BY <1>2, <2>2, <2>4, <2>5, <2>6, <2>7 DEF Shape
<1>7. InputsHeld(m)'
  <2>1. SUFFICES ASSUME NEW q \in (O + 1)..Len(P), NEW w \in WiresOf(P, q)
                 PROVE  Holds(P[q].type, w, [input |-> q - O, element |-> w - Place(P, q)])'
    BY DEF InputsHeld
  <2>2. Holds(P[q].type, w, [input |-> q - O, element |-> w - Place(P, q)])
    BY <1>1 DEF InputsHeld
  <2>3. q \in 1..Len(P) /\ P[q].type \in Type /\ w < ParameterEnd
    BY <1>1, PluginWires DEF OutputsApart, Below
  <2>4. w \notin Deleted(m, P[q].type)
    BY <1>1, <2>3 DEF MarksApart
  <2>5. w \in active'[P[q].type]
    BY <1>2, <2>2, <2>3, <2>4 DEF Holds
  <2>6. /\ <<P[q].type, w>> \in DOMAIN value'
        /\ value'[<<P[q].type, w>>] = value[<<P[q].type, w>>]
    BY <1>2, <2>2, <2>4 DEF Holds
  <2>. QED  BY <2>2, <2>5, <2>6 DEF Holds
<1>8. OutputsFree(m)'
  <2>1. SUFFICES ASSUME NEW o \in 1..O, NEW w \in WiresOf(P, o), w >= From(m, o, j + 1)
                 PROVE  w \notin assigned'[m.outputs[o].type]
    BY <1>2 DEF OutputsFree
  <2>2. /\ o \in 1..Len(P) /\ o \in 1..Len(Function(m)) /\ Behind(m, o) = o /\ ~ IsClosure(m, o)
        /\ Function(m)[o] = m.outputs[o] /\ m.outputs[o].type \in Type
    BY <1>1 DEF OutputsApart
  <2>3. PICK p \in Nat, l \in Nat : p = Place(P, o) /\ l = m.outputs[o].length
    BY <1>1, <2>2, PluginBelow DEF RoundIs
  <2>4. PICK n \in Nat : n = j
    BY <1>1 DEF RoundIs
  <2>5. From(m, o, j) = p + n * l /\ From(m, o, j + 1) = p + (n + 1) * l
    BY <2>2, <2>3, <2>4 DEF From
  <2>6. PICK x \in Nat : x = n * l /\ (n + 1) * l = x + l
    BY <2>3, <2>4
  <2>7. w \in Int
    BY <2>2, <2>3 DEF WiresOf
  <2>8. w >= From(m, o, j) /\ w \notin Chunk(m, o, j)
    <3>1. Chunk(m, o, j) = (p + x)..(p + x + l - 1) /\ From(m, o, j) = p + x
      BY <2>2, <2>3, <2>5, <2>6 DEF Chunk
    <3>2. w >= p + x + l
      BY <2>1, <2>5, <2>6
    <3>. QED  BY <2>7, <3>1, <3>2
  <2>9. w \notin assigned[m.outputs[o].type]
    BY <1>1, <1>2, <2>8 DEF OutputsFree
  <2>10. w \notin Marks(m, m.outputs[o].type)
    BY <1>1, <2>8 DEF MarksApart
  <2>. QED  BY <1>2, <2>2, <2>9, <2>10
<1>. QED  BY <1>4, <1>5, <1>6, <1>7, <1>8 DEF Inv

-----------------------------------------------------------------------------
LEMMA StutterInv ==
  ASSUME NEW m \in Maps, Inv(m), UNCHANGED vars
  PROVE  Inv(m)'
<1>1. UNCHANGED <<map, signature, phase, j, enumPlace, assigned, active, value, mapped, written, seen>>
  BY DEF vars
<1>2. IsCall(m)' /\ InputsHeld(m)' /\ OutputsFree(m)' /\ NumberHeld(m)'
  BY <1>1 DEF Inv, IsCall, InputsHeld, OutputsFree, NumberHeld, Holds
<1>3. Shown(m)' /\ ResultsHeld(m)'
  BY <1>1 DEF Inv, Shown, ResultsHeld, First
<1>4. Shape(m)'
  BY <1>1 DEF Inv, Shape, Rounds
<1>. QED  BY <1>2, <1>3, <1>4 DEF Inv

LEMMA StepInv ==
  ASSUME NEW m \in Maps, Aligned, Inv(m), [Next]_vars
  PROVE  Inv(m)'
<1>1. CASE Enter
  BY <1>1, EnterInv
<1>2. CASE Unassign
  BY <1>2, UnassignInv
<1>3. CASE Enumerate
  BY <1>3, EnumerateInv
<1>4. CASE Remap
  BY <1>4, RemapInv
<1>5. CASE Evaluate
  BY <1>5, EvaluateInv
<1>6. CASE Check
  BY <1>6, CheckInv
<1>7. CASE UNCHANGED vars
  BY <1>7, StutterInv
<1>. QED  BY <1>1, <1>2, <1>3, <1>4, <1>5, <1>6, <1>7 DEF Next, Done

LEMMA InvSlicesFound ==
  ASSUME NEW m \in Maps, Aligned, Inv(m)
  PROVE  SlicesFound
<1>1. MapShape(m) /\ IsCall(m) /\ Shape(m)
  BY CallShape DEF Inv
<1>2. OutputKs = 1..Outs(m) /\ FunctionParams = Function(m) /\ DOMAIN FunctionParams = 1..Len(Function(m))
  BY <1>1, CallIs
<1>3. TypeOK
  <2>1. enumPlace \in 0..TopWire
    <3>1. Rounds \in 0..m.count
      <4>1. j \in 0..m.count /\ m.count \in Nat /\ (phase # "done" => j < m.count)
        BY <1>1, IterAssumption DEF Shape, MapShape
      <4>. QED  BY <4>1 DEF Rounds
    <3>2. NumberPlace(m, Rounds) \in Nat /\ NumberPlace(m, Rounds) <= TopWire
      BY <1>1, <3>1, NumberRoom
    <3>3. enumPlace \in Nat /\ enumPlace <= TopWire /\ TopWire \in Nat
      BY <1>1, <3>2, IterAssumption DEF Shape
    <3>. QED  BY <3>3
  <2>2. /\ phase \in {"enter", "unassign", "enumerate", "remap", "evaluate", "check", "done"}
        /\ j \in 0..map.count
        /\ assigned \in [Type -> SUBSET (0..TopWire)]
        /\ \A t \in Type : active[t] \subseteq assigned[t] /\ mapped[t] \in Seq(0..TopWire)
        /\ written \subseteq OutputKs
    BY <1>1, <1>2 DEF Shape, IsCall
  <2>. QED  BY <2>1, <2>2 DEF TypeOK
<1>4. ASSUME phase \in {"evaluate", "check"}, NEW k \in DOMAIN FunctionParams,
             NEW n \in 0..(FunctionParams[k].length - 1)
      PROVE  Seen(k, n) # NoWire
  <2>1. k \in 1..Len(Function(m)) /\ n \in 0..(Function(m)[k].length - 1)
    BY <1>2
  <2>. QED  BY <1>4, <2>1, SeenIs
<1>. QED  BY <1>3, <1>4 DEF SlicesFound

(* The inductive invariant: the inputs of the plugin keep their values, the *)
(* outputs of iterations to come are unassigned, and each iteration's scope *)
(* shows its own slices.                                                    *)
THEOREM InductiveInvariant ==
  ASSUME Aligned
  PROVE  Spec => []IInv
<1>1. Init => IInv
  BY InitInv
<1>2. IInv /\ [Next]_vars => IInv'
  BY StepInv DEF IInv
<1>. QED  BY <1>1, <1>2, PTL DEF Spec

(* No iteration's mapping is refused, also after iterations that failed:    *)
(* its function finds all of its parameters' wires (remap, iterPluginHack). *)
THEOREM EachSliceFound ==
  ASSUME Aligned
  PROVE  Spec => []SlicesFound
<1>1. IInv => SlicesFound
  BY InvSlicesFound DEF IInv
<1>. QED  BY <1>1, InductiveInvariant, PTL

-----------------------------------------------------------------------------
(* What the plugin does, as calls of a function on chunks: the state of     *)
(* MapCalls that a state stands for.                                        *)
CallMapped ==
  [outputs |-> [i \in DOMAIN map.outputs |-> map.outputs[i].length],
   inputs |-> [i \in DOMAIN map.inputs |-> map.inputs[i].length],
   closures |-> map.closures, count |-> map.count, enumerated |-> map.enumerated]

SeenMapped == SubSeq(seen, 1, j)

ResultMapped ==
  IF phase \in {"enter", "unassign"} THEN <<>>
  ELSE [e \in {x \in Elements : OutputWire(x).wire \in active[OutputWire(x).type]} |->
          Read(OutputWire(e).type, OutputWire(e).wire)]

ElementsOf(m) == UNION {{o} \X (0..(m.count * m.outputs[o].length - 1)) : o \in 1..Outs(m)}
TypeOf(m, e) == m.outputs[e[1]].type
WireOf(m, e) == Place(Plugin(m), e[1]) + e[2]
ValueIn(v, t, w) == IF <<t, w>> \in DOMAIN v THEN v[<<t, w>>] ELSE [unassigned |-> w]

ResultOf(m, act, v) ==
  [e \in {x \in ElementsOf(m) : WireOf(m, x) \in act[TypeOf(m, x)]} |->
     ValueIn(v, TypeOf(m, e), WireOf(m, e))]

ElementsAre(m) ==
  /\ ElementsOf(m) = UNION {{o} \X (0..(Signature(m).outputs[o].length - 1)) : o \in 1..Outs(m)}
  /\ \A e \in ElementsOf(m) :
       /\ e[1] \in 1..Outs(m) /\ e = <<e[1], e[2]>> /\ e[2] \in Nat /\ TypeOf(m, e) \in Type
       /\ WireOf(m, e) \in WiresOf(Plugin(m), e[1]) /\ WireOf(m, e) < ParameterEnd
       /\ WireOf(m, e) \in OutputWires(m, TypeOf(m, e))
       /\ Place(Signature(m).outputs, e[1]) + e[2] = WireOf(m, e)

LEMMA ElementFacts ==
  ASSUME NEW m, MapShape(m)
  PROVE  ElementsAre(m)
<1>1. OutputsApart(m) /\ SignatureShape(m) /\ m.count \in Nat
  BY OutputsAre, SignatureIs, IterAssumption DEF MapShape
<1>2. ElementsOf(m) = UNION {{o} \X (0..(Signature(m).outputs[o].length - 1)) : o \in 1..Outs(m)}
  <2>1. \A o \in 1..Outs(m) : Signature(m).outputs[o].length = m.count * m.outputs[o].length
    BY <1>1 DEF SignatureShape, Outs
  <2>2. \A o \in 1..Outs(m) : 0..(Signature(m).outputs[o].length - 1) = 0..(m.count * m.outputs[o].length - 1)
    BY <2>1
  <2>. QED  BY <2>2 DEF ElementsOf
<1>3. ASSUME NEW e \in ElementsOf(m)
      PROVE  /\ e[1] \in 1..Outs(m) /\ e = <<e[1], e[2]>> /\ e[2] \in Nat /\ TypeOf(m, e) \in Type
             /\ WireOf(m, e) \in WiresOf(Plugin(m), e[1]) /\ WireOf(m, e) < ParameterEnd
             /\ WireOf(m, e) \in OutputWires(m, TypeOf(m, e))
             /\ Place(Signature(m).outputs, e[1]) + e[2] = WireOf(m, e)
  <2>0. PICK o \in 1..Outs(m) : e \in {o} \X (0..(m.count * m.outputs[o].length - 1))
    BY DEF ElementsOf
  <2>1. PICK n \in 0..(m.count * m.outputs[o].length - 1) : e = <<o, n>>
    BY <2>0
  <2>2. /\ o \in 1..Len(Plugin(m)) /\ Plugin(m)[o].length = m.count * m.outputs[o].length
        /\ m.outputs[o].type \in Type
    BY <1>1 DEF OutputsApart
  <2>3. e[1] = o /\ e[2] = n /\ n \in Nat
    BY <2>1
  <2>4. PICK p \in Nat, l \in Nat : p = Place(Plugin(m), o) /\ l = Plugin(m)[o].length
    BY <2>2, PluginBelow
  <2>5. p + n \in WiresOf(Plugin(m), o)
    <3>1. n \in 0..(l - 1)
      BY <2>2, <2>4
    <3>2. WiresOf(Plugin(m), o) = p..(p + l - 1)
      BY <2>4 DEF WiresOf
    <3>. QED  BY <2>4, <3>1, <3>2
  <2>6. WireOf(m, e) = p + n
    BY <2>3, <2>4 DEF WireOf
  <2>7. WireOf(m, e) < ParameterEnd
    BY <2>2, <2>5, <2>6, PluginWires DEF Below
  <2>8. WireOf(m, e) \in OutputWires(m, TypeOf(m, e)) /\ TypeOf(m, e) \in Type
    BY <2>2, <2>3, <2>5, <2>6 DEF OutputWires, TypeOf
  <2>9. Place(Signature(m).outputs, o) = p
    BY <2>4, OutputPlaces
  <2>. QED  BY <2>1, <2>3, <2>5, <2>6, <2>7, <2>8, <2>9
<1>. QED  BY <1>2, <1>3 DEF ElementsAre

LEMMA ResultNow ==
  ASSUME NEW m, MapShape(m), IsCall(m)
  PROVE  ResultMapped = IF phase \in {"enter", "unassign"} THEN <<>> ELSE ResultOf(m, active, value)
<1>1. ElementsAre(m) /\ OutputKs = 1..Outs(m) /\ map = m /\ signature = Signature(m)
  BY ElementFacts, CallIs DEF IsCall
<1>2. Elements = ElementsOf(m)
  BY <1>1 DEF Elements, ElementsAre
<1>3. \A e \in ElementsOf(m) : OutputWire(e).type = TypeOf(m, e) /\ OutputWire(e).wire = WireOf(m, e)
  BY <1>1 DEF OutputWire, ElementsAre, TypeOf
<1>4. {x \in Elements : OutputWire(x).wire \in active[OutputWire(x).type]}
        = {x \in ElementsOf(m) : WireOf(m, x) \in active[TypeOf(m, x)]}
  BY <1>2, <1>3
<1>5. \A e \in ElementsOf(m) :
        Read(OutputWire(e).type, OutputWire(e).wire) = ValueIn(value, TypeOf(m, e), WireOf(m, e))
  BY <1>3 DEF Read, ValueIn
<1>6. [e \in {x \in Elements : OutputWire(x).wire \in active[OutputWire(x).type]} |->
          Read(OutputWire(e).type, OutputWire(e).wire)] = ResultOf(m, active, value)
  BY <1>4, <1>5 DEF ResultOf
<1>. QED  BY <1>6 DEF ResultMapped

LEMMA ResultNext ==
  ASSUME NEW m, MapShape(m), IsCall(m), UNCHANGED <<map, signature>>
  PROVE  ResultMapped' = IF phase' \in {"enter", "unassign"} THEN <<>> ELSE ResultOf(m, active', value')
<1>1. ElementsAre(m) /\ OutputKs' = 1..Outs(m) /\ map' = m /\ signature' = Signature(m)
  BY ElementFacts, CallIs DEF IsCall, OutputKs
<1>2. Elements' = ElementsOf(m)
  BY <1>1 DEF Elements, ElementsAre
<1>3. \A e \in ElementsOf(m) : OutputWire(e)'.type = TypeOf(m, e) /\ OutputWire(e)'.wire = WireOf(m, e)
  BY <1>1 DEF OutputWire, ElementsAre, TypeOf
<1>4. {x \in Elements' : OutputWire(x)'.wire \in active'[OutputWire(x)'.type]}
        = {x \in ElementsOf(m) : WireOf(m, x) \in active'[TypeOf(m, x)]}
  BY <1>2, <1>3
<1>5. \A e \in ElementsOf(m) :
        Read(OutputWire(e).type, OutputWire(e).wire)' = ValueIn(value', TypeOf(m, e), WireOf(m, e))
  BY <1>3 DEF Read, ValueIn
<1>6. [e \in {x \in Elements : OutputWire(x).wire \in active[OutputWire(x).type]} |->
          Read(OutputWire(e).type, OutputWire(e).wire)]' = ResultOf(m, active', value')
  BY <1>4, <1>5 DEF ResultOf
<1>. QED  BY <1>6 DEF ResultMapped

(* Nothing of the results changes if no wire of an output does.             *)
SameOutputs(m, act, v, act2, v2) ==
  \A e \in ElementsOf(m) :
    LET t == TypeOf(m, e)
        w == WireOf(m, e)
    IN  /\ w \in act[t] <=> w \in act2[t]
        /\ w \in act[t] => ValueIn(v, t, w) = ValueIn(v2, t, w)

LEMMA ResultSame ==
  ASSUME NEW m, NEW act, NEW v, NEW act2, NEW v2, SameOutputs(m, act, v, act2, v2)
  PROVE  ResultOf(m, act, v) = ResultOf(m, act2, v2)
<1>1. {x \in ElementsOf(m) : WireOf(m, x) \in act[TypeOf(m, x)]}
        = {x \in ElementsOf(m) : WireOf(m, x) \in act2[TypeOf(m, x)]}
  BY DEF SameOutputs
<1>2. \A e \in {x \in ElementsOf(m) : WireOf(m, x) \in act[TypeOf(m, x)]} :
        ValueIn(v, TypeOf(m, e), WireOf(m, e)) = ValueIn(v2, TypeOf(m, e), WireOf(m, e))
  BY DEF SameOutputs
<1>. QED  BY <1>1, <1>2 DEF ResultOf

(* All steps but the last of an iteration leave what they stand for.        *)
Stutters == UNCHANGED <<CallMapped, SeenMapped, ResultMapped>>

LEMMA SameCall ==
  ASSUME UNCHANGED <<map, seen, j>>
  PROVE  CallMapped' = CallMapped /\ SeenMapped' = SeenMapped
BY DEF CallMapped, SeenMapped

LEMMA EnterStutters ==
  ASSUME NEW m \in Maps, Aligned, Inv(m), Enter
  PROVE  Stutters
<1>1. phase = "enter" /\ phase' = "unassign" /\ UNCHANGED <<map, seen, j>>
  BY DEF Enter
<1>2. ResultMapped = <<>> /\ ResultMapped' = <<>>
  BY <1>1 DEF ResultMapped
<1>. QED  BY <1>1, <1>2, SameCall DEF Stutters

LEMMA UnassignStutters ==
  ASSUME NEW m \in Maps, Aligned, Inv(m), Unassign
  PROVE  Stutters
<1>1. /\ MapShape(m) /\ IsCall(m) /\ Shape(m) /\ OutputsApart(m) /\ ElementsAre(m)
      /\ OutputKs = 1..Outs(m) /\ signature = Signature(m)
  BY CallShape, OutputsAre, ElementFacts, CallIs DEF Inv, IsCall
<1>2. /\ phase = "unassign" /\ phase' = "enumerate" /\ UNCHANGED <<map, signature, seen, j>>
      /\ active' = [t \in Type |-> active[t] \ OutputWires(m, t)]
  BY <1>1 DEF Unassign, Deactivated, Unmarked, OutputsApart
<1>3. ResultMapped = <<>>
  BY <1>2 DEF ResultMapped
<1>4. ResultMapped' = ResultOf(m, active', value')
  BY <1>1, <1>2, ResultNext
<1>5. {x \in ElementsOf(m) : WireOf(m, x) \in active'[TypeOf(m, x)]} = {}
  BY <1>1, <1>2 DEF ElementsAre
<1>6. ResultOf(m, active', value') = <<>>
  BY <1>5 DEF ResultOf
<1>. QED  BY <1>2, <1>3, <1>4, <1>6, SameCall DEF Stutters

LEMMA EnumerateStutters ==
  ASSUME NEW m \in Maps, Aligned, Inv(m), Enumerate
  PROVE  Stutters
<1>1. /\ MapShape(m) /\ IsCall(m) /\ Shape(m) /\ ElementsAre(m) /\ Inv(m)'
  BY CallShape, ElementFacts, EnumerateInv DEF Inv
<1>2. /\ phase = "enumerate" /\ phase' = "remap" /\ UNCHANGED <<map, signature, seen, j>>
  BY DEF Enumerate
<1>3. /\ ResultMapped = ResultOf(m, active, value)
      /\ ResultMapped' = ResultOf(m, active', value')
  BY <1>1, <1>2, ResultNow, ResultNext
<1>4. SameOutputs(m, active, value, active', value')
  <2>1. CASE ~ m.enumerated
    <3>1. UNCHANGED <<active, value>>
      BY <1>1, <2>1 DEF Enumerate, IsCall
    <3>. QED  BY <3>1 DEF SameOutputs
  <2>2. CASE m.enumerated
    <3> DEFINE T == NumberType(m)
               l == NumberLength(m)
               last == enumPlace
               first == enumPlace + 1 - l
               new == [w \in {T} \X (first..last) |->
                         [digit |-> IF l = 1 THEN j % Modulus
                                    ELSE (j \div 2^BitAt(first, last, w[2])) % 2]]
    <3>1. EnumType = T /\ EnumLength = l
      BY <1>1, <2>2 DEF IsCall, EnumType, EnumLength, NumberType, NumberLength
    <3>2. /\ enumPlace' = enumPlace - l
          /\ active' = [active EXCEPT ![T] = @ \cup (first..last)]
          /\ value' = Over(new, value)
      BY <1>1, <2>2, <3>1 DEF Enumerate, IsCall
    <3>3. NumberIs(m, j) /\ enumPlace' = NumberPlace(m, j + 1) /\ enumPlace = NumberPlace(m, j)
      <4>1. j \in 0..(m.count - 1)
        <5>1. j \in 0..m.count /\ j < m.count /\ m.count \in Nat
          BY <1>1, <1>2, IterAssumption DEF Shape, MapShape
        <5>. QED  BY <5>1
      <4>2. enumPlace = NumberPlace(m, j) /\ enumPlace' = NumberPlace(m, j + 1)
        BY <1>1, <1>2 DEF Inv, Shape, Rounds
      <4>. QED  BY <1>1, <2>2, <4>1, <4>2, NumberEach
    <3>4. ParameterEnd \in Nat /\ first \in Nat /\ ParameterEnd < first /\ last \in Nat
      <4>1. PICK a \in Nat, b \in Nat, e \in Nat, n \in Nat :
              a = enumPlace /\ b = enumPlace' /\ e = ParameterEnd /\ n = l /\ e < b
        BY <3>3 DEF NumberIs
      <4>. QED  BY <3>2, <4>1
    <3>5. DOMAIN new = {T} \X (first..last)
      OBVIOUS
    <3>6. active \in [Type -> SUBSET (0..TopWire)]
      BY <1>1 DEF Shape
    <3>. HIDE DEF T, l, last, first, new
    <3>7. ASSUME NEW e \in ElementsOf(m)
          PROVE  /\ WireOf(m, e) \in active[TypeOf(m, e)] <=> WireOf(m, e) \in active'[TypeOf(m, e)]
                 /\ ValueIn(value, TypeOf(m, e), WireOf(m, e)) = ValueIn(value', TypeOf(m, e), WireOf(m, e))
      <4>1. PICK w \in Nat, t \in Type : w = WireOf(m, e) /\ t = TypeOf(m, e) /\ w < ParameterEnd
        <5>1. WireOf(m, e) \in WiresOf(Plugin(m), e[1]) /\ e[1] \in 1..Len(Plugin(m))
              /\ WireOf(m, e) < ParameterEnd /\ TypeOf(m, e) \in Type
          BY <1>1, OutputsAre DEF ElementsAre, OutputsApart
        <5>2. WireOf(m, e) \in 0..TopWire
          BY <1>1, <5>1, PluginWires DEF Below
        <5>. QED  BY <5>1, <5>2
      <4>2. w \notin first..last
        BY <3>4, <4>1
      <4>3. w \in active[t] <=> w \in active'[t]
        BY <3>2, <3>6, <4>2
      <4>4. <<t, w>> \notin DOMAIN new
        BY <3>5, <4>2
      <4>5. ValueIn(value, t, w) = ValueIn(value', t, w)
        BY <3>2, <4>4 DEF ValueIn, Over
      <4>. QED  BY <4>1, <4>3, <4>5
    <3>. QED  BY <3>7 DEF SameOutputs
  <2>. QED  BY <2>1, <2>2
<1>. QED  BY <1>2, <1>3, <1>4, ResultSame, SameCall DEF Stutters

LEMMA RemapStutters ==
  ASSUME NEW m \in Maps, Aligned, Inv(m), Remap
  PROVE  Stutters
<1>1. MapShape(m) /\ IsCall(m)
  BY CallShape DEF Inv
<1>2. /\ phase = "remap" /\ phase' = "evaluate"
      /\ UNCHANGED <<map, signature, seen, j, active, value>>
  BY DEF Remap
<1>3. ResultMapped' = ResultMapped
  BY <1>1, <1>2, ResultNow, ResultNext
<1>. QED  BY <1>2, <1>3, SameCall DEF Stutters

LEMMA EvaluateStutters ==
  ASSUME NEW m \in Maps, Aligned, Inv(m), Evaluate
  PROVE  Stutters
<1>1. /\ MapShape(m) /\ IsCall(m) /\ Shape(m) /\ OutputsFree(m) /\ ElementsAre(m)
      /\ OutputsApart(m) /\ OutputKs = 1..Outs(m)
  BY CallShape, ElementFacts, OutputsAre, CallIs DEF Inv
<1>2. PICK kept \in SUBSET (1..Outs(m)) : value' = Over(Results(kept), value)
  BY <1>1 DEF Evaluate
<1>3. /\ phase = "evaluate" /\ phase' = "check" /\ UNCHANGED <<map, signature, j, active>>
  BY DEF Evaluate
<1>4. SeenMapped' = SeenMapped
  <2>1. seen \in Seq(AnyArguments(m)) /\ Len(seen) = j /\ j \in Nat
    BY <1>1, <1>3 DEF Shape
  <2>2. PICK x : seen' = Append(SubSeq(seen, 1, j), x)
    BY DEF Evaluate
  <2>3. SubSeq(seen, 1, j) = seen
    BY <2>1
  <2>4. SubSeq(Append(seen, x), 1, j) = seen
    BY <2>1
  <2>. QED  BY <1>3, <2>2, <2>3, <2>4 DEF SeenMapped
<1>5. SameOutputs(m, active, value, active', value')
  <2>1. SUFFICES ASSUME NEW e \in ElementsOf(m), WireOf(m, e) \in active[TypeOf(m, e)]
                 PROVE  ValueIn(value, TypeOf(m, e), WireOf(m, e)) = ValueIn(value', TypeOf(m, e), WireOf(m, e))
    BY <1>3 DEF SameOutputs
  <2> DEFINE t == TypeOf(m, e)
             w == WireOf(m, e)
  <2>2. /\ e[1] \in 1..Outs(m) /\ t \in Type /\ t = m.outputs[e[1]].type
        /\ w \in WiresOf(Plugin(m), e[1])
    BY <1>1 DEF ElementsAre, TypeOf
  <2>3. w \in assigned[t]
    BY <1>1, <2>1, <2>2 DEF Shape
  <2>4. <<t, w>> \notin DOMAIN Results(kept)
    <3>1. SUFFICES ASSUME <<t, w>> \in DOMAIN Results(kept) PROVE FALSE
      OBVIOUS
    <3>0. ResultsTo(m, kept)
      BY <1>3, ResultsAre
    <3>2. PICK o \in kept : <<t, w>> \in {m.outputs[o].type} \X Chunk(m, o, j)
      BY <3>0, <3>1 DEF ResultsTo
    <3>3. /\ o \in 1..Outs(m) /\ t = m.outputs[o].type /\ w \in Chunk(m, o, j)
          /\ w \in WiresOf(Plugin(m), o)
      BY <1>3, <3>2, GivenIs DEF GivenTo
    <3>4. w >= From(m, o, j)
      <4>1. RoundIs(m) /\ o \in 1..Len(Function(m)) /\ ~ IsNumber(m, o)
        BY <1>1, <1>3, <3>3, RoundFacts DEF OutputsApart
      <4>2. From(m, o, j) \in Nat /\ Function(m)[o].length \in Nat
        BY <1>1, <4>1, ChunkWithin DEF RoundIs
      <4>. QED  BY <3>3, <4>2 DEF Chunk
    <3>5. w \notin assigned[t]
      BY <1>1, <1>3, <3>3, <3>4 DEF OutputsFree
    <3>. QED  BY <2>3, <3>5
  <2>. HIDE DEF t, w
  <2>5. ValueIn(value, t, w) = ValueIn(value', t, w)
    BY <1>2, <2>4 DEF ValueIn, Over
  <2>. QED  BY <2>5 DEF t, w
<1>6. /\ ResultMapped = ResultOf(m, active, value)
      /\ ResultMapped' = ResultOf(m, active', value')
  BY <1>1, <1>3, ResultNow, ResultNext
<1>7. CallMapped' = CallMapped
  BY <1>3 DEF CallMapped
<1>. QED  BY <1>4, <1>5, <1>6, <1>7, ResultSame DEF Stutters

(* The end of an iteration is a call of the function on the next chunks.    *)
ChunkOf(m, o, n) == {o} \X (n * m.outputs[o].length .. (n + 1) * m.outputs[o].length - 1)

ElementGiven(m, e, n) ==
  [output |-> e[1], element |-> e[2] - n * m.outputs[e[1]].length, iteration |-> n]

ChunkIs(m, o, n) ==
  /\ ChunkOf(m, o, n) \subseteq ElementsOf(m)
  /\ \A e \in ElementsOf(m) : e[1] = o =>
       /\ e \in ChunkOf(m, o, n) <=> WireOf(m, e) \in Chunk(m, o, n)
       /\ e \in ChunkOf(m, o, n) =>
            \E x \in 0..(m.outputs[o].length - 1) :
              WireOf(m, e) = From(m, o, n) + x /\ x = e[2] - n * m.outputs[o].length

LEMMA ChunkFacts ==
  ASSUME NEW m, MapShape(m), NEW o \in 1..Outs(m), NEW n \in 0..(m.count - 1)
  PROVE  ChunkIs(m, o, n)
<1>1. OutputsApart(m) /\ ElementsAre(m) /\ m.count \in Nat /\ n \in Nat
  BY OutputsAre, ElementFacts, IterAssumption DEF MapShape
<1>2. /\ o \in 1..Len(Plugin(m)) /\ o \in 1..Len(Function(m)) /\ Function(m)[o] = m.outputs[o]
      /\ ~ IsNumber(m, o) /\ ~ IsClosure(m, o) /\ Behind(m, o) = o
  BY <1>1 DEF OutputsApart
<1>3. PICK p \in Nat, l \in Nat \ {0} : p = Place(Plugin(m), o) /\ l = m.outputs[o].length
  BY <1>2, PluginBelow, ChunkWithin
<1>4. PICK x \in Nat : x = n * l /\ (n + 1) * l = x + l
  BY <1>1, <1>3
<1>5. From(m, o, n) = p + x /\ Chunk(m, o, n) = (p + x)..(p + x + l - 1)
  BY <1>2, <1>3, <1>4 DEF From, Chunk
<1>6. ChunkOf(m, o, n) = {o} \X (x..(x + l - 1))
  BY <1>3, <1>4 DEF ChunkOf
<1>7. ChunkOf(m, o, n) \subseteq ElementsOf(m)
  <2>1. PICK c \in Nat : c = m.count /\ n + 1 <= c
    BY <1>1
  <2>2. (n + 1) * l <= c * l /\ c * l \in Nat
    BY <1>1, <1>3, <2>1, ProductGrows
  <2>3. \A y \in x..(x + l - 1) : y \in 0..(c * l - 1)
    <3>1. PICK z \in Nat : z = c * l /\ x + l <= z
      BY <1>4, <2>2
    <3>. QED  BY <1>3, <3>1
  <2>. QED  BY <1>3, <1>6, <2>1, <2>3 DEF ElementsOf
<1>8. ASSUME NEW e \in ElementsOf(m), e[1] = o
      PROVE  /\ e \in ChunkOf(m, o, n) <=> WireOf(m, e) \in Chunk(m, o, n)
             /\ e \in ChunkOf(m, o, n) =>
                  \E y \in 0..(l - 1) : WireOf(m, e) = From(m, o, n) + y /\ y = e[2] - x
  <2>1. PICK z \in Nat : e = <<o, z>> /\ z = e[2]
    BY <1>1, <1>8 DEF ElementsAre
  <2>2. WireOf(m, e) = p + z
    BY <1>3, <1>8, <2>1 DEF WireOf
  <2>3. e \in ChunkOf(m, o, n) <=> z \in x..(x + l - 1)
    BY <1>6, <2>1
  <2>4. z \in x..(x + l - 1) <=> p + z \in (p + x)..(p + x + l - 1)
    BY <1>3
  <2>5. ASSUME z \in x..(x + l - 1)
        PROVE  z - x \in 0..(l - 1) /\ p + z = (p + x) + (z - x)
    BY <1>3, <2>5
  <2>6. ASSUME e \in ChunkOf(m, o, n)
        PROVE  \E y \in 0..(l - 1) : WireOf(m, e) = From(m, o, n) + y /\ y = e[2] - x
    BY <1>5, <2>1, <2>2, <2>3, <2>5, <2>6
  <2>. QED  BY <1>5, <2>2, <2>3, <2>4, <2>6
<1>. QED  BY <1>3, <1>4, <1>7, <1>8 DEF ChunkIs

(* What a call adds to the results.                                         *)
Extended(m, result, kept, n) ==
  [e \in DOMAIN result \cup UNION {ChunkOf(m, o, n) : o \in kept} |->
     IF e \in DOMAIN result THEN result[e] ELSE ElementGiven(m, e, n)]

LEMMA ResultGrows ==
  ASSUME NEW m \in Maps, Aligned, Inv(m), Check
  PROVE  ResultOf(m, active', value') = Extended(m, ResultOf(m, active, value), written, j)
<1>1. /\ MapShape(m) /\ Shape(m) /\ ResultsHeld(m) /\ CheckStep(m) /\ MarksApart(m) /\ RoundIs(m)
      /\ ElementsAre(m) /\ OutputsApart(m) /\ phase = "check"
  BY CallShape, CheckIs, MarksAre, RoundFacts, ElementFacts, OutputsAre DEF Inv, Check
<1>2. written \subseteq 1..Outs(m) /\ \A o \in 1..Outs(m) : ChunkIs(m, o, j)
  BY <1>1, ChunkFacts DEF Shape, RoundIs
<1> DEFINE E == ElementsOf(m)
           w(e) == WireOf(m, e)
           t(e) == TypeOf(m, e)
           R == ResultOf(m, active, value)
           new == UNION {ChunkOf(m, o, j) : o \in written}
<1>3. \A e \in E : e[1] \in 1..Outs(m) /\ t(e) \in Type /\ w(e) < ParameterEnd
                   /\ w(e) \in WiresOf(Plugin(m), e[1]) /\ t(e) = m.outputs[e[1]].type
  BY <1>1 DEF ElementsAre, TypeOf
<1>4. \A e \in E : w(e) \notin Deleted(m, t(e))
  BY <1>1, <1>3 DEF MarksApart
<1>5. \A e \in E : e \in new <=> w(e) \in Marks(m, t(e))
  <2>1. SUFFICES ASSUME NEW e \in E PROVE e \in new <=> w(e) \in Marks(m, t(e))
    OBVIOUS
  <2>2. w(e) \in Marks(m, t(e)) <=> e[1] \in written /\ w(e) \in Chunk(m, e[1], j)
    BY <1>1, <1>3 DEF MarksApart
  <2>3. e \in ChunkOf(m, e[1], j) <=> w(e) \in Chunk(m, e[1], j)
    BY <1>2, <1>3 DEF ChunkIs
  <2>4. \A o \in written : e \in ChunkOf(m, o, j) => e[1] = o
    BY DEF ChunkOf
  <2>5. e \in new <=> e[1] \in written /\ e \in ChunkOf(m, e[1], j)
    BY <2>4
  <2>. QED  BY <2>2, <2>3, <2>5
<1>6. new \subseteq E
  BY <1>2 DEF ChunkIs
<1>7. \A e \in E : w(e) \in active'[t(e)] <=> w(e) \in active[t(e)] \/ e \in new
  BY <1>1, <1>3, <1>4, <1>5 DEF CheckStep
<1>8. DOMAIN R = {e \in E : w(e) \in active[t(e)]}
  BY DEF ResultOf
<1>9. {e \in E : w(e) \in active'[t(e)]} = DOMAIN R \cup new
  <2>. HIDE DEF E, w, t, R, new
  <2>. QED  BY <1>6, <1>7, <1>8
<1>10. \A e \in E : ValueIn(value', t(e), w(e)) = ValueIn(value, t(e), w(e))
  <2>1. SUFFICES ASSUME NEW e \in E
                 PROVE  ValueIn(value', t(e), w(e)) = ValueIn(value, t(e), w(e))
    OBVIOUS
  <2>2. value' = [x \in {x \in DOMAIN value : x[2] \notin Deleted(m, x[1])} |-> value[x]]
    BY <1>1 DEF CheckStep
  <2>3. <<t(e), w(e)>> \in DOMAIN value' <=> <<t(e), w(e)>> \in DOMAIN value
    BY <1>4, <2>2
  <2>4. <<t(e), w(e)>> \in DOMAIN value' => value'[<<t(e), w(e)>>] = value[<<t(e), w(e)>>]
    BY <2>2
  <2>. QED  BY <2>3, <2>4 DEF ValueIn
<1>11. ASSUME NEW e \in DOMAIN R
       PROVE  ValueIn(value', t(e), w(e)) = R[e]
  <2>1. e \in E /\ R[e] = ValueIn(value, t(e), w(e))
    BY <1>8 DEF ResultOf
  <2>. QED  BY <1>10, <2>1
<1>12. ASSUME NEW e \in new
       PROVE  ValueIn(value', t(e), w(e)) = ElementGiven(m, e, j)
  <2>1. PICK o \in written : e \in ChunkOf(m, o, j)
    OBVIOUS
  <2>2. e \in E /\ e[1] = o /\ o \in 1..Outs(m)
    BY <1>2, <1>6, <2>1 DEF ChunkOf
  <2>3. PICK x \in 0..(m.outputs[o].length - 1) :
          w(e) = From(m, o, j) + x /\ x = e[2] - j * m.outputs[o].length
    BY <1>2, <2>1, <2>2 DEF ChunkIs
  <2>4. /\ <<m.outputs[o].type, From(m, o, j) + x>> \in DOMAIN value
        /\ value[<<m.outputs[o].type, From(m, o, j) + x>>]
             = [output |-> o, element |-> x, iteration |-> j]
    BY <1>1, <2>1 DEF ResultsHeld
  <2>5. ValueIn(value, t(e), w(e)) = [output |-> o, element |-> x, iteration |-> j]
    BY <2>2, <2>3, <2>4 DEF ValueIn, TypeOf
  <2>. QED  BY <1>10, <2>2, <2>3, <2>5 DEF ElementGiven
<1>13. ResultOf(m, active', value') = [e \in DOMAIN R \cup new |-> ValueIn(value', t(e), w(e))]
  BY <1>9 DEF ResultOf
<1>14. \A e \in DOMAIN R \cup new :
         ValueIn(value', t(e), w(e)) = IF e \in DOMAIN R THEN R[e] ELSE ElementGiven(m, e, j)
  <2>. HIDE DEF E, w, t, R, new
  <2>. QED  BY <1>11, <1>12
<1>15. Extended(m, R, written, j)
         = [e \in DOMAIN R \cup new |-> IF e \in DOMAIN R THEN R[e] ELSE ElementGiven(m, e, j)]
  BY DEF Extended
<1>. HIDE DEF E, w, t, R, new
<1>16. ResultOf(m, active', value') = Extended(m, R, written, j)
  BY <1>13, <1>14, <1>15
<1>. QED  BY <1>16 DEF R

(* The call of MapCalls, with the state that ours stands for.               *)
ResultAfter(kept, n) ==
  LET chunk(o) == {o} \X (n * CallMapped.outputs[o] .. (n + 1) * CallMapped.outputs[o] - 1)
  IN  [e \in DOMAIN ResultMapped \cup UNION {chunk(o) : o \in kept} |->
         IF e \in DOMAIN ResultMapped THEN ResultMapped[e]
         ELSE [output |-> e[1], element |-> e[2] - n * CallMapped.outputs[e[1]], iteration |-> n]]

IterateMapped ==
  LET n == Len(SeenMapped)
  IN  /\ n < CallMapped.count
      /\ SeenMapped' = Append(SeenMapped, Chunks!Arguments(n))
      /\ UNCHANGED CallMapped
      /\ \E kept \in SUBSET DOMAIN CallMapped.outputs : ResultMapped' = ResultAfter(kept, n)

LEMMA IterateIs == IterateMapped => Chunks!Iterate
BY DEF IterateMapped, ResultAfter, Chunks!Iterate, CallMapped, SeenMapped, ResultMapped

LEMMA ArgumentsAre ==
  ASSUME NEW m, MapShape(m), IsCall(m), NEW n
  PROVE  Chunks!Arguments(n) = ArgumentsOf(m, n)
<1> DEFINE lengths == [i \in DOMAIN m.inputs |-> m.inputs[i].length]
           arg(i, x) ==
             CASE i <= m.closures -> [input |-> i, element |-> x]
               [] m.enumerated /\ i = m.closures + 1 -> [digit |-> DigitOf(n, lengths[i], x)]
               [] OTHER -> [input |-> IF m.enumerated THEN i - 1 ELSE i,
                            element |-> n * lengths[i] + x]
<1>1. Chunks!Arguments(n) = [i \in DOMAIN lengths |-> [x \in 0..(lengths[i] - 1) |-> arg(i, x)]]
  BY DEF Chunks!Arguments, Chunks!Argument, Chunks!Digit, DigitOf, IsCall
<1>2. DOMAIN lengths = DOMAIN m.inputs /\ \A i \in DOMAIN m.inputs : lengths[i] = m.inputs[i].length
  OBVIOUS
<1>3. DOMAIN m.inputs = 1..Len(m.inputs) /\ m.closures \in Nat /\ Len(m.inputs) \in Nat
  BY DEF MapShape
<1>4. ASSUME NEW i \in DOMAIN m.inputs, NEW x
      PROVE  arg(i, x) = ArgumentOf(m, n, i, x)
  <2>1. i \in Nat /\ lengths[i] = m.inputs[i].length
    BY <1>2, <1>3
  <2>. HIDE DEF lengths
  <2>2. CASE i <= m.closures
    <3>1. ~(i = m.closures + 1)
      BY <1>3, <2>1, <2>2
    <3>. QED  BY <2>2, <3>1 DEF ArgumentOf
  <2>3. CASE ~(i <= m.closures) /\ m.enumerated /\ i = m.closures + 1
    BY <2>1, <2>3 DEF ArgumentOf
  <2>4. CASE ~(i <= m.closures) /\ ~(m.enumerated /\ i = m.closures + 1)
    BY <2>1, <2>4 DEF ArgumentOf
  <2>. QED  BY <2>2, <2>3, <2>4
<1>. HIDE DEF lengths, arg
<1>. QED  BY <1>1, <1>2, <1>4 DEF ArgumentsOf

LEMMA CheckIterates ==
  ASSUME NEW m \in Maps, Aligned, Inv(m), Check
  PROVE  Chunks!Iterate
<1>1. /\ MapShape(m) /\ IsCall(m) /\ Shape(m) /\ ResultsHeld(m) /\ CheckStep(m) /\ RoundIs(m)
      /\ OutputsApart(m) /\ phase = "check"
  BY CallShape, CheckIs, RoundFacts, OutputsAre DEF Inv, Check
<1>2. /\ UNCHANGED <<map, signature, seen>> /\ j' = j + 1 /\ phase' \in {"enumerate", "done"}
  BY <1>1 DEF CheckStep
<1>3. Len(SeenMapped) = j /\ SeenMapped' = Append(SeenMapped, ArgumentsOf(m, j))
  <2>1. seen \in Seq(AnyArguments(m)) /\ Len(seen) = j + 1 /\ j \in Nat
    BY <1>1 DEF Shape, RoundIs
  <2>2. seen[j + 1] = ArgumentsOf(m, j)
    BY <1>1 DEF ResultsHeld
  <2>3. SeenMapped = SubSeq(seen, 1, j) /\ SeenMapped' = SubSeq(seen, 1, j + 1)
    BY <1>2 DEF SeenMapped
  <2>4. Len(SubSeq(seen, 1, j)) = j /\ SubSeq(seen, 1, j + 1) = Append(SubSeq(seen, 1, j), seen[j + 1])
    BY <2>1
  <2>. QED  BY <2>2, <2>3, <2>4
<1>4. Chunks!Arguments(j) = ArgumentsOf(m, j)
  BY <1>1, ArgumentsAre
<1>5. j < m.count
  BY <1>1 DEF RoundIs
<1>6. /\ CallMapped.count = m.count /\ CallMapped' = CallMapped
      /\ CallMapped.outputs = [i \in 1..Outs(m) |-> m.outputs[i].length]
  <2>1. DOMAIN m.outputs = 1..Outs(m)
    BY <1>1 DEF MapShape, Outs
  <2>. QED  BY <1>1, <1>2, <2>1 DEF CallMapped, IsCall
<1>7. /\ ResultMapped = ResultOf(m, active, value)
      /\ ResultMapped' = ResultOf(m, active', value')
  BY <1>1, <1>2, ResultNow, ResultNext
<1>8. written \in SUBSET (1..Outs(m))
  BY <1>1 DEF Shape
<1>9. ResultMapped' = Extended(m, ResultMapped, written, j)
  BY <1>7, ResultGrows
<1>10. ResultMapped' = ResultAfter(written, j)
  <2>1. \A o \in 1..Outs(m) : CallMapped.outputs[o] = m.outputs[o].length
    BY <1>6
  <2>2. \A o \in written : ChunkOf(m, o, j) =
          {o} \X (j * CallMapped.outputs[o] .. (j + 1) * CallMapped.outputs[o] - 1)
    BY <1>8, <2>1 DEF ChunkOf
  <2>3. UNION {ChunkOf(m, o, j) : o \in written} = UNION
          {{o} \X (j * CallMapped.outputs[o] .. (j + 1) * CallMapped.outputs[o] - 1) : o \in written}
    BY <2>2
  <2>4. \A e \in UNION {ChunkOf(m, o, j) : o \in written} : e[1] \in written
    BY DEF ChunkOf
  <2>5. \A e \in UNION {ChunkOf(m, o, j) : o \in written} :
          ElementGiven(m, e, j) =
            [output |-> e[1], element |-> e[2] - j * CallMapped.outputs[e[1]], iteration |-> j]
    BY <1>8, <2>1, <2>4 DEF ElementGiven
  <2>. QED  BY <1>9, <2>3, <2>5 DEF Extended, ResultAfter
<1>11. IterateMapped
  <2>1. written \in SUBSET DOMAIN CallMapped.outputs
    BY <1>6, <1>8
  <2>. QED  BY <1>3, <1>4, <1>5, <1>6, <1>10, <2>1 DEF IterateMapped
<1>. QED  BY <1>11, IterateIs

LEMMA StepMapped ==
  ASSUME NEW m \in Maps, Aligned, Inv(m), [Next]_vars
  PROVE  [Chunks!Iterate]_Chunks!mapVars
<1>0. Stutters => UNCHANGED Chunks!mapVars
  BY DEF Stutters, Chunks!mapVars, CallMapped, SeenMapped, ResultMapped
<1>1. CASE Enter
  BY <1>0, <1>1, EnterStutters
<1>2. CASE Unassign
  BY <1>0, <1>2, UnassignStutters
<1>3. CASE Enumerate
  BY <1>0, <1>3, EnumerateStutters
<1>4. CASE Remap
  BY <1>0, <1>4, RemapStutters
<1>5. CASE Evaluate
  BY <1>0, <1>5, EvaluateStutters
<1>6. CASE Check
  BY <1>6, CheckIterates
<1>7. CASE UNCHANGED vars
  <2>1. UNCHANGED <<map, signature, phase, j, active, value, seen>>
    BY <1>7 DEF vars
  <2>2. MapShape(m) /\ IsCall(m)
    BY CallShape DEF Inv
  <2>3. ResultMapped' = ResultMapped
    BY <2>1, <2>2, ResultNow, ResultNext
  <2>. QED  BY <1>0, <2>1, <2>3, SameCall DEF Stutters
<1>. QED  BY <1>1, <1>2, <1>3, <1>4, <1>5, <1>6, <1>7 DEF Next, Done

(* Each iteration reads and assigns its own chunks, whatever was lost by    *)
(* those before: the steps of the plugin are calls on the next chunks, or   *)
(* change none of the arguments and results.                                *)
THEOREM CallsOnChunks ==
  ASSUME Aligned
  PROVE  Spec => IsMapCalls
<1>1. Init => Chunks!Init
  BY DEF Init, Chunks!Init
<1>2. IInv /\ [Next]_vars => [Chunks!Iterate]_Chunks!mapVars
  BY StepMapped DEF IInv
<1>. QED  BY <1>1, <1>2, InductiveInvariant, PTL DEF Spec, IsMapCalls, Chunks!Spec
=============================================================================
