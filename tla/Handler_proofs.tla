---------------------------- MODULE Handler_proofs ----------------------------
(***************************************************************************)
(* Proofs about Handler, for every set of directives and signatures: calls *)
(* do not recur, resolve when they are evaluated, leave the stack of       *)
(* scopes balanced, and perform what their bodies inlined would.           *)
(***************************************************************************)
EXTENDS Handler, FiniteSetTheorems, SequenceTheorems, WellFoundedInduction, TLAPS

-----------------------------------------------------------------------------
(* Induction over data: a set of numbers that is not empty has a least      *)
(* member, among others the numbers for which a claim fails.                *)

(* A nonempty set of natural numbers has a least member.                    *)
LEMMA LeastNat ==
  ASSUME NEW T, T \subseteq Nat, T # {}
  PROVE  \E x \in T : \A y \in T : x <= y
<1> DEFINE R == OpToRel(<, Nat)
<1>1. \E x \in T : \A y \in T : ~(<<y, x>> \in R)
  BY NatLessThanWellFounded, WFMin
<1>2. \A x, y \in Nat : <<y, x>> \in R <=> y < x
  BY DEF OpToRel
<1> HIDE DEF R
<1>3. PICK x \in T : \A y \in T : ~(<<y, x>> \in R)
  BY <1>1, Zenon
<1>4. ASSUME NEW y \in T
      PROVE  x <= y
  <2>1. x \in Nat /\ y \in Nat
    OBVIOUS
  <2>2. ~(y < x)
    BY <1>2, <1>3, <2>1
  <2>. QED  BY <2>1, <2>2
<1>. QED  BY <1>4

(* f holds the states that N rounds of a loop go through, which a function  *)
(* exists for: what a recursive definition over positions defines.          *)
IteratesAt(f, N, start, step) ==
  \A n \in 0..N : f[n] = IF n = 0 THEN start ELSE step[n][f[n - 1]]

LEMMA IterationAtExists ==
  ASSUME NEW S, NEW start \in S, NEW N \in Nat, NEW step \in [1..N -> [S -> S]]
  PROVE  \E f \in [0..N -> S] : IteratesAt(f, N, start, step)
<1> DEFINE Good(f, n) ==
      /\ f \in [0..n -> S]
      /\ f[0] = start
      /\ \A k \in 1..n : f[k] = step[k][f[k - 1]]
    Failed == {n \in 0..N : ~ \E f : Good(f, n)}
<1>1. Failed = {}
  <2>1. SUFFICES ASSUME Failed # {}
                 PROVE  FALSE
    OBVIOUS
  <2>2. PICK n \in Failed : \A m \in Failed : n <= m
    BY <2>1, LeastNat, Failed \subseteq Nat, Zenon
  <2>3. CASE n = 0
    <3>1. Good([k \in 0..0 |-> start], 0)
      OBVIOUS
    <3>. QED  BY <2>3, <3>1, <2>2
  <2>4. CASE n # 0
    <3>1. n \in Nat /\ n - 1 \in Nat /\ ~(n <= n - 1) /\ n \in 1..N /\ n - 1 \in 0..N
      BY <2>4
    <3>2. PICK f : Good(f, n - 1)
      BY <3>1, <2>2
    <3> DEFINE g == [k \in 0..n |-> IF k < n THEN f[k] ELSE step[n][f[n - 1]]]
    <3>3. \A k \in 0..(n - 1) : f[k] \in S /\ k \in 0..n /\ k < n
      BY <3>1, <3>2
    <3>4. g \in [0..n -> S]
      <4>1. step[n][f[n - 1]] \in S
        BY <3>3, <3>1, n - 1 \in 0..(n - 1)
      <4>2. ASSUME NEW k \in 0..n
            PROVE  (IF k < n THEN f[k] ELSE step[n][f[n - 1]]) \in S
        BY <4>1, <3>3, <3>1
      <4>. QED  BY <4>2
    <3>5. g[0] = start
      BY <3>1, <3>2
    <3>6. ASSUME NEW k \in 1..n
          PROVE  g[k] = step[k][g[k - 1]]
      <4>1. k - 1 \in 0..n /\ k - 1 < n /\ k \in 0..n
        BY <3>1
      <4>2. g[k - 1] = f[k - 1]
        BY <4>1
      <4>3. CASE k < n
        BY <4>1, <4>2, <4>3, <3>2, k \in 1..(n - 1), <3>1
      <4>4. CASE ~(k < n)
        BY <4>1, <4>2, <4>4, k = n, <3>1
      <4>. QED  BY <4>3, <4>4
    <3>7. Good(g, n)
      BY <3>4, <3>5, <3>6
    <3>. QED  BY <3>7, <2>2
  <2>. QED  BY <2>3, <2>4
<1>2. PICK f : Good(f, N)
  BY <1>1, N \in 0..N
<1>3. ASSUME NEW n \in 0..N
      PROVE  f[n] = IF n = 0 THEN start ELSE step[n][f[n - 1]]
  BY <1>2, n # 0 => n \in 1..N
<1>. QED  BY <1>2, <1>3 DEF IteratesAt

(* The same with one step for every round.                                  *)
Iterates(f, N, start, step) ==
  \A n \in 0..N : f[n] = IF n = 0 THEN start ELSE step[f[n - 1]]

LEMMA IterationExists ==
  ASSUME NEW S, NEW start \in S, NEW step \in [S -> S], NEW N \in Nat
  PROVE  \E f \in [0..N -> S] : Iterates(f, N, start, step)
<1> DEFINE steps == [n \in 1..N |-> step]
<1>1. steps \in [1..N -> [S -> S]] /\ \A n \in 1..N : steps[n] = step
  OBVIOUS
<1> HIDE DEF steps
<1>2. PICK f \in [0..N -> S] : IteratesAt(f, N, start, steps)
  BY <1>1, IterationAtExists
<1>3. ASSUME NEW n \in 0..N
      PROVE  f[n] = IF n = 0 THEN start ELSE step[f[n - 1]]
  BY <1>1, <1>2, n # 0 => n \in 1..N DEF IteratesAt
<1>. QED  BY <1>2, <1>3 DEF Iterates

(* A step that makes the value at a key from the values at keys of a lower  *)
(* rank only.                                                               *)
Guarded(step, rank, D, V) ==
  \A e, f \in [D -> V], d \in D :
    (\A c \in D : rank[c] < rank[d] => e[c] = f[c]) => step[e][d] = step[f][d]

HasFixedPoint(step, D, V) == \E e \in [D -> V] : e = step[e]

(* What a recursive definition over such keys defines exists.               *)
LEMMA RankedExists ==
  ASSUME NEW D, NEW V, NEW v \in V, NEW R \in Nat, NEW rank \in [D -> 0..R],
         NEW step \in [[D -> V] -> [D -> V]], Guarded(step, rank, D, V)
  PROVE  HasFixedPoint(step, D, V)
<1> DEFINE F == [D -> V]
           N == R + 2
<1>1. [d \in D |-> v] \in F /\ N \in Nat /\ step \in [F -> F]
  OBVIOUS
<1>2. PICK g \in [0..N -> F] : Iterates(g, N, [d \in D |-> v], step)
  <2> HIDE DEF F, N
  <2>. QED  BY <1>1, IterationExists
<1>3. \A n \in 0..(R + 1) : n \in 0..N /\ n + 1 \in 0..N /\ g[n] \in F /\ g[n + 1] \in F /\ g[n + 1] = step[g[n]]
  <2>1. SUFFICES ASSUME NEW n \in 0..(R + 1)
                 PROVE  n \in 0..N /\ n + 1 \in 0..N /\ g[n] \in F /\ g[n + 1] \in F /\ g[n + 1] = step[g[n]]
    OBVIOUS
  <2>2. n \in 0..N /\ n + 1 \in 0..N /\ n + 1 # 0 /\ (n + 1) - 1 = n
    OBVIOUS
  <2> HIDE DEF F, N
  <2>3. g[n + 1] = step[g[n]]
    BY <1>2, <2>2 DEF Iterates
  <2>. QED  BY <2>2, <2>3
<1> HIDE DEF F, N
<1> DEFINE Failed == {n \in 0..(R + 1) : \E d \in D : rank[d] < n /\ g[n + 1][d] # g[n][d]}
<1>4. Failed = {}
  <2>1. SUFFICES ASSUME Failed # {}
                 PROVE  FALSE
    OBVIOUS
  <2>2. PICK n \in Failed : \A m \in Failed : n <= m
    BY <2>1, LeastNat, Failed \subseteq Nat, Zenon
  <2>3. PICK d \in D : rank[d] < n /\ g[n + 1][d] # g[n][d]
    BY <2>2
  <2>4. rank[d] \in Nat /\ n \in 0..(R + 1)
    BY <2>2
  <2>5. n - 1 \in 0..(R + 1) /\ (n - 1) + 1 = n /\ ~(n <= n - 1) /\ rank[d] <= n - 1
    BY <2>3, <2>4
  <2>6. ASSUME NEW c \in D, rank[c] < rank[d]
        PROVE  g[n][c] = g[n - 1][c]
    <3>1. rank[c] \in Nat /\ rank[c] < n - 1
      BY <2>4, <2>5, <2>6
    <3>2. n - 1 \notin Failed
      BY <2>2, <2>5
    <3>3. ~(g[(n - 1) + 1][c] # g[n - 1][c])
      BY <2>5, <3>1, <3>2
    <3>. QED  BY <2>5, <3>3
  <2>7. g[n] \in F /\ g[n - 1] \in F /\ g[n + 1] = step[g[n]] /\ g[n] = step[g[n - 1]]
    <3>1. g[(n - 1) + 1] = step[g[n - 1]] /\ g[n - 1] \in F
      BY <1>3, <2>5
    <3>. QED  BY <1>3, <2>4, <2>5, <3>1
  <2>8. step[g[n]][d] = step[g[n - 1]][d]
    BY <2>6, <2>7 DEF Guarded, F
  <2>. QED  BY <2>3, <2>7, <2>8
<1>5. R + 1 \in 0..(R + 1)
  OBVIOUS
<1> DEFINE top == g[R + 1]
           next == g[(R + 1) + 1]
<1>6. top \in F /\ next \in F /\ next = step[top]
  BY <1>3, <1>5
<1>7. \A d \in D : next[d] = top[d]
  <2>1. SUFFICES ASSUME NEW d \in D
                 PROVE  next[d] = top[d]
    OBVIOUS
  <2>2. rank[d] < R + 1
    OBVIOUS
  <2>. QED  BY <1>4, <1>5, <2>2
<1> HIDE DEF top, next
<1>8. next = top
  BY <1>6, <1>7 DEF F
<1>. QED  BY <1>6, <1>8 DEF F, HasFixedPoint

(* The joins of the first sequences of a sequence of sequences.             *)
IsJoin(f, ss, S) ==
  /\ f \in [0..Len(ss) -> Seq(S)] /\ f[0] = <<>>
  /\ \A n \in 1..Len(ss) : f[n] = f[n - 1] \o ss[n]

(* FlattenSeq is the last of them.                                          *)
LEMMA FlattenIs ==
  ASSUME NEW S, NEW ss \in Seq(Seq(S))
  PROVE  \E f : IsJoin(f, ss, S) /\ FlattenSeq(ss) = f[Len(ss)]
<1> DEFINE N == Len(ss)
           Q == Seq(S)
<1>1. N \in Nat /\ (\A n \in 1..N : ss[n] \in Q) /\ <<>> \in Q
  OBVIOUS
<1>2. CASE N = 0
  <2>1. ss = <<>> /\ FlattenSeq(ss) = <<>>
    BY <1>2 DEF FlattenSeq
  <2>2. IsJoin([n \in 0..0 |-> <<>>], ss, S)
    BY <1>2 DEF IsJoin
  <2>. QED  BY <1>2, <2>1, <2>2
<1>3. CASE N # 0
  <2> DEFINE step == [n \in 1..N |-> [s \in Q |-> s \o ss[n]]]
             Def(f) == f = [n \in 1..N |-> IF n = 1 THEN ss[n] ELSE f[n - 1] \o ss[n]]
             g == CHOOSE f : Def(f)
  <2>1. \A s, t \in Q : s \o t \in Q
    OBVIOUS
  <2>2. step \in [1..N -> [Q -> Q]] /\ \A n \in 1..N, s \in Q : step[n][s] = s \o ss[n]
    BY <1>1, <2>1
  <2>3. \A s \in Q : <<>> \o s = s
    OBVIOUS
  <2> HIDE DEF N, Q, step
  <2>4. PICK f \in [0..N -> Q] : IteratesAt(f, N, <<>>, step)
    BY <1>1, <2>2, IterationAtExists, Zenon
  <2>5. f[0] = <<>> /\ \A n \in 1..N : f[n] = f[n - 1] \o ss[n] /\ f[n - 1] \in Q /\ n - 1 \in 0..N
    <3>1. 0 \in 0..N
      BY <1>1
    <3>2. f[0] = <<>>
      BY <2>4, <3>1 DEF IteratesAt
    <3>3. ASSUME NEW n \in 1..N
          PROVE  f[n] = f[n - 1] \o ss[n] /\ f[n - 1] \in Q /\ n - 1 \in 0..N
      <4>1. n \in 0..N /\ n # 0 /\ n - 1 \in 0..N
        BY <1>1
      <4>2. f[n] = step[n][f[n - 1]]
        BY <2>4, <4>1 DEF IteratesAt
      <4>. QED  BY <2>2, <2>4, <4>1, <4>2
    <3>. QED  BY <3>2, <3>3
  <2>6. Def([n \in 1..N |-> f[n]])
    <3> DEFINE h == [n \in 1..N |-> f[n]]
    <3>1. ASSUME NEW n \in 1..N
          PROVE  h[n] = IF n = 1 THEN ss[n] ELSE h[n - 1] \o ss[n]
      <4>1. CASE n = 1
        <5>1. f[n] = f[n - 1] \o ss[n] /\ ss[n] \in Q
          BY <1>1, <2>5
        <5>2. n - 1 = 0
          BY <4>1
        <5>3. f[n] = <<>> \o ss[n]
          BY <2>5, <5>1, <5>2
        <5>. QED  BY <2>3, <4>1, <5>1, <5>3
      <4>2. CASE n # 1
        <5>1. n - 1 \in 1..N
          BY <1>1, <4>2
        <5>2. h[n - 1] = f[n - 1] /\ h[n] = f[n]
          BY <5>1
        <5>3. h[n] = h[n - 1] \o ss[n]
          BY <2>5, <5>2
        <5>. QED  BY <4>2, <5>3
      <4>. QED  BY <4>1, <4>2
    <3>2. h = [n \in 1..N |-> h[n]]
      OBVIOUS
    <3> HIDE DEF h
    <3>3. h = [n \in 1..N |-> IF n = 1 THEN ss[n] ELSE h[n - 1] \o ss[n]]
      BY <3>1, <3>2
    <3>4. Def(h)
      BY <3>3
    <3>. QED  BY <3>4 DEF h
  <2>7. Def(g)
    BY <2>6, Zenon
  <2> HIDE DEF g
  <2>8. \A n \in 1..N : g[n] = IF n = 1 THEN ss[n] ELSE g[n - 1] \o ss[n]
    BY <2>7
  <2> HIDE DEF Def
  <2>9. FlattenSeq(ss) = g[N]
    BY <1>3 DEF FlattenSeq, g, Def, N
  <2>10. \A n \in 1..N : g[n] = f[n]
    <3> DEFINE Failed == {n \in 1..N : g[n] # f[n]}
    <3>1. SUFFICES ASSUME Failed # {}
                   PROVE  FALSE
      OBVIOUS
    <3>2. PICK n \in Failed : \A m \in Failed : n <= m
      BY <1>1, <3>1, LeastNat, Failed \subseteq Nat, Zenon
    <3>3. CASE n = 1
      <4>1. n \in 1..N /\ n - 1 = 0
        BY <3>2, <3>3
      <4>2. f[n] = f[n - 1] \o ss[n] /\ ss[n] \in Q /\ g[n] = ss[n]
        BY <1>1, <2>5, <2>8, <3>3, <4>1
      <4>3. f[n] = <<>> \o ss[n]
        BY <2>5, <4>1, <4>2
      <4>. QED  BY <2>3, <3>2, <4>2, <4>3
    <3>4. CASE n # 1
      <4>1. n - 1 \in 1..N /\ ~(n <= n - 1) /\ n \in 1..N
        BY <1>1, <3>2, <3>4
      <4>2. g[n - 1] = f[n - 1]
        BY <3>2, <4>1
      <4>. QED  BY <2>5, <2>8, <3>2, <3>4, <4>1, <4>2
    <3>. QED  BY <3>3, <3>4
  <2>11. N \in 1..N
    BY <1>1, <1>3
  <2>12. IsJoin(f, ss, S)
    BY <2>4, <2>5 DEF IsJoin, N, Q
  <2>. QED  BY <2>9, <2>10, <2>11, <2>12 DEF N
<1>. QED  BY <1>2, <1>3

(* Flattening joins sequences over a set to one over the set; of no         *)
(* sequences to the empty one, and otherwise to the first and what the      *)
(* others are flattened to.                                                 *)
LEMMA FlattenFirst ==
  ASSUME NEW S, NEW ss \in Seq(Seq(S))
  PROVE  /\ FlattenSeq(ss) \in Seq(S)
         /\ ss = <<>> => FlattenSeq(ss) = <<>>
         /\ ss # <<>> => FlattenSeq(ss) = Head(ss) \o FlattenSeq(Tail(ss))
<1>1. PICK f : IsJoin(f, ss, S) /\ FlattenSeq(ss) = f[Len(ss)]
  BY FlattenIs
<1>2. Len(ss) \in Nat /\ f \in [0..Len(ss) -> Seq(S)] /\ FlattenSeq(ss) \in Seq(S)
  BY <1>1 DEF IsJoin
<1>3. ss = <<>> => FlattenSeq(ss) = <<>>
  BY <1>1, <1>2 DEF IsJoin
<1>4. ASSUME ss # <<>>
      PROVE  FlattenSeq(ss) = Head(ss) \o FlattenSeq(Tail(ss))
  <2> DEFINE N == Len(ss) - 1
             t == Tail(ss)
             a == ss[1]
  <2>1. /\ N \in Nat /\ t \in Seq(Seq(S)) /\ Len(t) = N /\ a \in Seq(S) /\ Head(ss) = a
        /\ \A n \in 1..N : t[n] = ss[n + 1] /\ ss[n + 1] \in Seq(S)
    BY <1>2, <1>4
  <2>2. PICK g : IsJoin(g, t, S) /\ FlattenSeq(t) = g[Len(t)]
    BY <2>1, FlattenIs
  <2> DEFINE Failed == {n \in 0..N : f[n + 1] # a \o g[n]}
  <2>3. g \in [0..N -> Seq(S)] /\ g[0] = <<>> /\ \A n \in 1..N : g[n] = g[n - 1] \o ss[n + 1]
    BY <2>1, <2>2 DEF IsJoin
  <2>4. f[1] = a \o g[0]
    <3>1. 1 \in 1..Len(ss) /\ f[0] = <<>> /\ 1 - 1 = 0
      BY <1>1, <1>2, <1>4 DEF IsJoin
    <3>2. f[1] = f[1 - 1] \o ss[1]
      BY <1>1, <3>1 DEF IsJoin
    <3>. QED  BY <2>1, <2>3, <3>1, <3>2
  <2>5. \A n \in 1..N : f[n + 1] = f[n] \o ss[n + 1]
    <3>1. SUFFICES ASSUME NEW n \in 1..N
                   PROVE  f[n + 1] = f[n] \o ss[n + 1]
      OBVIOUS
    <3>2. n + 1 \in 1..Len(ss) /\ (n + 1) - 1 = n
      BY <1>2
    <3>. QED  BY <1>1, <3>2 DEF IsJoin
  <2> HIDE DEF N, a, t
  <2>6. Failed = {}
    <3>1. SUFFICES ASSUME Failed # {}
                   PROVE  FALSE
      OBVIOUS
    <3>2. PICK n \in Failed : \A m \in Failed : n <= m
      BY <2>1, <3>1, LeastNat, Failed \subseteq Nat, Zenon
    <3>3. n # 0
      BY <2>4, <3>2
    <3>4. n \in 1..N /\ n - 1 \in 0..N /\ ~(n <= n - 1) /\ (n - 1) + 1 = n
      BY <2>1, <3>2, <3>3
    <3>5. f[n] = a \o g[n - 1]
      BY <3>2, <3>4
    <3>6. f[n + 1] = (a \o g[n - 1]) \o ss[n + 1] /\ g[n] = g[n - 1] \o ss[n + 1]
      BY <2>3, <2>5, <3>4, <3>5
    <3>7. g[n - 1] \in Seq(S) /\ ss[n + 1] \in Seq(S) /\ a \in Seq(S)
      BY <2>1, <2>3, <3>4
    <3>8. (a \o g[n - 1]) \o ss[n + 1] = a \o (g[n - 1] \o ss[n + 1])
      <4>1. PICK x \in Seq(S) : x = g[n - 1]
        BY <3>7
      <4>2. PICK y \in Seq(S) : y = ss[n + 1]
        BY <3>7
      <4>3. PICK b \in Seq(S) : b = a
        BY <3>7
      <4>4. (b \o x) \o y = b \o (x \o y)
        BY ConcatAssociative, SMTT(30)
      <4>. QED  BY <4>1, <4>2, <4>3, <4>4
    <3>. QED  BY <3>2, <3>6, <3>8
  <2>7. N \in 0..N /\ N + 1 = Len(ss)
    BY <1>2, <2>1 DEF N
  <2>8. f[N + 1] = a \o g[N]
    BY <2>6, <2>7
  <2>. QED  BY <1>1, <2>1, <2>2, <2>7, <2>8 DEF t
<1>. QED  BY <1>2, <1>3, <1>4
-----------------------------------------------------------------------------
(* The calls under way, by the names of their functions.                    *)
FrameOf(names) == [name : names, next : Nat \ {0}]

TypeInv ==
  /\ signature \in Signatures \cup {NoSignature}
  /\ gates \in Seq(Directives)
  /\ stack \in Seq(FrameOf(DOMAIN functions))
  /\ failing \in BOOLEAN /\ building \in BOOLEAN
  /\ pushed \in Nat /\ read \in 0..MaxRead
  /\ status \in {"running", "done", "refused", "undefined", "assert"}
  /\ \A n \in DOMAIN functions : functions[n].signature.name = n

(* A function under construction is new, and its types are at most the      *)
(* first one that is not defined.                                           *)
SignatureInv ==
  /\ building => signature /= NoSignature
  /\ signature /= NoSignature =>
       /\ signature.name \notin DOMAIN functions
       /\ \A k \in DOMAIN Parameters(signature) : Parameters(signature)[k].type <= Types

(* What typeCheck checked of a directive.                                   *)
Fits(d) ==
  /\ Convertible(d)
  /\ IsCall(d) =>
       /\ d.name \in DOMAIN functions
       /\ LET sig == functions[d.name].signature
          IN  /\ Counts(d, sig)
              /\ Lengths(d.outputs, sig.outputs) /\ Lengths(d.inputs, sig.inputs)

BodiesFit ==
  \A n \in DOMAIN functions : \A k \in DOMAIN functions[n].gates : Fits(functions[n].gates[k])

(* Functions have an age, a function calls older ones only, and so do the   *)
(* calls under way.                                                         *)
CallsOlder(age) ==
  \A n \in DOMAIN functions : \A k \in DOMAIN functions[n].gates :
    IsCall(functions[n].gates[k]) => age[functions[n].gates[k].name] < age[n]

StackOlder(age) ==
  \A k, l \in DOMAIN stack : k < l => age[stack[l].name] < age[stack[k].name]

Ordered ==
  \E youngest \in Nat, age \in [DOMAIN functions -> Nat] :
    (\A n \in DOMAIN functions : age[n] <= youngest) /\ CallsOlder(age) /\ StackOlder(age)

Balanced ==
  /\ pushed >= Len(stack)
  /\ pushed <= Len(stack) + IF failing THEN 1 ELSE 0
  /\ status = "done" => pushed = 0

IInv == TypeInv /\ SignatureInv /\ BodiesFit /\ Ordered /\ Balanced /\ UndefinedOnly

-------------------------------------------------------------------------------
(* The initial table is empty, and any age does.                            *)
LEMMA InitInv == Init => IInv
<1>. SUFFICES ASSUME Init PROVE IInv
  OBVIOUS
<1>1. functions = [n \in {} |-> NoSignature] /\ DOMAIN functions = {}
  BY DEF Init
<1>2. TypeInv /\ SignatureInv
  <2>1. stack = <<>> /\ gates = <<>> /\ signature = NoSignature /\ pushed = 0 /\ read = 0
    BY DEF Init
  <2>2. 0 \in 0..MaxRead /\ <<>> \in Seq(Directives) /\ <<>> \in Seq(FrameOf(DOMAIN functions))
    BY HandlerAssumption DEF HandlerAssumption
  <2>3. /\ failing \in BOOLEAN /\ building = FALSE
        /\ status \in {"running", "done", "refused", "undefined", "assert"}
    BY DEF Init
  <2>. QED
    BY <1>1, <2>1, <2>2, <2>3 DEF TypeInv, SignatureInv
<1>3. BodiesFit
  BY <1>1 DEF BodiesFit
<1>4. Ordered
  <2>1. [n \in {} |-> 0] \in [DOMAIN functions -> Nat] /\ 0 \in Nat
    BY <1>1
  <2>2. CallsOlder([n \in {} |-> 0]) /\ StackOlder([n \in {} |-> 0])
    BY <1>1 DEF CallsOlder, StackOlder, Init
  <2>. QED
    BY <1>1, <2>1, <2>2 DEF Ordered
<1>5. Balanced /\ UndefinedOnly
  BY DEF Init, Balanced, UndefinedOnly
<1>. QED
  BY <1>2, <1>3, <1>4, <1>5 DEF IInv

(* Advancing the last call changes neither the number of calls nor their    *)
(* functions.                                                               *)
LEMMA AdvanceKeeps ==
  ASSUME NEW names, stack \in Seq(FrameOf(names))
  PROVE  /\ Advance \in Seq(FrameOf(names)) /\ Len(Advance) = Len(stack)
         /\ \A k \in DOMAIN stack : Advance[k].name = stack[k].name
<1>1. CASE stack = <<>>
  BY <1>1 DEF Advance
<1>2. CASE stack /= <<>>
  <2>1. Len(stack) \in DOMAIN stack /\ stack[Len(stack)] \in FrameOf(names)
    BY <1>2
  <2>. DEFINE frame == [name |-> stack[Len(stack)].name, next |-> stack[Len(stack)].next + 1]
  <2>2. frame \in FrameOf(names)
    BY <2>1 DEF FrameOf
  <2>3. Advance = [stack EXCEPT ![Len(stack)] = frame]
    BY <1>2 DEF Advance
  <2>. QED
    BY <2>1, <2>2, <2>3 DEF FrameOf
<1>. QED
  BY <1>1, <1>2

(* As long as functions stay and the names of the calls too, so does what   *)
(* is known of them, also if a scope is pushed by a call that then fails.   *)
LEMMA AdvanceInv ==
  ASSUME IInv, UNCHANGED <<functions, construction>>, stack' \in {stack, Advance},
         failing' \in BOOLEAN, failing => failing',
         pushed' = pushed \/ (pushed' = pushed + 1 /\ ~ failing /\ failing'),
         read' \in 0..MaxRead, status' = status, status = "running"
  PROVE  IInv'
<1>1. /\ stack' \in Seq(FrameOf(DOMAIN functions)) /\ Len(stack') = Len(stack)
      /\ \A k \in DOMAIN stack : stack'[k].name = stack[k].name
  BY AdvanceKeeps DEF IInv, TypeInv
<1>2. TypeInv' /\ SignatureInv'
  BY <1>1 DEF IInv, TypeInv, SignatureInv, construction
<1>3. BodiesFit'
  BY DEF IInv, BodiesFit, Fits
<1>4. Ordered'
  <2>1. PICK youngest \in Nat, age \in [DOMAIN functions -> Nat] :
          (\A n \in DOMAIN functions : age[n] <= youngest) /\ CallsOlder(age) /\ StackOlder(age)
    BY DEF IInv, Ordered
  <2>2. DOMAIN stack' = DOMAIN stack
    BY <1>1 DEF IInv, TypeInv
  <2>3. CallsOlder(age)' /\ StackOlder(age)'
    BY <1>1, <2>1, <2>2 DEF CallsOlder, StackOlder
  <2>. QED
    BY <2>1, <2>3 DEF Ordered
<1>5. Balanced' /\ UndefinedOnly'
  BY <1>1 DEF IInv, TypeInv, Balanced, UndefinedOnly
<1>. QED
  BY <1>2, <1>3, <1>4, <1>5 DEF IInv

(* A call pushes the function it names, which is older than the caller.     *)
LEMMA PushInv ==
  ASSUME IInv, UNCHANGED <<functions, construction, failing>>, ~ failing,
         NEW name \in DOMAIN functions,
         stack /= <<>> =>
           \E k \in DOMAIN Function.gates : IsCall(Function.gates[k]) /\ Function.gates[k].name = name,
         stack' = Append(Advance, [name |-> name, next |-> 1]),
         pushed' = pushed + 1, read' \in 0..MaxRead, status' = status, status = "running"
  PROVE  IInv'
<1>. DEFINE frame == [name |-> name, next |-> 1]
<1>1. /\ Advance \in Seq(FrameOf(DOMAIN functions)) /\ Len(Advance) = Len(stack)
      /\ \A k \in DOMAIN stack : Advance[k].name = stack[k].name
  BY AdvanceKeeps DEF IInv, TypeInv
<1>2. frame \in FrameOf(DOMAIN functions)
  BY DEF FrameOf
<1>3. /\ stack' \in Seq(FrameOf(DOMAIN functions)) /\ Len(stack') = Len(stack) + 1
      /\ \A k \in DOMAIN stack : stack'[k].name = stack[k].name
      /\ stack'[Len(stack) + 1].name = name
      /\ DOMAIN stack' = 1..Len(stack) + 1 /\ DOMAIN stack = 1..Len(stack) /\ Len(stack) \in Nat
  BY <1>1, <1>2 DEF IInv, TypeInv
<1>4. TypeInv' /\ SignatureInv'
  BY <1>3 DEF IInv, TypeInv, SignatureInv, construction
<1>5. BodiesFit'
  BY DEF IInv, BodiesFit, Fits
<1>6. Ordered'
  <2>1. PICK youngest \in Nat, age \in [DOMAIN functions -> Nat] :
          (\A n \in DOMAIN functions : age[n] <= youngest) /\ CallsOlder(age) /\ StackOlder(age)
    BY DEF IInv, Ordered
  <2>2. \A k \in DOMAIN stack : stack[k].name \in DOMAIN functions /\ age[stack[k].name] \in Nat
    <3>. SUFFICES ASSUME NEW k \in DOMAIN stack
                  PROVE  stack[k].name \in DOMAIN functions /\ age[stack[k].name] \in Nat
      OBVIOUS
    <3>1. stack[k] \in FrameOf(DOMAIN functions)
      BY DEF IInv, TypeInv
    <3>2. stack[k].name \in DOMAIN functions
      BY <3>1 DEF FrameOf
    <3>. QED
      BY <2>1, <3>2
  <2>3. stack /= <<>> => age[name] < age[stack[Len(stack)].name]
    <3>. SUFFICES ASSUME stack /= <<>> PROVE age[name] < age[stack[Len(stack)].name]
      OBVIOUS
    <3>1. stack[Len(stack)].name \in DOMAIN functions
      BY <1>3, <2>2
    <3>. QED
      BY <2>1, <3>1 DEF CallsOlder, Function, Frame, Last
  <2>4. \A k \in DOMAIN stack : age[name] < age[stack[k].name]
    <3>. SUFFICES ASSUME NEW k \in DOMAIN stack PROVE age[name] < age[stack[k].name]
      OBVIOUS
    <3>1. k = Len(stack) \/ k < Len(stack)
      BY <1>3
    <3>2. age[name] < age[stack[Len(stack)].name]
      BY <1>3, <2>3
    <3>3. k < Len(stack) => age[stack[Len(stack)].name] < age[stack[k].name]
      BY <1>3, <2>1 DEF StackOlder
    <3>4. age[stack[Len(stack)].name] \in Nat /\ age[stack[k].name] \in Nat /\ age[name] \in Nat
      BY <1>3, <2>1, <2>2
    <3>. QED
      BY <3>1, <3>2, <3>3, <3>4
  <2>5. StackOlder(age)'
    BY <1>3, <2>1, <2>4, SMTT(30) DEF StackOlder
  <2>6. CallsOlder(age)'
    BY <2>1 DEF CallsOlder
  <2>. QED
    BY <2>1, <2>5, <2>6 DEF Ordered
<1>7. Balanced' /\ UndefinedOnly'
  BY <1>3 DEF IInv, TypeInv, Balanced, UndefinedOnly
<1>. QED
  BY <1>4, <1>5, <1>6, <1>7 DEF IInv

(* A call that returns takes its scope away.                                *)
LEMMA PopInv ==
  ASSUME IInv, UNCHANGED <<functions, construction, read, status>>, stack /= <<>>, Pop,
         failing' \in BOOLEAN, failing => failing', status = "running"
  PROVE  IInv'
<1>1. /\ stack' \in Seq(FrameOf(DOMAIN functions)) /\ Len(stack') = Len(stack) - 1
      /\ \A k \in DOMAIN stack' : k \in DOMAIN stack /\ stack'[k] = stack[k]
      /\ Len(stack) \in Nat \ {0}
  <2>. DEFINE Frames == FrameOf(DOMAIN functions)
  <2>1. stack \in Seq(Frames) /\ Len(stack) \in Nat \ {0}
    BY DEF IInv, TypeInv
  <2>2. stack' = SubSeq(stack, 1, Len(stack) - 1)
    BY DEF Pop, Front
  <2>3. DOMAIN functions' = DOMAIN functions
    OBVIOUS
  <2>. HIDE DEF Frames
  <2>4. /\ stack' \in Seq(Frames) /\ Len(stack') = Len(stack) - 1
        /\ \A k \in DOMAIN stack' : k \in DOMAIN stack /\ stack'[k] = stack[k]
    <3>1. \A k \in 1..Len(stack) - 1 : k \in DOMAIN stack /\ stack[k] \in Frames
      BY <2>1
    <3>2. /\ stack' \in Seq(Frames) /\ Len(stack') = Len(stack) - 1
          /\ \A k \in 1..Len(stack) - 1 : stack'[k] = stack[k]
      <4>. DEFINE last == Len(stack) - 1
      <4>1. last \in Nat /\ 1 \in Int
        BY <2>1
      <4>. HIDE DEF last
      <4>2. /\ SubSeq(stack, 1, last) \in Seq(Frames)
            /\ Len(SubSeq(stack, 1, last)) = IF 1 <= last THEN last - 1 + 1 ELSE 0
            /\ \A k \in 1..(last - 1 + 1) : SubSeq(stack, 1, last)[k] = stack[1 + k - 1]
        BY <3>1, <4>1, SubSeqProperties DEF last
      <4>3. Len(SubSeq(stack, 1, last)) = last /\ \A k \in 1..last : SubSeq(stack, 1, last)[k] = stack[k]
        BY <4>1, <4>2
      <4>. QED
        BY <2>2, <4>2, <4>3 DEF last
    <3>. QED
      BY <3>1, <3>2
  <2>. QED
    BY <2>1, <2>4, Zenon DEF Frames
<1>2. pushed' = pushed - 1 /\ pushed \in Nat
  BY DEF Pop, IInv, TypeInv
<1>3. Balanced' /\ UndefinedOnly' /\ pushed' \in Nat
  BY <1>1, <1>2 DEF IInv, TypeInv, Balanced, UndefinedOnly
<1>4. TypeInv' /\ SignatureInv'
  BY <1>1, <1>3 DEF IInv, TypeInv, SignatureInv, construction
<1>5. BodiesFit'
  BY DEF IInv, BodiesFit, Fits
<1>6. Ordered'
  <2>1. PICK youngest \in Nat, age \in [DOMAIN functions -> Nat] :
          (\A n \in DOMAIN functions : age[n] <= youngest) /\ CallsOlder(age) /\ StackOlder(age)
    BY DEF IInv, Ordered
  <2>2. CallsOlder(age)' /\ StackOlder(age)'
    BY <1>1, <2>1 DEF CallsOlder, StackOlder
  <2>. QED
    BY <2>1, <2>2 DEF Ordered
<1>. QED
  BY <1>3, <1>4, <1>5, <1>6 DEF IInv

(* A directive of the body of a function is checked before, so that only at *)
(* the top level a conversion is used that there is not.                    *)
LEMMA InterpretInv ==
  ASSUME IInv, Running, ~ failing, NEW d, Interpret(d), read' \in 0..MaxRead,
         stack /= <<>> => Convertible(d)
  PROVE  IInv'
<1>1. CASE ~ Convertible(d)
  <2>1. stack = <<>> /\ status' = "undefined" /\ UNCHANGED <<functions, construction, evaluation>>
    BY <1>1 DEF Interpret
  <2>2. TypeInv' /\ SignatureInv' /\ BodiesFit' /\ Balanced' /\ UndefinedOnly'
    BY <2>1 DEF IInv, TypeInv, SignatureInv, BodiesFit, Fits, Balanced, UndefinedOnly,
                construction, evaluation
  <2>3. Ordered'
    BY <2>1 DEF IInv, Ordered, CallsOlder, StackOlder, evaluation
  <2>. QED
    BY <2>2, <2>3 DEF IInv
<1>2. CASE Convertible(d)
  <2>1. UNCHANGED <<functions, construction>> /\ pushed' = pushed /\ status' = status
    BY <1>2 DEF Interpret, Fail
  <2>2. stack' \in {stack, Advance} /\ failing' \in BOOLEAN
    BY <1>2 DEF Interpret, Fail, IInv, TypeInv
  <2>3. status = "running" /\ (failing => failing')
    BY DEF Running
  <2>. QED
    BY <2>1, <2>2, <2>3, AdvanceInv
<1>. QED
  BY <1>1, <1>2

LEMMA InvokeInv ==
  ASSUME IInv, Running, ~ failing, NEW d, IsCall(d), Invoke(d), read' \in 0..MaxRead,
         stack /= <<>> => \E k \in DOMAIN Function.gates : Function.gates[k] = d
  PROVE  IInv'
<1>1. CASE Fail /\ UNCHANGED stack /\ pushed' \in {pushed, pushed + 1}
  BY <1>1, AdvanceInv DEF Fail, Running
<1>2. CASE /\ d.name \in DOMAIN functions /\ pushed' = pushed + 1
           /\ stack' = Append(Advance, [name |-> d.name, next |-> 1])
           /\ UNCHANGED <<functions, construction, failing, performed, status>>
  BY <1>2, PushInv DEF Running
<1>. QED
  BY <1>1, <1>2 DEF Invoke

(* A function whose calls are all in the table is the youngest.             *)
LEMMA RegisterInv ==
  ASSUME IInv, NEW function, Register(function), function.signature = signature,
         \A k \in DOMAIN function.gates : Fits(function.gates[k]),
         stack = <<>>, signature /= NoSignature, status = "running",
         signature' = NoSignature, building' = FALSE, gates' \in Seq(Directives),
         UNCHANGED <<evaluation, status, read>>
  PROVE  IInv'
<1>. DEFINE new == signature.name
<1>1. /\ new \notin DOMAIN functions /\ DOMAIN functions' = DOMAIN functions \cup {new}
      /\ functions'[new] = function
      /\ \A n \in DOMAIN functions : functions'[n] = functions[n] /\ n /= new
  BY DEF IInv, SignatureInv, Register
<1>2. TypeInv'
  <2>1. stack' = <<>> /\ <<>> \in Seq(FrameOf(DOMAIN functions'))
    BY DEF evaluation
  <2>2. \A n \in DOMAIN functions' : functions'[n].signature.name = n
    BY <1>1 DEF IInv, TypeInv
  <2>. QED
    BY <2>1, <2>2 DEF IInv, TypeInv, evaluation
<1>3. \A d : Fits(d) => Fits(d)'
  <2>. SUFFICES ASSUME NEW d, Fits(d) PROVE Fits(d)'
    OBVIOUS
  <2>1. IsCall(d) => d.name \in DOMAIN functions' /\ functions'[d.name] = functions[d.name]
    BY <1>1 DEF Fits
  <2>. QED
    BY <2>1 DEF Fits
<1>4. BodiesFit'
  <2>. SUFFICES ASSUME NEW n \in DOMAIN functions', NEW k \in DOMAIN functions'[n].gates
                PROVE  Fits(functions[n].gates[k])'
    BY DEF BodiesFit
  <2>1. PICK d : d = functions'[n].gates[k]
    OBVIOUS
  <2>2. Fits(d)
    BY <1>1, <2>1 DEF IInv, BodiesFit
  <2>3. Fits(d)'
    BY <1>3, <2>2
  <2>. QED
    BY <2>1, <2>3 DEF Fits
<1>5. Ordered'
  <2>1. PICK youngest \in Nat, age \in [DOMAIN functions -> Nat] :
          (\A n \in DOMAIN functions : age[n] <= youngest) /\ CallsOlder(age) /\ StackOlder(age)
    BY DEF IInv, Ordered
  <2>. PICK aged : aged = [n \in DOMAIN functions' |-> IF n = new THEN youngest + 1 ELSE age[n]]
    OBVIOUS
  <2>2. /\ aged \in [DOMAIN functions' -> Nat] /\ youngest + 1 \in Nat /\ aged[new] = youngest + 1
        /\ \A n \in DOMAIN functions : aged[n] = age[n] /\ aged[n] < aged[new]
        /\ \A n \in DOMAIN functions' : aged[n] <= youngest + 1
    BY <1>1, <2>1
  <2>3. CallsOlder(aged)'
    <3>. SUFFICES ASSUME NEW n \in DOMAIN functions', NEW k \in DOMAIN functions'[n].gates,
                         IsCall(functions'[n].gates[k])
                  PROVE  aged[functions'[n].gates[k].name] < aged[n]
      BY DEF CallsOlder
    <3>1. CASE n = new
      BY <1>1, <2>2, <3>1 DEF Fits
    <3>2. CASE n \in DOMAIN functions
      <4>1. functions'[n] = functions[n] /\ Fits(functions[n].gates[k])
        BY <1>1, <3>2 DEF IInv, BodiesFit
      <4>2. functions[n].gates[k].name \in DOMAIN functions
        BY <4>1 DEF Fits
      <4>. QED
        BY <2>1, <2>2, <3>2, <4>1, <4>2 DEF CallsOlder
    <3>. QED
      BY <1>1, <3>1, <3>2
  <2>4. StackOlder(aged)'
    BY DEF StackOlder, evaluation
  <2>. QED
    BY <2>2, <2>3, <2>4 DEF Ordered
<1>6. SignatureInv' /\ Balanced' /\ UndefinedOnly'
  BY DEF IInv, SignatureInv, Balanced, UndefinedOnly, evaluation
<1>. QED
  BY <1>2, <1>4, <1>5, <1>6 DEF IInv

(* What only changes the parser's place, the construction or the outcome.   *)
LEMMA QuietInv ==
  ASSUME IInv, UNCHANGED <<functions, evaluation>>, TypeInv', SignatureInv', UndefinedOnly',
         status' = "done" => status = "done" \/ (stack = <<>> /\ ~ failing)
  PROVE  IInv'
<1>1. BodiesFit' /\ Balanced'
  BY DEF IInv, TypeInv, BodiesFit, Fits, Balanced, evaluation
<1>2. Ordered'
  BY DEF IInv, Ordered, CallsOlder, StackOlder, evaluation
<1>. QED
  BY <1>1, <1>2 DEF IInv

LEMMA ParametersTyped ==
  ASSUME NEW sig \in Signatures
  PROVE  \A k \in DOMAIN Parameters(sig) : Parameters(sig)[k] \in [type : Nat, length : Nat]
<1>1. sig.outputs \in Seq([type : Nat, length : Nat]) /\ sig.inputs \in Seq([type : Nat, length : Nat])
  BY HandlerAssumption DEF HandlerAssumption
<1>2. Parameters(sig) \in Seq([type : Nat, length : Nat])
  BY <1>1 DEF Parameters
<1>3. \A S : \A s \in Seq(S) : \A k \in DOMAIN s : s[k] \in S
  OBVIOUS
<1>. QED
  BY <1>2, <1>3, Zenon

(* The function under evaluation and its next directive are in the table.   *)
LEMMA AtDirectiveFits ==
  ASSUME IInv, Evaluating, AtDirective
  PROVE  Frame.next \in DOMAIN Function.gates /\ Fits(Function.gates[Frame.next])
<1>1. Len(stack) \in DOMAIN stack
  BY DEF IInv, TypeInv, Evaluating
<1>2. stack[Len(stack)] \in FrameOf(DOMAIN functions)
  BY <1>1 DEF IInv, TypeInv
<1>3. Frame.name \in DOMAIN functions
  BY <1>2 DEF Frame, Last, FrameOf
<1>. QED
  BY <1>3 DEF AtDirective, Function, IInv, BodiesFit

(* The parser's steps outside evaluation.                                   *)
LEMMA ParserStep ==
  ASSUME IInv,
         RefuseDirective \/ RecordDirective \/ StartFunction \/ RegularFunction \/ GiveUp \/ EndOfInput
  PROVE  IInv'
<1>. USE QuietInv DEF IInv
<1>0. MaxRead \in Nat /\ read \in 0..MaxRead
  BY HandlerAssumption DEF HandlerAssumption, TypeInv
<1>1. CASE RefuseDirective
  <2>1. UNCHANGED <<functions, construction, evaluation>> /\ status' = "refused" /\ read' \in 0..MaxRead
    BY <1>0, <1>1 DEF RefuseDirective, Next1, Refuse
  <2>2. TypeInv' /\ SignatureInv' /\ UndefinedOnly'
    BY <2>1 DEF TypeInv, SignatureInv, UndefinedOnly, construction, evaluation
  <2>. QED
    BY <2>1, <2>2
<1>2. CASE RecordDirective
  <2>1. /\ UNCHANGED <<functions, signature, building, evaluation, status>> /\ read' \in 0..MaxRead
        /\ status = "running" /\ gates' \in Seq(Directives)
    BY <1>0, <1>2 DEF RecordDirective, Next1, Record, TypeInv, Ready, Running
  <2>2. TypeInv' /\ SignatureInv' /\ UndefinedOnly'
    BY <2>1 DEF TypeInv, SignatureInv, UndefinedOnly, evaluation
  <2>. QED
    BY <2>1, <2>2
<1>3. CASE StartFunction
  <2>1. PICK sig \in Signatures :
          IF Taken(sig.name) \/ \E k \in DOMAIN Parameters(sig) : Parameters(sig)[k].type > Types
          THEN Refuse
          ELSE signature' = sig /\ UNCHANGED <<functions, building, gates, evaluation, status>>
    BY <1>3 DEF StartFunction
  <2>2. read' \in 0..MaxRead /\ status = "running" /\ ~ building
    BY <1>0, <1>3 DEF StartFunction, Next1, Ready, Running
  <2>3. CASE Refuse
    <3>1. TypeInv' /\ SignatureInv' /\ UndefinedOnly'
      BY <2>2, <2>3 DEF Refuse, TypeInv, SignatureInv, UndefinedOnly, construction, evaluation
    <3>. QED
      BY <2>3, <3>1 DEF Refuse
  <2>4. CASE /\ ~ Taken(sig.name) /\ ~ \E k \in DOMAIN Parameters(sig) : Parameters(sig)[k].type > Types
             /\ signature' = sig /\ UNCHANGED <<functions, building, gates, evaluation, status>>
    <3>1. \A k \in DOMAIN Parameters(sig) : Parameters(sig)[k].type \in Nat
      BY ParametersTyped
    <3>2. \A k \in DOMAIN Parameters(sig) : Parameters(sig)[k].type <= Types
      BY <2>4, <3>1, HandlerAssumption DEF HandlerAssumption
    <3>3. TypeInv' /\ UndefinedOnly'
      BY <2>2, <2>4 DEF TypeInv, UndefinedOnly, evaluation
    <3>4. SignatureInv'
      BY <2>2, <2>4, <3>2 DEF SignatureInv, Taken, Parameters
    <3>. QED
      BY <2>2, <2>4, <3>3, <3>4
  <2>. QED
    BY <2>1, <2>3, <2>4
<1>4. CASE RegularFunction
  <2>1. /\ UNCHANGED <<functions, signature, evaluation, read, status>> /\ status = "running"
        /\ signature /= NoSignature /\ building' = TRUE /\ gates' = <<>>
    BY <1>4 DEF RegularFunction, Ready, Running
  <2>2. TypeInv' /\ SignatureInv' /\ UndefinedOnly'
    BY <2>1 DEF TypeInv, SignatureInv, UndefinedOnly, evaluation
  <2>. QED
    BY <2>1, <2>2
<1>5. CASE GiveUp
  <2>1. UNCHANGED <<functions, construction, evaluation, read>> /\ status' = "refused"
    BY <1>5 DEF GiveUp
  <2>2. TypeInv' /\ SignatureInv' /\ UndefinedOnly'
    BY <2>1 DEF TypeInv, SignatureInv, UndefinedOnly, construction, evaluation
  <2>. QED
    BY <2>1, <2>2
<1>6. CASE EndOfInput
  <2>1. /\ UNCHANGED <<functions, construction, evaluation, read>> /\ status' \in {"refused", "done"}
        /\ stack = <<>> /\ ~ failing
    BY <1>6 DEF EndOfInput, Ready
  <2>2. TypeInv' /\ SignatureInv' /\ UndefinedOnly'
    BY <2>1 DEF TypeInv, SignatureInv, UndefinedOnly, construction, evaluation
  <2>. QED
    BY <2>1, <2>2
<1>. QED
  BY <1>1, <1>2, <1>3, <1>4, <1>5, <1>6

(* The steps that may add a function to the table.                          *)
LEMMA FunctionStep ==
  ASSUME IInv, EndFunction \/ PluginFunction
  PROVE  IInv'
<1>1. CASE Refuse /\ UNCHANGED read
  <2>1. TypeInv' /\ SignatureInv' /\ UndefinedOnly'
    BY <1>1 DEF Refuse, IInv, TypeInv, SignatureInv, UndefinedOnly, construction, evaluation
  <2>. QED
    BY <1>1, <2>1, QuietInv DEF Refuse
<1>2. CASE EndFunction /\ Stops /\ status' = "assert" /\ UNCHANGED <<functions, construction, evaluation, read>>
  <2>1. building /\ signature \in Signatures
    BY <1>2 DEF EndFunction, IInv, SignatureInv, TypeInv
  <2>2. PICK k \in DOMAIN Parameters(signature) : StopsAt(k)
    BY <1>2 DEF Stops
  <2>3. Parameters(signature)[k].type \in Nat /\ Parameters(signature)[k].type <= Types
    BY <2>1, <2>2, ParametersTyped DEF IInv, SignatureInv
  <2>4. Parameters(signature)[k].type = Types
    BY <2>2, <2>3, HandlerAssumption DEF StopsAt, HandlerAssumption
  <2>5. TypeInv' /\ SignatureInv'
    BY <1>2 DEF IInv, TypeInv, SignatureInv, construction, evaluation
  <2>6. UndefinedOnly'
    BY <1>2, <2>1, <2>2, <2>4 DEF UndefinedOnly, construction, Parameters
  <2>. QED
    BY <1>2, <2>5, <2>6, QuietInv
<1>3. CASE /\ EndFunction /\ BodyFits
           /\ Register([kind |-> "gates", signature |-> signature, gates |-> gates])
           /\ signature' = NoSignature /\ building' = FALSE /\ gates' = <<>>
           /\ UNCHANGED <<evaluation, status, read>>
  <2>1. stack = <<>> /\ signature /= NoSignature /\ status = "running" /\ gates' \in Seq(Directives)
    BY <1>3 DEF EndFunction, Ready, Running, IInv, SignatureInv
  <2>2. \A k \in DOMAIN gates : Fits(gates[k])
    BY <1>3 DEF BodyFits, Fits
  <2>. QED
    BY <1>3, <2>1, <2>2, RegisterInv
<1>4. CASE /\ PluginFunction
           /\ Register([kind |-> "plugin", signature |-> signature, gates |-> <<>>])
           /\ signature' = NoSignature
           /\ UNCHANGED <<building, gates, evaluation, status, read>>
  <2>1. /\ stack = <<>> /\ signature /= NoSignature /\ status = "running" /\ building' = FALSE
        /\ gates' \in Seq(Directives)
    BY <1>4 DEF PluginFunction, Ready, Running, IInv, TypeInv
  <2>2. PICK function : function = [kind |-> "plugin", signature |-> signature, gates |-> <<>>]
    OBVIOUS
  <2>3. DOMAIN function.gates = {} /\ function.signature = signature
    BY <2>2
  <2>. QED
    BY <1>4, <2>1, <2>2, <2>3, RegisterInv
<1>. QED
  BY <1>1, <1>2, <1>3, <1>4 DEF EndFunction, PluginFunction

(* The steps that perform directives and call functions.                    *)
LEMMA EvaluationStep ==
  ASSUME IInv,
         \/ InterpretDirective \/ InvokeDirective \/ EvaluateGate \/ EvaluateCall
         \/ EvaluatePlugin \/ Return \/ Unwind
  PROVE  IInv'
<1>0. MaxRead \in Nat /\ read \in 0..MaxRead /\ failing \in BOOLEAN
  BY HandlerAssumption DEF HandlerAssumption, IInv, TypeInv
<1>1. CASE InterpretDirective
  <2>1. PICK d : Interpret(d)
    BY <1>1 DEF InterpretDirective
  <2>2. Running /\ stack = <<>> /\ ~ failing /\ read' \in 0..MaxRead
    BY <1>0, <1>1 DEF InterpretDirective, Next1, Ready
  <2>. QED
    BY <2>1, <2>2, InterpretInv
<1>2. CASE InvokeDirective
  <2>1. PICK d : IsCall(d) /\ Invoke(d)
    BY <1>2 DEF InvokeDirective
  <2>2. Running /\ stack = <<>> /\ ~ failing /\ read' \in 0..MaxRead
    BY <1>0, <1>2 DEF InvokeDirective, Next1, Ready
  <2>. QED
    BY <2>1, <2>2, InvokeInv
<1>3. CASE EvaluateGate
  <2>1. Running /\ ~ failing /\ read' \in 0..MaxRead /\ Interpret(Function.gates[Frame.next])
    BY <1>0, <1>3 DEF EvaluateGate, Evaluating
  <2>2. Convertible(Function.gates[Frame.next])
    BY <1>3, AtDirectiveFits DEF EvaluateGate, Fits
  <2>. QED
    BY <2>1, <2>2, InterpretInv
<1>4. CASE EvaluateCall
  <2>1. /\ Running /\ ~ failing /\ read' \in 0..MaxRead
        /\ IsCall(Function.gates[Frame.next]) /\ Invoke(Function.gates[Frame.next])
    BY <1>0, <1>4 DEF EvaluateCall, Evaluating
  <2>2. Frame.next \in DOMAIN Function.gates
    BY <1>4, AtDirectiveFits DEF EvaluateCall
  <2>. QED
    BY <2>1, <2>2, InvokeInv
<1>5. CASE EvaluatePlugin
  <2>1. /\ UNCHANGED <<functions, construction>> /\ failing' = failing /\ pushed' = pushed
        /\ read' = read /\ status' = status /\ status = "running" /\ stack' = Advance
    BY <1>5 DEF EvaluatePlugin, Evaluating, Running
  <2>. QED
    BY <1>0, <2>1, AdvanceInv
<1>6. CASE Return
  <2>1. /\ UNCHANGED <<functions, construction, read, status>> /\ status = "running"
        /\ stack /= <<>> /\ Pop /\ failing' \in BOOLEAN /\ ~ failing
    BY <1>6 DEF Return, Evaluating, Running
  <2>. QED
    BY <2>1, PopInv
<1>7. CASE Unwind
  <2>1. /\ UNCHANGED <<functions, construction, read, status>> /\ status = "running"
        /\ stack /= <<>> /\ Pop /\ failing' = failing
    BY <1>7 DEF Unwind, Running
  <2>. QED
    BY <1>0, <2>1, PopInv
<1>. QED
  BY <1>1, <1>2, <1>3, <1>4, <1>5, <1>6, <1>7

LEMMA StepInv == IInv /\ [Next]_vars => IInv'
<1>. SUFFICES ASSUME IInv, [Next]_vars PROVE IInv'
  OBVIOUS
<1>1. CASE UNCHANGED vars
  <2>1. /\ UNCHANGED <<functions, signature, building, gates, evaluation, read, status>>
        /\ UNCHANGED <<stack, failing>>
    BY <1>1 DEF vars, construction, evaluation
  <2>2. TypeInv' /\ SignatureInv' /\ UndefinedOnly'
    BY <2>1 DEF IInv, TypeInv, SignatureInv, UndefinedOnly, evaluation
  <2>. QED
    BY <2>1, <2>2, QuietInv
<1>2. CASE Next
  BY <1>2, ParserStep, FunctionStep, EvaluationStep DEF Next
<1>. QED
  BY <1>1, <1>2

(* The inductive invariant: functions call older ones that they fit, a      *)
(* function under construction is not in the table, and scopes are counted. *)
THEOREM OrderedInvariant == Spec => []IInv
BY InitInv, StepInv, PTL DEF Spec

(* The state of the table, the construction and the stack has its shape.    *)
THEOREM TypeInvariant == Spec => []TypeOK
<1>1. IInv => TypeOK
  <2>. SUFFICES ASSUME IInv PROVE TypeOK
    OBVIOUS
  <2>1. \A k \in DOMAIN stack : stack[k].name \in DOMAIN functions
    <3>. SUFFICES ASSUME NEW k \in DOMAIN stack PROVE stack[k].name \in DOMAIN functions
      OBVIOUS
    <3>1. stack[k] \in FrameOf(DOMAIN functions)
      BY DEF IInv, TypeInv
    <3>. QED
      BY <3>1 DEF FrameOf
  <2>. QED
    BY <2>1 DEF IInv, TypeInv, SignatureInv, TypeOK
<1>. QED
  BY <1>1, OrderedInvariant, PTL

(* No function is evaluated while it is being evaluated, whatever functions *)
(* a circuit has.                                                           *)
THEOREM NeverRecursive == Spec => []NoRecursion
<1>1. IInv => NoRecursion
  <2>. SUFFICES ASSUME IInv, NEW k \in DOMAIN stack, NEW l \in DOMAIN stack, k < l
                PROVE  stack[k].name /= stack[l].name
    BY DEF IInv, TypeInv, NoRecursion
  <2>1. PICK youngest \in Nat, age \in [DOMAIN functions -> Nat] : StackOlder(age)
    BY DEF IInv, Ordered
  <2>2. age[stack[l].name] < age[stack[k].name]
    BY <2>1 DEF StackOlder
  <2>3. stack[l] \in FrameOf(DOMAIN functions)
    BY DEF IInv, TypeInv
  <2>4. age[stack[l].name] \in Nat
    BY <2>1, <2>3 DEF FrameOf
  <2>. QED
    BY <2>2, <2>4
<1>. QED
  BY <1>1, OrderedInvariant, PTL

(* What typeCheck found when a function ended is there at every call.       *)
THEOREM CallsAlwaysResolve == Spec => []CallsResolve
<1>1. IInv => CallsResolve
  <2>. SUFFICES ASSUME IInv, Evaluating, AtDirective PROVE CallsResolve
    BY DEF CallsResolve
  <2>. QED
    BY AtDirectiveFits DEF CallsResolve, Fits
<1>. QED
  BY <1>1, OrderedInvariant, PTL

(* Scopes are popped as they were pushed, but for the one of the call that  *)
(* failed first.                                                            *)
THEOREM AlwaysBalanced == Spec => []ScopesBalanced
<1>1. IInv => ScopesBalanced
  BY DEF IInv, Balanced, ScopesBalanced
<1>. QED
  BY <1>1, OrderedInvariant, PTL

(* Only a top-level conversion, and only the first undefined type in a      *)
(* signature, get past the checks.                                          *)
THEOREM UndefinedNowhereElse == Spec => []UndefinedOnly
<1>1. IInv => UndefinedOnly
  BY DEF IInv
<1>. QED
  BY <1>1, OrderedInvariant, PTL

-------------------------------------------------------------------------------
(* Inlining: the operations of a circuit, and what the table of functions   *)
(* has to be for directives to stand for sequences of them.                 *)
Ops == Directives \cup {PluginOperation(sig.name) : sig \in Signatures}

TableTyped(table) ==
  \A n \in DOMAIN table :
    /\ table[n].signature \in Signatures /\ table[n].signature.name = n
    /\ table[n].kind \in {"gates", "plugin"} /\ table[n].gates \in Seq(Directives)

OlderOnly(table, age) ==
  \A n \in DOMAIN table : \A k \in DOMAIN table[n].gates :
    IsCall(table[n].gates[k]) =>
      table[n].gates[k].name \in DOMAIN table /\ age[table[n].gates[k].name] < age[n]

(* The body of the definition of Expansion.                                 *)
Simple(table, d) == ~ IsCall(d) \/ d.name \notin DOMAIN table

Expanding(table, e, d) ==
  IF Simple(table, d) THEN <<d>>
  ELSE IF table[d.name].kind = "plugin" THEN <<PluginOperation(d.name)>>
  ELSE FlattenSeq([k \in DOMAIN table[d.name].gates |-> e[table[d.name].gates[k]]])

IsExpansion(table, e) ==
  /\ e \in [Directives -> Seq(Ops)]
  /\ \A d \in Directives : e[d] = Expanding(table, e, d)

(* What a directive stands for is a sequence of operations if what the body *)
(* of its function stands for is.                                           *)
LEMMA ExpandingTyped ==
  ASSUME NEW table, TableTyped(table), NEW e, NEW d \in Directives,
         ~ Simple(table, d) => \A k \in DOMAIN table[d.name].gates : e[table[d.name].gates[k]] \in Seq(Ops)
  PROVE  Expanding(table, e, d) \in Seq(Ops)
<1>1. CASE Simple(table, d)
  <2>1. d \in Ops
    BY DEF Ops
  <2>2. <<d>> \in Seq(Ops)
    BY <2>1
  <2>. QED  BY <1>1, <2>2 DEF Expanding
<1>2. CASE ~ Simple(table, d)
  <2>1. /\ table[d.name].signature \in Signatures /\ table[d.name].signature.name = d.name
        /\ table[d.name].gates \in Seq(Directives)
    BY <1>2 DEF TableTyped, Simple
  <2>2. PluginOperation(d.name) \in Ops
    BY <2>1 DEF Ops
  <2>3. <<PluginOperation(d.name)>> \in Seq(Ops)
    BY <2>2
  <2> DEFINE gs == table[d.name].gates
             ss == [k \in DOMAIN gs |-> e[gs[k]]]
  <2>4. DOMAIN gs = 1..Len(gs) /\ Len(gs) \in Nat
    BY <2>1
  <2>5. \A k \in DOMAIN gs : e[gs[k]] \in Seq(Ops)
    BY <1>2
  <2> HIDE DEF gs
  <2>6. ss \in Seq(Seq(Ops))
    BY <2>4, <2>5
  <2> HIDE DEF ss
  <2>7. FlattenSeq(ss) \in Seq(Ops)
    BY <2>6, FlattenFirst
  <2>. QED  BY <1>2, <2>3, <2>7 DEF Expanding, ss, gs
<1>. QED  BY <1>1, <1>2

(* The rank of a directive: calls are above what the function holds.        *)
RankOf(table, age) ==
  [d \in Directives |-> IF Simple(table, d) THEN 0 ELSE age[d.name] + 1]

LEMMA RankFalls ==
  ASSUME NEW table, TableTyped(table), NEW youngest \in Nat, NEW age \in [DOMAIN table -> Nat],
         \A n \in DOMAIN table : age[n] <= youngest, OlderOnly(table, age)
  PROVE  /\ RankOf(table, age) \in [Directives -> 0..(youngest + 1)]
         /\ \A d \in Directives : ~ Simple(table, d) =>
              \A k \in DOMAIN table[d.name].gates :
                /\ table[d.name].gates[k] \in Directives
                /\ RankOf(table, age)[table[d.name].gates[k]] < RankOf(table, age)[d]
<1>1. ASSUME NEW d \in Directives
      PROVE  (IF Simple(table, d) THEN 0 ELSE age[d.name] + 1) \in 0..(youngest + 1)
  <2>1. CASE Simple(table, d)
    BY <2>1
  <2>2. CASE ~ Simple(table, d)
    <3>1. d.name \in DOMAIN table
      BY <2>2 DEF Simple
    <3>2. age[d.name] \in Nat /\ age[d.name] <= youngest
      BY <3>1
    <3>. QED  BY <2>2, <3>2
  <2>. QED  BY <2>1, <2>2
<1>2. RankOf(table, age) \in [Directives -> 0..(youngest + 1)]
  BY <1>1 DEF RankOf
<1>3. ASSUME NEW d \in Directives, ~ Simple(table, d), NEW k \in DOMAIN table[d.name].gates
      PROVE  /\ table[d.name].gates[k] \in Directives
             /\ RankOf(table, age)[table[d.name].gates[k]] < RankOf(table, age)[d]
  <2>1. d.name \in DOMAIN table /\ table[d.name].gates \in Seq(Directives)
    BY <1>3 DEF Simple, TableTyped
  <2>2. PICK c \in Directives : c = table[d.name].gates[k]
    BY <1>3, <2>1
  <2>3. age[d.name] \in Nat /\ RankOf(table, age)[d] = age[d.name] + 1
    BY <1>3, <2>1 DEF RankOf
  <2>4. CASE Simple(table, c)
    <3>1. RankOf(table, age)[c] = 0
      BY <2>4 DEF RankOf
    <3>. QED  BY <2>2, <2>3, <3>1
  <2>5. CASE ~ Simple(table, c)
    <3>1. IsCall(c) /\ c.name \in DOMAIN table
      BY <2>5 DEF Simple
    <3>2. age[c.name] < age[d.name] /\ age[c.name] \in Nat
      BY <1>3, <2>1, <2>2, <3>1 DEF OlderOnly
    <3>3. RankOf(table, age)[c] = age[c.name] + 1
      BY <2>5 DEF RankOf
    <3>. QED  BY <2>2, <2>3, <3>2, <3>3
  <2>. QED  BY <2>4, <2>5
<1>. QED  BY <1>2, <1>3

(* As functions call older ones only, the recursive definition defines what *)
(* every directive stands for.                                              *)
LEMMA ExpansionIs ==
  ASSUME NEW table, TableTyped(table), NEW youngest \in Nat, NEW age \in [DOMAIN table -> Nat],
         \A n \in DOMAIN table : age[n] <= youngest, OlderOnly(table, age)
  PROVE  IsExpansion(table, Expansion(table))
<1> DEFINE D == Directives
           V == Seq(Ops)
           rank == RankOf(table, age)
           step == [e \in [D -> V] |-> [d \in D |-> Expanding(table, e, d)]]
           Def(e) == e = [d \in D |-> Expanding(table, e, d)]
           g == CHOOSE e : Def(e)
<1>1. /\ rank \in [D -> 0..(youngest + 1)] /\ youngest + 1 \in Nat /\ <<>> \in V
      /\ \A d \in D : ~ Simple(table, d) =>
           \A k \in DOMAIN table[d.name].gates :
             table[d.name].gates[k] \in D /\ rank[table[d.name].gates[k]] < rank[d]
  <2>1. youngest + 1 \in Nat /\ <<>> \in V
    OBVIOUS
  <2>. QED  BY <2>1, RankFalls
<1> HIDE DEF rank
<1>2. step \in [[D -> V] -> [D -> V]]
  <2>1. ASSUME NEW e \in [D -> V], NEW d \in D
        PROVE  Expanding(table, e, d) \in V
    <3>1. ~ Simple(table, d) => \A k \in DOMAIN table[d.name].gates : e[table[d.name].gates[k]] \in V
      BY <1>1
    <3>. QED  BY <3>1, ExpandingTyped
  <2>. QED  BY <2>1
<1>3. Guarded(step, rank, D, V)
  <2>1. SUFFICES ASSUME NEW e \in [D -> V], NEW f \in [D -> V], NEW d \in D,
                        \A c \in D : rank[c] < rank[d] => e[c] = f[c]
                 PROVE  step[e][d] = step[f][d]
    BY DEF Guarded
  <2>2. ~ Simple(table, d) =>
          \A k \in DOMAIN table[d.name].gates : e[table[d.name].gates[k]] = f[table[d.name].gates[k]]
    BY <1>1, <2>1
  <2>3. Expanding(table, e, d) = Expanding(table, f, d)
    <3>1. CASE Simple(table, d)
      BY <3>1 DEF Expanding
    <3>2. CASE ~ Simple(table, d)
      <4>1. [k \in DOMAIN table[d.name].gates |-> e[table[d.name].gates[k]]]
              = [k \in DOMAIN table[d.name].gates |-> f[table[d.name].gates[k]]]
        BY <2>2, <3>2
      <4>. QED  BY <4>1, Zenon DEF Expanding
    <3>. QED  BY <3>1, <3>2
  <2>. QED  BY <2>3
<1>4. \E e \in [D -> V] : Def(e)
  <2>1. PICK e \in [D -> V] : e = step[e]
    <3> HIDE DEF step, V, D
    <3>1. PICK R \in Nat : R = youngest + 1
      BY <1>1
    <3>2. rank \in [D -> 0..R]
      BY <1>1, <3>1
    <3>3. PICK v \in V : v = <<>>
      BY <1>1
    <3>4. HasFixedPoint(step, D, V)
      BY <1>2, <1>3, <3>2, RankedExists
    <3>. QED  BY <3>4 DEF HasFixedPoint
  <2>2. step[e] = [d \in D |-> Expanding(table, e, d)]
    OBVIOUS
  <2>. QED  BY <2>1, <2>2
<1>5. Def(g)
  BY <1>4, Zenon
<1>6. g = Expansion(table)
  BY DEF Expansion, Expanding, Simple
<1> HIDE DEF g
<1>7. g = [d \in D |-> g[d]] /\ \A d \in D : g[d] = Expanding(table, g, d)
  BY <1>5
<1> HIDE DEF Def, step
<1> DEFINE Failed == {r \in 0..(youngest + 1) : \E d \in D : rank[d] = r /\ g[d] \notin V}
<1>8. Failed = {}
  <2>1. SUFFICES ASSUME Failed # {}
                 PROVE  FALSE
    OBVIOUS
  <2>2. PICK r \in Failed : \A s \in Failed : r <= s
    BY <2>1, LeastNat, Failed \subseteq Nat, Zenon
  <2>3. PICK d \in D : rank[d] = r /\ g[d] \notin V
    BY <2>2
  <2>4. ASSUME NEW c \in D, rank[c] < rank[d]
        PROVE  g[c] \in V
    <3>1. rank[c] \in 0..(youngest + 1) /\ rank[d] \in 0..(youngest + 1)
      BY <1>1
    <3>2. ~(rank[d] <= rank[c])
      BY <2>4, <3>1
    <3>3. rank[c] \notin Failed
      BY <2>2, <2>3, <3>2
    <3>. QED  BY <3>1, <3>3
  <2>5. ~ Simple(table, d) => \A k \in DOMAIN table[d.name].gates : g[table[d.name].gates[k]] \in V
    BY <1>1, <2>4
  <2>6. Expanding(table, g, d) \in V
    BY <2>5, ExpandingTyped
  <2>. QED  BY <1>7, <2>3, <2>6
<1>9. \A d \in D : g[d] \in V
  BY <1>1, <1>8
<1>10. g \in [D -> V]
  BY <1>7, <1>9
<1>. QED  BY <1>6, <1>7, <1>10 DEF IsExpansion

(* From one place of a sequence on, it is the element there and the rest.   *)
LEMMA SubSeqFirst ==
  ASSUME NEW S, NEW s \in Seq(S), NEW n \in 1..Len(s)
  PROVE  /\ SubSeq(s, n, Len(s)) \in Seq(S) /\ SubSeq(s, n, Len(s)) # <<>>
         /\ Head(SubSeq(s, n, Len(s))) = s[n]
         /\ Tail(SubSeq(s, n, Len(s))) = SubSeq(s, n + 1, Len(s))
<1> DEFINE L == Len(s)
           a == SubSeq(s, n, L)
           b == SubSeq(s, n + 1, L)
<1>1. L \in Nat /\ n \in Int /\ 1 <= n /\ n <= L /\ \A k \in 1..L : s[k] \in S
  OBVIOUS
<1> HIDE DEF L
<1>2. \A k \in n..L : s[k] \in S /\ k \in 1..L
  BY <1>1
<1>3. a \in Seq(S) /\ Len(a) = L - n + 1 /\ \A k \in 1..(L - n + 1) : a[k] = s[n + k - 1]
  BY <1>1, <1>2, SubSeqProperties DEF L
<1>4. b \in Seq(S) /\ Len(b) = L - n /\ \A k \in 1..(L - n) : b[k] = s[n + 1 + k - 1]
  BY <1>1, <1>2, SubSeqProperties DEF L
<1> HIDE DEF a, b
<1>5. a # <<>> /\ Head(a) = s[n]
  <2>1. 1 \in 1..(L - n + 1) /\ n + 1 - 1 = n
    BY <1>1
  <2>. QED  BY <1>1, <1>3, <2>1
<1>6. Tail(a) \in Seq(S) /\ Len(Tail(a)) = L - n /\ \A k \in 1..(L - n) : Tail(a)[k] = a[k + 1]
  BY <1>1, <1>3, <1>5
<1>7. \A k \in 1..(L - n) : Tail(a)[k] = b[k]
  <2>1. SUFFICES ASSUME NEW k \in 1..(L - n)
                 PROVE  Tail(a)[k] = b[k]
    OBVIOUS
  <2>2. k + 1 \in 1..(L - n + 1) /\ n + (k + 1) - 1 = n + 1 + k - 1
    BY <1>1
  <2>. QED  BY <1>3, <1>4, <1>6, <2>2
<1>8. Tail(a) = b
  BY <1>4, <1>6, <1>7, SeqEqual
<1>. QED  BY <1>3, <1>5, <1>8 DEF a, b, L

(* What a sequence of directives stands for, one by one.                    *)
LEMMA ExpandedFirst ==
  ASSUME NEW table, IsExpansion(table, Expansion(table)), NEW ds \in Seq(Directives)
  PROVE  /\ ExpandedAll(table, ds) \in Seq(Ops)
         /\ ds = <<>> => ExpandedAll(table, ds) = <<>>
         /\ ds # <<>> => ExpandedAll(table, ds) = Expansion(table)[Head(ds)] \o ExpandedAll(table, Tail(ds))
<1> DEFINE V == Seq(Ops)
           X == Expansion(table)
           Of(s) == [k \in DOMAIN s |-> X[s[k]]]
<1>1. X \in [Directives -> V]
  BY DEF IsExpansion
<1> HIDE DEF X, V
<1>2. \A s \in Seq(Directives) : Of(s) \in Seq(V) /\ DOMAIN Of(s) = 1..Len(s) /\ Len(Of(s)) = Len(s)
  BY <1>1
<1>3. Of(ds) \in Seq(V) /\ (ds = <<>> => Of(ds) = <<>>)
  BY <1>2
<1>4. ds # <<>> => Of(ds) # <<>> /\ Head(Of(ds)) = X[Head(ds)] /\ Tail(Of(ds)) = Of(Tail(ds))
  <2>1. SUFFICES ASSUME ds # <<>>
                 PROVE  Of(ds) # <<>> /\ Head(Of(ds)) = X[Head(ds)] /\ Tail(Of(ds)) = Of(Tail(ds))
    OBVIOUS
  <2>2. Tail(ds) \in Seq(Directives) /\ Len(Tail(ds)) = Len(ds) - 1 /\ Len(ds) \in Nat \ {0}
    BY <2>1
  <2>3. Of(Tail(ds)) \in Seq(V) /\ Len(Of(Tail(ds))) = Len(ds) - 1 /\ Len(Of(ds)) = Len(ds)
    BY <1>2, <2>2
  <2>4. Of(ds) # <<>> /\ Head(Of(ds)) = X[Head(ds)]
    BY <1>3, <2>1, <2>2, <2>3
  <2>5. Tail(Of(ds)) \in Seq(V) /\ Len(Tail(Of(ds))) = Len(ds) - 1
    BY <1>3, <2>3, <2>4
  <2>6. \A k \in 1..(Len(ds) - 1) : Tail(Of(ds))[k] = Of(Tail(ds))[k]
    <3>1. SUFFICES ASSUME NEW k \in 1..(Len(ds) - 1)
                   PROVE  Tail(Of(ds))[k] = Of(Tail(ds))[k]
      OBVIOUS
    <3>2. k \in DOMAIN Tail(ds) /\ k + 1 \in DOMAIN ds /\ Tail(ds)[k] = ds[k + 1]
      BY <2>1, <2>2
    <3>3. Of(Tail(ds))[k] = X[ds[k + 1]] /\ Of(ds)[k + 1] = X[ds[k + 1]]
      BY <3>2
    <3> HIDE DEF Of
    <3>4. Tail(Of(ds))[k] = Of(ds)[k + 1]
      BY <1>3, <2>2, <2>3, <2>4
    <3>. QED  BY <3>3, <3>4
  <2> HIDE DEF Of
  <2>7. Tail(Of(ds)) = Of(Tail(ds))
    BY <2>2, <2>3, <2>5, <2>6, SeqEqual
  <2>. QED  BY <2>4, <2>7
<1>5. \A s : ExpandedAll(table, s) = FlattenSeq(Of(s))
  BY DEF ExpandedAll, X
<1> HIDE DEF Of
<1>6. /\ FlattenSeq(Of(ds)) \in V
      /\ Of(ds) = <<>> => FlattenSeq(Of(ds)) = <<>>
      /\ Of(ds) # <<>> => FlattenSeq(Of(ds)) = Head(Of(ds)) \o FlattenSeq(Tail(Of(ds)))
  BY <1>3, FlattenFirst DEF V
<1>. QED  BY <1>3, <1>4, <1>5, <1>6 DEF X, V

(* The same call, one directive further.                                    *)
Advanced(frame) == [name |-> frame.name, next |-> frame.next + 1]

(* What is left of a call: the operation of a plugin, or what the next      *)
(* directive stands for and what is left after it.                          *)
RestIs(table, frame) ==
  LET function == table[frame.name]
  IN  /\ Rest(table, frame) \in Seq(Ops)
      /\ function.kind = "plugin" =>
           Rest(table, frame) = IF frame.next = 1 THEN <<PluginOperation(frame.name)>> ELSE <<>>
      /\ function.kind = "gates" /\ frame.next > Len(function.gates) => Rest(table, frame) = <<>>
      /\ function.kind = "gates" /\ frame.next \in DOMAIN function.gates =>
           /\ function.gates[frame.next] \in Directives
           /\ Rest(table, frame) =
                Expansion(table)[function.gates[frame.next]] \o Rest(table, Advanced(frame))

LEMMA RestOf ==
  ASSUME NEW table, TableTyped(table), IsExpansion(table, Expansion(table)),
         NEW frame \in FrameOf(DOMAIN table)
  PROVE  RestIs(table, frame)
<1> DEFINE function == table[frame.name]
           gs == function.gates
           n == frame.next
           left == SubSeq(gs, n, Len(gs))
           after == SubSeq(gs, n + 1, Len(gs))
<1>1. /\ frame.name \in DOMAIN table /\ n \in Nat \ {0}
      /\ function.signature \in Signatures /\ function.signature.name = frame.name
      /\ function.kind \in {"gates", "plugin"} /\ gs \in Seq(Directives) /\ Len(gs) \in Nat
  BY DEF FrameOf, TableTyped
<1>2. CASE function.kind = "plugin"
  <2>1. PluginOperation(frame.name) \in Ops
    BY <1>1 DEF Ops
  <2>2. <<PluginOperation(frame.name)>> \in Seq(Ops) /\ <<>> \in Seq(Ops)
    BY <2>1
  <2>3. Rest(table, frame) = IF n = 1 THEN <<PluginOperation(frame.name)>> ELSE <<>>
    BY <1>2 DEF Rest
  <2>. QED  BY <1>2, <2>2, <2>3 DEF RestIs
<1>3. CASE function.kind = "gates"
  <2>1. Rest(table, frame) = ExpandedAll(table, left)
    BY <1>3 DEF Rest
  <2>2. Rest(table, Advanced(frame)) = ExpandedAll(table, after)
    BY <1>3 DEF Rest, Advanced
  <2>3. CASE n > Len(gs)
    <3>1. left = <<>> /\ <<>> \in Seq(Directives) /\ n \notin DOMAIN gs
      BY <1>1, <2>3
    <3>2. ExpandedAll(table, left) \in Seq(Ops) /\ ExpandedAll(table, left) = <<>>
      BY <3>1, ExpandedFirst
    <3>. QED  BY <1>3, <2>1, <3>1, <3>2 DEF RestIs
  <2>4. CASE ~(n > Len(gs))
    <3>1. n \in 1..Len(gs) /\ n \in DOMAIN gs /\ gs[n] \in Directives
      BY <1>1, <2>4
    <3>2. left \in Seq(Directives) /\ left # <<>> /\ Head(left) = gs[n] /\ Tail(left) = after
      <4> HIDE DEF gs, n
      <4>. QED  BY <1>1, <3>1, SubSeqFirst
    <3>3. /\ ExpandedAll(table, left) \in Seq(Ops)
          /\ ExpandedAll(table, left) = Expansion(table)[gs[n]] \o ExpandedAll(table, after)
      <4> HIDE DEF left, after
      <4>. QED  BY <3>2, ExpandedFirst
    <3>. QED  BY <1>3, <2>1, <2>2, <2>4, <3>1, <3>3 DEF RestIs
  <2>. QED  BY <2>3, <2>4
<1>. QED  BY <1>1, <1>2, <1>3

(* A call is what is left of the function from its start.                   *)
LEMMA CallIsRest ==
  ASSUME NEW table, TableTyped(table), IsExpansion(table, Expansion(table)),
         NEW d \in Directives, IsCall(d), d.name \in DOMAIN table
  PROVE  Expansion(table)[d] = Rest(table, [name |-> d.name, next |-> 1])
<1> DEFINE gs == table[d.name].gates
<1>1. table[d.name].kind \in {"gates", "plugin"} /\ gs \in Seq(Directives)
  BY DEF TableTyped
<1>2. Expansion(table)[d] = Expanding(table, Expansion(table), d) /\ ~ Simple(table, d)
  BY DEF IsExpansion, Simple
<1>3. SubSeq(gs, 1, Len(gs)) = gs
  BY <1>1
<1>4. table[d.name].kind = "gates" => Expanding(table, Expansion(table), d) = ExpandedAll(table, gs)
  BY <1>2 DEF Expanding, ExpandedAll
<1>5. table[d.name].kind = "gates" => Rest(table, [name |-> d.name, next |-> 1]) = ExpandedAll(table, gs)
  BY <1>3 DEF Rest
<1>6. table[d.name].kind = "plugin" =>
        Expanding(table, Expansion(table), d) = Rest(table, [name |-> d.name, next |-> 1])
  BY <1>2 DEF Expanding, Rest
<1>. QED  BY <1>1, <1>2, <1>4, <1>5, <1>6

(* What is left of a stack of calls begins with what is left of the last.   *)
Left(table, calls) == FlattenSeq(Pending(table, calls))

LEMMA LeftNone == ASSUME NEW table PROVE Left(table, <<>>) = <<>>
<1>1. Pending(table, <<>>) = <<>>
  BY DEF Pending
<1>2. <<>> \in Seq(Seq({}))
  OBVIOUS
<1>3. FlattenSeq(<<>>) = <<>>
  BY <1>2, FlattenFirst
<1>. QED  BY <1>1, <1>3 DEF Left

LEMMA LeftLast ==
  ASSUME NEW table, TableTyped(table), IsExpansion(table, Expansion(table)),
         NEW calls \in Seq(FrameOf(DOMAIN table)), NEW frame \in FrameOf(DOMAIN table)
  PROVE  /\ Left(table, calls) \in Seq(Ops)
         /\ Left(table, Append(calls, frame)) = Rest(table, frame) \o Left(table, calls)
<1> DEFINE V == Seq(Ops)
           more == Append(calls, frame)
           N == Len(calls)
           first == Rest(table, frame)
           old == Pending(table, calls)
           new == Pending(table, more)
<1>1. \A c \in FrameOf(DOMAIN table) : Rest(table, c) \in V
  BY RestOf DEF RestIs
<1>2. /\ more \in Seq(FrameOf(DOMAIN table)) /\ Len(more) = N + 1 /\ more[N + 1] = frame /\ N \in Nat
      /\ \A k \in 1..N : more[k] = calls[k] /\ calls[k] \in FrameOf(DOMAIN table)
  OBVIOUS
<1> HIDE DEF more, N, V
<1>3. DOMAIN more = 1..(N + 1) /\ DOMAIN calls = 1..N /\ Len(calls) = N
  BY <1>2 DEF N
<1>4. old = [k \in 1..N |-> Rest(table, calls[N + 1 - k])]
  BY <1>3 DEF Pending
<1>5. new = [k \in 1..(N + 1) |-> Rest(table, more[N + 1 + 1 - k])]
  BY <1>2, <1>3, Zenon DEF Pending
<1>6. \A k \in 1..N : /\ N + 1 - k \in 1..N /\ old[k] = Rest(table, calls[N + 1 - k]) /\ old[k] \in V
  <2>1. SUFFICES ASSUME NEW k \in 1..N
                 PROVE  N + 1 - k \in 1..N /\ old[k] = Rest(table, calls[N + 1 - k]) /\ old[k] \in V
    OBVIOUS
  <2>2. N + 1 - k \in 1..N
    BY <1>2
  <2>. QED  BY <1>1, <1>2, <1>4, <2>2
<1>7. old \in Seq(V) /\ Len(old) = N
  <2>1. old \in [1..N -> V]
    BY <1>4, <1>6
  <2>2. PICK f \in [1..N -> V] : f = old
    BY <2>1
  <2>3. f \in Seq(V) /\ Len(f) = N
    BY <1>2
  <2>. QED  BY <2>2, <2>3
<1>8. new[1] = first /\ first \in V /\ \A k \in 1..N : new[k + 1] = old[k]
  <2>1. 1 \in 1..(N + 1) /\ N + 1 + 1 - 1 = N + 1
    BY <1>2
  <2>2. new[1] = Rest(table, more[N + 1])
    BY <1>5, <2>1
  <2>3. ASSUME NEW k \in 1..N
        PROVE  new[k + 1] = old[k]
    <3>1. k + 1 \in 1..(N + 1) /\ N + 1 + 1 - (k + 1) = N + 1 - k
      BY <1>2
    <3>2. new[k + 1] = Rest(table, more[N + 1 - k])
      BY <1>5, <3>1
    <3>. QED  BY <1>2, <1>6, <3>2
  <2>. QED  BY <1>1, <1>2, <2>2, <2>3
<1>9. new \in Seq(V) /\ Len(new) = N + 1
  <2>1. \A k \in 1..(N + 1) : k = 1 \/ (k - 1 \in 1..N /\ (k - 1) + 1 = k)
    BY <1>2
  <2>2. \A k \in 1..(N + 1) : new[k] \in V
    BY <1>6, <1>8, <2>1
  <2>3. new \in [1..(N + 1) -> V]
    BY <1>5, <2>2
  <2> HIDE DEF new
  <2>. QED  BY <1>2, <2>3
<1> HIDE DEF old, new, first
<1>10. new # <<>> /\ Head(new) = first /\ Tail(new) = old
  <2>1. new # <<>> /\ Head(new) = first /\ Tail(new) \in Seq(V) /\ Len(Tail(new)) = N
    BY <1>2, <1>8, <1>9
  <2>2. \A k \in 1..N : Tail(new)[k] = old[k]
    BY <1>2, <1>8, <1>9
  <2>. QED  BY <1>7, <2>1, <2>2, SeqEqual
<1>11. FlattenSeq(new) = first \o FlattenSeq(old) /\ FlattenSeq(old) \in V
  BY <1>7, <1>9, <1>10, FlattenFirst DEF V
<1>. QED  BY <1>11 DEF Left, old, new, first, more, V

-------------------------------------------------------------------------------
(* The functions in the table have the signatures and the bodies of the     *)
(* circuit.                                                                 *)
TableInv == TableTyped(functions)

LEMMA TableInit == Init => TableInv
  BY DEF Init, TableInv, TableTyped

LEMMA TableGrows ==
  ASSUME TableInv, NEW function, Register(function),
         function.signature = signature, signature \in Signatures,
         function.kind \in {"gates", "plugin"}, function.gates \in Seq(Directives)
  PROVE  TableInv'
<1>1. /\ DOMAIN functions' = DOMAIN functions \cup {signature.name}
      /\ \A n \in DOMAIN functions' :
           functions'[n] = IF n = signature.name THEN function ELSE functions[n]
  BY DEF Register
<1>. QED  BY <1>1 DEF TableInv, TableTyped

LEMMA TableStep == IInv /\ TableInv /\ [Next]_vars => TableInv'
<1>. SUFFICES ASSUME IInv, TableInv, [Next]_vars PROVE TableInv'
  OBVIOUS
<1>1. functions' = functions => TableInv'
  BY DEF TableInv
<1>2. CASE UNCHANGED functions
  BY <1>1, <1>2
<1>3. CASE EndFunction /\ Register([kind |-> "gates", signature |-> signature, gates |-> gates])
  <2>1. signature \in Signatures /\ gates \in Seq(Directives)
    BY <1>3 DEF EndFunction, IInv, TypeInv, SignatureInv
  <2>2. PICK function : function = [kind |-> "gates", signature |-> signature, gates |-> gates]
    OBVIOUS
  <2>3. /\ function.signature = signature /\ function.kind \in {"gates", "plugin"}
        /\ function.gates \in Seq(Directives)
    BY <2>1, <2>2
  <2>. QED  BY <1>3, <2>1, <2>2, <2>3, TableGrows
<1>4. CASE PluginFunction /\ Register([kind |-> "plugin", signature |-> signature, gates |-> <<>>])
  <2>1. signature \in Signatures
    BY <1>4 DEF PluginFunction, IInv, TypeInv
  <2>2. PICK function : function = [kind |-> "plugin", signature |-> signature, gates |-> <<>>]
    OBVIOUS
  <2>3. /\ function.signature = signature /\ function.kind \in {"gates", "plugin"}
        /\ function.gates \in Seq(Directives)
    BY <2>2
  <2>. QED  BY <1>4, <2>1, <2>2, <2>3, TableGrows
<1>5. CASE RefuseDirective \/ RecordDirective \/ StartFunction \/ RegularFunction \/ GiveUp \/ EndOfInput
  <2>1. UNCHANGED functions
    BY <1>5 DEF RefuseDirective, RecordDirective, StartFunction, RegularFunction, GiveUp, EndOfInput, Refuse
  <2>. QED  BY <1>1, <2>1
<1>6. CASE \/ InterpretDirective \/ InvokeDirective \/ EvaluateGate \/ EvaluateCall
           \/ EvaluatePlugin \/ Return \/ Unwind
  <2>1. \A d : Interpret(d) \/ Invoke(d) => UNCHANGED functions
    BY DEF Interpret, Invoke, Fail
  <2>2. UNCHANGED functions
    BY <1>6, <2>1 DEF InterpretDirective, InvokeDirective, EvaluateGate, EvaluateCall, EvaluatePlugin, Return, Unwind
  <2>. QED  BY <1>1, <2>2
<1>7. CASE EndFunction \/ PluginFunction
  <2>1. UNCHANGED functions \/
        (EndFunction /\ Register([kind |-> "gates", signature |-> signature, gates |-> gates])) \/
        (PluginFunction /\ Register([kind |-> "plugin", signature |-> signature, gates |-> <<>>]))
    BY <1>7 DEF EndFunction, PluginFunction, Refuse
  <2>. QED  BY <1>1, <1>3, <1>4, <2>1
<1>8. CASE UNCHANGED vars
  BY <1>1, <1>8 DEF vars
<1>. QED  BY <1>5, <1>6, <1>7, <1>8 DEF Next

(* So directives stand for sequences of operations.                         *)
LEMMA TableExpands == IInv /\ TableInv => IsExpansion(functions, Expansion(functions))
<1>. SUFFICES ASSUME IInv, TableInv PROVE IsExpansion(functions, Expansion(functions))
  OBVIOUS
<1>1. PICK youngest \in Nat, age \in [DOMAIN functions -> Nat] :
        (\A n \in DOMAIN functions : age[n] <= youngest) /\ CallsOlder(age)
  BY DEF IInv, Ordered
<1>2. OlderOnly(functions, age)
  BY <1>1 DEF OlderOnly, CallsOlder, IInv, BodiesFit, Fits
<1>. QED  BY <1>1, <1>2, ExpansionIs DEF TableInv

(* The stack is the calls below and the last one.                           *)
StackIs(below) ==
  /\ below \in Seq(FrameOf(DOMAIN functions)) /\ Frame \in FrameOf(DOMAIN functions)
  /\ stack = Append(below, Frame)
  /\ Advance = Append(below, Advanced(Frame)) /\ Advanced(Frame) \in FrameOf(DOMAIN functions)

LEMMA StackTop ==
  ASSUME IInv, stack # <<>>
  PROVE  StackIs(Front(stack))
<1> DEFINE F == FrameOf(DOMAIN functions)
           N == Len(stack)
           below == Front(stack)
<1>1. stack \in Seq(F) /\ N \in Nat \ {0} /\ stack[N] \in F
  <2>1. stack \in Seq(F)
    BY DEF IInv, TypeInv
  <2> HIDE DEF F
  <2>. QED  BY <2>1
<1>2. Frame = stack[N] /\ below = SubSeq(stack, 1, N - 1)
  BY DEF Frame, Last, Front
<1>3. Advanced(Frame) \in F
  BY <1>1, <1>2 DEF Advanced, FrameOf
<1>4. Advance = [stack EXCEPT ![N] = Advanced(Frame)]
  BY <1>2 DEF Advance, Advanced
<1> HIDE DEF F, N, below
<1>5. below \in Seq(F) /\ Len(below) = N - 1 /\ \A k \in 1..(N - 1) : below[k] = stack[k]
  <2>1. \A k \in 1..(N - 1) : stack[k] \in F
    BY <1>1 DEF N
  <2>2. N - 1 \in Int /\ N - 1 - 1 + 1 = N - 1 /\ (1 <= N - 1 \/ N - 1 = 0) /\ \A k \in Nat : 1 + k - 1 = k
    BY <1>1
  <2>3. /\ SubSeq(stack, 1, N - 1) \in Seq(F)
        /\ Len(SubSeq(stack, 1, N - 1)) = IF 1 <= N - 1 THEN N - 1 - 1 + 1 ELSE 0
        /\ \A k \in 1..(N - 1 - 1 + 1) : SubSeq(stack, 1, N - 1)[k] = stack[1 + k - 1]
    <3>1. PICK m \in Int : m = N - 1
      BY <2>2
    <3>2. \A k \in 1..m : stack[k] \in F
      BY <2>1, <3>1
    <3>. QED  BY <3>1, <3>2, SubSeqProperties
  <2>. QED  BY <1>2, <2>2, <2>3
<1>6. stack = Append(below, Frame)
  <2>1. Append(below, Frame) \in Seq(F) /\ Len(Append(below, Frame)) = N
    BY <1>1, <1>2, <1>5
  <2>2. \A k \in 1..N : stack[k] = Append(below, Frame)[k]
    BY <1>1, <1>2, <1>5
  <2>3. Len(stack) = N
    BY DEF N
  <2>. QED  BY <1>1, <2>1, <2>2, <2>3, SeqEqual
<1>7. Advance = Append(below, Advanced(Frame))
  <2>1. Append(below, Advanced(Frame)) \in Seq(F) /\ Len(Append(below, Advanced(Frame))) = N
    BY <1>1, <1>3, <1>5
  <2>2. Advance \in Seq(F) /\ Len(Advance) = N
    BY <1>1, <1>3, <1>4 DEF N
  <2>3. \A k \in 1..N : Advance[k] = Append(below, Advanced(Frame))[k]
    BY <1>1, <1>3, <1>4, <1>5 DEF N
  <2>. QED  BY <2>1, <2>2, <2>3, SeqEqual
<1>. QED  BY <1>1, <1>2, <1>3, <1>5, <1>6, <1>7 DEF StackIs, F, below

(* What is left of an evaluation, now and after a step that advances, calls *)
(* or returns.                                                              *)
TodoIs(below) ==
  /\ StackIs(below)
  /\ RestIs(functions, Frame)
  /\ Left(functions, below) \in Seq(Ops) /\ Rest(functions, Advanced(Frame)) \in Seq(Ops)
  /\ Todo = Rest(functions, Frame) \o Left(functions, below)
  /\ Left(functions, Advance) = Rest(functions, Advanced(Frame)) \o Left(functions, below)
  /\ Left(functions, Advance) \in Seq(Ops)
  /\ \A frame \in FrameOf(DOMAIN functions) :
       Left(functions, Append(Advance, frame)) = Rest(functions, frame) \o Left(functions, Advance)

LEMMA TodoOf ==
  ASSUME IInv, TableInv, Evaluating
  PROVE  TodoIs(Front(stack))
<1>1. PICK table : table = functions
  OBVIOUS
<1>2. PICK below : below = Front(stack)
  OBVIOUS
<1>3. StackIs(below) /\ stack # <<>> /\ ~ failing /\ status = "running"
  BY <1>2, StackTop DEF Evaluating, Running
<1>4. IsExpansion(table, Expansion(table)) /\ TableTyped(table)
  BY <1>1, TableExpands DEF TableInv
<1>5. /\ below \in Seq(FrameOf(DOMAIN table)) /\ Frame \in FrameOf(DOMAIN table)
      /\ stack = Append(below, Frame)
      /\ Advance = Append(below, Advanced(Frame)) /\ Advanced(Frame) \in FrameOf(DOMAIN table)
  BY <1>1, <1>3 DEF StackIs
<1>6. PICK top \in FrameOf(DOMAIN table) : top = Frame
  BY <1>5
<1>7. PICK next \in FrameOf(DOMAIN table) : next = Advanced(Frame)
  BY <1>5
<1>8. Advance \in Seq(FrameOf(DOMAIN table))
  BY <1>5, <1>7
<1>9. RestIs(table, top) /\ RestIs(table, next)
  BY <1>4, RestOf
<1>10. /\ Left(table, below) \in Seq(Ops)
       /\ Left(table, Append(below, top)) = Rest(table, top) \o Left(table, below)
       /\ Left(table, Append(below, next)) = Rest(table, next) \o Left(table, below)
  BY <1>4, <1>5, LeftLast
<1>11. \A frame \in FrameOf(DOMAIN table) :
         /\ Left(table, Advance) \in Seq(Ops)
         /\ Left(table, Append(Advance, frame)) = Rest(table, frame) \o Left(table, Advance)
  BY <1>4, <1>8, LeftLast
<1>12. Todo = Left(table, stack)
  BY <1>1, <1>3 DEF Todo, Left
<1>13. Rest(table, next) \in Seq(Ops)
  BY <1>9 DEF RestIs
<1>. QED
  BY <1>1, <1>2, <1>3, <1>5, <1>6, <1>7, <1>9, <1>10, <1>11, <1>12, <1>13 DEF TodoIs

LEMMA TodoNone == stack = <<>> => Todo = <<>>
<1>. SUFFICES ASSUME stack = <<>> PROVE Todo = <<>>
  OBVIOUS
<1>1. Left(functions, stack) = <<>>
  BY LeftNone
<1>. QED  BY <1>1 DEF Todo, Left

(* A step of the circuit with its functions inlined, or none.               *)
Step == [Inlined!Next]_<<Todo, performed, failing \/ status /= "running">>

LEMMA StopStep ==
  ASSUME performed' = performed, failing' \in BOOLEAN, failing' \/ status' /= "running"
  PROVE  Step
<1>1. Todo' = <<>> /\ (failing' \/ status' /= "running") = TRUE
  BY DEF Todo
<1>2. Inlined!Stop
  BY <1>1 DEF Inlined!Stop
<1>. QED  BY <1>2 DEF Step, Inlined!Next

LEMMA StayStep ==
  ASSUME performed' = performed, Todo' = Todo, failing' = failing, status' = status
  PROVE  Step
  BY DEF Step

LEMMA PerformStep ==
  ASSUME ~ failing, status = "running", failing' = failing, status' = status,
         NEW op \in Ops, NEW later \in Seq(Ops), Todo = <<op>> \o later, Todo' = later,
         performed' = Append(performed, op)
  PROVE  Step
<1>1. Todo # <<>> /\ Head(Todo) = op /\ Tail(Todo) = later
  <2>1. <<op>> \o later # <<>> /\ Head(<<op>> \o later) = op /\ Tail(<<op>> \o later) = later
    OBVIOUS
  <2>. QED  BY <2>1
<1>2. Inlined!Perform
  BY <1>1 DEF Inlined!Perform
<1>. QED  BY <1>2 DEF Step, Inlined!Next

LEMMA ReadStep ==
  ASSUME ~ failing, status = "running", failing' = failing, status' = status,
         Todo = <<>>, Todo' \in Seq(Ops), performed' = performed
  PROVE  Step
<1>1. Inlined!Read
  BY DEF Inlined!Read, Ops
<1>. QED  BY <1>1 DEF Step, Inlined!Next

LEMMA ReadAndPerformStep ==
  ASSUME ~ failing, status = "running", failing' = failing, status' = status,
         Todo = <<>>, Todo' = <<>>, NEW op \in Ops, performed' = Append(performed, op)
  PROVE  Step
<1>1. Inlined!ReadAndPerform
  BY DEF Inlined!ReadAndPerform, Ops
<1>. QED  BY <1>1 DEF Step, Inlined!Next

(* A directive that fails, or that the interpreter is not defined for,      *)
(* stops the circuit; otherwise it is performed.                            *)
LEMMA InterpretStops ==
  ASSUME Running, ~ failing, NEW d, Interpret(d)
  PROVE  \/ Step
         \/ /\ performed' = Append(performed, d) /\ stack' = Advance
            /\ functions' = functions /\ failing' = failing /\ status' = status
<1>1. CASE ~ Convertible(d)
  <2>1. performed' = performed /\ failing' = failing /\ status' = "undefined"
    BY <1>1 DEF Interpret, evaluation
  <2>2. Step
    <3>1. Todo' = <<>> /\ (failing' \/ status' /= "running") = TRUE
      BY <2>1 DEF Todo
    <3>2. Inlined!Stop
      BY <2>1, <3>1 DEF Inlined!Stop
    <3>. QED  BY <3>2 DEF Step, Inlined!Next
  <2>. QED  BY <2>2
<1>2. CASE Fail
  BY <1>2, StopStep DEF Fail
<1>. QED  BY <1>1, <1>2 DEF Interpret

(* A call fails, or its function's operations are what comes next.          *)
LEMMA InvokeStops ==
  ASSUME Running, ~ failing, NEW d, Invoke(d)
  PROVE  \/ Step
         \/ /\ d.name \in DOMAIN functions /\ performed' = performed
            /\ stack' = Append(Advance, [name |-> d.name, next |-> 1])
            /\ functions' = functions /\ failing' = failing /\ status' = status
<1>1. CASE Fail
  BY <1>1, StopStep DEF Fail
<1>. QED  BY <1>1 DEF Invoke

LEMMA EvaluateGateStep ==
  ASSUME IInv, TableInv, EvaluateGate
  PROVE  Step
<1> DEFINE below == Front(stack)
           d == Function.gates[Frame.next]
           later == Rest(functions, Advanced(Frame)) \o Left(functions, below)
<1>1. TodoIs(below) /\ Running /\ ~ failing /\ status = "running" /\ ~ IsCall(d) /\ Interpret(d)
  BY TodoOf DEF EvaluateGate, Evaluating, Running
<1>2. Function.kind = "gates" /\ Frame.next \in DOMAIN Function.gates /\ Function = functions[Frame.name]
  BY DEF EvaluateGate, AtDirective, Function
<1>3. d \in Directives /\ Rest(functions, Frame) = Expansion(functions)[d] \o Rest(functions, Advanced(Frame))
  BY <1>1, <1>2 DEF TodoIs, RestIs
<1>4. Expansion(functions)[d] = <<d>> /\ d \in Ops
  <2>1. Expansion(functions)[d] = Expanding(functions, Expansion(functions), d)
    BY <1>3, TableExpands DEF IsExpansion
  <2>. QED  BY <1>1, <1>3, <2>1 DEF Expanding, Simple, Ops
<1> HIDE DEF d, below
<1>5. Todo = <<d>> \o later /\ later \in Seq(Ops) /\ later = Left(functions, Advance)
  <2>1. PICK r \in Seq(Ops) : r = Rest(functions, Advanced(Frame))
    BY <1>1 DEF TodoIs
  <2>2. PICK b \in Seq(Ops) : b = Left(functions, below)
    BY <1>1 DEF TodoIs
  <2>3. Todo = (<<d>> \o r) \o b
    BY <1>1, <1>3, <1>4, <2>1, <2>2 DEF TodoIs
  <2>4. (<<d>> \o r) \o b = <<d>> \o (r \o b) /\ r \o b \in Seq(Ops)
    BY <1>4
  <2>. QED  BY <1>1, <2>1, <2>2, <2>3, <2>4 DEF TodoIs
<1>6. CASE Step
  BY <1>6
<1>7. CASE /\ performed' = Append(performed, d) /\ stack' = Advance
           /\ functions' = functions /\ failing' = failing /\ status' = status
  <2>1. Todo' = later
    BY <1>1, <1>5, <1>7 DEF Todo, Left
  <2> HIDE DEF later
  <2>. QED  BY <1>1, <1>4, <1>5, <1>7, <2>1, PerformStep
<1>. QED  BY <1>1, <1>6, <1>7, InterpretStops

LEMMA EvaluateCallStep ==
  ASSUME IInv, TableInv, EvaluateCall
  PROVE  Step
<1> DEFINE below == Front(stack)
           d == Function.gates[Frame.next]
           frame == [name |-> d.name, next |-> 1]
<1>1. TodoIs(below) /\ Running /\ ~ failing /\ status = "running" /\ IsCall(d) /\ Invoke(d)
  BY TodoOf DEF EvaluateCall, Evaluating, Running
<1>2. Function.kind = "gates" /\ Frame.next \in DOMAIN Function.gates /\ Function = functions[Frame.name]
  BY DEF EvaluateCall, AtDirective, Function
<1>3. d \in Directives /\ Rest(functions, Frame) = Expansion(functions)[d] \o Rest(functions, Advanced(Frame))
  BY <1>1, <1>2 DEF TodoIs, RestIs
<1> HIDE DEF d, below
<1>4. CASE Step
  BY <1>4
<1>5. CASE /\ d.name \in DOMAIN functions /\ performed' = performed
           /\ stack' = Append(Advance, frame)
           /\ functions' = functions /\ failing' = failing /\ status' = status
  <2>1. frame \in FrameOf(DOMAIN functions)
    BY <1>5 DEF FrameOf
  <2>2. Expansion(functions)[d] = Rest(functions, frame)
    BY <1>1, <1>3, <1>5, CallIsRest, TableExpands DEF TableInv
  <2>3. PICK e \in Seq(Ops) : e = Rest(functions, frame)
    BY <2>1, RestOf, TableExpands DEF TableInv, RestIs
  <2>4. PICK r \in Seq(Ops) : r = Rest(functions, Advanced(Frame))
    BY <1>1 DEF TodoIs
  <2>5. PICK b \in Seq(Ops) : b = Left(functions, below)
    BY <1>1 DEF TodoIs
  <2>6. Todo = (e \o r) \o b
    BY <1>1, <1>3, <2>2, <2>3, <2>4, <2>5 DEF TodoIs
  <2>7. Left(functions, stack') = e \o (r \o b)
    BY <1>1, <1>5, <2>1, <2>3, <2>4, <2>5 DEF TodoIs
  <2>8. Todo' = Left(functions, stack')
    BY <1>1, <1>5 DEF Todo, Left
  <2>9. (e \o r) \o b = e \o (r \o b)
    BY ConcatAssociative
  <2>. QED  BY <1>5, <2>6, <2>7, <2>8, <2>9, StayStep
<1>. QED  BY <1>1, <1>4, <1>5, InvokeStops

LEMMA EvaluatePluginStep ==
  ASSUME IInv, TableInv, EvaluatePlugin
  PROVE  Step
<1> DEFINE below == Front(stack)
           op == PluginOperation(Frame.name)
<1>1. /\ TodoIs(below) /\ ~ failing /\ status = "running" /\ Function.kind = "plugin" /\ ~ AtEnd
      /\ performed' = Append(performed, op) /\ stack' = Advance
      /\ functions' = functions /\ failing' = failing /\ status' = status
  BY TodoOf DEF EvaluatePlugin, Evaluating, Running
<1>2. /\ Frame.name \in DOMAIN functions /\ Frame.next \in Nat \ {0} /\ Frame.next = 1
      /\ Advanced(Frame).next = 2 /\ Advanced(Frame).name = Frame.name
  <2>1. Frame \in FrameOf(DOMAIN functions)
    BY <1>1 DEF TodoIs, StackIs
  <2>2. Frame.name \in DOMAIN functions /\ Frame.next \in Nat \ {0}
    BY <2>1 DEF FrameOf
  <2>3. ~(Frame.next > 1)
    BY <1>1 DEF AtEnd
  <2>4. Frame.next = 1
    BY <2>2, <2>3
  <2>. QED  BY <2>2, <2>4 DEF Advanced
<1>3. op \in Ops
  BY <1>2 DEF TableInv, TableTyped, Ops
<1>4. Rest(functions, Frame) = <<op>> /\ Rest(functions, Advanced(Frame)) = <<>>
  BY <1>1, <1>2 DEF Function, Rest
<1> HIDE DEF op, below
<1>5. PICK b \in Seq(Ops) : b = Left(functions, below)
  BY <1>1 DEF TodoIs
<1>6. Todo = <<op>> \o b
  BY <1>1, <1>4, <1>5 DEF TodoIs
<1>7. Todo' = b
  <2>1. Todo' = Left(functions, Advance)
    BY <1>1 DEF Todo, Left
  <2>2. Left(functions, Advance) = <<>> \o b
    BY <1>1, <1>4, <1>5 DEF TodoIs
  <2>. QED  BY <2>1, <2>2
<1>. QED  BY <1>1, <1>3, <1>6, <1>7, PerformStep

LEMMA ReturnStep ==
  ASSUME IInv, TableInv, Return
  PROVE  Step
<1> DEFINE below == Front(stack)
<1>1. /\ TodoIs(below) /\ ~ failing /\ status = "running" /\ AtEnd
      /\ performed' = performed /\ stack' = below
      /\ functions' = functions /\ failing' \in BOOLEAN /\ status' = status
  BY TodoOf DEF Return, Evaluating, Running, Pop
<1>2. Frame.name \in DOMAIN functions /\ Function = functions[Frame.name] /\ Frame.next \in Nat \ {0}
  BY <1>1 DEF TodoIs, StackIs, FrameOf, Function
<1>3. Rest(functions, Frame) = <<>>
  <2>1. CASE Function.kind = "plugin"
    <3>1. Frame.next # 1
      BY <1>1, <1>2, <2>1 DEF AtEnd
    <3>. QED  BY <1>1, <1>2, <2>1, <3>1 DEF TodoIs, RestIs
  <2>2. CASE Function.kind = "gates"
    BY <1>1, <1>2, <2>2 DEF TodoIs, RestIs, AtEnd
  <2>3. Function.kind \in {"gates", "plugin"}
    BY <1>2 DEF TableInv, TableTyped
  <2>. QED  BY <2>1, <2>2, <2>3
<1>4. CASE failing'
  BY <1>1, <1>4, StopStep
<1>5. CASE ~ failing'
  <2> HIDE DEF below
  <2>1. PICK b \in Seq(Ops) : b = Left(functions, below)
    BY <1>1 DEF TodoIs
  <2>2. Todo = <<>> \o b
    BY <1>1, <1>3, <2>1 DEF TodoIs
  <2>3. Todo' = b
    BY <1>1, <1>5, <2>1 DEF Todo, Left
  <2>4. failing' = failing
    BY <1>1, <1>5 DEF IInv, TypeInv
  <2>. QED  BY <1>1, <2>2, <2>3, <2>4, StayStep
<1>. QED  BY <1>4, <1>5

(* At the top level a directive is performed at once and a call read.       *)
LEMMA TopStep ==
  ASSUME IInv, TableInv, InterpretDirective \/ InvokeDirective
  PROVE  Step
<1>1. Running /\ stack = <<>> /\ ~ failing /\ status = "running" /\ Todo = <<>> /\ Advance = <<>>
  BY TodoNone DEF InterpretDirective, InvokeDirective, Next1, Ready, Running, Advance
<1>2. CASE InterpretDirective
  <2>1. PICK d \in Directives : ~ IsCall(d) /\ Interpret(d)
    BY <1>2 DEF InterpretDirective
  <2>2. d \in Ops
    BY DEF Ops
  <2>3. CASE /\ performed' = Append(performed, d) /\ stack' = Advance
             /\ functions' = functions /\ failing' = failing /\ status' = status
    <3>1. Left(functions, <<>>) = <<>>
      BY LeftNone
    <3>2. Todo' = Left(functions, <<>>)
      BY <1>1, <2>3 DEF Todo, Left
    <3>. QED  BY <1>1, <2>2, <2>3, <3>1, <3>2, ReadAndPerformStep
  <2>. QED  BY <1>1, <2>1, <2>3, InterpretStops
<1>3. CASE InvokeDirective
  <2>1. PICK d \in Directives : IsCall(d) /\ Invoke(d)
    BY <1>3 DEF InvokeDirective
  <2> DEFINE frame == [name |-> d.name, next |-> 1]
  <2>2. CASE /\ d.name \in DOMAIN functions /\ performed' = performed
             /\ stack' = Append(Advance, frame)
             /\ functions' = functions /\ failing' = failing /\ status' = status
    <3>1. frame \in FrameOf(DOMAIN functions) /\ <<>> \in Seq(FrameOf(DOMAIN functions))
      BY <2>2 DEF FrameOf
    <3>2. Left(functions, <<>>) = <<>>
      BY LeftNone
    <3>3. PICK e \in Seq(Ops) : e = Rest(functions, frame)
      BY <3>1, RestOf, TableExpands DEF TableInv, RestIs
    <3>4. Left(functions, Append(<<>>, frame)) = e \o <<>>
      BY <3>1, <3>2, <3>3, LeftLast, TableExpands DEF TableInv
    <3>5. Todo' = Left(functions, Append(<<>>, frame))
      BY <1>1, <2>2 DEF Todo, Left
    <3>6. e \o <<>> \in Seq(Ops)
      OBVIOUS
    <3>. QED  BY <1>1, <2>2, <3>4, <3>5, <3>6, ReadStep
  <2>. QED  BY <1>1, <2>1, <2>2, InvokeStops
<1>. QED  BY <1>2, <1>3

(* What is read besides is recorded, defines a function or ends the         *)
(* circuit, and nothing is left then; after a failure nothing is either.    *)
LEMMA OtherStep ==
  ASSUME IInv,
         \/ RefuseDirective \/ RecordDirective \/ StartFunction \/ RegularFunction
         \/ EndFunction \/ PluginFunction \/ EndOfInput \/ GiveUp \/ Unwind
  PROVE  Step
<1>1. CASE failing
  <2>1. failing' = failing /\ performed' = performed /\ failing' \in BOOLEAN
    BY <1>1 DEF IInv, TypeInv, RefuseDirective, RecordDirective, StartFunction, RegularFunction, EndFunction,
                PluginFunction, EndOfInput, GiveUp, Unwind, Refuse, Next1, Ready, evaluation
  <2>. QED  BY <1>1, <2>1, StopStep
<1>2. CASE ~ failing
  <2>1. /\ failing' = failing /\ performed' = performed /\ failing' \in BOOLEAN
        /\ stack' = stack /\ stack = <<>> /\ status = "running"
    BY <1>2 DEF IInv, TypeInv, RefuseDirective, RecordDirective, StartFunction, RegularFunction, EndFunction,
                PluginFunction, EndOfInput, GiveUp, Unwind, Refuse, Next1, Ready, Running, evaluation
  <2>2. CASE status' = "running"
    <3>1. Todo = <<>>
      BY <2>1, TodoNone
    <3>2. PICK table : table = functions'
      OBVIOUS
    <3>3. Left(table, <<>>) = <<>>
      BY LeftNone
    <3>4. Todo' = Left(table, <<>>)
      BY <1>2, <2>1, <2>2, <3>2 DEF Todo, Left
    <3>. QED  BY <2>1, <2>2, <3>1, <3>3, <3>4, StayStep
  <2>3. CASE status' /= "running"
    BY <2>1, <2>3, StopStep
  <2>. QED  BY <2>2, <2>3
<1>. QED  BY <1>1, <1>2

LEMMA InliningStep == IInv /\ TableInv /\ [Next]_vars => Step
<1>. SUFFICES ASSUME IInv, TableInv, [Next]_vars PROVE Step
  OBVIOUS
<1>1. CASE UNCHANGED vars
  <2>1. /\ functions' = functions /\ stack' = stack /\ failing' = failing /\ status' = status
        /\ performed' = performed
    BY <1>1 DEF vars, evaluation
  <2>2. Todo' = Todo
    BY <2>1 DEF Todo
  <2>. QED  BY <2>1, <2>2, StayStep
<1>2. CASE Next
  BY <1>2, EvaluateGateStep, EvaluateCallStep, EvaluatePluginStep, ReturnStep, TopStep, OtherStep DEF Next
<1>. QED  BY <1>1, <1>2

LEMMA InliningInit == Init => Inlined!Init
<1>. SUFFICES ASSUME Init PROVE Inlined!Init
  OBVIOUS
<1>1. stack = <<>> /\ performed = <<>> /\ failing = FALSE /\ status = "running"
  BY DEF Init
<1>2. Todo = <<>>
  BY <1>1, TodoNone
<1>. QED  BY <1>1, <1>2 DEF Inlined!Init

(* A circuit with functions performs what it would perform with every call  *)
(* replaced by its function's directives, in order, each once, and nothing  *)
(* after a failure: the handler implements the circuit without functions.   *)
THEOREM Inlining == Spec => IsInlined
<1>1. Init => IInv /\ TableInv /\ Inlined!Init
  BY InitInv, TableInit, InliningInit
<1>2. (IInv /\ TableInv) /\ [Next]_vars => (IInv /\ TableInv)'
  BY StepInv, TableStep
<1>3. (IInv /\ TableInv) /\ [Next]_vars =>
        [Inlined!Next]_<<Todo, performed, failing \/ status /= "running">>
  BY InliningStep DEF Step
<1>. QED  BY <1>1, <1>2, <1>3, PTL DEF Spec, IsInlined, Inlined!Spec
===============================================================================
