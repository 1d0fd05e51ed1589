--------------------------- MODULE SkipList_proofs ---------------------------
(***************************************************************************)
(* SkipList is a set of numbers, for every MaxNumber and every MaxArg below *)
(* it. The argument:                                                       *)
(*   - lemmas about sequences: what InsertAt, RemoveAt and EXCEPT do to a   *)
(*     canonical list and to the set of numbers it holds;                   *)
(*   - WalkedRangesLieAbove: where the walk of insert can have got to;      *)
(*   - one lemma for each way the walk ends, which gives both the canonical *)
(*     list and the step of the set (InsertResult, RemoveResult);           *)
(*   - what forRange visits, one range of the list after the other          *)
(*     (ClippedAll);                                                        *)
(*   - the theorems put these together.                                     *)
(* The hypothesis MaxArg < MaxNumber is needed: see InsertRefusesHeld.      *)
(***************************************************************************)
EXTENDS SkipList, FiniteSetTheorems, SequenceTheorems, WellFoundedInduction, TLAPS

-----------------------------------------------------------------------------
(* Induction over data: a set of numbers that is not empty has a least      *)
(* member, among others the numbers for which a claim fails.                *)

(* A nonempty set of natural numbers has a least member.                    *)
LEMMA LeastNat ==
  ASSUME NEW T, T \subseteq Nat, T # {}
  PROVE  \E x \in T : \A y \in T : x <= y
<1> DEFINE R == OpToRel(<, Nat)
<1>1. \E x \in T : \A y \in T : ~(<<y, x>> \in R)
  BY NatLessThanWellFounded, WFMin
<1>2. \A x, y \in Nat : <<y, x>> \in R <=> y < x
  BY DEF OpToRel
<1> HIDE DEF R
<1>3. PICK x \in T : \A y \in T : ~(<<y, x>> \in R)
  BY <1>1, Zenon
<1>4. ASSUME NEW y \in T
      PROVE  x <= y
  <2>1. x \in Nat /\ y \in Nat
    OBVIOUS
  <2>2. ~(y < x)
    BY <1>2, <1>3, <2>1
  <2>. QED  BY <2>1, <2>2
<1>. QED  BY <1>4

(* f holds the states that N rounds of a loop go through, which a function  *)
(* exists for: what a recursive definition over positions defines.          *)
IteratesAt(f, N, start, step) ==
  \A n \in 0..N : f[n] = IF n = 0 THEN start ELSE step[n][f[n - 1]]

LEMMA IterationAtExists ==
  ASSUME NEW S, NEW start \in S, NEW N \in Nat, NEW step \in [1..N -> [S -> S]]
  PROVE  \E f \in [0..N -> S] : IteratesAt(f, N, start, step)
<1> DEFINE Good(f, n) ==
      /\ f \in [0..n -> S]
      /\ f[0] = start
      /\ \A k \in 1..n : f[k] = step[k][f[k - 1]]
    Failed == {n \in 0..N : ~ \E f : Good(f, n)}
<1>1. Failed = {}
  <2>1. SUFFICES ASSUME Failed # {}
                 PROVE  FALSE
    OBVIOUS
  <2>2. PICK n \in Failed : \A m \in Failed : n <= m
    BY <2>1, LeastNat, Failed \subseteq Nat, Zenon
  <2>3. CASE n = 0
    <3>1. Good([k \in 0..0 |-> start], 0)
      OBVIOUS
    <3>. QED  BY <2>3, <3>1, <2>2
  <2>4. CASE n # 0
    <3>1. n \in Nat /\ n - 1 \in Nat /\ ~(n <= n - 1) /\ n \in 1..N /\ n - 1 \in 0..N
      BY <2>4
    <3>2. PICK f : Good(f, n - 1)
      BY <3>1, <2>2
    <3> DEFINE g == [k \in 0..n |-> IF k < n THEN f[k] ELSE step[n][f[n - 1]]]
    <3>3. \A k \in 0..(n - 1) : f[k] \in S /\ k \in 0..n /\ k < n
      BY <3>1, <3>2
    <3>4. g \in [0..n -> S]
      <4>1. step[n][f[n - 1]] \in S
        BY <3>3, <3>1, n - 1 \in 0..(n - 1)
      <4>2. ASSUME NEW k \in 0..n
            PROVE  (IF k < n THEN f[k] ELSE step[n][f[n - 1]]) \in S
        BY <4>1, <3>3, <3>1
      <4>. QED  BY <4>2
    <3>5. g[0] = start
      BY <3>1, <3>2
    <3>6. ASSUME NEW k \in 1..n
          PROVE  g[k] = step[k][g[k - 1]]
      <4>1. k - 1 \in 0..n /\ k - 1 < n /\ k \in 0..n
        BY <3>1
      <4>2. g[k - 1] = f[k - 1]
        BY <4>1
      <4>3. CASE k < n
        BY <4>1, <4>2, <4>3, <3>2, k \in 1..(n - 1), <3>1
      <4>4. CASE ~(k < n)
        BY <4>1, <4>2, <4>4, k = n, <3>1
      <4>. QED  BY <4>3, <4>4
    <3>7. Good(g, n)
      BY <3>4, <3>5, <3>6
    <3>. QED  BY <3>7, <2>2
  <2>. QED  BY <2>3, <2>4
<1>2. PICK f : Good(f, N)
  BY <1>1, N \in 0..N
<1>3. ASSUME NEW n \in 0..N
      PROVE  f[n] = IF n = 0 THEN start ELSE step[n][f[n - 1]]
  BY <1>2, n # 0 => n \in 1..N
<1>. QED  BY <1>2, <1>3 DEF IteratesAt

(* The joins of the first sequences of a sequence of sequences.             *)
IsJoin(f, ss, S) ==
  /\ f \in [0..Len(ss) -> Seq(S)] /\ f[0] = <<>>
  /\ \A n \in 1..Len(ss) : f[n] = f[n - 1] \o ss[n]

(* FlattenSeq is the last of them.                                          *)
LEMMA FlattenIs ==
  ASSUME NEW S, NEW ss \in Seq(Seq(S))
  PROVE  \E f : IsJoin(f, ss, S) /\ FlattenSeq(ss) = f[Len(ss)]
<1> DEFINE N == Len(ss)
           Q == Seq(S)
<1>1. N \in Nat /\ (\A n \in 1..N : ss[n] \in Q) /\ <<>> \in Q
  OBVIOUS
<1>2. CASE N = 0
  <2>1. ss = <<>> /\ FlattenSeq(ss) = <<>>
    BY <1>2 DEF FlattenSeq
  <2>2. IsJoin([n \in 0..0 |-> <<>>], ss, S)
    BY <1>2 DEF IsJoin
  <2>. QED  BY <1>2, <2>1, <2>2
<1>3. CASE N # 0
  <2> DEFINE step == [n \in 1..N |-> [s \in Q |-> s \o ss[n]]]
             Def(f) == f = [n \in 1..N |-> IF n = 1 THEN ss[n] ELSE f[n - 1] \o ss[n]]
             g == CHOOSE f : Def(f)
  <2>1. \A s, t \in Q : s \o t \in Q
    OBVIOUS
  <2>2. step \in [1..N -> [Q -> Q]] /\ \A n \in 1..N, s \in Q : step[n][s] = s \o ss[n]
    BY <1>1, <2>1
  <2>3. \A s \in Q : <<>> \o s = s
    OBVIOUS
  <2> HIDE DEF N, Q, step
  <2>4. PICK f \in [0..N -> Q] : IteratesAt(f, N, <<>>, step)
    BY <1>1, <2>2, IterationAtExists, Zenon
  <2>5. f[0] = <<>> /\ \A n \in 1..N : f[n] = f[n - 1] \o ss[n] /\ f[n - 1] \in Q /\ n - 1 \in 0..N
    <3>1. 0 \in 0..N
      BY <1>1
    <3>2. f[0] = <<>>
      BY <2>4, <3>1 DEF IteratesAt
    <3>3. ASSUME NEW n \in 1..N
          PROVE  f[n] = f[n - 1] \o ss[n] /\ f[n - 1] \in Q /\ n - 1 \in 0..N
      <4>1. n \in 0..N /\ n # 0 /\ n - 1 \in 0..N
        BY <1>1
      <4>2. f[n] = step[n][f[n - 1]]
        BY <2>4, <4>1 DEF IteratesAt
      <4>. QED  BY <2>2, <2>4, <4>1, <4>2
    <3>. QED  BY <3>2, <3>3
  <2>6. Def([n \in 1..N |-> f[n]])
    <3> DEFINE h == [n \in 1..N |-> f[n]]
    <3>1. ASSUME NEW n \in 1..N
          PROVE  h[n] = IF n = 1 THEN ss[n] ELSE h[n - 1] \o ss[n]
      <4>1. CASE n = 1
        <5>1. f[n] = f[n - 1] \o ss[n] /\ ss[n] \in Q
          BY <1>1, <2>5
        <5>2. n - 1 = 0
          BY <4>1
        <5>3. f[n] = <<>> \o ss[n]
          BY <2>5, <5>1, <5>2
        <5>. QED  BY <2>3, <4>1, <5>1, <5>3
      <4>2. CASE n # 1
        <5>1. n - 1 \in 1..N
          BY <1>1, <4>2
        <5>2. h[n - 1] = f[n - 1] /\ h[n] = f[n]
          BY <5>1
        <5>3. h[n] = h[n - 1] \o ss[n]
          BY <2>5, <5>2
        <5>. QED  BY <4>2, <5>3
      <4>. QED  BY <4>1, <4>2
    <3>2. h = [n \in 1..N |-> h[n]]
      OBVIOUS
    <3> HIDE DEF h
    <3>3. h = [n \in 1..N |-> IF n = 1 THEN ss[n] ELSE h[n - 1] \o ss[n]]
      BY <3>1, <3>2
    <3>4. Def(h)
      BY <3>3
    <3>. QED  BY <3>4 DEF h
  <2>7. Def(g)
    BY <2>6, Zenon
  <2> HIDE DEF g
  <2>8. \A n \in 1..N : g[n] = IF n = 1 THEN ss[n] ELSE g[n - 1] \o ss[n]
    BY <2>7
  <2> HIDE DEF Def
  <2>9. FlattenSeq(ss) = g[N]
    BY <1>3 DEF FlattenSeq, g, Def, N
  <2>10. \A n \in 1..N : g[n] = f[n]
    <3> DEFINE Failed == {n \in 1..N : g[n] # f[n]}
    <3>1. SUFFICES ASSUME Failed # {}
                   PROVE  FALSE
      OBVIOUS
    <3>2. PICK n \in Failed : \A m \in Failed : n <= m
      BY <1>1, <3>1, LeastNat, Failed \subseteq Nat, Zenon
    <3>3. CASE n = 1
      <4>1. n \in 1..N /\ n - 1 = 0
        BY <3>2, <3>3
      <4>2. f[n] = f[n - 1] \o ss[n] /\ ss[n] \in Q /\ g[n] = ss[n]
        BY <1>1, <2>5, <2>8, <3>3, <4>1
      <4>3. f[n] = <<>> \o ss[n]
        BY <2>5, <4>1, <4>2
      <4>. QED  BY <2>3, <3>2, <4>2, <4>3
    <3>4. CASE n # 1
      <4>1. n - 1 \in 1..N /\ ~(n <= n - 1) /\ n \in 1..N
        BY <1>1, <3>2, <3>4
      <4>2. g[n - 1] = f[n - 1]
        BY <3>2, <4>1
      <4>. QED  BY <2>5, <2>8, <3>2, <3>4, <4>1, <4>2, ZenonT(30)
    <3>. QED  BY <3>3, <3>4
  <2>11. N \in 1..N
    BY <1>1, <1>3
  <2>12. IsJoin(f, ss, S)
    BY <2>4, <2>5 DEF IsJoin, N, Q
  <2>. QED  BY <2>9, <2>10, <2>11, <2>12 DEF N
<1>. QED  BY <1>2, <1>3

(* RemoveAt shifts the elements after position i back by one place.         *)
LEMMA RemoveAtProperties ==
  ASSUME NEW S, NEW s \in Seq(S), NEW i \in 1..Len(s)
  PROVE  /\ RemoveAt(s, i) \in Seq(S)
         /\ Len(RemoveAt(s, i)) = Len(s) - 1
         /\ \A j \in 1..(Len(s) - 1) :
              RemoveAt(s, i)[j] = IF j < i THEN s[j] ELSE s[j + 1]
<1> DEFINE low == SubSeq(s, 1, i - 1)
           high == SubSeq(s, i + 1, Len(s))
<1>1. low \in Seq(S) /\ Len(low) = i - 1 /\ \A j \in 1..(i - 1) : low[j] = s[j]
  OBVIOUS
<1>2. /\ high \in Seq(S) /\ Len(high) = Len(s) - i
      /\ \A j \in 1..(Len(s) - i) : high[j] = s[i + j]
  OBVIOUS
<1>3. RemoveAt(s, i) = low \o high
  BY DEF RemoveAt
<1> HIDE DEF low, high
<1>4. RemoveAt(s, i) \in Seq(S) /\ Len(RemoveAt(s, i)) = Len(s) - 1
  BY <1>1, <1>2, <1>3
<1>5. ASSUME NEW j \in 1..(Len(s) - 1)
      PROVE  RemoveAt(s, i)[j] = IF j < i THEN s[j] ELSE s[j + 1]
  <2>1. CASE j < i
    BY <1>1, <1>2, <1>3, <2>1
  <2>2. CASE j >= i
    <3>1. RemoveAt(s, i)[j] = high[j - i + 1]
      BY <1>1, <1>2, <1>3, <2>2
    <3>. QED  BY <1>2, <2>2, <3>1
  <2>. QED  BY <2>1, <2>2
<1>. QED  BY <1>4, <1>5
-----------------------------------------------------------------------------
(* InsertAt shifts the elements from position i on by one place.            *)
LEMMA InsertAtProperties ==
  ASSUME NEW S, NEW s \in Seq(S), NEW i \in 1..(Len(s) + 1), NEW e \in S
  PROVE  /\ InsertAt(s, i, e) \in Seq(S)
         /\ Len(InsertAt(s, i, e)) = Len(s) + 1
         /\ \A j \in 1..(Len(s) + 1) :
              InsertAt(s, i, e)[j] = IF j < i THEN s[j]
                                     ELSE IF j = i THEN e ELSE s[j - 1]
<1> DEFINE low == SubSeq(s, 1, i - 1)
           high == SubSeq(s, i, Len(s))
<1>1. low \in Seq(S) /\ Len(low) = i - 1 /\ \A j \in 1..(i - 1) : low[j] = s[j]
  OBVIOUS
<1>2. /\ high \in Seq(S) /\ Len(high) = Len(s) - i + 1
      /\ \A j \in 1..(Len(s) - i + 1) : high[j] = s[i + j - 1]
  OBVIOUS
<1>3. InsertAt(s, i, e) = (low \o <<e>>) \o high
  BY DEF InsertAt
<1> DEFINE front == low \o <<e>>
<1> HIDE DEF low, high
<1>4. /\ front \in Seq(S) /\ Len(front) = i
      /\ \A j \in 1..i : front[j] = IF j < i THEN s[j] ELSE e
  BY <1>1
<1> HIDE DEF front
<1>5. InsertAt(s, i, e) \in Seq(S) /\ Len(InsertAt(s, i, e)) = Len(s) + 1
  <2>1. InsertAt(s, i, e) = front \o high
    BY <1>3 DEF front
  <2>2. front \in Seq(S) /\ high \in Seq(S)
    BY <1>2, <1>4
  <2>3. front \o high \in Seq(S) /\ Len(front \o high) = Len(front) + Len(high)
    BY ONLY <2>2, ConcatProperties, Zenon
  <2>. QED  BY <1>2, <1>4, <2>1, <2>3
<1>6. ASSUME NEW j \in 1..(Len(s) + 1)
      PROVE  InsertAt(s, i, e)[j] = IF j < i THEN s[j]
                                    ELSE IF j = i THEN e ELSE s[j - 1]
  <2>1. CASE j <= i
    BY <1>2, <1>3, <1>4, <2>1 DEF front
  <2>2. CASE j > i
    <3>1. InsertAt(s, i, e)[j] = high[j - i]
      BY <1>2, <1>3, <1>4, <2>2 DEF front
    <3>. QED  BY <1>2, <2>2, <3>1
  <2>. QED  BY <2>1, <2>2
<1>. QED  BY <1>5, <1>6

-----------------------------------------------------------------------------
(* The records of the list.                                                 *)
RangeRecord == [last : Arg, first : Arg]

(* Every range keeps a gap to every lower one. Integrity says this only of  *)
(* neighbours; the proofs need it of any two ranges, and carry it as it is  *)
(* because it cannot be derived from neighbours without induction.          *)
Canonical(s) ==
  \A i \in 1..Len(s) :
    /\ s[i].first <= s[i].last
    /\ \A j \in 1..Len(s) : i < j => s[i].first > s[j].last + 1

(* A number is in the list when one of its ranges holds it.                 *)
LEMMA ElementsOf ==
  ASSUME NEW s \in Seq(RangeRecord), NEW x
  PROVE  x \in Elements(s) <=>
           \E i \in 1..Len(s) : x \in s[i].first .. s[i].last
<1>. DOMAIN s = 1..Len(s)
  OBVIOUS
<1>. QED  BY DEF Elements

(* Two ranges of a canonical list hold no number in common.                 *)
LEMMA RangesApart ==
  ASSUME NEW s \in Seq(RangeRecord), Canonical(s),
         NEW i \in 1..Len(s), NEW j \in 1..Len(s), i # j,
         NEW x \in s[i].first .. s[i].last
  PROVE  x \notin s[j].first .. s[j].last
<1>1. s[i] \in RangeRecord /\ s[j] \in RangeRecord
  OBVIOUS
<1>2. i < j \/ j < i
  OBVIOUS
<1>. QED  BY SMTT(30), <1>1, <1>2, BoundsAssumption DEF Canonical, RangeRecord, Arg

(* A range that fits with a gap on both sides may be added to a canonical   *)
(* list: the list stays canonical and holds the range's numbers besides.    *)
LEMMA InsertAtCanonical ==
  ASSUME NEW s \in Seq(RangeRecord), Canonical(s),
         NEW i \in 1..(Len(s) + 1), NEW r \in RangeRecord,
         r.first <= r.last,
         \A j \in 1..(i - 1) : s[j].first > r.last + 1,
         \A j \in i..Len(s) : r.first > s[j].last + 1
  PROVE  /\ InsertAt(s, i, r) \in Seq(RangeRecord)
         /\ Canonical(InsertAt(s, i, r))
         /\ Elements(InsertAt(s, i, r)) = Elements(s) \cup (r.first .. r.last)
<1> DEFINE t == InsertAt(s, i, r)
<1>1. /\ t \in Seq(RangeRecord)
      /\ Len(t) = Len(s) + 1
      /\ \A j \in 1..(Len(s) + 1) :
           t[j] = IF j < i THEN s[j] ELSE IF j = i THEN r ELSE s[j - 1]
  BY InsertAtProperties
<1> HIDE DEF t
<1>2. \A j \in 1..Len(s) : s[j] \in RangeRecord
  OBVIOUS
<1>3. Canonical(t)
  <2> SUFFICES ASSUME NEW j \in 1..Len(t)
               PROVE  /\ t[j].first <= t[j].last
                      /\ \A k \in 1..Len(t) : j < k => t[j].first > t[k].last + 1
    BY DEF Canonical
  <2>1. t[j].first <= t[j].last
    <3>1. CASE j <= i
      BY <1>1, <3>1 DEF Canonical
    <3>2. CASE j > i
      <4>1. t[j] = s[j - 1] /\ j - 1 \in 1..Len(s)
        BY <1>1, <3>2
      <4>. QED  BY <4>1 DEF Canonical
    <3>. QED  BY <1>1, <3>1, <3>2
  <2>2. ASSUME NEW k \in 1..Len(t), j < k
        PROVE  t[j].first > t[k].last + 1
    <3>1. CASE k < i
      <4>1. /\ t[j] = s[j] /\ j \in 1..Len(s)
            /\ t[k] = s[k] /\ k \in 1..Len(s)
        BY <1>1, <2>2, <3>1
      <4>. QED  BY <2>2, <4>1 DEF Canonical
    <3>2. CASE k = i
      BY <1>1, <2>2, <3>2
    <3>3. CASE k > i
      <4>1. t[k] = s[k - 1] /\ k - 1 \in i..Len(s)
        BY <1>1, <3>3
      <4>2. CASE j < i
        <5>1. t[j] = s[j] /\ j \in 1..Len(s) /\ j < k - 1
          BY <1>1, <3>3, <4>2
        <5>. QED  BY <4>1, <5>1 DEF Canonical
      <4>3. CASE j = i
        BY <1>1, <4>1, <4>3
      <4>4. CASE j > i
        <5>1. t[j] = s[j - 1] /\ j - 1 \in 1..Len(s) /\ j - 1 < k - 1
          BY <1>1, <2>2, <4>4
        <5>. QED  BY SMTT(30), <4>1, <5>1 DEF Canonical
      <4>. QED  BY <1>1, <4>2, <4>3, <4>4
    <3>. QED  BY <3>1, <3>2, <3>3, <1>1
  <2>. QED  BY <2>1, <2>2
<1>4. ASSUME NEW x
      PROVE  x \in Elements(t) <=> x \in Elements(s) \cup (r.first .. r.last)
  <2>1. ASSUME x \in Elements(t)
        PROVE  x \in Elements(s) \cup (r.first .. r.last)
    <3>1. PICK j \in 1..Len(t) : x \in t[j].first .. t[j].last
      BY <1>1, <2>1, ElementsOf
    <3>2. CASE j = i
      BY <1>1, <3>1, <3>2
    <3>3. CASE j < i
      BY <1>1, <3>1, <3>3, ElementsOf
    <3>4. CASE j > i
      <4>1. t[j] = s[j - 1] /\ j - 1 \in 1..Len(s)
        BY <1>1, <3>4
      <4>. QED  BY <3>1, <4>1, ElementsOf
    <3>. QED  BY <3>2, <3>3, <3>4, <1>1
  <2>2. ASSUME x \in r.first .. r.last
        PROVE  x \in Elements(t)
    <3>1. t[i] = r /\ i \in 1..Len(t)
      BY <1>1
    <3>. QED  BY <1>1, <2>2, <3>1, ElementsOf
  <2>3. ASSUME x \in Elements(s)
        PROVE  x \in Elements(t)
    <3>1. PICK j \in 1..Len(s) : x \in s[j].first .. s[j].last
      BY <2>3, ElementsOf
    <3>2. \E k \in 1..Len(t) : t[k] = s[j]
      <4>1. CASE j < i
        BY <1>1, <4>1
      <4>2. CASE j >= i
        <5>1. t[j + 1] = s[j] /\ j + 1 \in 1..Len(t)
          BY <1>1, <4>2
        <5>. QED  BY <5>1
      <4>. QED  BY <4>1, <4>2
    <3>. QED  BY <1>1, <3>1, <3>2, ElementsOf
  <2>. QED  BY <2>1, <2>2, <2>3
<1>5. Elements(t) = Elements(s) \cup (r.first .. r.last)
  BY <1>4
<1>. QED  BY <1>1, <1>3, <1>5 DEF t

(* A range of a canonical list may be replaced by one that keeps a gap on   *)
(* both sides.                                                              *)
LEMMA ReplaceCanonical ==
  ASSUME NEW s \in Seq(RangeRecord), Canonical(s),
         NEW i \in 1..Len(s), NEW r \in RangeRecord,
         r.first <= r.last,
         \A j \in 1..(i - 1) : s[j].first > r.last + 1,
         \A j \in (i + 1)..Len(s) : r.first > s[j].last + 1
  PROVE  /\ [s EXCEPT ![i] = r] \in Seq(RangeRecord)
         /\ Canonical([s EXCEPT ![i] = r])
         /\ \A x : x \in Elements([s EXCEPT ![i] = r]) <=>
                 \/ x \in r.first .. r.last
                 \/ x \in Elements(s) /\ x \notin s[i].first .. s[i].last
<1> DEFINE t == [s EXCEPT ![i] = r]
<1>1. /\ t \in Seq(RangeRecord) /\ Len(t) = Len(s)
      /\ \A j \in 1..Len(s) : t[j] = IF j = i THEN r ELSE s[j]
  OBVIOUS
<1> HIDE DEF t
<1>2. Canonical(t)
  BY <1>1 DEF Canonical
<1>3. ASSUME NEW x
      PROVE  x \in Elements(t) <=>
                 \/ x \in r.first .. r.last
                 \/ x \in Elements(s) /\ x \notin s[i].first .. s[i].last
  <2>1. ASSUME x \in Elements(t)
        PROVE  \/ x \in r.first .. r.last
               \/ x \in Elements(s) /\ x \notin s[i].first .. s[i].last
    <3>1. PICK j \in 1..Len(t) : x \in t[j].first .. t[j].last
      BY <1>1, <2>1, ElementsOf
    <3>2. CASE j = i
      BY <1>1, <3>1, <3>2
    <3>3. CASE j # i
      <4>1. x \in s[j].first .. s[j].last /\ j \in 1..Len(s)
        BY <1>1, <3>1, <3>3
      <4>2. x \notin s[i].first .. s[i].last
        BY <3>3, <4>1, RangesApart
      <4>. QED  BY <4>1, <4>2, ElementsOf
    <3>. QED  BY <3>2, <3>3
  <2>2. ASSUME x \in r.first .. r.last
        PROVE  x \in Elements(t)
    <3>1. t[i] = r /\ i \in 1..Len(t)
      BY <1>1
    <3>. QED  BY <1>1, <2>2, <3>1, ElementsOf
  <2>3. ASSUME x \in Elements(s), x \notin s[i].first .. s[i].last
        PROVE  x \in Elements(t)
    <3>1. PICK j \in 1..Len(s) : x \in s[j].first .. s[j].last
      BY <2>3, ElementsOf
    <3>2. t[j] = s[j] /\ j \in 1..Len(t)
      BY <1>1, <2>3, <3>1
    <3>. QED  BY <1>1, <3>1, <3>2, ElementsOf
  <2>. QED  BY <2>1, <2>2, <2>3
<1>. QED  BY <1>1, <1>2, <1>3 DEF t

(* Removing a range from a canonical list removes its numbers alone.        *)
LEMMA RemoveAtCanonical ==
  ASSUME NEW s \in Seq(RangeRecord), Canonical(s), NEW i \in 1..Len(s)
  PROVE  /\ RemoveAt(s, i) \in Seq(RangeRecord)
         /\ Canonical(RemoveAt(s, i))
         /\ \A x : x \in Elements(RemoveAt(s, i)) <=>
                 x \in Elements(s) /\ x \notin s[i].first .. s[i].last
<1> DEFINE t == RemoveAt(s, i)
<1>1. /\ t \in Seq(RangeRecord) /\ Len(t) = Len(s) - 1
      /\ \A j \in 1..(Len(s) - 1) : t[j] = IF j < i THEN s[j] ELSE s[j + 1]
  BY RemoveAtProperties
<1> HIDE DEF t
<1> DEFINE old(j) == IF j < i THEN j ELSE j + 1
<1>2. ASSUME NEW j \in 1..Len(t)
      PROVE  old(j) \in 1..Len(s) /\ old(j) # i /\ t[j] = s[old(j)]
  BY <1>1
<1>3. \A j, k \in 1..Len(t) : j < k => old(j) < old(k)
  BY <1>1
<1>4. \A j \in 1..Len(s) : j # i => \E k \in 1..Len(t) : old(k) = j
  <2> SUFFICES ASSUME NEW j \in 1..Len(s), j # i
               PROVE  \E k \in 1..Len(t) : old(k) = j
    OBVIOUS
  <2>1. CASE j < i
    BY <1>1, <2>1
  <2>2. CASE j > i
    <3>1. j - 1 \in 1..Len(t) /\ old(j - 1) = j
      BY <1>1, <2>2
    <3>. QED  BY <3>1
  <2>. QED  BY <2>1, <2>2
<1> HIDE DEF old
<1>5. Canonical(t)
  <2> SUFFICES ASSUME NEW j \in 1..Len(t)
               PROVE  /\ t[j].first <= t[j].last
                      /\ \A k \in 1..Len(t) : j < k => t[j].first > t[k].last + 1
    BY DEF Canonical
  <2>. QED  BY <1>2, <1>3 DEF Canonical
<1>6. ASSUME NEW x
      PROVE  x \in Elements(t) <=>
                x \in Elements(s) /\ x \notin s[i].first .. s[i].last
  <2>1. ASSUME x \in Elements(t)
        PROVE  x \in Elements(s) /\ x \notin s[i].first .. s[i].last
    <3>1. PICK j \in 1..Len(t) : x \in t[j].first .. t[j].last
      BY <1>1, <2>1, ElementsOf
    <3>2. x \in s[old(j)].first .. s[old(j)].last
      BY <1>2, <3>1
    <3>. QED  BY <1>2, <3>2, ElementsOf, RangesApart
  <2>2. ASSUME x \in Elements(s), x \notin s[i].first .. s[i].last
        PROVE  x \in Elements(t)
    <3>1. PICK j \in 1..Len(s) : x \in s[j].first .. s[j].last
      BY <2>2, ElementsOf
    <3>2. PICK k \in 1..Len(t) : old(k) = j
      BY <1>4, <2>2, <3>1
    <3>. QED  BY <1>1, <1>2, <3>1, <3>2, ElementsOf
  <2>. QED  BY <2>1, <2>2
<1>. QED  BY <1>1, <1>5, <1>6 DEF t

-----------------------------------------------------------------------------
(* The inductive invariant.                                                 *)
IInv == TypeOK /\ Canonical(list)

(* The three cases of the overlap test are the ways two intervals meet.     *)
LEMMA OverlapsIsIntersection ==
  ASSUME NEW r \in RangeRecord, r.first <= r.last,
         NEW first \in Arg, NEW last \in Arg, first <= last
  PROVE  Overlaps(r, first, last) <=> (r.first .. r.last) \cap (first .. last) # {}
<1>1. ASSUME Overlaps(r, first, last)
      PROVE  (r.first .. r.last) \cap (first .. last) # {}
  <2>1. first \in r.first .. r.last \/ last \in r.first .. r.last
          \/ r.first \in first .. last
    BY <1>1, BoundsAssumption DEF Overlaps, RangeRecord, Arg
  <2>2. first \in first .. last /\ last \in first .. last /\ r.first \in r.first .. r.last
    BY BoundsAssumption DEF RangeRecord, Arg
  <2>. QED  BY <2>1, <2>2
<1>2. ASSUME NEW x \in (r.first .. r.last) \cap (first .. last)
      PROVE  Overlaps(r, first, last)
  BY <1>2, BoundsAssumption DEF Overlaps, RangeRecord, Arg
<1>. QED  BY <1>1, <1>2

(* Below the top of the type, n + 1 and n - 1 do not wrap, except at 0.     *)
LEMMA Numbers ==
  ASSUME TypeOK, MaxArg < MaxNumber
  PROVE  /\ Arg \subseteq Nat
         /\ \A n \in Arg : Succ(n) = n + 1
         /\ \A n \in Arg : Pred(n) \in Arg => n > 0 /\ Pred(n) = n - 1
         /\ \A n \in Arg : n > 0 => Pred(n) = n - 1 /\ Pred(n) \in Arg
         /\ list \in Seq(RangeRecord)
         /\ \A i \in 1..Len(list) :
              /\ list[i] \in RangeRecord
              /\ list[i].first \in Arg /\ list[i].last \in Arg
              /\ Succ(list[i].last) = list[i].last + 1
<1>1. Arg \subseteq Nat
  BY BoundsAssumption DEF Arg
<1>2. \A n \in Arg : Succ(n) = n + 1
  BY BoundsAssumption DEF Arg, Succ
<1>3. \A n \in Arg : Pred(n) \in Arg => n > 0 /\ Pred(n) = n - 1
  BY BoundsAssumption DEF Arg, Pred
<1>4. \A n \in Arg : n > 0 => Pred(n) = n - 1 /\ Pred(n) \in Arg
  BY BoundsAssumption DEF Arg, Pred
<1>5. list \in Seq(RangeRecord)
  BY DEF TypeOK, RangeRecord
<1>6. ASSUME NEW i \in 1..Len(list)
      PROVE  /\ list[i] \in RangeRecord
             /\ list[i].first \in Arg /\ list[i].last \in Arg
             /\ Succ(list[i].last) = list[i].last + 1
  <2>1. list[i] \in RangeRecord
    BY <1>5
  <2>. QED  BY <1>2, <2>1 DEF RangeRecord
<1>. QED  BY <1>1, <1>2, <1>3, <1>4, <1>5, <1>6

(* Every range that the walk of insert has passed lies above the new        *)
(* interval with a gap: the first one that did not would have stopped it.   *)
LEMMA WalkedRangesLieAbove ==
  ASSUME IInv, MaxArg < MaxNumber,
         NEW first \in Arg, NEW last \in Arg, InsertInWalk("walk", first, last),
         NEW i \in 1..(Len(list) + 1), InsertWalkReaches(i, first, last)
  PROVE  \A j \in 1..(i - 1) : list[j].first > last + 1
<1> DEFINE Bad == {j \in 1..(i - 1) : ~(list[j].first > last + 1)}
<1>1. SUFFICES ASSUME Bad # {} PROVE FALSE
  OBVIOUS
<1>2. PICK j \in Bad : \A k \in Bad : j <= k
  <2>1. Bad \in SUBSET Nat
    OBVIOUS
  <2>. QED  BY <1>1, <2>1, LeastNat
<1>3. j \in 1..Len(list) /\ ~(list[j].first > last + 1)
  BY DEF IInv, TypeOK
<1> HIDE DEF Bad
<1>4. first <= last /\ list # <<>> /\ ~BeforeHead(first)
  BY DEF InsertInWalk
<1>5. /\ list[j] \in RangeRecord /\ list[j].first \in Arg /\ list[j].last \in Arg
      /\ list[j].first <= list[j].last
      /\ Succ(list[j].last) = list[j].last + 1
      /\ first \in Nat /\ last \in Nat
      /\ list[j].first \in Nat /\ list[j].last \in Nat
  BY <1>3, Numbers DEF IInv, Canonical
<1>6. /\ ~ExtendsLast(j, first) /\ ~ExtendsFirst(j, last)
      /\ ~Overlaps(list[j], first, last)
  BY DEF InsertWalkReaches, InsertStops, Bad
<1>7. first > list[j].last
  <2>1. list[j].first > 0 => last # list[j].first - 1
    BY <1>5, <1>6, Numbers DEF ExtendsFirst, IInv
  <2>. QED  BY SMTT(30), <1>3, <1>4, <1>5, <1>6, <2>1 DEF Overlaps
<1>8. first > list[j].last + 1
  BY <1>5, <1>6, <1>7 DEF ExtendsLast
<1>9. CASE j = 1
  BY <1>4, <1>5, <1>8, <1>9 DEF BeforeHead
<1>10. CASE j > 1
  <2>1. list[j - 1].first > last + 1 /\ j - 1 \in 1..Len(list) /\ j - 1 \in 1..(i - 1)
    BY <1>2, <1>3, <1>10 DEF Bad
  <2>2. list[j - 1].first \in Nat
    BY <2>1, Numbers DEF IInv
  <2>3. FitsBelow(j - 1, first, last)
    <3>1. (j - 1) + 1 = j
      BY <1>3
    <3>2. j - 1 < Len(list) /\ last < list[j - 1].first
      BY <1>3, <1>5, <2>1, <2>2
    <3>. QED  BY <1>5, <1>8, <3>1, <3>2 DEF FitsBelow
  <2>. QED  BY <2>1, <2>3 DEF InsertWalkReaches, InsertStops
<1>. QED  BY <1>3, <1>9, <1>10

-----------------------------------------------------------------------------
(* What a call of insert does to the set of numbers, with the list it leaves.*)
InsertResult(op, first, last) ==
  /\ list' \in Seq(RangeRecord)
  /\ Canonical(list')
  /\ \/ /\ first <= last /\ Elements(list) \cap (first .. last) = {}
        /\ Elements(list') = Elements(list) \cup (first .. last)
        /\ Answer(op, first, last, TRUE)
     \/ /\ ~(first <= last /\ Elements(list) \cap (first .. last) = {})
        /\ list' = list
        /\ Answer(op, first, last, FALSE)

(* Adding the interval as a range of its own, at a place where it touches no*)
(* other, is what the set's insertion does.                                 *)
LEMMA InsertAtGap ==
  ASSUME IInv, MaxArg < MaxNumber,
         NEW op, NEW first \in Arg, NEW last \in Arg, first <= last,
         NEW i \in 1..(Len(list) + 1),
         \A j \in 1..(i - 1) : list[j].first > last + 1,
         \A j \in i..Len(list) : first > list[j].last + 1,
         list' = InsertAt(list, i, NumRange(last, first)),
         Accept(op, first, last)
  PROVE  InsertResult(op, first, last)
<1> DEFINE r == NumRange(last, first)
<1>1. r \in RangeRecord /\ r.first = first /\ r.last = last
  BY DEF NumRange, RangeRecord
<1> HIDE DEF r
<1>2. list \in Seq(RangeRecord) /\ Canonical(list)
  BY Numbers DEF IInv
<1>3. /\ list' \in Seq(RangeRecord)
      /\ Canonical(list')
      /\ Elements(list') = Elements(list) \cup (first .. last)
  BY <1>1, <1>2, InsertAtCanonical DEF r
<1>4. ASSUME NEW x \in Elements(list), x \in first .. last
      PROVE  FALSE
  <2>1. PICK j \in 1..Len(list) : x \in list[j].first .. list[j].last
    BY <1>2, <1>4, ElementsOf
  <2>2. list[j].first \in Nat /\ list[j].last \in Nat /\ first \in Nat /\ last \in Nat
    BY Numbers DEF IInv
  <2>3. j \in 1..(i - 1) \/ j \in i..Len(list)
    OBVIOUS
  <2>. QED  BY <1>4, <2>1, <2>2, <2>3
<1>. QED  BY <1>3, <1>4 DEF InsertResult, Accept

(* Adding at the two ends is InsertAt.                                      *)
LEMMA AppendIsInsertAt ==
  ASSUME NEW S, NEW s \in Seq(S), NEW e \in S
  PROVE  /\ <<e>> \o s = InsertAt(s, 1, e)
         /\ Append(s, e) = InsertAt(s, Len(s) + 1, e)
<1>1. <<e>> \o s = InsertAt(s, 1, e)
  <2>1. SubSeq(s, 1, 1 - 1) = <<>> /\ SubSeq(s, 1, Len(s)) = s
    BY SubSeqEmpty, SubSeqFull
  <2>2. <<>> \o <<e>> = <<e>>
    OBVIOUS
  <2>. QED  BY <2>1, <2>2 DEF InsertAt
<1>2. Append(s, e) = InsertAt(s, Len(s) + 1, e)
  <2>1. Append(s, e) \in Seq(S) /\ Len(Append(s, e)) = Len(s) + 1
        /\ \A j \in 1..(Len(s) + 1) :
             Append(s, e)[j] = IF j = Len(s) + 1 THEN e ELSE s[j]
    OBVIOUS
  <2>2. Len(s) + 1 \in 1..(Len(s) + 1)
    OBVIOUS
  <2>3. /\ InsertAt(s, Len(s) + 1, e) \in Seq(S)
        /\ Len(InsertAt(s, Len(s) + 1, e)) = Len(s) + 1
        /\ \A j \in 1..(Len(s) + 1) : Append(s, e)[j] = InsertAt(s, Len(s) + 1, e)[j]
    BY <2>1, <2>2, InsertAtProperties
  <2>. QED  BY <2>1, <2>3, SeqEqual
<1>. QED  BY <1>1, <1>2

(* insert before the highest range.                                         *)
LEMMA InsertAtHeadResult ==
  ASSUME IInv, MaxArg < MaxNumber,
         NEW op, NEW first \in Arg, NEW last \in Arg,
         InsertAtHead(op, first, last)
  PROVE  InsertResult(op, first, last)
<1>1. list \in Seq(RangeRecord) /\ Canonical(list)
  BY Numbers DEF IInv
<1>2. list' = InsertAt(list, 1, NumRange(last, first))
  <2>1. NumRange(last, first) \in RangeRecord
    BY DEF NumRange, RangeRecord
  <2>2. list' = <<NumRange(last, first)>> \o list
    BY DEF InsertAtHead
  <2>. QED  BY <1>1, <2>1, <2>2, AppendIsInsertAt
<1>3. \A j \in 1..Len(list) : first > list[j].last + 1
  <2> SUFFICES ASSUME NEW j \in 1..Len(list)
               PROVE  first > list[j].last + 1
    OBVIOUS
  <2>1. 1 \in 1..Len(list) /\ list # <<>>
    OBVIOUS
  <2>2. /\ first \in Nat
        /\ list[1].last \in Nat /\ list[1].first \in Nat
        /\ list[j].last \in Nat
        /\ Succ(list[1].last) = list[1].last + 1
    BY <2>1, Numbers DEF IInv
  <2>3. first > list[1].last + 1
    BY <2>1, <2>2 DEF InsertAtHead, BeforeHead
  <2>4. j # 1 => list[1].first > list[j].last + 1 /\ list[1].first <= list[1].last
    BY <1>1, <2>1 DEF Canonical
  <2>. QED  BY <2>2, <2>3, <2>4
<1>. QED  BY <1>2, <1>3, InsertAtGap DEF InsertAtHead

(* insert after the lowest range, when the walk never stopped.              *)
LEMMA InsertAtEndResult ==
  ASSUME IInv, MaxArg < MaxNumber,
         NEW op, NEW first \in Arg, NEW last \in Arg,
         InsertInWalk(op, first, last), InsertAtEnd(op, first, last)
  PROVE  InsertResult(op, first, last)
<1>1. list \in Seq(RangeRecord)
  BY Numbers DEF IInv
<1>2. list' = InsertAt(list, Len(list) + 1, NumRange(last, first))
  <2>1. NumRange(last, first) \in RangeRecord
    BY DEF NumRange, RangeRecord
  <2>2. list' = Append(list, NumRange(last, first))
    BY DEF InsertAtEnd
  <2>. QED  BY <1>1, <2>1, <2>2, AppendIsInsertAt
<1>3. \A j \in 1..Len(list) : list[j].first > last + 1
  BY <1>1, WalkedRangesLieAbove DEF InsertAtEnd, InsertInWalk
<1>. QED  BY <1>1, <1>2, <1>3, InsertAtGap DEF InsertAtEnd, InsertInWalk

(* insert between two ranges.                                               *)
LEMMA InsertBelowResult ==
  ASSUME IInv, MaxArg < MaxNumber,
         NEW op, NEW first \in Arg, NEW last \in Arg,
         InsertInWalk(op, first, last),
         NEW i \in 1..Len(list), InsertWalkReaches(i, first, last),
         InsertBelow(op, i, first, last)
  PROVE  InsertResult(op, first, last)
<1>1. list \in Seq(RangeRecord) /\ Canonical(list)
  BY Numbers DEF IInv
<1>2. \A j \in 1..(i - 1) : list[j].first > last + 1
  BY <1>1, WalkedRangesLieAbove DEF InsertInWalk
<1>3. list[i].first > last + 1
  <2>1. last < list[i].first /\ last # Pred(list[i].first)
    BY DEF InsertBelow, FitsBelow, ExtendsFirst
  <2>2. last \in Nat /\ list[i].first \in Nat /\ list[i].first \in Arg
    BY Numbers DEF IInv
  <2>3. Pred(list[i].first) = list[i].first - 1
    BY <2>1, <2>2, Numbers DEF IInv
  <2>. QED  BY <2>1, <2>2, <2>3
<1>4. \A j \in (i + 1)..Len(list) : first > list[j].last + 1
  <2> SUFFICES ASSUME NEW j \in (i + 1)..Len(list)
               PROVE  first > list[j].last + 1
    OBVIOUS
  <2>1. i + 1 \in 1..Len(list)
    BY <1>1
  <2>2. /\ first \in Nat
        /\ list[i + 1].last \in Nat /\ list[i + 1].first \in Nat
        /\ list[j].last \in Nat
        /\ Succ(list[i + 1].last) = list[i + 1].last + 1
    BY SMTT(30), <2>1, Numbers DEF IInv
  <2>3. first > list[i + 1].last + 1
    BY <2>2 DEF InsertBelow, FitsBelow
  <2>4. j # i + 1 => /\ list[i + 1].first > list[j].last + 1
                     /\ list[i + 1].first <= list[i + 1].last
    BY <1>1, <2>1 DEF Canonical
  <2>. QED  BY <2>2, <2>3, <2>4
<1>5. \A j \in 1..i : list[j].first > last + 1
  BY <1>2, <1>3
<1>. QED  BY <1>1, <1>4, <1>5, InsertAtGap DEF InsertBelow, InsertInWalk

(* Assigning one end of a range replaces the range.                         *)
LEMMA ReplaceBy ==
  ASSUME IInv, MaxArg < MaxNumber, NEW i \in 1..Len(list),
         NEW last \in Arg, NEW first \in Arg
  PROVE  /\ [list EXCEPT ![i].last = last]
               = [list EXCEPT ![i] = NumRange(last, list[i].first)]
         /\ [list EXCEPT ![i].first = first]
               = [list EXCEPT ![i] = NumRange(list[i].last, first)]
<1>1. list[i] \in RangeRecord
  BY Numbers DEF IInv
<1>2. /\ [list[i] EXCEPT !.last = last] = NumRange(last, list[i].first)
      /\ [list[i] EXCEPT !.first = first] = NumRange(list[i].last, first)
  BY <1>1 DEF RangeRecord, NumRange
<1>. QED  BY <1>2

(* insert at the upper end of a range: the walk passed the ranges above, so *)
(* the range cannot grow into them.                                         *)
LEMMA ExtendLastResult ==
  ASSUME IInv, MaxArg < MaxNumber,
         NEW op, NEW first \in Arg, NEW last \in Arg,
         InsertInWalk(op, first, last),
         NEW i \in 1..Len(list), InsertWalkReaches(i, first, last),
         ExtendLast(op, i, first, last)
  PROVE  InsertResult(op, first, last)
<1> DEFINE r == NumRange(last, list[i].first)
<1>1. list \in Seq(RangeRecord) /\ Canonical(list)
  BY Numbers DEF IInv
<1>2. \A j \in 1..(i - 1) : list[j].first > last + 1
  BY <1>1, WalkedRangesLieAbove DEF InsertInWalk
<1>3. /\ first \in Nat /\ last \in Nat /\ first <= last
      /\ list[i].first \in Nat /\ list[i].last \in Nat
      /\ list[i].first <= list[i].last
      /\ first = list[i].last + 1
  <2>1. list[i].first <= list[i].last
    BY <1>1 DEF Canonical
  <2>. QED  BY <2>1, Numbers DEF IInv, ExtendLast, ExtendsLast, InsertInWalk
<1>4. r \in RangeRecord /\ r.first = list[i].first /\ r.last = last
  BY Numbers DEF NumRange, RangeRecord, IInv
<1>5. list' = [list EXCEPT ![i] = r]
  BY ReplaceBy DEF ExtendLast
<1> HIDE DEF r
<1>6. /\ r.first <= r.last
      /\ \A j \in 1..(i - 1) : list[j].first > r.last + 1
      /\ \A j \in (i + 1)..Len(list) : r.first > list[j].last + 1
  BY <1>1, <1>2, <1>3, <1>4 DEF Canonical
<1>7. /\ list' \in Seq(RangeRecord) /\ Canonical(list')
      /\ \A x : x \in Elements(list') <=>
               \/ x \in r.first .. r.last
               \/ x \in Elements(list) /\ x \notin list[i].first .. list[i].last
  BY <1>1, <1>4, <1>5, <1>6, ReplaceCanonical
<1>8. Elements(list') = Elements(list) \cup (first .. last)
  <2>1. \A x \in list[i].first .. list[i].last : x \in Elements(list)
    BY <1>1, ElementsOf
  <2>2. \A x : x \in r.first .. r.last <=>
                 x \in list[i].first .. list[i].last \/ x \in first .. last
    BY <1>3, <1>4
  <2>. QED  BY <1>7, <2>1, <2>2
<1>9. Elements(list) \cap (first .. last) = {}
  <2> SUFFICES ASSUME NEW x \in Elements(list), x \in first .. last
               PROVE  FALSE
    OBVIOUS
  <2>1. PICK j \in 1..Len(list) : x \in list[j].first .. list[j].last
    BY <1>1, ElementsOf
  <2>2. list[j].first \in Nat /\ list[j].last \in Nat
    BY Numbers DEF IInv
  <2>3. CASE j < i
    BY <1>2, <1>3, <2>1, <2>2, <2>3
  <2>4. CASE j >= i
    <3>1. j > i => list[i].first > list[j].last + 1
      BY <1>1 DEF Canonical
    <3>. QED  BY SMTT(30), <1>3, <2>1, <2>2, <2>4, <3>1
  <2>. QED  BY <2>3, <2>4
<1>. QED  BY <1>3, <1>7, <1>8, <1>9 DEF InsertResult, ExtendLast, Accept

(* Replacing range i and removing range i + 1 may be done in either order.  *)
LEMMA RemoveAfterReplace ==
  ASSUME NEW S, NEW s \in Seq(S), NEW i \in 1..(Len(s) - 1), NEW e \in S
  PROVE  RemoveAt([s EXCEPT ![i] = e], i + 1) = [RemoveAt(s, i + 1) EXCEPT ![i] = e]
<1> DEFINE t == [s EXCEPT ![i] = e]
           u == RemoveAt(s, i + 1)
<1>1. /\ t \in Seq(S) /\ Len(t) = Len(s)
      /\ \A j \in 1..Len(s) : t[j] = IF j = i THEN e ELSE s[j]
  OBVIOUS
<1> HIDE DEF t
<1>2. /\ RemoveAt(t, i + 1) \in Seq(S) /\ Len(RemoveAt(t, i + 1)) = Len(s) - 1
      /\ \A j \in 1..(Len(s) - 1) :
           RemoveAt(t, i + 1)[j] = IF j < i + 1 THEN t[j] ELSE t[j + 1]
  <2>1. i + 1 \in 1..Len(t)
    BY <1>1
  <2>. QED  BY <1>1, <2>1, RemoveAtProperties
<1>3. /\ u \in Seq(S) /\ Len(u) = Len(s) - 1
      /\ \A j \in 1..(Len(s) - 1) : u[j] = IF j < i + 1 THEN s[j] ELSE s[j + 1]
  <2>1. i + 1 \in 1..Len(s)
    OBVIOUS
  <2>. QED  BY <2>1, RemoveAtProperties
<1> HIDE DEF u
<1>4. /\ [u EXCEPT ![i] = e] \in Seq(S) /\ Len([u EXCEPT ![i] = e]) = Len(s) - 1
      /\ \A j \in 1..(Len(s) - 1) :
           [u EXCEPT ![i] = e][j] = IF j = i THEN e ELSE u[j]
  BY <1>3
<1>5. ASSUME NEW j \in 1..(Len(s) - 1)
      PROVE  RemoveAt(t, i + 1)[j] = [u EXCEPT ![i] = e][j]
  <2>1. CASE j < i + 1
    BY <1>1, <1>2, <1>3, <1>4, <2>1
  <2>2. CASE j >= i + 1
    BY <1>1, <1>2, <1>3, <1>4, <2>2
  <2>. QED  BY <2>1, <2>2
<1>6. RemoveAt(t, i + 1) = [u EXCEPT ![i] = e]
  BY <1>2, <1>4, <1>5, SeqEqual
<1>. QED  BY <1>6 DEF t, u

(* insert at the lower end of a range, clear of the next one.               *)
LEMMA GrowDownwards ==
  ASSUME IInv, MaxArg < MaxNumber,
         NEW op, NEW first \in Arg, NEW last \in Arg, first <= last,
         NEW i \in 1..Len(list), list[i].first = last + 1,
         \A j \in (i + 1)..Len(list) : first > list[j].last + 1,
         list' = [list EXCEPT ![i].first = first],
         Accept(op, first, last)
  PROVE  InsertResult(op, first, last)
<1> DEFINE r == NumRange(list[i].last, first)
<1>1. list \in Seq(RangeRecord) /\ Canonical(list)
  BY Numbers DEF IInv
<1>2. /\ first \in Nat /\ last \in Nat
      /\ list[i].first \in Nat /\ list[i].last \in Nat
      /\ list[i].first <= list[i].last
  <2>1. list[i].first <= list[i].last
    BY <1>1 DEF Canonical
  <2>. QED  BY <2>1, Numbers DEF IInv
<1>3. r \in RangeRecord /\ r.first = first /\ r.last = list[i].last
  BY Numbers DEF NumRange, RangeRecord, IInv
<1>4. list' = [list EXCEPT ![i] = r]
  BY ReplaceBy
<1> HIDE DEF r
<1>5. /\ r.first <= r.last
      /\ \A j \in 1..(i - 1) : list[j].first > r.last + 1
      /\ \A j \in (i + 1)..Len(list) : r.first > list[j].last + 1
  <2>1. r.first <= r.last
    BY <1>2, <1>3
  <2>2. \A j \in 1..(i - 1) : list[j].first > r.last + 1
    BY <1>1, <1>3 DEF Canonical
  <2>. QED  BY <1>3, <2>1, <2>2
<1>6. /\ list' \in Seq(RangeRecord) /\ Canonical(list')
      /\ \A x : x \in Elements(list') <=>
               \/ x \in r.first .. r.last
               \/ x \in Elements(list) /\ x \notin list[i].first .. list[i].last
  BY ONLY <1>1, <1>3, <1>4, <1>5, i \in 1..Len(list), ReplaceCanonical
<1>7. Elements(list') = Elements(list) \cup (first .. last)
  <2>1. \A x \in list[i].first .. list[i].last : x \in Elements(list)
    BY <1>1, ElementsOf
  <2>2. \A x : x \in r.first .. r.last <=>
                 x \in list[i].first .. list[i].last \/ x \in first .. last
    BY <1>2, <1>3
  <2>. QED  BY <1>6, <2>1, <2>2
<1>8. Elements(list) \cap (first .. last) = {}
  <2> SUFFICES ASSUME NEW x \in Elements(list), x \in first .. last
               PROVE  FALSE
    OBVIOUS
  <2>1. PICK j \in 1..Len(list) : x \in list[j].first .. list[j].last
    BY <1>1, ElementsOf
  <2>2. list[j].first \in Nat /\ list[j].last \in Nat
    BY Numbers DEF IInv
  <2>3. CASE j <= i
    <3>1. j < i => list[j].first > list[i].last + 1
      BY <1>1 DEF Canonical
    <3>. QED  BY <1>2, <2>1, <2>2, <2>3, <3>1
  <2>4. CASE j > i
    BY <1>2, <2>1, <2>2, <2>4
  <2>. QED  BY <2>3, <2>4
<1>. QED  BY <1>6, <1>7, <1>8 DEF InsertResult, Accept

(* insert of exactly the gap between two ranges, which become one.          *)
LEMMA JoinDownwards ==
  ASSUME IInv, MaxArg < MaxNumber,
         NEW op, NEW first \in Arg, NEW last \in Arg, first <= last,
         NEW i \in 1..(Len(list) - 1),
         list[i].first = last + 1, first = list[i + 1].last + 1,
         list' = RemoveAt([list EXCEPT ![i].first = list[i + 1].first], i + 1),
         Accept(op, first, last)
  PROVE  InsertResult(op, first, last)
<1> DEFINE r == NumRange(list[i].last, list[i + 1].first)
           u == RemoveAt(list, i + 1)
<1>1. list \in Seq(RangeRecord) /\ Canonical(list)
  BY Numbers DEF IInv
<1>2. i \in 1..Len(list) /\ i + 1 \in 1..Len(list) /\ i < i + 1
  BY <1>1
<1>3. /\ first \in Nat /\ last \in Nat
      /\ list[i].first \in Nat /\ list[i].last \in Nat
      /\ list[i + 1].first \in Nat /\ list[i + 1].last \in Nat
      /\ list[i].first <= list[i].last
      /\ list[i + 1].first <= list[i + 1].last
  <2>1. list[i].first <= list[i].last /\ list[i + 1].first <= list[i + 1].last
    BY <1>1, <1>2 DEF Canonical
  <2>. QED  BY <1>2, <2>1, Numbers DEF IInv
<1>4. r \in RangeRecord /\ r.first = list[i + 1].first /\ r.last = list[i].last
  BY <1>2, Numbers DEF NumRange, RangeRecord, IInv
<1>5. list' = [u EXCEPT ![i] = r]
  <2>1. list[i + 1].first \in Arg
    BY <1>2, Numbers DEF IInv
  <2>2. list' = RemoveAt([list EXCEPT ![i] = r], i + 1)
    BY <1>2, <2>1, ReplaceBy
  <2>. QED  BY <1>1, <1>4, <2>2, RemoveAfterReplace
<1> HIDE DEF r
<1>6. /\ u \in Seq(RangeRecord) /\ Canonical(u)
      /\ \A x : x \in Elements(u) <=>
           x \in Elements(list) /\ x \notin list[i + 1].first .. list[i + 1].last
  BY <1>1, <1>2, RemoveAtCanonical
<1>7. /\ Len(u) = Len(list) - 1
      /\ \A j \in 1..(Len(list) - 1) :
           u[j] = IF j < i + 1 THEN list[j] ELSE list[j + 1]
  BY <1>1, <1>2, RemoveAtProperties
<1> HIDE DEF u
<1>8. i \in 1..Len(u) /\ u[i] = list[i]
  BY <1>1, <1>2, <1>7
<1>9. /\ r.first <= r.last
      /\ \A j \in 1..(i - 1) : u[j].first > r.last + 1
      /\ \A j \in (i + 1)..Len(u) : r.first > u[j].last + 1
  <2>1. r.first <= r.last
    BY SMTT(30), <1>3, <1>4
  <2>2. \A j \in 1..(i - 1) : u[j].first > r.last + 1
    BY SMTT(30), <1>4, <1>6, <1>8 DEF Canonical
  <2>3. ASSUME NEW j \in (i + 1)..Len(u)
        PROVE  r.first > u[j].last + 1
    <3>1. u[j] = list[j + 1] /\ j + 1 \in 1..Len(list) /\ i + 1 < j + 1
      BY <1>1, <1>7
    <3>. QED  BY <1>1, <1>2, <1>4, <3>1 DEF Canonical
  <2>. QED  BY <2>1, <2>2, <2>3
<1>10. /\ list' \in Seq(RangeRecord) /\ Canonical(list')
       /\ \A x : x \in Elements(list') <=>
               \/ x \in r.first .. r.last
               \/ x \in Elements(u) /\ x \notin list[i].first .. list[i].last
  BY ONLY <1>4, <1>5, <1>6, <1>8, <1>9, ReplaceCanonical
<1>11. Elements(list') = Elements(list) \cup (first .. last)
  <2>1. /\ \A x \in list[i].first .. list[i].last : x \in Elements(list)
        /\ \A x \in list[i + 1].first .. list[i + 1].last : x \in Elements(list)
    BY <1>1, <1>2, ElementsOf
  <2>2. \A x : x \in r.first .. r.last <=>
                 \/ x \in list[i].first .. list[i].last
                 \/ x \in list[i + 1].first .. list[i + 1].last
                 \/ x \in first .. last
    BY ONLY SMTT(30), first <= last, list[i].first = last + 1, first = list[i + 1].last + 1,
            <1>3, <1>4
  <2>. QED  BY <1>6, <1>10, <2>1, <2>2
<1>12. Elements(list) \cap (first .. last) = {}
  <2> SUFFICES ASSUME NEW x \in Elements(list), x \in first .. last
               PROVE  FALSE
    OBVIOUS
  <2>1. PICK j \in 1..Len(list) : x \in list[j].first .. list[j].last
    BY <1>1, ElementsOf
  <2>2. list[j].first \in Nat /\ list[j].last \in Nat
    BY Numbers DEF IInv
  <2>3. CASE j <= i
    <3>1. j < i => list[j].first > list[i].last + 1
      BY <1>1, <1>2 DEF Canonical
    <3>. QED  BY SMTT(30), <1>3, <2>1, <2>2, <2>3, <3>1
  <2>4. CASE j = i + 1
    BY <1>3, <2>1, <2>2, <2>4
  <2>5. CASE j > i + 1
    <3>1. list[i + 1].first > list[j].last + 1
      BY <1>1, <1>2, <2>5 DEF Canonical
    <3>2. list[j].last < first
      BY ONLY first = list[i + 1].last + 1, <1>3, <2>2, <3>1, SMTT(30)
    <3>3. first <= x /\ x <= list[j].last /\ x \in Nat
      BY <1>3, <2>1, <2>2
    <3>. QED  BY ONLY <1>3, <2>2, <3>2, <3>3
  <2>. QED  BY <2>3, <2>4, <2>5
<1>. QED  BY <1>10, <1>11, <1>12 DEF InsertResult, Accept

(* An insertion refused at an overlapping range is refused by the set too.  *)
LEMMA RefuseHeld ==
  ASSUME IInv, MaxArg < MaxNumber,
         NEW op, NEW first \in Arg, NEW last \in Arg,
         NEW i \in 1..Len(list), Overlaps(list[i], first, last), first <= last,
         Refuse(op, first, last)
  PROVE  InsertResult(op, first, last)
<1>1. list \in Seq(RangeRecord) /\ Canonical(list)
  BY Numbers DEF IInv
<1>2. list[i] \in RangeRecord /\ list[i].first <= list[i].last
  BY <1>1 DEF Canonical
<1>3. PICK x : x \in (list[i].first .. list[i].last) \cap (first .. last)
  BY <1>2, OverlapsIsIntersection
<1>4. Elements(list) \cap (first .. last) # {}
  BY <1>1, <1>3, ElementsOf
<1>. QED  BY <1>1, <1>4 DEF InsertResult, Refuse

(* The three outcomes of insert at the lower end of a range.                *)
LEMMA ExtendFirstResult ==
  ASSUME IInv, MaxArg < MaxNumber,
         NEW op \in {"insertRange", "insert"},
         NEW first \in Arg, NEW last \in Arg, op = "insert" => first = last,
         first <= last, NEW i \in 1..Len(list), ExtendFirst(op, i, first, last)
  PROVE  InsertResult(op, first, last)
<1>1. list \in Seq(RangeRecord) /\ Canonical(list)
  BY Numbers DEF IInv
<1>2. /\ first \in Nat /\ last \in Nat /\ first <= last
      /\ list[i].first \in Nat /\ list[i].last \in Nat
      /\ list[i].first \in Arg
      /\ list[i].first <= list[i].last
  <2>1. list[i].first <= list[i].last
    BY <1>1 DEF Canonical
  <2>. QED  BY <2>1, Numbers DEF IInv
<1>3. list[i].first = last + 1
  <2>1. last = Pred(list[i].first)
    BY DEF ExtendFirst, ExtendsFirst
  <2>2. list[i].first > 0 /\ Pred(list[i].first) = list[i].first - 1
    BY <1>2, <2>1, Numbers DEF IInv
  <2>. QED  BY <1>2, <2>1, <2>2
<1>4. i < Len(list) =>
        /\ i \in 1..(Len(list) - 1) /\ i + 1 \in 1..Len(list)
        /\ list[i + 1] \in RangeRecord
        /\ list[i + 1].first \in Nat /\ list[i + 1].last \in Nat
        /\ list[i + 1].first <= list[i + 1].last
        /\ list[i].first > list[i + 1].last + 1
  <2> SUFFICES ASSUME i < Len(list)
               PROVE  /\ i \in 1..(Len(list) - 1) /\ i + 1 \in 1..Len(list)
                      /\ list[i + 1] \in RangeRecord
                      /\ list[i + 1].first \in Nat /\ list[i + 1].last \in Nat
                      /\ list[i + 1].first <= list[i + 1].last
                      /\ list[i].first > list[i + 1].last + 1
    OBVIOUS
  <2>1. i \in 1..(Len(list) - 1) /\ i + 1 \in 1..Len(list) /\ i < i + 1
    BY <1>1
  <2>2. /\ list[i + 1].first <= list[i + 1].last
        /\ list[i].first > list[i + 1].last + 1
    BY <1>1, <2>1 DEF Canonical
  <2>. QED  BY <2>1, <2>2, Numbers DEF IInv
<1>5. Pred(first) = first - 1 \/ (first = 0 /\ Pred(first) = MaxNumber)
  BY <1>2 DEF Pred
<1>6. CASE /\ i < Len(list) /\ first <= list[i + 1].last
           /\ Refuse(op, first, last)
  <2>1. Overlaps(list[i + 1], first, last)
    BY <1>2, <1>3, <1>4, <1>6 DEF Overlaps
  <2>. QED  BY <1>2, <1>4, <1>6, <2>1, RefuseHeld
<1>7. CASE /\ i < Len(list) /\ list[i + 1].last = Pred(first)
           /\ list' = RemoveAt([list EXCEPT ![i].first = list[i + 1].first], i + 1)
           /\ Accept(op, first, last)
  <2>1. list[i + 1].last \in Arg
    BY <1>4, <1>7, Numbers DEF IInv
  <2>2. Pred(first) = first - 1
    BY <1>7, <2>1, Numbers DEF IInv
  <2>3. first = list[i + 1].last + 1
    BY <1>2, <1>4, <1>7, <2>2
  <2>. QED  BY <1>2, <1>3, <1>4, <1>7, <2>3, JoinDownwards
<1>8. CASE /\ i < Len(list) => list[i + 1].last # Pred(first)
           /\ op = "insertRange" /\ i < Len(list) => first > list[i + 1].last
           /\ list' = [list EXCEPT ![i].first = first]
           /\ Accept(op, first, last)
  <2>1. i < Len(list) => first > list[i + 1].last + 1
    <3> SUFFICES ASSUME i < Len(list)
                 PROVE  first > list[i + 1].last + 1
      OBVIOUS
    <3>1. first > list[i + 1].last
      <4>1. CASE op = "insertRange"
        BY <1>8, <4>1
      <4>2. CASE op = "insert"
        BY <1>2, <1>3, <1>4, <4>2
      <4>. QED  BY <4>1, <4>2
    <3>2. Pred(first) = first - 1 /\ list[i + 1].last # Pred(first)
      BY <1>2, <1>4, <1>5, <1>8, <3>1
    <3>. QED  BY <1>2, <1>4, <3>1, <3>2
  <2>2. ASSUME NEW j \in (i + 1)..Len(list)
        PROVE  first > list[j].last + 1
    <3>1. i < Len(list) /\ j \in 1..Len(list)
      BY <1>1
    <3>2. j # i + 1 => list[i + 1].first > list[j].last + 1
      BY <1>1, <1>4, <3>1 DEF Canonical
    <3>3. list[j].last \in Nat
      BY <3>1, Numbers DEF IInv
    <3>. QED  BY SMTT(30), <1>2, <1>4, <2>1, <3>1, <3>2, <3>3
  <2>. QED  BY <1>2, <1>3, <1>8, <2>2, GrowDownwards
<1>. QED  BY <1>6, <1>7, <1>8 DEF ExtendFirst

(* Every insertion keeps the list canonical and is the set's insertion.     *)
LEMMA InsertStep ==
  ASSUME IInv, MaxArg < MaxNumber,
         NEW op \in {"insertRange", "insert"},
         NEW first \in Arg, NEW last \in Arg, op = "insert" => first = last,
         Insert(op, first, last)
  PROVE  InsertResult(op, first, last)
<1>1. CASE InsertInverted(op, first, last)
  <2>1. ~(first <= last)
    BY <1>1, BoundsAssumption DEF InsertInverted, Arg
  <2>2. list \in Seq(RangeRecord) /\ Canonical(list)
    BY Numbers DEF IInv
  <2>. QED  BY <1>1, <2>1, <2>2 DEF InsertInverted, Refuse, InsertResult
<1>2. CASE InsertAtHead(op, first, last)
  BY <1>2, InsertAtHeadResult
<1>3. CASE InsertInWalk(op, first, last) /\ InsertAtEnd(op, first, last)
  BY <1>3, InsertAtEndResult
<1>4. ASSUME InsertInWalk(op, first, last), NEW i \in DOMAIN list,
             InsertWalkReaches(i, first, last),
             \/ ExtendLast(op, i, first, last)
             \/ ExtendFirst(op, i, first, last)
             \/ InsertBelow(op, i, first, last)
             \/ InsertHeld(op, i, first, last)
      PROVE  InsertResult(op, first, last)
  <2>1. i \in 1..Len(list) /\ first <= last
    BY <1>4, Numbers DEF IInv, InsertInWalk
  <2>2. CASE ExtendLast(op, i, first, last)
    BY <1>4, <2>1, <2>2, ExtendLastResult
  <2>3. CASE ExtendFirst(op, i, first, last)
    BY <2>1, <2>3, ExtendFirstResult
  <2>4. CASE InsertBelow(op, i, first, last)
    BY <1>4, <2>1, <2>4, InsertBelowResult
  <2>5. CASE InsertHeld(op, i, first, last)
    BY <2>1, <2>5, RefuseHeld DEF InsertHeld
  <2>. QED  BY <1>4, <2>2, <2>3, <2>4, <2>5
<1>. QED  BY <1>1, <1>2, <1>3, <1>4 DEF Insert

-----------------------------------------------------------------------------
(* The same for the removals.                                               *)
RemoveResult(op, first, last) ==
  /\ list' \in Seq(RangeRecord)
  /\ Canonical(list')
  /\ \/ /\ first .. last \subseteq Elements(list)
        /\ Elements(list') = Elements(list) \ (first .. last)
        /\ Answer(op, first, last, TRUE)
     \/ /\ ~(first .. last \subseteq Elements(list))
        /\ list' = list
        /\ Answer(op, first, last, FALSE)

(* An interval held by a canonical list lies in one of its ranges, and the  *)
(* walk of remove reaches that range.                                       *)
LEMMA HeldByOneRange ==
  ASSUME IInv, MaxArg < MaxNumber,
         NEW first \in Arg, NEW last \in Arg, first <= last,
         first .. last \subseteq Elements(list)
  PROVE  \E i \in 1..Len(list) :
           RemoveWalkReaches(i, first, last) /\ Holds(i, first, last)
<1>1. list \in Seq(RangeRecord) /\ Canonical(list)
  BY Numbers DEF IInv
<1>2. first \in Nat /\ last \in Nat /\ first \in first .. last
  BY Numbers DEF IInv
<1>3. PICK i \in 1..Len(list) : first \in list[i].first .. list[i].last
  BY <1>1, <1>2, ElementsOf
<1>4. list[i].first \in Nat /\ list[i].last \in Nat
  BY Numbers DEF IInv
<1>5. last <= list[i].last
  <2> SUFFICES ASSUME last > list[i].last PROVE FALSE
    BY <1>2, <1>4
  <2>1. list[i].last + 1 \in first .. last
    BY <1>2, <1>3, <1>4
  <2>2. PICK k \in 1..Len(list) : list[i].last + 1 \in list[k].first .. list[k].last
    BY <1>1, <2>1, ElementsOf
  <2>3. list[k].first \in Nat /\ list[k].last \in Nat
    BY Numbers DEF IInv
  <2>4. /\ i < k => list[i].first > list[k].last + 1
        /\ k < i => list[k].first > list[i].last + 1
        /\ list[i].first <= list[i].last
    BY <1>1 DEF Canonical
  <2>. QED  BY <1>4, <2>2, <2>3, <2>4
<1>6. Holds(i, first, last)
  BY <1>2, <1>3, <1>4, <1>5 DEF Holds
<1>7. RemoveWalkReaches(i, first, last)
  <2> SUFFICES ASSUME NEW j \in 1..(i - 1)
               PROVE  ~Holds(j, first, last) /\ first <= list[j].last
    BY DEF RemoveWalkReaches
  <2>1. /\ j \in 1..Len(list)
        /\ list[j].first > list[i].last + 1 /\ list[j].first <= list[j].last
    BY <1>1 DEF Canonical
  <2>2. list[j].first \in Nat /\ list[j].last \in Nat
    BY <2>1, Numbers DEF IInv
  <2>. QED  BY <1>2, <1>3, <1>4, <2>1, <2>2 DEF Holds
<1>. QED  BY <1>6, <1>7

(* A part of a range may take its place.                                    *)
LEMMA ShrinkRange ==
  ASSUME IInv, MaxArg < MaxNumber,
         NEW i \in 1..Len(list), NEW last \in Arg, NEW first \in Arg,
         list[i].first <= first, first <= last, last <= list[i].last
  PROVE  LET t == [list EXCEPT ![i] = NumRange(last, first)]
         IN  /\ t \in Seq(RangeRecord) /\ Canonical(t)
             /\ \A x : x \in Elements(t) <=>
                     \/ x \in first .. last
                     \/ x \in Elements(list) /\ x \notin list[i].first .. list[i].last
<1> DEFINE r == NumRange(last, first)
<1>1. list \in Seq(RangeRecord) /\ Canonical(list)
  BY Numbers DEF IInv
<1>2. r \in RangeRecord /\ r.first = first /\ r.last = last
  BY DEF NumRange, RangeRecord
<1> HIDE DEF r
<1>3. /\ first \in Nat /\ last \in Nat
      /\ list[i].first \in Nat /\ list[i].last \in Nat
  BY Numbers DEF IInv
<1>4. ASSUME NEW j \in 1..(i - 1)
      PROVE  list[j].first > r.last + 1
  <2>1. j \in 1..Len(list) /\ list[j].first > list[i].last + 1
    BY <1>1 DEF Canonical
  <2>2. list[j].first \in Nat
    BY <2>1, Numbers DEF IInv
  <2>. QED  BY <1>2, <1>3, <2>1, <2>2, SMTT(30)
<1>5. ASSUME NEW j \in (i + 1)..Len(list)
      PROVE  r.first > list[j].last + 1
  <2>1. j \in 1..Len(list) /\ list[i].first > list[j].last + 1
    BY <1>1 DEF Canonical
  <2>2. list[j].last \in Nat
    BY <2>1, Numbers DEF IInv
  <2>. QED  BY <1>2, <1>3, <2>1, <2>2
<1>6. r.first <= r.last
  BY <1>2
<1>7. LET t == [list EXCEPT ![i] = r]
      IN  /\ t \in Seq(RangeRecord) /\ Canonical(t)
          /\ \A x : x \in Elements(t) <=>
                  \/ x \in r.first .. r.last
                  \/ x \in Elements(list) /\ x \notin list[i].first .. list[i].last
  BY ONLY i \in 1..Len(list), <1>1, <1>2, <1>4, <1>5, <1>6, ReplaceCanonical
<1>. QED  BY <1>2, <1>7 DEF r

(* Cutting first..last out of the range that holds it.                      *)
LEMMA CutResult ==
  ASSUME IInv, MaxArg < MaxNumber,
         NEW op \in {"removeRange", "remove"},
         NEW first \in Arg, NEW last \in Arg, first <= last,
         NEW i \in 1..Len(list), Holds(i, first, last),
         Accept(op, first, last),
         \/ RemoveWhole(i, first, last)
         \/ RemoveTop(i, first, last)
         \/ RemoveBottom(i, first, last)
         \/ RemoveMiddle(i, first, last)
  PROVE  RemoveResult(op, first, last)
<1>0. list \in Seq(RangeRecord) /\ Canonical(list) /\ DOMAIN list = 1..Len(list)
  BY Numbers DEF IInv
<1>1. /\ i \in 1..Len(list)
      /\ list[i].first <= first /\ first <= last /\ last <= list[i].last
  BY <1>0 DEF Holds
<1>2. /\ first \in Nat /\ last \in Nat
      /\ list[i].first \in Nat /\ list[i].last \in Nat
      /\ list[i].first \in Arg /\ list[i].last \in Arg
  BY <1>1, Numbers DEF IInv
<1>3. \A x \in list[i].first .. list[i].last : x \in Elements(list)
  BY <1>0, <1>1, ElementsOf
<1>4. first .. last \subseteq Elements(list)
  BY <1>1, <1>2, <1>3
<1>5. first > list[i].first => Pred(first) = first - 1 /\ Pred(first) \in Arg
  <2> SUFFICES ASSUME first > list[i].first
               PROVE  Pred(first) = first - 1 /\ Pred(first) \in Arg
    OBVIOUS
  <2>1. first > 0
    BY <1>2
  <2>. QED  BY <2>1, Numbers DEF IInv
<1>6. last < list[i].last => Succ(last) = last + 1 /\ Succ(last) \in Arg
  <2>1. Succ(last) = last + 1
    BY Numbers DEF IInv
  <2>. QED  BY <1>2, <2>1, BoundsAssumption DEF Arg
<1>7. SUFFICES /\ list' \in Seq(RangeRecord) /\ Canonical(list')
               /\ Elements(list') = Elements(list) \ (first .. last)
  BY <1>4 DEF RemoveResult, Accept
<1>8. CASE RemoveWhole(i, first, last)
  <2>1. list[i].first = first /\ list[i].last = last
    BY <1>8 DEF RemoveWhole, NumRange
  <2>2. /\ list' \in Seq(RangeRecord) /\ Canonical(list')
        /\ \A x : x \in Elements(list') <=>
              x \in Elements(list) /\ x \notin list[i].first .. list[i].last
    BY <1>0, <1>1, <1>8, RemoveAtCanonical DEF RemoveWhole
  <2>. QED  BY <2>1, <2>2
<1>9. CASE RemoveTop(i, first, last)
  <2>1. /\ last = list[i].last /\ first > list[i].first
        /\ list' = [list EXCEPT ![i] = NumRange(first - 1, list[i].first)]
        /\ first - 1 \in Arg
    BY <1>1, <1>5, <1>9, ReplaceBy DEF RemoveTop
  <2>2. /\ list[i].first <= list[i].first /\ list[i].first <= first - 1
        /\ first - 1 <= list[i].last
    BY <1>1, <1>2, <2>1
  <2>3. /\ list' \in Seq(RangeRecord) /\ Canonical(list')
        /\ \A x : x \in Elements(list') <=>
                \/ x \in list[i].first .. (first - 1)
                \/ x \in Elements(list) /\ x \notin list[i].first .. list[i].last
    BY <1>1, <1>2, <2>1, <2>2, ShrinkRange
  <2>4. \A x : x \in list[i].first .. (first - 1) <=>
                x \in list[i].first .. list[i].last /\ x \notin first .. last
    BY <1>1, <1>2, <2>1
  <2>5. \A x : x \in first .. last => x \in list[i].first .. list[i].last
    BY <1>1, <1>2
  <2>. QED  BY <1>3, <2>3, <2>4, <2>5
<1>10. CASE RemoveBottom(i, first, last)
  <2>1. /\ first = list[i].first /\ last < list[i].last
        /\ list' = [list EXCEPT ![i] = NumRange(list[i].last, last + 1)]
        /\ last + 1 \in Arg
    <3>1. /\ first = list[i].first /\ last < list[i].last
          /\ list' = [list EXCEPT ![i].first = last + 1]
          /\ last + 1 \in Arg
      BY <1>6, <1>10 DEF RemoveBottom
    <3>. QED  BY <1>1, <1>2, <3>1, ReplaceBy
  <2>2. /\ list[i].first <= last + 1 /\ last + 1 <= list[i].last
        /\ list[i].last <= list[i].last
    BY <1>1, <1>2, <2>1
  <2>3. /\ list' \in Seq(RangeRecord) /\ Canonical(list')
        /\ \A x : x \in Elements(list') <=>
                \/ x \in (last + 1) .. list[i].last
                \/ x \in Elements(list) /\ x \notin list[i].first .. list[i].last
    BY <1>1, <1>2, <2>1, <2>2, ShrinkRange
  <2>4. \A x : x \in (last + 1) .. list[i].last <=>
                x \in list[i].first .. list[i].last /\ x \notin first .. last
    BY <1>1, <1>2, <2>1
  <2>5. \A x : x \in first .. last => x \in list[i].first .. list[i].last
    BY <1>1, <1>2
  <2>. QED  BY <1>3, <2>3, <2>4, <2>5
<1>11. CASE RemoveMiddle(i, first, last)
  <2> DEFINE upper == [list EXCEPT ![i] = NumRange(list[i].last, last + 1)]
             r == NumRange(first - 1, list[i].first)
  <2>1. /\ first > list[i].first /\ last < list[i].last
        /\ list' = InsertAt(upper, i + 1, r)
        /\ first - 1 \in Arg /\ last + 1 \in Arg
    <3>1. /\ first > list[i].first /\ last < list[i].last
          /\ list' = InsertAt([list EXCEPT ![i].first = Succ(last)], i + 1,
                              NumRange(Pred(first), list[i].first))
      BY <1>11 DEF RemoveMiddle
    <3>2. /\ Pred(first) = first - 1 /\ first - 1 \in Arg
          /\ Succ(last) = last + 1 /\ last + 1 \in Arg
      BY <1>5, <1>6, <3>1
    <3>3. [list EXCEPT ![i].first = last + 1] = upper
      BY <1>1, <3>2, ReplaceBy
    <3>. QED  BY <3>1, <3>2, <3>3
  <2>2. /\ list[i].first <= last + 1 /\ last + 1 <= list[i].last
        /\ list[i].last <= list[i].last
    BY <1>1, <1>2, <2>1
  <2>3. /\ upper \in Seq(RangeRecord) /\ Canonical(upper)
        /\ \A x : x \in Elements(upper) <=>
                \/ x \in (last + 1) .. list[i].last
                \/ x \in Elements(list) /\ x \notin list[i].first .. list[i].last
    BY <1>1, <1>2, <2>1, <2>2, ShrinkRange
  <2>4. /\ Len(upper) = Len(list)
        /\ upper[i] = NumRange(list[i].last, last + 1)
        /\ \A j \in 1..Len(list) : j # i => upper[j] = list[j]
    BY <1>0, <1>1
  <2>5. r \in RangeRecord /\ r.first = list[i].first /\ r.last = first - 1
    BY <1>2, <2>1 DEF NumRange, RangeRecord
  <2> HIDE DEF upper, r
  <2>6. upper[i].first = last + 1 /\ r.first <= r.last /\ upper[i].first > r.last + 1
    BY <1>1, <1>2, <2>1, <2>4, <2>5 DEF NumRange
  <2>7. ASSUME NEW j \in 1..i
        PROVE  upper[j].first > r.last + 1
    <3>1. CASE j = i
      BY <2>6, <3>1
    <3>2. CASE j < i
      <4>1. /\ j \in 1..Len(list) /\ upper[j].first = list[j].first
            /\ list[j].first > list[i].last + 1
        BY <1>0, <1>1, <2>4, <3>2 DEF Canonical
      <4>2. list[j].first \in Nat
        BY <4>1, Numbers DEF IInv
      <4>. QED  BY <1>1, <1>2, <2>5, <4>1, <4>2
    <3>. QED  BY <1>1, <3>1, <3>2
  <2>8. ASSUME NEW j \in (i + 1)..Len(upper)
        PROVE  r.first > upper[j].last + 1
    <3>1. /\ j \in 1..Len(list) /\ upper[j] = list[j]
          /\ list[i].first > list[j].last + 1
      BY <1>0, <1>1, <2>4 DEF Canonical
    <3>. QED  BY <2>5, <3>1
  <2>9. i + 1 \in 1..(Len(upper) + 1) /\ \A j \in 1..((i + 1) - 1) : j \in 1..i
    BY <1>0, <1>1, <2>4
  <2>10. /\ list' \in Seq(RangeRecord) /\ Canonical(list')
         /\ Elements(list') = Elements(upper) \cup (r.first .. r.last)
    BY ONLY <2>1, <2>3, <2>5, <2>6, <2>7, <2>8, <2>9, InsertAtCanonical
  <2>11. \A x : (x \in (last + 1) .. list[i].last \/ x \in r.first .. r.last) <=>
                x \in list[i].first .. list[i].last /\ x \notin first .. last
    BY <1>1, <1>2, <2>1, <2>5
  <2>12. \A x : x \in first .. last => x \in list[i].first .. list[i].last
    BY <1>1, <1>2
  <2>. QED  BY <1>3, <2>3, <2>10, <2>11, <2>12
<1>. QED  BY <1>8, <1>9, <1>10, <1>11

(* Every removal of an interval keeps the list canonical and is the set's   *)
(* removal.                                                                 *)
LEMMA RemoveStep ==
  ASSUME IInv, MaxArg < MaxNumber,
         NEW first \in Arg, NEW last \in Arg, first <= last,
         RemoveRange(first, last)
  PROVE  RemoveResult("removeRange", first, last)
<1>1. list \in Seq(RangeRecord) /\ Canonical(list) /\ DOMAIN list = 1..Len(list)
  BY Numbers DEF IInv
<1>2. CASE /\ \A i \in DOMAIN list :
                 RemoveWalkReaches(i, first, last) => ~Holds(i, first, last)
           /\ Refuse("removeRange", first, last)
  <2>1. ~(first .. last \subseteq Elements(list))
    BY <1>1, <1>2, HeldByOneRange
  <2>. QED  BY <1>1, <1>2, <2>1 DEF RemoveResult, Refuse
<1>3. ASSUME NEW i \in DOMAIN list, Holds(i, first, last),
             Accept("removeRange", first, last),
             \/ RemoveWhole(i, first, last)
             \/ RemoveTop(i, first, last)
             \/ RemoveBottom(i, first, last)
             \/ RemoveMiddle(i, first, last)
      PROVE  RemoveResult("removeRange", first, last)
  <2>1. i \in 1..Len(list)
    BY <1>1
  <2>. QED  BY <1>3, <2>1, CutResult
<1>. QED  BY <1>2, <1>3 DEF RemoveRange

(* A number that a walk passed above, and that lies above the next range,   *)
(* is not held.                                                             *)
LEMMA BetweenRanges ==
  ASSUME IInv, MaxArg < MaxNumber, NEW n \in Arg,
         NEW i \in 1..(Len(list) + 1),
         \A j \in 1..(i - 1) : n < list[j].first,
         i <= Len(list) => n > list[i].last
  PROVE  n \notin Elements(list)
<1>1. list \in Seq(RangeRecord) /\ Canonical(list)
  BY Numbers DEF IInv
<1>2. ASSUME NEW k \in 1..Len(list)
      PROVE  n \notin list[k].first .. list[k].last
  <2>1. /\ list[k].first \in Nat /\ list[k].last \in Nat /\ n \in Nat
        /\ i <= Len(list) => list[i].last \in Nat /\ list[i].first \in Nat
    BY SMTT(30), Numbers DEF IInv
  <2>2. CASE k < i
    BY <1>2, <2>1, <2>2
  <2>3. CASE k = i
    BY <1>2, <2>1, <2>3
  <2>4. CASE k > i
    <3>1. i \in 1..Len(list) /\ list[i].first > list[k].last + 1
      BY <1>1, <2>4 DEF Canonical
    <3>2. list[i].first <= list[i].last
      BY <1>1, <3>1 DEF Canonical
    <3>. QED  BY <2>1, <3>1, <3>2
  <2>. QED  BY <2>2, <2>3, <2>4
<1>. QED  BY <1>1, <1>2, ElementsOf

(* remove(n), of a number that shares its range with another, is a cut of   *)
(* one number or is refused.                                                *)
LEMMA RemoveOneStep ==
  ASSUME IInv, MaxArg < MaxNumber, NEW n \in Arg, ~HeldAlone(n), RemoveOne(n)
  PROVE  RemoveResult("remove", n, n)
<1>1. list \in Seq(RangeRecord) /\ Canonical(list) /\ DOMAIN list = 1..Len(list)
  BY Numbers DEF IInv
<1>2. n \in Nat /\ n <= n /\ n \in n .. n /\ Len(list) \in Nat
  BY <1>1, Numbers DEF IInv
<1>3. ASSUME NEW i \in 1..(Len(list) + 1),
             \A j \in 1..(i - 1) : ~RemoveOneStops(j, n),
             i <= Len(list) => n > list[i].last,
             Refuse("remove", n, n)
      PROVE  RemoveResult("remove", n, n)
  <2>1. ASSUME NEW j \in 1..(i - 1)
        PROVE  n < list[j].first
    <3>1. j \in 1..Len(list) /\ ~(n >= list[j].first)
      BY <1>2, <1>3, <2>1 DEF RemoveOneStops
    <3>2. list[j].first \in Nat
      BY <3>1, Numbers DEF IInv
    <3>. QED  BY <1>2, <3>1, <3>2
  <2>2. n \notin Elements(list)
    BY <1>3, <2>1, BetweenRanges
  <2>. QED  BY <1>1, <1>2, <1>3, <2>2 DEF RemoveResult, Refuse
<1>4. ASSUME NEW i \in 1..Len(list),
             \A j \in 1..(i - 1) : ~RemoveOneStops(j, n),
             RemoveOneAt(i, n)
      PROVE  RemoveResult("remove", n, n)
  <2>1. /\ list[i] \in RangeRecord /\ list[i].first <= list[i].last
        /\ list[i].first \in Nat /\ list[i].last \in Nat
    BY <1>1, Numbers DEF IInv, Canonical
  <2>2. ~(list[i].first = n /\ list[i].last = n)
    <3>1. list[i].first = n /\ list[i].last = n => list[i] = NumRange(n, n)
      BY <2>1 DEF RangeRecord, NumRange
    <3>. QED  BY <1>1, <3>1 DEF HeldAlone
  <2>3. CASE /\ n = list[i].last
             /\ list' = [list EXCEPT ![i].last = Pred(n)]
             /\ Accept("remove", n, n)
    <3>1. Holds(i, n, n) /\ RemoveTop(i, n, n)
      BY <1>2, <2>1, <2>2, <2>3 DEF Holds, RemoveTop
    <3>. QED  BY <1>2, <2>3, <3>1, CutResult
  <2>4. CASE /\ n # list[i].last /\ n = list[i].first
             /\ list' = [list EXCEPT ![i].first = Succ(n)]
             /\ Accept("remove", n, n)
    <3>1. Holds(i, n, n) /\ RemoveBottom(i, n, n)
      BY <1>2, <2>1, <2>4 DEF Holds, RemoveBottom
    <3>. QED  BY <1>2, <2>4, <3>1, CutResult
  <2>5. CASE /\ n < list[i].last /\ n > list[i].first
             /\ list' = InsertAt([list EXCEPT ![i].first = Succ(n)], i + 1,
                                 NumRange(Pred(n), list[i].first))
             /\ Accept("remove", n, n)
    <3>1. Holds(i, n, n) /\ RemoveMiddle(i, n, n)
      BY <1>2, <2>1, <2>5 DEF Holds, RemoveMiddle
    <3>. QED  BY <1>2, <2>5, <3>1, CutResult
  <2>6. CASE n > list[i].last /\ n # list[i].first /\ Refuse("remove", n, n)
    BY <1>2, <1>3, <1>4, <2>6
  <2>. QED  BY <1>4, <2>3, <2>4, <2>5, <2>6 DEF RemoveOneAt
<1>5. CASE /\ \A i \in DOMAIN list : ~RemoveOneStops(i, n)
           /\ Refuse("remove", n, n)
  <2>1. /\ Len(list) + 1 \in 1..(Len(list) + 1)
        /\ \A j \in 1..((Len(list) + 1) - 1) : ~RemoveOneStops(j, n)
        /\ ~(Len(list) + 1 <= Len(list))
    BY <1>1, <1>2, <1>5
  <2>. QED  BY <1>3, <1>5, <2>1
<1>. QED  BY <1>1, <1>4, <1>5 DEF RemoveOne

-----------------------------------------------------------------------------
(* A canonical list and an answer are all that the invariant asks for.      *)
LEMMA InvariantAfter ==
  ASSUME list' \in Seq(RangeRecord), Canonical(list'),
         NEW op \in {"insertRange", "insert", "removeRange", "remove"},
         NEW first \in Arg, NEW last \in Arg,
         Answer(op, first, last, TRUE) \/ Answer(op, first, last, FALSE)
  PROVE  IInv'
<1>1. reply' \in [op : {"none", "insertRange", "insert", "removeRange", "remove",
                      "clear"},
                 first : Arg, last : Arg, ok : BOOLEAN]
  <2>1. PICK ok \in BOOLEAN :
          reply' = [op |-> op, first |-> first, last |-> last, ok |-> ok]
    BY Zenon DEF Answer
  <2>. QED  BY <2>1
<1>2. TypeOK'
  BY <1>1 DEF TypeOK, RangeRecord
<1>3. Canonical(list)'
  BY DEF Canonical
<1>. QED  BY <1>2, <1>3 DEF IInv

(* The list is a descending sequence of separated ranges after any sequence of*)
(* calls with numbers below the top of the type (SkipList.t.h:161-400).     *)
THEOREM CanonicalInvariant ==
  ASSUME MaxArg < MaxNumber
  PROVE  Spec => []IInv
<1>1. Init => IInv
  <2> SUFFICES ASSUME Init PROVE IInv
    OBVIOUS
  <2>1. list = <<>> /\ 0 \in Arg
    BY BoundsAssumption DEF Init, Arg
  <2>. QED  BY <2>1 DEF Init, IInv, TypeOK, Canonical
<1>2. IInv /\ [Next]_vars => IInv'
  <2> SUFFICES ASSUME IInv, [Next]_vars PROVE IInv'
    OBVIOUS
  <2>1. ASSUME NEW first \in Arg, NEW last \in Arg, InsertRange(first, last)
        PROVE  IInv'
    <3>1. InsertResult("insertRange", first, last)
      BY <2>1, InsertStep DEF InsertRange
    <3>. QED  BY <3>1, InvariantAfter DEF InsertResult
  <2>2. ASSUME NEW n \in Arg, InsertOne(n)
        PROVE  IInv'
    <3>1. InsertResult("insert", n, n)
      BY <2>2, InsertStep DEF InsertOne
    <3>. QED  BY <3>1, InvariantAfter DEF InsertResult
  <2>3. ASSUME NEW first \in Arg, NEW last \in Arg, first <= last,
               RemoveRange(first, last)
        PROVE  IInv'
    <3>1. RemoveResult("removeRange", first, last)
      BY <2>3, RemoveStep
    <3>. QED  BY <3>1, InvariantAfter DEF RemoveResult
  <2>4. ASSUME NEW n \in Arg, ~HeldAlone(n), RemoveOne(n)
        PROVE  IInv'
    <3>1. RemoveResult("remove", n, n)
      BY <2>4, RemoveOneStep
    <3>. QED  BY <3>1, InvariantAfter DEF RemoveResult
  <2>5. CASE Clear
    <3>1. list' = <<>> /\ 0 \in Arg
      BY <2>5, BoundsAssumption DEF Clear, Arg
    <3>. QED  BY <2>5, <3>1 DEF Clear, Accept, Answer, IInv, TypeOK, Canonical
  <2>6. CASE UNCHANGED vars
    BY <2>6 DEF vars, IInv, TypeOK, Canonical
  <2>. QED  BY <2>1, <2>2, <2>3, <2>4, <2>5, <2>6 DEF Next
<1>. QED  BY <1>1, <1>2, PTL DEF Spec

(* The list holds numbers that callers passed, whatever was joined or split *)
(* (SkipList.t.h:161-400).                                                  *)
THEOREM TypeInvariant ==
  ASSUME MaxArg < MaxNumber
  PROVE  Spec => []TypeOK
<1>1. IInv => TypeOK
  BY DEF IInv
<1>. QED  BY <1>1, CanonicalInvariant, PTL

(* integrityCheck (SkipList.t.h:62-80) accepts the list after any sequence of*)
(* calls, as long as no caller passes the greatest number of the type.      *)
THEOREM IntegrityInvariant ==
  ASSUME MaxArg < MaxNumber
  PROVE  Spec => []Integrity
<1>1. IInv => Integrity
  <2> SUFFICES ASSUME IInv, NEW i \in DOMAIN list
               PROVE  /\ list[i].first <= list[i].last
                      /\ i < Len(list) => list[i].first > list[i + 1].last + 1
    BY DEF Integrity
  <2>1. i \in 1..Len(list) /\ (i < Len(list) => i + 1 \in 1..Len(list) /\ i < i + 1)
    BY DEF IInv, TypeOK
  <2>. QED  BY <2>1 DEF IInv, Canonical
<1>. QED  BY <1>1, CanonicalInvariant, PTL

(* The walk of has(first, last) misses no overlapping range.                *)
LEMMA HasRangeExact ==
  ASSUME IInv, MaxArg < MaxNumber,
         NEW first \in Arg, NEW last \in Arg, first <= last
  PROVE  HasRange(list, first, last) <=> Elements(list) \cap (first .. last) # {}
<1>1. list \in Seq(RangeRecord) /\ Canonical(list) /\ DOMAIN list = 1..Len(list)
  BY Numbers DEF IInv
<1>2. ASSUME HasRange(list, first, last)
      PROVE  Elements(list) \cap (first .. last) # {}
  <2>1. PICK i \in 1..Len(list) : Overlaps(list[i], first, last)
    BY <1>1, <1>2 DEF HasRange
  <2>2. list[i] \in RangeRecord /\ list[i].first <= list[i].last
    BY <1>1 DEF Canonical
  <2>3. PICK x : x \in (list[i].first .. list[i].last) \cap (first .. last)
    BY <2>1, <2>2, OverlapsIsIntersection
  <2>. QED  BY <1>1, <2>3, ElementsOf
<1>3. ASSUME NEW x \in Elements(list), x \in first .. last
      PROVE  HasRange(list, first, last)
  <2>1. PICK i \in 1..Len(list) : x \in list[i].first .. list[i].last
    BY <1>1, ElementsOf
  <2>2. /\ list[i] \in RangeRecord /\ list[i].first <= list[i].last
        /\ list[i].first \in Nat /\ list[i].last \in Nat /\ first \in Nat
    BY <1>1, Numbers DEF Canonical, IInv
  <2>3. Overlaps(list[i], first, last)
    BY <1>3, <2>1, <2>2, OverlapsIsIntersection
  <2>4. ASSUME NEW j \in 1..(i - 1)
        PROVE  first <= list[j].last
    <3>1. /\ j \in 1..Len(list)
          /\ list[j].first > list[i].last + 1 /\ list[j].first <= list[j].last
      BY <1>1 DEF Canonical
    <3>2. list[j].first \in Nat /\ list[j].last \in Nat
      BY <3>1, Numbers DEF IInv
    <3>. QED  BY <1>3, <2>1, <2>2, <3>1, <3>2
  <2>. QED  BY <1>1, <2>3, <2>4 DEF HasRange, Met
<1>. QED  BY <1>2, <1>3

(* The queries of a list that any calls produced answer for the set of numbers*)
(* it holds, although they stop at the first range below what they seek     *)
(* (SkipList.t.h:105-159).                                                  *)
THEOREM QueriesInvariant ==
  ASSUME MaxArg < MaxNumber
  PROVE  Spec => []QueriesExact
<1>1. IInv => QueriesExact
  <2> SUFFICES ASSUME IInv, NEW first \in Arg, NEW last \in Arg, first <= last
               PROVE  /\ HasRange(list, first, last)
                            <=> Elements(list) \cap (first..last) # {}
                      /\ HasAll(list, first, last)
                            <=> first..last \subseteq Elements(list)
                      /\ Has(list, first) <=> first \in Elements(list)
    BY DEF QueriesExact
  <2>1. list \in Seq(RangeRecord) /\ DOMAIN list = 1..Len(list)
    BY Numbers DEF IInv
  <2>2. first \in Nat /\ last \in Nat
    BY Numbers DEF IInv
  <2>3. ASSUME HasAll(list, first, last)
        PROVE  first..last \subseteq Elements(list)
    <3>1. PICK i \in 1..Len(list) : list[i].last >= last /\ list[i].first <= first
      BY <2>1, <2>3 DEF HasAll
    <3>2. list[i].first \in Nat /\ list[i].last \in Nat
      BY Numbers DEF IInv
    <3>3. \A x \in first..last : x \in list[i].first .. list[i].last
      BY <2>2, <3>1, <3>2
    <3>. QED  BY <2>1, <3>3, ElementsOf
  <2>4. ASSUME first..last \subseteq Elements(list)
        PROVE  HasAll(list, first, last)
    <3>1. PICK i \in 1..Len(list) :
            RemoveWalkReaches(i, first, last) /\ Holds(i, first, last)
      BY <2>4, HeldByOneRange
    <3>2. list[i].first \in Nat /\ list[i].last \in Nat
      BY Numbers DEF IInv
    <3>. QED  BY <2>1, <2>2, <3>1, <3>2 DEF HasAll, Met, RemoveWalkReaches, Holds
  <2>5. HasRange(list, first, first) <=> first \in Elements(list)
    <3>1. \A x : x \in first .. first <=> x = first
      BY <2>2
    <3>. QED  BY <2>2, <3>1, HasRangeExact
  <2>6. Has(list, first) <=> HasRange(list, first, first)
    <3>1. \A i \in 1..Len(list) :
            Within(first, list[i]) <=> Overlaps(list[i], first, first)
      <4> SUFFICES ASSUME NEW i \in 1..Len(list)
                   PROVE  Within(first, list[i]) <=> Overlaps(list[i], first, first)
        OBVIOUS
      <4>1. /\ list[i].first \in Nat /\ list[i].last \in Nat
            /\ list[i].first <= list[i].last
        BY Numbers DEF IInv, Canonical
      <4>2. Within(first, list[i]) => Overlaps(list[i], first, first)
        BY <2>2, <4>1 DEF Within, Overlaps
      <4>3. Overlaps(list[i], first, first) => Within(first, list[i])
        BY <2>2, <4>1 DEF Within, Overlaps
      <4>. QED  BY <4>2, <4>3
    <3>. QED  BY <2>1, <3>1 DEF Has, HasRange
  <2>. QED  BY <2>3, <2>4, <2>5, <2>6, HasRangeExact
<1>. QED  BY <1>1, CanonicalInvariant, PTL

-----------------------------------------------------------------------------
(* What forRange makes of a range: nothing if it is apart, and otherwise    *)
(* what it shares with first..last.                                         *)
Shared(q, r, first, last) ==
  /\ q \in RangeRecord /\ q.first <= q.last
  /\ r.first <= q.first /\ q.last <= r.last
  /\ \A x \in Int : (q.first <= x /\ x <= q.last) <=>
                    (r.first <= x /\ x <= r.last /\ first <= x /\ x <= last)

Apart(r, first, last) == r.last < first \/ last < r.first

ClipResult(r, first, last) ==
  \/ Clip(r, first, last) = <<>> /\ Apart(r, first, last)
  \/ \E q \in RangeRecord : Clip(r, first, last) = <<q>> /\ Shared(q, r, first, last)

LEMMA RecordNumbers ==
  ASSUME NEW r \in RangeRecord
  PROVE  /\ r.first \in Arg /\ r.last \in Arg /\ r.first \in Nat /\ r.last \in Nat
         /\ r = NumRange(r.last, r.first)
  BY BoundsAssumption DEF RangeRecord, Arg, NumRange

LEMMA ClipShares ==
  ASSUME NEW r \in RangeRecord, r.first <= r.last,
         NEW first \in Arg, NEW last \in Arg, first <= last
  PROVE  ClipResult(r, first, last)
<1>1. /\ r.first \in Int /\ r.last \in Int /\ first \in Int /\ last \in Int
      /\ r.first \in Arg /\ r.last \in Arg /\ r = NumRange(r.last, r.first)
  BY RecordNumbers, BoundsAssumption DEF Arg
<1>2. \A a \in Arg, b \in Arg : /\ NumRange(b, a) \in RangeRecord
                               /\ NumRange(b, a).first = a /\ NumRange(b, a).last = b
  BY DEF NumRange, RangeRecord
<1>3. CASE first >= r.first /\ last <= r.last
  <2>1. Clip(r, first, last) = <<NumRange(last, first)>>
    BY <1>1, <1>3 DEF Clip
  <2>2. Shared(NumRange(last, first), r, first, last)
    BY <1>1, <1>2, <1>3 DEF Shared
  <2>. QED  BY <1>2, <2>1, <2>2 DEF ClipResult
<1>4. CASE ~(first >= r.first /\ last <= r.last) /\ first <= r.first /\ last >= r.last
  <2>1. Clip(r, first, last) = <<r>>
    BY <1>1, <1>4 DEF Clip
  <2>2. Shared(r, r, first, last)
    BY <1>1, <1>4 DEF Shared
  <2>. QED  BY <2>1, <2>2 DEF ClipResult
<1>5. CASE first > r.first /\ first <= r.last /\ last > r.last
  <2>1. Clip(r, first, last) = <<NumRange(r.last, first)>>
    BY <1>1, <1>5 DEF Clip
  <2>2. Shared(NumRange(r.last, first), r, first, last)
    BY <1>1, <1>2, <1>5 DEF Shared
  <2>. QED  BY <1>1, <1>2, <2>1, <2>2 DEF ClipResult
<1>6. CASE first < r.first /\ last >= r.first /\ last < r.last
  <2>1. Clip(r, first, last) = <<NumRange(last, r.first)>>
    BY <1>1, <1>6 DEF Clip
  <2>2. Shared(NumRange(last, r.first), r, first, last)
    BY <1>1, <1>2, <1>6 DEF Shared
  <2>. QED  BY <1>1, <1>2, <2>1, <2>2 DEF ClipResult
<1>7. CASE Apart(r, first, last)
  <2>1. Clip(r, first, last) = <<>>
    BY <1>1, <1>7 DEF Clip, Apart
  <2>. QED  BY <1>7, <2>1 DEF ClipResult
<1>. QED  BY <1>1, <1>3, <1>4, <1>5, <1>6, <1>7 DEF Apart

(* The walk of forRange ends only where no range below is in first..last.   *)
LEMMA ReachedAll ==
  ASSUME NEW s \in Seq(RangeRecord), Canonical(s), NEW i \in 1..Len(s),
         NEW first \in Arg, NEW last \in Arg, first <= last
  PROVE  ClipReached(s, i, first, last) = Clip(s[i], first, last)
<1>1. SUFFICES ASSUME NEW j \in 1..(i - 1), ClipStops(s[j], first, last)
               PROVE  Clip(s[i], first, last) = <<>>
  BY DEF ClipReached
<1>2. /\ j \in 1..Len(s) /\ s[j] \in RangeRecord /\ s[i] \in RangeRecord
      /\ s[j].first <= s[j].last /\ s[i].first <= s[i].last
      /\ s[j].first > s[i].last + 1
  BY DEF Canonical
<1>3. /\ {first, last, s[i].first, s[i].last, s[j].first, s[j].last} \subseteq Nat
      /\ s[i].last \in Nat /\ first \in Nat /\ last \in Nat
  BY <1>2, RecordNumbers, BoundsAssumption DEF Arg
<1>4. Clip(s[j], first, last) = <<>> /\ last >= s[j].last
  BY <1>1 DEF ClipStops
<1>5. ClipResult(s[j], first, last) /\ ClipResult(s[i], first, last)
  BY <1>2, ClipShares
<1>6. Apart(s[j], first, last)
  <2>1. \A q : <<>> # <<q>>
    OBVIOUS
  <2>. QED  BY <1>4, <1>5, <2>1 DEF ClipResult
<1>7. s[j].last < first
  BY <1>2, <1>3, <1>4, <1>6 DEF Apart
<1>8. s[i].last < first
  BY <1>2, <1>3, <1>7
<1>9. \A q \in RangeRecord : ~Shared(q, s[i], first, last)
  <2> SUFFICES ASSUME NEW q \in RangeRecord, Shared(q, s[i], first, last)
               PROVE  FALSE
    OBVIOUS
  <2>1. PICK x \in Nat : x = q.first /\ q.last \in Nat
    BY RecordNumbers
  <2>2. first <= x /\ x <= s[i].last
    BY <2>1 DEF Shared
  <2>. QED  BY <1>3, <1>8, <2>2
<1>. QED  BY <1>5, <1>9 DEF ClipResult

(* What the first n ranges give: ranges with gaps, which hold the numbers   *)
(* of first..last that those n ranges hold.                                 *)
ClippedTo(c, s, n, first, last) ==
  /\ c \in Seq(RangeRecord) /\ Canonical(c)
  /\ \A x \in Int : (\E k \in 1..Len(c) : c[k].first <= x /\ x <= c[k].last) <=>
       (first <= x /\ x <= last /\ \E i \in 1..n : s[i].first <= x /\ x <= s[i].last)

(* One more range of a canonical list keeps it so.                          *)
LEMMA ClipOneMore ==
  ASSUME NEW s \in Seq(RangeRecord), Canonical(s), NEW n \in 1..Len(s),
         NEW first \in Arg, NEW last \in Arg, first <= last,
         NEW c, ClippedTo(c, s, n - 1, first, last)
  PROVE  ClippedTo(c \o Clip(s[n], first, last), s, n, first, last)
<1>0. PICK m \in Nat : m = n - 1
  OBVIOUS
<1>1. /\ s[n] \in RangeRecord /\ s[n].first <= s[n].last /\ n \in Nat /\ n = m + 1
      /\ \A x : (\E i \in 1..n : s[i].first <= x /\ x <= s[i].last) <=>
               ((\E i \in 1..m : s[i].first <= x /\ x <= s[i].last) \/ (s[n].first <= x /\ x <= s[n].last))
  <2>1. s[n] \in RangeRecord /\ s[n].first <= s[n].last /\ n \in Nat /\ n = m + 1
    BY <1>0 DEF Canonical
  <2>2. \A i : i \in 1..n <=> i \in 1..m \/ i = n
    BY <1>0
  <2>. QED  BY <2>1, <2>2
<1>2. /\ c \in Seq(RangeRecord) /\ Canonical(c) /\ Len(c) \in Nat
      /\ \A x \in Int : (\E k \in 1..Len(c) : c[k].first <= x /\ x <= c[k].last) <=>
           (first <= x /\ x <= last /\ \E i \in 1..m : s[i].first <= x /\ x <= s[i].last)
  <2>1. ClippedTo(c, s, m, first, last)
    BY <1>0, Zenon
  <2>2. c \in Seq(RangeRecord)
    BY <2>1, Zenon DEF ClippedTo
  <2>3. Len(c) \in Nat
    BY <2>2
  <2>. QED  BY <2>1, <2>3, Zenon DEF ClippedTo
<1>3. CASE Clip(s[n], first, last) = <<>> /\ Apart(s[n], first, last)
  <2>1. c \o Clip(s[n], first, last) = c
    BY <1>2, <1>3
  <2>2. \A x \in Int : s[n].first <= x /\ x <= s[n].last => ~(first <= x /\ x <= last)
    BY <1>1, <1>3, BoundsAssumption, SMTT(30) DEF Apart, RangeRecord, Arg
  <2>. QED  BY <1>1, <1>2, <2>1, <2>2 DEF ClippedTo
<1>4. ASSUME NEW q \in RangeRecord, Clip(s[n], first, last) = <<q>>, Shared(q, s[n], first, last)
      PROVE  ClippedTo(c \o Clip(s[n], first, last), s, n, first, last)
  <2> DEFINE d == Append(c, q)
  <2>1. c \o Clip(s[n], first, last) = d
    BY <1>2, <1>4
  <2>2. /\ d \in Seq(RangeRecord) /\ Len(d) = Len(c) + 1 /\ d[Len(c) + 1] = q
        /\ \A k \in 1..Len(c) : d[k] = c[k]
    BY <1>2
  <2> HIDE DEF d
  <2>3. ASSUME NEW k \in 1..Len(c)
        PROVE  c[k].first > q.last + 1
    <3>1. c[k] \in RangeRecord /\ c[k].first <= c[k].last
      BY <1>2 DEF Canonical
    <3>2. PICK x \in Int : x = c[k].first /\ c[k].last \in Nat
      BY <3>1, RecordNumbers
    <3>7. \E j \in 1..Len(c) : c[j].first <= x /\ x <= c[j].last
      BY <3>1, <3>2
    <3>8. \E i \in 1..m : s[i].first <= x /\ x <= s[i].last
      BY <1>2, <3>7
    <3>3. PICK i \in 1..m : s[i].first <= x /\ x <= s[i].last
      BY <3>8
    <3>4. i \in 1..Len(s) /\ i < n
      BY <1>0, <1>1
    <3>5. s[i].first > s[n].last + 1 /\ s[i] \in RangeRecord
      BY <3>4 DEF Canonical
    <3>6. /\ s[i].first \in Nat /\ s[n].last \in Nat /\ q.last \in Nat /\ q.last <= s[n].last
          /\ s[i].first <= c[k].first /\ c[k].first \in Nat
      BY <1>1, <1>4, <3>1, <3>2, <3>3, <3>5, RecordNumbers DEF Shared
    <3>9. \A a, b, h, e \in Nat : a > b + 1 /\ e <= b /\ a <= h => h > e + 1
      OBVIOUS
    <3>. QED  BY <3>5, <3>6, <3>9
  <2>4. \A k \in 1..Len(d) : k \in 1..Len(c) \/ k = Len(c) + 1
    BY <1>2, <2>2
  <2>5. Canonical(d)
    <3>1. ASSUME NEW i \in 1..Len(d)
          PROVE  d[i].first <= d[i].last
      BY <1>2, <1>4, <2>2, <2>4 DEF Canonical, Shared
    <3>2. ASSUME NEW i \in 1..Len(d), NEW j \in 1..Len(d), i < j
          PROVE  d[i].first > d[j].last + 1
      <4>1. i \in 1..Len(c)
        BY <1>2, <2>2, <3>2
      <4>2. CASE j = Len(c) + 1
        BY <2>2, <2>3, <4>1, <4>2
      <4>3. CASE j \in 1..Len(c)
        BY <1>2, <2>2, <3>2, <4>1, <4>3 DEF Canonical
      <4>. QED  BY <2>4, <4>2, <4>3
    <3>. QED  BY <3>1, <3>2 DEF Canonical
  <2>6. ASSUME NEW x \in Int
        PROVE  (\E k \in 1..Len(d) : d[k].first <= x /\ x <= d[k].last) <=>
               ((\E k \in 1..Len(c) : c[k].first <= x /\ x <= c[k].last) \/ (q.first <= x /\ x <= q.last))
    <3>1. Len(c) + 1 \in 1..Len(d) /\ \A k \in 1..Len(c) : k \in 1..Len(d)
      BY <1>2, <2>2
    <3>. QED  BY <2>2, <2>4, <3>1
  <2>7. ASSUME NEW x \in Int
        PROVE  (\E k \in 1..Len(d) : d[k].first <= x /\ x <= d[k].last) <=>
               (first <= x /\ x <= last /\ \E i \in 1..n : s[i].first <= x /\ x <= s[i].last)
    <3>1. (q.first <= x /\ x <= q.last) <=>
            (s[n].first <= x /\ x <= s[n].last /\ first <= x /\ x <= last)
      BY <1>4 DEF Shared
    <3>. QED  BY <1>1, <1>2, <2>6, <3>1
  <2>. QED  BY <2>1, <2>2, <2>5, <2>7 DEF ClippedTo
<1>. QED  BY <1>1, <1>3, <1>4, ClipShares DEF ClipResult

(* All ranges of a list, clipped and joined.                                *)
LEMMA ClippedAll ==
  ASSUME NEW s \in Seq(RangeRecord), Canonical(s),
         NEW first \in Arg, NEW last \in Arg, first <= last
  PROVE  ClippedTo(FlattenSeq([i \in DOMAIN s |-> Clip(s[i], first, last)]), s, Len(s), first, last)
<1> DEFINE N == Len(s)
           clips == [i \in DOMAIN s |-> Clip(s[i], first, last)]
<1>1. N \in Nat /\ DOMAIN s = 1..N /\ \A i \in 1..N : s[i] \in RangeRecord /\ s[i].first <= s[i].last
  BY DEF Canonical
<1>2. \A i \in 1..N : Clip(s[i], first, last) \in Seq(RangeRecord)
  <2>1. SUFFICES ASSUME NEW i \in 1..N
                 PROVE  Clip(s[i], first, last) \in Seq(RangeRecord)
    OBVIOUS
  <2>2. PICK r \in RangeRecord : r = s[i] /\ r.first <= r.last
    BY <1>1
  <2>3. ClipResult(r, first, last)
    BY <2>2, ClipShares
  <2>4. <<>> \in Seq(RangeRecord) /\ \A q \in RangeRecord : <<q>> \in Seq(RangeRecord)
    OBVIOUS
  <2>5. Clip(r, first, last) \in Seq(RangeRecord)
    BY <2>3, <2>4, Zenon DEF ClipResult
  <2>. QED  BY <2>2, <2>5
<1> HIDE DEF N
<1>3. clips \in Seq(Seq(RangeRecord)) /\ Len(clips) = N /\ \A i \in 1..N : clips[i] = Clip(s[i], first, last)
  <2>1. clips \in [1..N -> Seq(RangeRecord)] /\ \A i \in 1..N : clips[i] = Clip(s[i], first, last)
    BY <1>1, <1>2
  <2> HIDE DEF clips
  <2>2. PICK f \in [1..N -> Seq(RangeRecord)] : f = clips
    BY <2>1
  <2>3. f \in Seq(Seq(RangeRecord)) /\ Len(f) = N
    BY <1>1
  <2>. QED  BY <2>1, <2>2, <2>3
<1> HIDE DEF clips
<1>4. PICK f : IsJoin(f, clips, RangeRecord) /\ FlattenSeq(clips) = f[N]
  BY <1>3, FlattenIs
<1>5. f[0] = <<>> /\ \A n \in 1..N : f[n] = f[n - 1] \o Clip(s[n], first, last)
  BY <1>3, <1>4 DEF IsJoin
<1> DEFINE Failed == {n \in 0..N : ~ ClippedTo(f[n], s, n, first, last)}
<1>6. Failed = {}
  <2>1. SUFFICES ASSUME Failed # {}
                 PROVE  FALSE
    OBVIOUS
  <2>2. PICK n \in Failed : \A m \in Failed : n <= m
    BY <1>1, <2>1, LeastNat, Failed \subseteq Nat, Zenon
  <2>3. CASE n = 0
    <3>1. ClippedTo(<<>>, s, 0, first, last)
      BY DEF ClippedTo, Canonical
    <3>. QED  BY <1>5, <2>2, <2>3, <3>1
  <2>4. CASE n # 0
    <3>1. n \in 1..N /\ n - 1 \in 0..N /\ ~(n <= n - 1)
      BY <1>1, <2>4
    <3>2. ClippedTo(f[n - 1], s, n - 1, first, last)
      BY <2>2, <3>1
    <3>3. ClippedTo(f[n - 1] \o Clip(s[n], first, last), s, n, first, last)
      <4>1. PICK c : c = f[n - 1]
        OBVIOUS
      <4>. QED  BY <3>1, <3>2, <4>1, ClipOneMore DEF N
    <3>. QED  BY <1>5, <2>2, <3>1, <3>3
  <2>. QED  BY <2>3, <2>4
<1>7. ClippedTo(f[N], s, N, first, last)
  BY <1>1, <1>6
<1>. QED  BY <1>4, <1>7 DEF N, clips

(* A sequence the other way round.                                          *)
LEMMA ReverseIs ==
  ASSUME NEW S, NEW c \in Seq(S)
  PROVE  /\ Reverse(c) \in Seq(S) /\ Len(Reverse(c)) = Len(c)
         /\ \A k \in 1..Len(c) : Len(c) - k + 1 \in 1..Len(c) /\ Reverse(c)[k] = c[Len(c) - k + 1]
<1>1. \A k \in 1..Len(c) : Len(c) - k + 1 \in 1..Len(c) /\ c[Len(c) - k + 1] \in S
  OBVIOUS
<1>2. Len(c) \in Nat
  OBVIOUS
<1>. QED  BY <1>1, <1>2 DEF Reverse

(* forRange calls back in ascending order on intervals with gaps between    *)
(* them, which cover exactly the numbers held in first..last.               *)
THEOREM ForRangeInvariant ==
  ASSUME MaxArg < MaxNumber
  PROVE  Spec => []ForRangeExact
<1>1. ASSUME IInv
      PROVE  ForRangeExact
  <2>1. SUFFICES ASSUME NEW first \in Arg, NEW last \in Arg, first <= last
                 PROVE  LET calls == ForRange(list, first, last)
                        IN  /\ Elements(calls) = Elements(list) \cap (first..last)
                            /\ \A i \in DOMAIN calls : calls[i].first <= calls[i].last
                            /\ \A i \in 1..(Len(calls) - 1) : calls[i].last + 1 < calls[i + 1].first
    BY DEF ForRangeExact
  <2> DEFINE c == FlattenSeq([i \in DOMAIN list |-> Clip(list[i], first, last)])
             L == Len(c)
             calls == ForRange(list, first, last)
  <2>2. list \in Seq(RangeRecord) /\ Canonical(list)
    BY <1>1 DEF IInv, TypeOK, RangeRecord
  <2>3. ClippedTo(c, list, Len(list), first, last)
    BY <2>1, <2>2, ClippedAll
  <2>4. calls = Reverse(c)
    <3>1. \A i \in DOMAIN list : ClipReached(list, i, first, last) = Clip(list[i], first, last)
      BY <2>1, <2>2, ReachedAll
    <3>2. [i \in DOMAIN list |-> ClipReached(list, i, first, last)]
            = [i \in DOMAIN list |-> Clip(list[i], first, last)]
      BY <3>1, Zenon
    <3>. QED  BY <3>2, Zenon DEF ForRange
  <2> HIDE DEF c, calls
  <2>5. c \in Seq(RangeRecord) /\ Canonical(c) /\ L \in Nat
    BY <2>3 DEF ClippedTo
  <2>6. /\ calls \in Seq(RangeRecord) /\ Len(calls) = L
        /\ \A k \in 1..L : L - k + 1 \in 1..L /\ calls[k] = c[L - k + 1]
    BY <2>4, <2>5, ReverseIs
  <2> HIDE DEF L
  <2>7. \A i \in DOMAIN calls : calls[i].first <= calls[i].last
    <3>1. SUFFICES ASSUME NEW i \in DOMAIN calls
                   PROVE  calls[i].first <= calls[i].last
      OBVIOUS
    <3>2. i \in 1..L
      BY <2>6
    <3>3. calls[i] = c[L - i + 1] /\ L - i + 1 \in 1..L
      BY <2>6, <3>2
    <3>. QED  BY <2>5, <3>3 DEF Canonical, L
  <2>8. ASSUME NEW i \in 1..(L - 1)
        PROVE  calls[i].last + 1 < calls[i + 1].first
    <3>1. i \in 1..L /\ i + 1 \in 1..L /\ L - (i + 1) + 1 \in 1..L /\ L - i + 1 \in 1..L
          /\ L - (i + 1) + 1 < L - i + 1
      BY <2>5
    <3>2. calls[i] = c[L - i + 1] /\ calls[i + 1] = c[L - (i + 1) + 1]
      BY <2>6, <3>1
    <3>3. c[L - (i + 1) + 1].first > c[L - i + 1].last + 1
      BY <2>5, <3>1 DEF Canonical, L
    <3>4. c[L - (i + 1) + 1] \in RangeRecord /\ c[L - i + 1] \in RangeRecord
      BY <2>5, <3>1 DEF L
    <3>. QED  BY <3>2, <3>3, <3>4, BoundsAssumption DEF RangeRecord, Arg
  <2>9. ASSUME NEW x
        PROVE  x \in Elements(calls) <=> x \in Elements(list) \cap (first..last)
    <3>1. x \in Elements(calls) <=> \E k \in 1..L : x \in calls[k].first .. calls[k].last
      BY <2>6, ElementsOf
    <3>2. x \in Elements(list) <=> \E k \in 1..Len(list) : x \in list[k].first .. list[k].last
      BY <2>2, ElementsOf
    <3>3. \A k \in 1..L : L - k + 1 \in 1..L /\ L - (L - k + 1) + 1 = k
      BY <2>5
    <3>4. (\E k \in 1..L : x \in calls[k].first .. calls[k].last)
            <=> \E k \in 1..L : x \in c[k].first .. c[k].last
      <4>1. ASSUME NEW k \in 1..L, x \in calls[k].first .. calls[k].last
            PROVE  \E l \in 1..L : x \in c[l].first .. c[l].last
        BY <2>6, <4>1
      <4>2. ASSUME NEW k \in 1..L, x \in c[k].first .. c[k].last
            PROVE  \E l \in 1..L : x \in calls[l].first .. calls[l].last
        <5>1. calls[L - k + 1] = c[L - (L - k + 1) + 1] /\ L - k + 1 \in 1..L
          BY <2>6, <3>3
        <5>2. calls[L - k + 1] = c[k]
          BY <3>3, <5>1
        <5>. QED  BY <4>2, <5>1, <5>2
      <4>. QED  BY <4>1, <4>2
    <3>5. \A k \in 1..L : c[k].first \in Int /\ c[k].last \in Int
      <4>1. \A k \in 1..L : c[k] \in RangeRecord
        BY <2>5 DEF L
      <4>. QED  BY <4>1, RecordNumbers
    <3>6. \A k \in 1..Len(list) : list[k].first \in Int /\ list[k].last \in Int
      <4>1. \A k \in 1..Len(list) : list[k] \in RangeRecord
        BY <2>2
      <4>. QED  BY <4>1, RecordNumbers
    <3>7. CASE x \in Int
      <4>1. (\E k \in 1..L : c[k].first <= x /\ x <= c[k].last) <=>
              (first <= x /\ x <= last /\ \E i \in 1..Len(list) : list[i].first <= x /\ x <= list[i].last)
        BY <2>3, <3>7 DEF ClippedTo, L
      <4>2. first \in Int /\ last \in Int
        BY BoundsAssumption DEF Arg
      <4>3. (\E k \in 1..L : x \in c[k].first .. c[k].last) <=> \E k \in 1..L : c[k].first <= x /\ x <= c[k].last
        BY <3>5, <3>7
      <4>4. (\E k \in 1..Len(list) : x \in list[k].first .. list[k].last)
              <=> \E k \in 1..Len(list) : list[k].first <= x /\ x <= list[k].last
        BY <3>6, <3>7
      <4>5. x \in first..last <=> first <= x /\ x <= last
        BY <3>7, <4>2
      <4>. QED  BY <3>1, <3>2, <3>4, <4>1, <4>3, <4>4, <4>5
    <3>8. CASE x \notin Int
      <4>1. x \notin first..last
        BY <3>8
      <4>2. \A k \in 1..L : x \notin c[k].first .. c[k].last
        BY <3>8
      <4>. QED  BY <3>1, <3>4, <4>1, <4>2
    <3>. QED  BY <3>7, <3>8
  <2>10. Elements(calls) = Elements(list) \cap (first..last)
    BY <2>9
  <2>. QED  BY <2>6, <2>7, <2>8, <2>10 DEF calls
<1>. QED  BY <1>1, CanonicalInvariant, PTL

(* SkipList is a set of numbers with all-or-nothing insertion and removal of*)
(* intervals (SkipList.h:25-126), for any width of the type, as long as no  *)
(* caller passes its greatest number.                                       *)
THEOREM ImplementsNumberSet ==
  ASSUME MaxArg < MaxNumber
  PROVE  Spec => IsNumberSet
<1>1. Init => Abstract!Init
  <2> SUFFICES ASSUME Init PROVE Abstract!Init
    OBVIOUS
  <2>1. Elements(<<>>) = {}
    BY DEF Elements
  <2>. QED  BY <2>1 DEF Init, Abstract!Init, Abstract!Reply
<1>2. IInv /\ [Next]_vars => [Abstract!Next]_(Abstract!numberSetVars)
  <2> SUFFICES ASSUME IInv, [Next]_vars
               PROVE  [Abstract!Next]_(Abstract!numberSetVars)
    OBVIOUS
  <2>1. ASSUME NEW first \in Arg, NEW last \in Arg, InsertRange(first, last)
        PROVE  Abstract!Next
    <3>1. InsertResult("insertRange", first, last)
      BY <2>1, InsertStep DEF InsertRange
    <3>2. Abstract!Insert("insertRange", first, last)
      BY <3>1 DEF InsertResult, Answer, Abstract!Insert, Abstract!Reply
    <3>. QED  BY <3>2 DEF Abstract!Next
  <2>2. ASSUME NEW n \in Arg, InsertOne(n)
        PROVE  Abstract!Next
    <3>1. InsertResult("insert", n, n)
      BY <2>2, InsertStep DEF InsertOne
    <3>2. Abstract!Insert("insert", n, n)
      BY <3>1 DEF InsertResult, Answer, Abstract!Insert, Abstract!Reply
    <3>. QED  BY <3>2 DEF Abstract!Next
  <2>3. ASSUME NEW first \in Arg, NEW last \in Arg, first <= last,
               RemoveRange(first, last)
        PROVE  Abstract!Next
    <3>1. RemoveResult("removeRange", first, last)
      BY <2>3, RemoveStep
    <3>2. Abstract!Remove("removeRange", first, last)
      BY <3>1 DEF RemoveResult, Answer, Abstract!Remove, Abstract!Reply
    <3>. QED  BY <2>3, <3>2 DEF Abstract!Next
  <2>4. ASSUME NEW n \in Arg, ~HeldAlone(n), RemoveOne(n)
        PROVE  Abstract!Next
    <3>1. RemoveResult("remove", n, n)
      BY <2>4, RemoveOneStep
    <3>2. Abstract!Remove("remove", n, n)
      BY <3>1 DEF RemoveResult, Answer, Abstract!Remove, Abstract!Reply
    <3>. QED  BY <3>2 DEF Abstract!Next
  <2>5. CASE Clear
    <3>1. Elements(<<>>) = {}
      BY DEF Elements
    <3>2. Abstract!Clear
      BY <2>5, <3>1 DEF Clear, Accept, Answer, Abstract!Clear, Abstract!Reply
    <3>. QED  BY <3>2 DEF Abstract!Next
  <2>6. CASE UNCHANGED vars
    BY <2>6 DEF vars, Abstract!numberSetVars
  <2>. QED  BY <2>1, <2>2, <2>3, <2>4, <2>5, <2>6 DEF Next
<1>. QED  BY <1>1, <1>2, CanonicalInvariant, PTL DEF Spec, IsNumberSet, Abstract!Spec
=============================================================================
