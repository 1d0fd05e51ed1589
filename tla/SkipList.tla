------------------------------ MODULE SkipList ------------------------------
(***************************************************************************)
(* wtk::utils::SkipList<Number_T> (src/main/cpp/wtk/utils/SkipList.t.h): a *)
(* set of unsigned numbers kept as a linked list of ranges, the highest    *)
(* range first. Each operation walks the list from its head and acts at    *)
(* the first range that meets one of its conditions; the walk is written   *)
(* here as the choice of that first position.                              *)
(*                                                                         *)
(* Number_T arithmetic wraps at MaxNumber. MaxArg bounds the numbers that  *)
(* callers pass, so that the behaviour below the top of the type and the   *)
(* behaviour at its top can be told apart.                                 *)
(***************************************************************************)
EXTENDS Integers, SequencesExt

CONSTANTS
  MaxNumber,    \* std::numeric_limits<Number_T>::max()
  MaxArg        \* the greatest number any caller passes

ASSUME BoundsAssumption ==
  /\ MaxNumber \in Nat
  /\ MaxArg \in 0..MaxNumber

VARIABLES
  list,         \* the ranges, in the order of the next pointers
  reply         \* the last call: its name, its arguments and its answer

vars == <<list, reply>>

Number == 0..MaxNumber
Arg == 0..MaxArg

(***************************************************************************)
(* n + 1 and n - 1 in the unsigned type.                                   *)
(***************************************************************************)
Succ(n) == IF n = MaxNumber THEN 0 ELSE n + 1
Pred(n) == IF n = 0 THEN MaxNumber ELSE n - 1

NumRange(last, first) == [last |-> last, first |-> first]

Within(n, r) == r.first <= n /\ n <= r.last

Elements(s) == UNION {s[i].first .. s[i].last : i \in DOMAIN s}

-----------------------------------------------------------------------------
(***************************************************************************)
(* Queries.                                                                *)
(***************************************************************************)

OverlapsAnEnd(r, first, last) ==      \* mutant: a range inside first..last
  \/ r.last >= first /\ r.first <= first
  \/ r.last >= last /\ r.first <= last

Overlaps(r, first, last) ==
  \/ r.last >= first /\ r.first <= first
  \/ r.last >= last /\ r.first <= last
  \/ r.last < last /\ r.first > first

(* A range is met by the walk unless one above it answers first.           *)
Met(s, i, n) == \A j \in 1..(i - 1) : n <= s[j].last

Has(s, n) == \E i \in DOMAIN s : Met(s, i, n) /\ Within(n, s[i])

HasRangeAtHead(s, first, last) ==     \* mutant: the walk never goes on
  s # <<>> /\ Overlaps(s[1], first, last)

HasRange(s, first, last) ==
  \E i \in DOMAIN s : Met(s, i, first) /\ Overlaps(s[i], first, last)

HasAll(s, first, last) ==
  /\ first <= last
  /\ \E i \in DOMAIN s :
        Met(s, i, first) /\ s[i].last >= last /\ s[i].first <= first

(***************************************************************************)
(* The calls forRange makes, in their order: the list is unwound from the  *)
(* lowest range that the walk reaches, and each range is clipped to        *)
(* first..last. The walk ends at a range that is clipped to nothing unless *)
(* the range goes on beyond last.                                          *)
(***************************************************************************)
ClipInside(r, first, last) ==         \* mutant: > for >= at the lower end
  CASE first >= r.first /\ last <= r.last -> <<NumRange(last, first)>>
    [] first <= r.first /\ last >= r.last -> <<r>>
    [] first >= r.first /\ first <= r.last /\ last >= r.last ->
         <<NumRange(r.last, first)>>
    [] first < r.first /\ last > r.first /\ last <= r.last ->
         <<NumRange(last, r.first)>>
    [] OTHER -> <<>>

Clip(r, first, last) ==
  CASE first >= r.first /\ last <= r.last -> <<NumRange(last, first)>>
    [] first <= r.first /\ last >= r.last -> <<r>>
    [] first >= r.first /\ first <= r.last /\ last >= r.last ->
         <<NumRange(r.last, first)>>
    [] first < r.first /\ last >= r.first /\ last <= r.last ->
         <<NumRange(last, r.first)>>
    [] OTHER -> <<>>

ClipStops(r, first, last) == Clip(r, first, last) = <<>> /\ last >= r.last

ClipReached(s, i, first, last) ==
  IF \E j \in 1..(i - 1) : ClipStops(s[j], first, last) THEN <<>>
  ELSE Clip(s[i], first, last)

ForRange(s, first, last) ==
  Reverse(FlattenSeq([i \in DOMAIN s |-> ClipReached(s, i, first, last)]))

ForEach(s) == Reverse(s)

Equivalent(a, b) == Len(a) = Len(b) /\ \A i \in DOMAIN a : a[i] = b[i]

-----------------------------------------------------------------------------
(***************************************************************************)
(* insert: the conditions under which the walk stops at position i.        *)
(***************************************************************************)

BeforeHead(first) ==
  /\ list # <<>>
  /\ LET next == Succ(list[1].last) IN first > next /\ next > list[1].last

ExtendsLast(i, first) == first = Succ(list[i].last) /\ first > list[i].last

ExtendsFirst(i, last) == last = Pred(list[i].first)

FitsAboveNext(i, first, last) ==      \* mutant: the range may touch the next one
  /\ last < list[i].first
  /\ i < Len(list)
  /\ first > list[i + 1].last

FitsBelow(i, first, last) ==
  /\ last < list[i].first
  /\ i < Len(list)
  /\ first > Succ(list[i + 1].last)

InsertStops(i, first, last) ==
  \/ ExtendsLast(i, first)
  \/ ExtendsFirst(i, last)
  \/ FitsBelow(i, first, last)
  \/ Overlaps(list[i], first, last)

InsertWalkReaches(i, first, last) ==
  \A j \in 1..(i - 1) : ~InsertStops(j, first, last)

Answer(op, first, last, ok) ==
  reply' = [op |-> op, first |-> first, last |-> last, ok |-> ok]

Accept(op, first, last) == Answer(op, first, last, TRUE)

Refuse(op, first, last) == Answer(op, first, last, FALSE) /\ UNCHANGED list

InsertInverted(op, first, last) ==
  /\ first > last
  /\ Refuse(op, first, last)

InsertAtHead(op, first, last) ==
  /\ first <= last
  /\ list = <<>> \/ BeforeHead(first)
  /\ list' = <<NumRange(last, first)>> \o list
  /\ Accept(op, first, last)

InsertInWalk(op, first, last) ==
  first <= last /\ list # <<>> /\ ~BeforeHead(first)

ExtendLast(op, i, first, last) ==
  /\ ExtendsLast(i, first)
  /\ list' = [list EXCEPT ![i].last = last]
  /\ Accept(op, first, last)

(***************************************************************************)
(* Growing a range downwards may reach the next one: the insertion of an   *)
(* interval is refused if it overlaps it (the one-number insert makes no   *)
(* such test), and the two are joined if they touch.                       *)
(***************************************************************************)
ExtendFirst(op, i, first, last) ==
  /\ ~ExtendsLast(i, first)
  /\ ExtendsFirst(i, last)
  /\ \/ /\ op = "insertRange" /\ i < Len(list) /\ first <= list[i + 1].last
        /\ Refuse(op, first, last)
     \/ /\ i < Len(list) /\ list[i + 1].last = Pred(first)
        /\ op = "insertRange" => first > list[i + 1].last
        /\ list' = RemoveAt([list EXCEPT ![i].first = list[i + 1].first], i + 1)
        /\ Accept(op, first, last)
     \/ /\ i < Len(list) => list[i + 1].last # Pred(first)
        /\ op = "insertRange" /\ i < Len(list) => first > list[i + 1].last
        /\ list' = [list EXCEPT ![i].first = first]
        /\ Accept(op, first, last)

InsertBelow(op, i, first, last) ==
  /\ ~ExtendsLast(i, first)
  /\ ~ExtendsFirst(i, last)
  /\ FitsBelow(i, first, last)
  /\ list' = InsertAt(list, i + 1, NumRange(last, first))
  /\ Accept(op, first, last)

InsertHeld(op, i, first, last) ==
  /\ ~ExtendsLast(i, first)
  /\ ~ExtendsFirst(i, last)
  /\ ~FitsBelow(i, first, last)
  /\ Overlaps(list[i], first, last)
  /\ Refuse(op, first, last)

InsertAtEnd(op, first, last) ==
  /\ InsertWalkReaches(Len(list) + 1, first, last)
  /\ list' = Append(list, NumRange(last, first))
  /\ Accept(op, first, last)

Insert(op, first, last) ==
  \/ InsertInverted(op, first, last)
  \/ InsertAtHead(op, first, last)
  \/ /\ InsertInWalk(op, first, last)
     /\ \/ InsertAtEnd(op, first, last)
        \/ \E i \in DOMAIN list :
             /\ InsertWalkReaches(i, first, last)
             /\ \/ ExtendLast(op, i, first, last)
                \/ ExtendFirst(op, i, first, last)
                \/ InsertBelow(op, i, first, last)
                \/ InsertHeld(op, i, first, last)

InsertRange(first, last) == Insert("insertRange", first, last)

InsertOne(n) == Insert("insert", n, n)

-----------------------------------------------------------------------------
(***************************************************************************)
(* remove(first, last), always called with first <= last: the walk stops   *)
(* at the range that holds all of first..last, or below first.             *)
(***************************************************************************)

Holds(i, first, last) == list[i].first <= first /\ last <= list[i].last

RemoveWalkReaches(i, first, last) ==
  \A j \in 1..(i - 1) : ~Holds(j, first, last) /\ first <= list[j].last

RemoveWhole(i, first, last) ==
  /\ list[i] = NumRange(last, first)
  /\ list' = RemoveAt(list, i)

RemoveTop(i, first, last) ==
  /\ last = list[i].last
  /\ first > list[i].first
  /\ list' = [list EXCEPT ![i].last = Pred(first)]

RemoveBottom(i, first, last) ==
  /\ first = list[i].first
  /\ last < list[i].last
  /\ list' = [list EXCEPT ![i].first = Succ(last)]

RemoveMiddle(i, first, last) ==
  /\ last < list[i].last
  /\ first > list[i].first
  /\ list' = InsertAt([list EXCEPT ![i].first = Succ(last)], i + 1,
                      NumRange(Pred(first), list[i].first))

RemoveRange(first, last) ==
  \/ \E i \in DOMAIN list :
       /\ RemoveWalkReaches(i, first, last)
       /\ Holds(i, first, last)
       /\ \/ RemoveWhole(i, first, last)
          \/ RemoveTop(i, first, last)
          \/ RemoveBottom(i, first, last)
          \/ RemoveMiddle(i, first, last)
       /\ Accept("removeRange", first, last)
  \/ /\ \A i \in DOMAIN list :
          RemoveWalkReaches(i, first, last) => ~Holds(i, first, last)
     /\ Refuse("removeRange", first, last)

(***************************************************************************)
(* remove(n): no case of its own for a range of one number, which would be *)
(* left in the list with its last below its first.                         *)
(***************************************************************************)
RemoveOneStops(i, n) == n >= list[i].last \/ n >= list[i].first

RemoveOneAt(i, n) ==
  \/ /\ n = list[i].last
     /\ list' = [list EXCEPT ![i].last = Pred(n)]
     /\ Accept("remove", n, n)
  \/ /\ n # list[i].last /\ n = list[i].first
     /\ list' = [list EXCEPT ![i].first = Succ(n)]
     /\ Accept("remove", n, n)
  \/ /\ n < list[i].last /\ n > list[i].first
     /\ list' = InsertAt([list EXCEPT ![i].first = Succ(n)], i + 1,
                         NumRange(Pred(n), list[i].first))
     /\ Accept("remove", n, n)
  \/ /\ n > list[i].last /\ n # list[i].first
     /\ Refuse("remove", n, n)

RemoveOne(n) ==
  \/ \E i \in DOMAIN list :
       /\ \A j \in 1..(i - 1) : ~RemoveOneStops(j, n)
       /\ RemoveOneStops(i, n)
       /\ RemoveOneAt(i, n)
  \/ /\ \A i \in DOMAIN list : ~RemoveOneStops(i, n)
     /\ Refuse("remove", n, n)

Clear ==
  /\ list' = <<>>
  /\ Accept("clear", 0, 0)

-----------------------------------------------------------------------------
Init ==
  /\ list = <<>>
  /\ reply = [op |-> "none", first |-> 0, last |-> 0, ok |-> TRUE]

(***************************************************************************)
(* remove(n) of the only number of a range is left out: it is the call     *)
(* that breaks the list, and nothing in the repository makes it.           *)
(***************************************************************************)
HeldAlone(n) == \E i \in DOMAIN list : list[i] = NumRange(n, n)

Next ==
  \/ \E first, last \in Arg : InsertRange(first, last)
  \/ \E n \in Arg : InsertOne(n)
  \/ \E first, last \in Arg : first <= last /\ RemoveRange(first, last)
  \/ \E n \in Arg : ~HeldAlone(n) /\ RemoveOne(n)
  \/ Clear

Spec == Init /\ [][Next]_vars

-----------------------------------------------------------------------------
(* The list is a sequence of ranges of numbers that callers passed.         *)
TypeOK ==
  /\ list \in Seq([last : Arg, first : Arg])
  /\ reply \in [op : {"none", "insertRange", "insert", "removeRange", "remove",
                      "clear"},
                first : Arg, last : Arg, ok : BOOLEAN]

(* No call leaves a list that integrityCheck (SkipList.t.h:62-80) rejects: *)
(* every range has its last at or above its first, and a gap separates it  *)
(* from the next one, so that the walks may stop early.                    *)
Integrity ==
  \A i \in DOMAIN list :
    /\ list[i].first <= list[i].last
    /\ i < Len(list) => list[i].first > list[i + 1].last + 1

(* has and hasAll, which stop as soon as a range lies below what they seek, *)
(* answer what the set of numbers held answers (SkipList.t.h:106-159).      *)
QueriesExact ==
  \A first, last \in Arg :
    first <= last =>
      /\ HasRange(list, first, last) <=> Elements(list) \cap (first..last) # {}
      /\ HasAll(list, first, last) <=> first..last \subseteq Elements(list)
      /\ Has(list, first) <=> first \in Elements(list)

(* forRange calls back, in ascending order, on intervals that touch no other *)
(* and cover exactly the numbers held in first..last: Scope moves and        *)
(* destroys wires by them (SkipList.t.h:424-464).                            *)
ForRangeExact ==
  \A first, last \in Arg :
    first <= last =>
      LET calls == ForRange(list, first, last)
      IN  /\ Elements(calls) = Elements(list) \cap (first..last)
          /\ \A i \in DOMAIN calls : calls[i].first <= calls[i].last
          /\ \A i \in 1..(Len(calls) - 1) : calls[i].last + 1 < calls[i + 1].first

(* Inserting or removing an interval applies to all of it or none of it, is  *)
(* refused exactly when a number of it is held (insert) or missing (remove), *)
(* and never disturbs another number, however many ranges it joins or splits *)
(* (SkipList.h, the comments on insert and remove).                          *)
Abstract == INSTANCE NumberSet WITH
  Number <- Arg, elements <- Elements(list), reply <- reply

IsNumberSet == Abstract!Spec
=============================================================================
