----------------------------- MODULE WireRanges -----------------------------
(***************************************************************************)
(* The memory layout of wtk::nails::Scope (nails/Scope.t.h): the sequence  *)
(* of ranges that hold a scope's wires, ordered by offset and searched by  *)
(* binary search, and what each operation does to that sequence. The code  *)
(* keeps two coindexed vectors, offsets and ranges; here an offset is a    *)
(* field of its range.                                                     *)
(*                                                                         *)
(* A cell of memory is Raw (allocated but not constructed, destroyed or    *)
(* moved from), a wire index (it holds the value computed for that wire)   *)
(* or Garbage (constructed by moving from a cell that held no wire).       *)
(***************************************************************************)
EXTENDS Integers, SequencesExt

CONSTANTS
  MaxWire,        \* UINT64_MAX
  DefaultSize,    \* RANGE_DEFAULT_SIZE
  Raw, Garbage

ASSUME LayoutAssumption ==
  /\ MaxWire \in Nat
  /\ DefaultSize \in Nat \ {0, 1}
  /\ Raw \notin Int /\ Garbage \notin Int /\ Raw # Garbage

Wire == 0..MaxWire
Cell == Wire \cup {Raw, Garbage}

(***************************************************************************)
(* kind: "new" (declared by @new or created for outputs), "mapped" (memory *)
(* of a calling scope) or "grown" (created by single assignments).         *)
(***************************************************************************)
RangeType ==
  [offset : Wire, kind : {"new", "mapped", "grown"}, canGrow : BOOLEAN,
   mem : Seq(Cell)]

NewRangeOf(f, mem) ==
  [offset |-> f, kind |-> "new", canGrow |-> FALSE, mem |-> mem]

MappedRangeOf(f, mem) ==
  [offset |-> f, kind |-> "mapped", canGrow |-> FALSE, mem |-> mem]

GrownRangeOf(f, mem) ==
  [offset |-> f, kind |-> "grown", canGrow |-> TRUE, mem |-> mem]

RawCells(n) == [k \in 1..n |-> Raw]

(* offset + length - 1 in the wire index type.                             *)
End(r) == (r.offset + Len(r.mem) + MaxWire) % (MaxWire + 1)

Covers(r, w) == r.offset <= w /\ w <= End(r)

CellOf(r, w) == r.mem[w - r.offset + 1]

SetCell(r, w, c) == [r EXCEPT !.mem[w - r.offset + 1] = c]

(***************************************************************************)
(* findRange: the binary search over the offsets, and the position its     *)
(* assertion demands. The two are equal whenever the offsets are sorted.   *)
(***************************************************************************)
GoesLow(r, w) == r.offset > w

BinarySearch(rs, w) ==
  LET Round(b) ==
        LET mid == b.low + ((1 + b.high - b.low) \div 2)
        IN  IF b.low = b.high THEN b
            ELSE IF GoesLow(rs[mid], w) THEN [low |-> b.low, high |-> mid - 1]
            ELSE [low |-> mid, high |-> b.high]
      after[n \in 0..Len(rs)] ==
        IF n = 0 THEN [low |-> 1, high |-> Len(rs)] ELSE Round(after[n - 1])
  IN  after[Len(rs)].low

FindRange(rs, w) ==
  LET below == {i \in DOMAIN rs : rs[i].offset <= w}
  IN  IF below = {} THEN 1 ELSE CHOOSE i \in below : \A j \in below : j <= i

(* The members of a finite set of numbers, in ascending order.             *)
Ascending(S) ==
  [k \in 1..Cardinality(S) |->
     CHOOSE w \in S : Cardinality({v \in S : v < w}) = k - 1]

(* active.forRange(f, l): the maximal intervals of active within f..l, in   *)
(* ascending order. For l = f - 1 SkipList makes the one call (f, l) if     *)
(* either number is active.                                                 *)
Pieces(active, f, l) ==
  LET held == active \cap (f..l)
      firsts == IF f <= l THEN {w \in held : w - 1 \notin held}
                ELSE IF active \cap {f, l} # {} THEN {f} ELSE {}
      lastOf(w) == IF f > l THEN l
                   ELSE CHOOSE x \in held : /\ w <= x /\ x + 1 \notin held
                                            /\ w..x \subseteq held
      order == Ascending(firsts)
  IN  [k \in DOMAIN order |-> [first |-> order[k], last |-> lastOf(order[k])]]

(* The value a wire's constructor moves out of a cell.                      *)
MovedFrom(c) == IF c = Raw THEN Garbage ELSE c

-----------------------------------------------------------------------------
(***************************************************************************)
(* newRange.                                                               *)
(***************************************************************************)

(* The length of a range, 1 + last - first in the wire index type.         *)
LengthOf(f, l) == (1 + l - f) % (MaxWire + 1)

NewRangeClashes(rs, assigned, firstLocal, f, l) ==
  LET i == FindRange(rs, f)
  IN  /\ rs # <<>>
      /\ \/ f < firstLocal
         \/ assigned \cap (f..l) # {}
         \/ f < rs[1].offset /\ l >= rs[1].offset /\ rs[1].kind = "new"
         \/ /\ f >= rs[1].offset
            /\ \/ i < Len(rs) /\ l >= rs[i + 1].offset /\ rs[i + 1].kind = "new"
               \/ f <= End(rs[i]) /\ rs[i].kind = "new"

(***************************************************************************)
(* A range created inside another one cuts it: the active wires above it   *)
(* are moved to ranges of their own, the old range keeps its length.       *)
(***************************************************************************)
CutPieces(rs, active, i, l) ==
  IF l <= End(rs[i]) THEN Pieces(active, l + 1, End(rs[i])) ELSE <<>>

CutRange(r, pieces) ==
  [r EXCEPT !.mem = [k \in DOMAIN r.mem |->
     IF \E p \in DOMAIN pieces :
          r.offset + k - 1 \in pieces[p].first .. pieces[p].last
     THEN Raw ELSE r.mem[k]]]

PieceRange(r, piece) ==
  GrownRangeOf(piece.first,
    [k \in 1..(1 + piece.last - piece.first) |->
       MovedFrom(CellOf(r, piece.first + k - 1))])

AddNewRange(rs, active, f, l) ==
  LET i == FindRange(rs, f)
      created == <<NewRangeOf(f, RawCells(LengthOf(f, l)))>>
      pieces == CutPieces(rs, active, i, l)
  IN  IF rs = <<>> \/ f < rs[1].offset
      THEN created \o rs
      ELSE SubSeq(rs, 1, i - 1) \o <<CutRange(rs[i], pieces)>> \o created
             \o [p \in DOMAIN pieces |-> PieceRange(rs[i], pieces[p])]
             \o SubSeq(rs, i + 1, Len(rs))

(***************************************************************************)
(* assign: the cell of wire w is found in a range that covers it, or a     *)
(* growable range is reallocated to reach it, or a small range is created. *)
(***************************************************************************)

SmallRange(w) ==
  IF MaxWire - DefaultSize < w
  THEN [GrownRangeOf(w, <<w>>) EXCEPT !.canGrow = FALSE]
  ELSE GrownRangeOf(w, <<w>> \o RawCells(DefaultSize - 1))

(* The last wire that a reallocation by half of the length would reach.     *)
GrowthLastUnbounded(r) ==                   \* mutant: no test for the overflow
  r.offset + Len(r.mem) + Len(r.mem) \div 2

GrowthLast(r) ==
  LET amount == Len(r.mem) + Len(r.mem) \div 2
  IN  IF MaxWire - amount > r.offset THEN r.offset + amount ELSE MaxWire

Growable(r, w) == r.canGrow /\ w < GrowthLast(r)

Grow(rs, active, i, w) ==
  LET r == rs[i]
      newLast == IF i < Len(rs) /\ GrowthLast(r) >= rs[i + 1].offset
                 THEN rs[i + 1].offset - 1 ELSE GrowthLast(r)
      cell(x) == IF x = w THEN w
                 ELSE IF x \in active /\ x <= End(r) THEN MovedFrom(CellOf(r, x))
                 ELSE Raw
  IN  [rs EXCEPT ![i].mem =
         [k \in 1..(newLast - r.offset + 1) |-> cell(r.offset + k - 1)]]

AssignCell(rs, active, w) ==
  LET i == FindRange(rs, w)
  IN  IF rs = <<>> \/ w < rs[1].offset THEN <<SmallRange(w)>> \o rs
      ELSE IF Covers(rs[i], w) THEN [rs EXCEPT ![i] = SetCell(rs[i], w, w)]
      ELSE IF Growable(rs[i], w) THEN Grow(rs, active, i, w)
      ELSE InsertAt(rs, i + 1, SmallRange(w))

-----------------------------------------------------------------------------
(***************************************************************************)
(* deleteRange, once all of f..l is known to be active: it goes through    *)
(* the ranges from the one of f on, and stops at a "new" range that does   *)
(* not end where f..l does, having deleted what came before.               *)
(***************************************************************************)

Touched(rs, f, l) ==
  {i \in DOMAIN rs : FindRange(rs, f) <= i /\ rs[i].offset <= l}

Unmatched(rs, f, l) ==
  {i \in Touched(rs, f, l) :
     rs[i].kind = "new" /\ ~(f = rs[i].offset /\ l = End(rs[i]))}

(* The two codes are the other way round than in findInputs.                *)
DeleteError(rs, assigned, active, firstLocal, f, l) ==
  IF f < firstLocal THEN "cannotDeleteRemap"
  ELSE IF ~(f..l \subseteq active)
       THEN IF f..l \subseteq assigned THEN "notAssigned" ELSE "deleted"
  ELSE IF Unmatched(rs, f, l) # {} THEN "unmatchedDelete" ELSE "success"

(* What is deleted of f..l, all of it active: nothing after l, and nothing  *)
(* from an unmatched range on.                                              *)
LastDeleted(rs, f, l) ==
  IF Unmatched(rs, f, l) = {} THEN l
  ELSE LET i == Min(Unmatched(rs, f, l))
       IN  IF i = FindRange(rs, f) THEN f - 1 ELSE rs[i].offset - 1

(* The last wire that the deletion reaches within range i.                  *)
LastIn(rs, i, l) ==
  LET below == IF i < Len(rs) THEN {rs[i + 1].offset - 1} ELSE {}
  IN  IF rs[i].kind = "new" THEN l ELSE Min({End(rs[i]), l} \cup below)

(* A grown range is freed when no active wire is left below the next range. *)
(* The code compares its end with the next offset by > where the two may    *)
(* be equal, and then keeps the range.                                      *)
Emptied(rs, active, i, f, l) ==
  LET left == active \ (f .. LastIn(rs, i, l))
      limit == IF i < Len(rs) /\ End(rs[i]) > rs[i + 1].offset
               THEN rs[i + 1].offset - 1 ELSE End(rs[i])
  IN  left \cap ((rs[i].offset .. limit) \cup {rs[i].offset, limit}) = {}

Freed(rs, active, i, f, l) ==
  rs[i].kind = "new" \/ Emptied(rs, active, i, f, l)

AfterDelete(rs, i, f, l) ==
  LET destroyed == [k \in DOMAIN rs[i].mem |->
                      IF rs[i].offset + k - 1 \in f .. LastIn(rs, i, l)
                      THEN Raw ELSE rs[i].mem[k]]
  IN  [rs[i] EXCEPT !.mem = destroyed, !.canGrow = FALSE]

(* The ranges the deletion goes through: before the first unmatched one.    *)
Visited(rs, f, l) ==
  {i \in Touched(rs, f, l) : \A j \in Unmatched(rs, f, l) : i < j}

DeleteCells(rs, active, f, l) ==
  LET visited == Visited(rs, f, l)
      kept == Ascending({i \in DOMAIN rs :
                           i \in visited => ~Freed(rs, active, i, f, l)})
  IN  [k \in DOMAIN kept |->
         IF kept[k] \in visited THEN AfterDelete(rs, kept[k], f, l)
         ELSE rs[kept[k]]]

-----------------------------------------------------------------------------
(***************************************************************************)
(* Lookups. An address is a range's position and a cell of its memory; the *)
(* caller of findInputs or findOutputs uses the cells from there on.       *)
(***************************************************************************)

Retrieve(rs, w) == CellOf(rs[FindRange(rs, w)], w)

(* findOutputs: a declared or mapped range that covers f..l is used as is.  *)
CoversFirstOutput(rs, f, l) ==              \* mutant: the end is not compared
  /\ rs # <<>>
  /\ LET r == rs[FindRange(rs, f)]
     IN  r.kind \in {"new", "mapped"} /\ r.offset <= f

CoversOutputs(rs, f, l) ==
  /\ rs # <<>>
  /\ LET r == rs[FindRange(rs, f)]
     IN  r.kind \in {"new", "mapped"} /\ r.offset <= f /\ End(r) >= l

(* The callee or the backend writes through the addresses findOutputs gave: *)
(* a cell for each wire of the domain.                                      *)
WriteOutputs(rs, cells) ==
  [i \in DOMAIN rs |->
     [rs[i] EXCEPT !.mem = [k \in DOMAIN rs[i].mem |->
        LET w == rs[i].offset + k - 1
        IN  IF w \in DOMAIN cells /\ rs[i].kind # "grown"
            THEN cells[w] ELSE rs[i].mem[k]]]]

(* active.hasAll fails first; then the wires must lie in one fixed range,   *)
(* or be a single wire. The last clause is the code's test for an overflow. *)
AnyRange(r, f, l) == TRUE                   \* mutant: grown ranges too

FixedOrSingle(r, f, l) == r.kind \in {"new", "mapped"} \/ f = l

FindInputsError(rs, assigned, active, f, l) ==
  LET r == rs[FindRange(rs, f)]
  IN  IF ~(f..l \subseteq active)
      THEN IF f..l \subseteq assigned THEN "deleted" ELSE "notAssigned"
      ELSE IF /\ FixedOrSingle(r, f, l)
              /\ r.offset <= f
              /\ End(r) >= l \/ (l >= f /\ MaxWire - Len(r.mem) <= r.offset)
           THEN "success" ELSE "discontiguous"

InputsInBounds(rs, f, l) ==
  LET r == rs[FindRange(rs, f)] IN l - r.offset < Len(r.mem)
=============================================================================
