----------------------------- MODULE GapVector -----------------------------
(***************************************************************************)
(* neolib::gap_vector, a vector with a gap where it was changed last.  Its *)
(* pointers are positions in its storage, of which iData is 0.  A cell is  *)
(* "raw", the object in it was "moved" from, or it holds a value; "bad" is *)
(* what comes of a move from a cell with no value, of a construction over  *)
(* a value and of the destruction of, or an assignment to, a raw cell.     *)
(* Lists are inserted by objects whose construction does not throw.        *)
(***************************************************************************)
EXTENDS Integers, Sequences

CONSTANTS Values,
          DefaultGapSize, NearnessFactor, \* the template's
          MaxInsert, MaxEach, \* bounds: items inserted at once, and one by one
          MaxSize,                        \* bound: items in the vector
          Reservations                    \* arguments of reserve()

GapAssumption ==
  /\ {"raw", "moved", "bad"} \cap Values = {}
  /\ DefaultGapSize \in Nat \ {0} /\ NearnessFactor \in Nat \ {0}
  /\ MaxInsert \in Nat /\ MaxEach \in Nat /\ MaxSize \in Nat /\ Reservations \subseteq Nat

VARIABLES
  vec,      \* cell: the storage; cap: iStorageEnd; end: iDataEnd; from, to: the gap
  returned  \* [at: the iterator the last call returned, index: of what]
vars == <<vec, returned>>

Positions(v) == 0 .. v.cap - 1
Storage(cap) == [0 .. cap - 1 -> Values \cup {"raw", "moved", "bad"}]

\* Unless it is null, the gap lies in the data.
TypeOK ==
  /\ vec.cap \in Nat /\ vec.cell \in Storage(vec.cap) /\ vec.end \in 0 .. vec.cap
  /\ vec.from \in Nat /\ vec.to \in Nat
  /\ vec.from # vec.to => vec.from < vec.to /\ vec.to <= vec.end
  /\ returned.at \in 0 .. vec.end /\ returned.index \in 0 .. MaxSize

----------------------------------------------------------------------------
(* Positions and indices.                                                  *)
Active(v) == v.from # v.to
Gap(v) == v.to - v.from
Size(v) == v.end - Gap(v)
Before(v, p) == Active(v) /\ p < v.from
After(v, p) == Active(v) /\ p >= v.to

Within(p, q) == p - q <= DefaultGapSize * NearnessFactor /\ q - p <= DefaultGapSize * NearnessFactor
Near(v, p) == Active(v) /\ (Within(p, v.from) \/ Within(p, v.to))

Index(v, i) == IF ~Active(v) \/ i < v.from THEN i ELSE i + Gap(v)

Begin(v) == IF Active(v) /\ v.from = 0 THEN v.to ELSE 0

End(v) ==
  IF ~Active(v) \/ v.end # v.to THEN v.end ELSE IF v.from = 0 THEN v.to ELSE v.from

\* Mutant: the end of the items, before a gap at the end, is jumped over.
Plus_Over(v, p, d) ==
  IF d = 0 \/ ~Active(v) \/ p + d < v.from \/ (p + d > v.to /\ p >= v.from)
  THEN p + d ELSE p + d + Gap(v)

\* iterator_impl::operator+=
Plus(v, p, d) ==
  IF \/ d = 0 \/ ~Active(v)
     \/ p + d < v.from
     \/ v.to = v.end /\ p + d = v.from
     \/ p + d > v.to /\ p >= v.from
  THEN p + d ELSE p + d + Gap(v)

\* iterator_impl::operator-=
Minus(v, p, d) ==
  IF \/ d = 0 \/ ~Active(v) \/ p <= v.from
     \/ p >= v.to /\ p - d >= v.to
  THEN p - d ELSE p - (d + Gap(v))

\* operator-, p - q
Distance(v, p, q) ==
  IF Before(v, q) /\ After(v, p) THEN p - q - Gap(v)
  ELSE IF Before(v, p) /\ After(v, q) THEN p - q + Gap(v)
  ELSE p - q

Items(v) == [i \in 1 .. Size(v) |-> v.cell[Index(v, i - 1)]]

----------------------------------------------------------------------------
(* Cells.                                                                  *)

\* The objects from `first` up to `last` are moved to `dest` and on, where
\* they are constructed in the cells `fresh`, and assigned in
\* the others.
Moved(v, first, last, dest, fresh) ==
  [k \in Positions(v) |->
    IF k \in dest .. dest + (last - first) - 1
    THEN LET from == v.cell[first + (k - dest)]
             there == v.cell[k]
         IN IF from \in Values /\ IF k \in fresh THEN there \in {"raw", "moved"} ELSE there \notin {"raw", "bad"}
            THEN from ELSE "bad"
    ELSE IF k \in first .. last - 1 THEN "moved" ELSE v.cell[k]]

Destroyed(cell, first, last) ==
  [k \in DOMAIN cell |->
    IF k \in first .. last - 1 THEN (IF cell[k] \in {"raw", "bad"} THEN "bad" ELSE "raw") ELSE cell[k]]

Constructed(cell, at, list) ==
  [k \in DOMAIN cell |->
    IF k \in at .. at + Len(list) - 1
    THEN IF cell[k] \in {"raw", "moved"} THEN list[k - at + 1] ELSE "bad"
    ELSE cell[k]]

MaxOf(a, b) == IF a < b THEN b ELSE a
MinOf(a, b) == IF a < b THEN a ELSE b

Unsplit(v) ==
  LET newEnd == v.end - Gap(v)
      cell == Moved(v, v.to, v.end, v.from, 0 .. v.to - 1)
  IN IF ~Active(v) THEN v
     ELSE [cell |-> Destroyed(cell, MaxOf(newEnd, v.to), v.end),
           cap |-> v.cap, end |-> newEnd, from |-> 0, to |-> 0]

Sound(v) == \A k \in Positions(v) : IF k < v.end THEN v.cell[k] \in Values ELSE v.cell[k] # "bad"

\* reserve(): the items move to a new storage.
Reserve(v, cap) ==
  LET u == Unsplit(v) IN
  IF cap <= v.cap THEN v
  ELSE [u EXCEPT !.cap = cap,
                 !.cell = [k \in 0 .. cap - 1 |->
                    IF k < u.end THEN u.cell[k] ELSE IF Sound(u) THEN "raw" ELSE "bad"]]

\* grow(), by half as much again
Grow(v, n) == Reserve(v, ((v.cap + DefaultGapSize + n) * 3) \div 2)

----------------------------------------------------------------------------
(* allocate_from_gap(p, n): [vec, at] where the n new cells are at `at`.   *)

RoomBefore(v, p, n) ==
  LET cell == Moved(v, p, v.from, p + n, v.from .. v.cap - 1) IN
  [vec |-> [v EXCEPT !.cell = Destroyed(cell, p, MinOf(p + n, v.from)), !.from = @ + n], at |-> p]

RoomAfter(v, p, n) ==
  LET cell == Moved(v, v.to, p, v.to - n, 0 .. v.to - 1) IN
  [vec |-> [v EXCEPT !.cell = Destroyed(cell, MaxOf(p - n, v.to), p), !.to = @ - n], at |-> p - n]

RoomThere(v, p, n) == [vec |-> [v EXCEPT !.from = @ + n], at |-> p]

\* initialGapSize
GapFor(v) == MinOf(v.cap - Size(v), DefaultGapSize)

RoomAnew(v, p, n) ==
  LET u == Unsplit(v)
      w == IF u.cap - Size(u) < n THEN Grow(u, n) ELSE u
      pos == Distance(v, p, Begin(v))
      gap == GapFor(w)
      cell == Moved(w, pos, w.end, pos + gap, w.end .. w.cap - 1)
  IN [vec |-> [w EXCEPT !.cell = Destroyed(cell, pos, pos + MinOf(n, w.end - pos)),
                        !.end = @ + gap, !.from = pos + n, !.to = pos + gap],
      at |-> pos]

AllocateFromGap(v, p, n) ==
  IF ~(Near(v, p) /\ n <= Gap(v)) THEN RoomAnew(v, p, n)
  ELSE IF Before(v, p) THEN RoomBefore(v, p, n)
  ELSE IF After(v, p) THEN RoomAfter(v, p, n)
  ELSE RoomThere(v, p, n)

----------------------------------------------------------------------------
(* erase(first, last), of n items                                          *)

EraseBefore(v, first, last, n) ==
  LET cell == Moved(v, last, v.from, first, {}) IN
  [v EXCEPT !.cell = Destroyed(cell, v.from - n, v.from), !.from = @ - n]

\* Mutant: the gap does not grow.
EraseAfter_Stays(v, first, last, n) ==
  LET cell == Moved(v, v.to, first, v.to + n, {}) IN
  [v EXCEPT !.cell = Destroyed(cell, v.to, v.to + n)]

EraseAfter(v, first, last, n) ==
  LET cell == Moved(v, v.to, first, v.to + n, {}) IN
  [v EXCEPT !.cell = Destroyed(cell, v.to, v.to + n), !.to = @ + n]

EraseAround(v, first, last) ==
  [v EXCEPT !.cell = Destroyed(Destroyed(v.cell, first, v.from), v.to, last),
            !.from = first, !.to = last]

EraseFar(v, i, n) ==
  LET u == Unsplit(v)
      cell == Moved(u, i + n, u.end, i, {})
  IN [u EXCEPT !.cell = Destroyed(cell, u.end - n, u.end), !.end = @ - n]

Erased(v, i, j) ==
  LET first == Plus(v, Begin(v), i)
      last == Plus(v, Begin(v), j)
  IN IF ~(Near(v, first) \/ Near(v, last)) THEN EraseFar(v, i, j - i)
     ELSE IF Before(v, last - 1) THEN EraseBefore(v, first, last, j - i)
     ELSE IF After(v, first) THEN EraseAfter(v, first, last, j - i)
     ELSE EraseAround(v, first, last)

\* The iterator that is returned
ErasedAt(v, i, j) == Plus(Erased(v, i, j), Begin(Erased(v, i, j)), i)

Cleared(v) ==
  LET u == Unsplit(v) IN [u EXCEPT !.cell = Destroyed(u.cell, 0, u.end), !.end = 0]

\* insert(pos, list) and insert(pos, count, value)
Inserted(v, i, list) ==
  LET a == AllocateFromGap(v, Plus(v, Begin(v), i), Len(list)) IN
  [vec |-> [a.vec EXCEPT !.cell = Constructed(a.vec.cell, a.at, list)], at |-> a.at]

\* insert(pos, first, last), one by one
InsertedEach(v, i, list) ==
  LET after[k \in 0 .. Len(list)] ==
        IF k = 0 THEN v ELSE Inserted(after[k - 1], i + k - 1, <<list[k]>>).vec
  IN after[Len(list)]

Empty == [cell |-> [k \in 0 .. -1 |-> "raw"], cap |-> 0, end |-> 0, from |-> 0, to |-> 0]

----------------------------------------------------------------------------
Lists(v, most) == UNION {[1 .. n -> Values] : n \in 1 .. MinOf(most, MaxSize - Size(v))}

Insert ==
  \E i \in 0 .. Size(vec), list \in Lists(vec, MaxInsert) :
    LET a == Inserted(vec, i, list) IN vec' = a.vec /\ returned' = [at |-> a.at, index |-> i]

InsertEach ==
  \E i \in 0 .. Size(vec), list \in Lists(vec, MaxEach) :
    /\ vec' = InsertedEach(vec, i, list)
    /\ returned' = [at |-> Plus(vec', Begin(vec'), i), index |-> i]

Erase ==
  \E i, j \in 0 .. Size(vec) :
    /\ i < j /\ vec' = Erased(vec, i, j)
    /\ returned' = [at |-> ErasedAt(vec, i, j), index |-> i]

Became(v) == vec' = v /\ returned' = [at |-> Begin(v), index |-> 0]

Clear == Became(Cleared(vec))
Data == Became(Unsplit(vec))
ReserveMore == \E cap \in Reservations : Became(Reserve(vec, cap))

\* shrink_to_fit(): the vector is swapped with a copy of it.
ShrinkToFit == Became(InsertedEach(Empty, 0, Items(vec)))

Init == vec = Empty /\ returned = [at |-> 0, index |-> 0]
Next == Insert \/ InsertEach \/ Erase \/ Clear \/ Data \/ ReserveMore \/ ShrinkToFit
Spec == Init /\ [][Next]_vars

----------------------------------------------------------------------------
\* The items are those of a vector to which the same was done.
Promised == INSTANCE ItemVector WITH items <- Items(vec)
VectorSpec == Promised!Spec

\* Iterators go from item to item: by steps or at once, to the end and back.
IteratorsAgree ==
  \A i, j \in 0 .. Size(vec) : i <= j =>
    LET p == Plus(vec, Begin(vec), i)
        q == Plus(vec, Begin(vec), j)
    IN /\ j = Size(vec) <=> q = End(vec)
       /\ j < Size(vec) => q = Index(vec, j)
       /\ Plus(vec, p, j - i) = q /\ Minus(vec, q, j - i) = p
       /\ Distance(vec, q, p) = j - i /\ Distance(vec, p, q) = i - j

\* The iterator that insert() and erase() return is at the item it names.
ReturnedThere == returned.at = Plus(vec, Begin(vec), returned.index)

\* Every object is constructed in a cell without one, and those that are not
\* items are destroyed, or moved from.
LifetimesExact ==
  LET items == {Index(vec, i) : i \in 0 .. Size(vec) - 1} IN
  \A k \in Positions(vec) : IF k \in items THEN vec.cell[k] \in Values ELSE vec.cell[k] \in {"raw", "moved"}
=============================================================================
