----------------------------- MODULE ItemVector -----------------------------
(***************************************************************************)
(* What a vector promises: its items are those that were inserted, in      *)
(* their places, and not erased.                                           *)
(***************************************************************************)
EXTENDS Integers, Sequences

CONSTANTS Values, MaxSize
VARIABLE items

Inserted(i, list) == SubSeq(items, 1, i) \o list \o SubSeq(items, i + 1, Len(items))
Erased(i, j) == SubSeq(items, 1, i) \o SubSeq(items, j + 1, Len(items))

Insert ==
  \E i \in 0 .. Len(items), n \in 1 .. MaxSize - Len(items) :
    \E list \in [1 .. n -> Values] : items' = Inserted(i, list)

Erase == \E i, j \in 0 .. Len(items) : i < j /\ items' = Erased(i, j)

Init == items = <<>>
Next == Insert \/ Erase
Spec == Init /\ [][Next]_items
=============================================================================
