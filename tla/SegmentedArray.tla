--------------------------- MODULE SegmentedArray ---------------------------
(***************************************************************************)
(* neolib::segmented_array, items in segments of fixed size: each node of  *)
(* a list has a segment and is in an array_tree, by which an index finds   *)
(* it.  The pointers of the list are 0 when they are null, as iNil is.     *)
(* A segment is a static_vector, whose insert() throws when there is no    *)
(* room, before it changes anything.  Items are copied without exceptions. *)
(***************************************************************************)
EXTENDS ArrayTree, SequencesExt

CONSTANTS Values,
          SegmentSize, \* the template's
          MaxInsert,   \* bound: items inserted at once
          MaxSize,     \* bound: items in the array
          Marked,      \* the values of which the array has at most one item,
                       \* a bound: where it ends tells how all items move
          Default      \* the value resize() adds

SegmentedArrayAssumption ==
  /\ ArrayTreeAssumption /\ SegmentSize \in Nat \ {0} /\ MaxInsert \in Nat /\ MaxSize \in Nat
  /\ Marked \subseteq Values /\ Default \in Values \ Marked

Null == 0

VARIABLE arr \* seg and the list of its nodes, tree, and size, which is iSize

EmptyArray ==
  [seg |-> [n \in TreeNodes |-> <<>>], next |-> [n \in TreeNodes |-> Null],
   prev |-> [n \in TreeNodes |-> Null], front |-> Null, back |-> Null, tree |-> EmptyTree, size |-> 0]

TypeOK ==
  /\ \A n \in TreeNodes : arr.seg[n] \in Seq(Values) /\ Len(arr.seg[n]) <= SegmentSize
  /\ {arr.front, arr.back} \subseteq 0 .. MaxNodes /\ arr.size \in 0 .. MaxSize
  /\ arr.tree.root \in 0 .. MaxNodes /\ arr.tree.red \subseteq TreeNodes

Count(a, n) == Len(a.seg[n])
Available(a, n) == SegmentSize - Count(a, n)
MinOf(x, y) == IF x < y THEN x ELSE y

RECURSIVE ChainFrom(_, _)
ChainFrom(a, n) == IF n = Null THEN <<>> ELSE <<n>> \o ChainFrom(a, a.next[n])
Chain(a) == ChainFrom(a, a.front)
Items(a) == FlattenSeq([k \in DOMAIN Chain(a) |-> a.seg[Chain(a)[k]]])

----------------------------------------------------------------------------
(* Iterators: the node, the place in it, and the index in the array        *)

End(a) == [node |-> a.back, at |-> IF a.back = Null THEN 0 ELSE Count(a, a.back), index |-> a.size]

\* iterator(container, index)
Find(a, index) ==
  LET found == FindNode(a.tree, index) IN
  IF found.node = Nil THEN End(a)
  ELSE [node |-> found.node, at |-> index - found.index, index |-> index]

Begin(a) == [node |-> a.front, at |-> 0, index |-> 0]

Increment(a, i) ==
  IF i.at + 1 = Count(a, i.node) /\ i.node # a.back
  THEN [node |-> a.next[i.node], at |-> 0, index |-> i.index + 1]
  ELSE [i EXCEPT !.at = @ + 1, !.index = @ + 1]

Decrement(a, i) ==
  IF i.at = 0
  THEN [node |-> a.prev[i.node], at |-> Count(a, a.prev[i.node]) - 1, index |-> i.index - 1]
  ELSE [i EXCEPT !.at = @ - 1, !.index = @ - 1]

Plus(a, i, d) ==
  IF i.node = Null \/ d >= Count(a, i.node) - i.at THEN Find(a, i.index + d)
  ELSE [i EXCEPT !.at = @ + d, !.index = @ + d]

Minus(a, i, d) ==
  IF d > i.at THEN Find(a, i.index - d) ELSE [i EXCEPT !.at = @ - d, !.index = @ - d]

At(a, index) == Plus(a, Begin(a), index)

----------------------------------------------------------------------------
(* The list of nodes                                                       *)

\* allocate_node(): [arr, node], with a new node after n
AllocateNode(a, n) ==
  LET new == CHOOSE m \in TreeNodes : m \notin Range(Chain(a))
      next == IF n = Null THEN Null ELSE a.next[n]
      linked == [a EXCEPT !.prev = [m \in TreeNodes |-> IF m = new THEN n ELSE IF m = next THEN new ELSE @[m]],
                          !.next = [m \in TreeNodes |-> IF m = new THEN next ELSE IF m = n THEN new ELSE @[m]]]
  IN [node |-> new,
      arr |-> IF n = Null THEN [linked EXCEPT !.front = new, !.back = new]
              ELSE IF a.back = n THEN [linked EXCEPT !.back = new] ELSE linked]

FreeNode(a, n) ==
  LET next == a.next[n]
      prev == a.prev[n]
  IN [a EXCEPT !.next = [m \in TreeNodes |-> CASE m = n -> Null [] m = prev -> next [] OTHER -> @[m]],
               !.prev = [m \in TreeNodes |-> CASE m = n -> Null [] m = next -> prev [] OTHER -> @[m]],
               !.back = IF @ = n THEN prev ELSE @, !.front = IF @ = n THEN next ELSE @,
               !.seg[n] = <<>>, !.tree = DeleteNode(@, n)]

RECURSIVE AllocateNodes(_, _, _)
AllocateNodes(a, n, count) ==
  LET new == AllocateNode(a, n) IN
  IF count <= 0 THEN [arr |-> a, node |-> n] ELSE AllocateNodes(new.arr, new.node, count - SegmentSize)

\* allocate_space(): [arr, node], where the node is the one in which the items
\* that are inserted, and those behind them in their node, are to end.
AllocateSpace(a, pos, count) ==
  LET n == pos.node
      tail == IF n = Null THEN 0 ELSE Count(a, n) - pos.at
      rest == IF n = Null THEN count ELSE count - MinOf(count, Available(a, n))
      after == IF n = Null THEN Null ELSE a.next[n]
      fits == rest > 0 /\ after # Null /\ rest <= Available(a, after)
      new == AllocateNodes(a, n, IF fits THEN 0 ELSE rest)
  IN IF rest = 0 THEN [arr |-> a, node |-> n]
     ELSE IF tail > 0 /\ Available(new.arr, new.node) < tail THEN AllocateNode(new.arr, new.node)
     ELSE [arr |-> new.arr, node |-> IF fits THEN after ELSE new.node]

----------------------------------------------------------------------------
(* do_insert()                                                             *)

InsertedInto(a, n, at, list) ==
  [a EXCEPT !.seg[n] = SubSeq(@, 1, at) \o list \o SubSeq(@, at + 1, Len(@)), !.size = @ + Len(list)]

\* Each node from n to `last` takes what it has room for, `last` the rest.
RECURSIVE Filled(_, _, _, _, _)
Filled(a, n, at, last, list) ==
  LET k == IF n = last THEN Len(list) ELSE MinOf(Len(list), Available(a, n))
      u == InsertedInto(a, n, at, SubSeq(list, 1, k))
  IN IF list = <<>> THEN a
     ELSE IF n = last THEN u ELSE Filled(u, a.next[n], 0, last, SubSeq(list, k + 1, Len(list)))

\* The nodes from n to `last` that are new go into the tree, the others have
\* their new sizes.
RECURSIVE Counted(_, _, _, _, _)
Counted(a, n, last, index, old) ==
  LET t == IF n \in old THEN SetSize(a.tree, n, a.tree.size[n] + Count(a, n) - Own(a.tree, n))
           ELSE InsertNode(a.tree, n, Count(a, n), index)
      u == [a EXCEPT !.tree = t]
  IN IF n = last THEN u ELSE Counted(u, a.next[n], last, index + Count(a, n), old)

\* The items of node n from place `at` on go before those of `last`.
TailMoved(a, n, at, last) ==
  IF last = n THEN a
  ELSE [a EXCEPT !.seg[last] = SubSeq(a.seg[n], at + 1, Count(a, n)) \o @, !.seg[n] = SubSeq(@, 1, at)]

\* What came of an insertion into the nodes from that of pos to `last`:
\* [arr, pos, thrown]
Outcome(a, pos) ==
  [arr |-> a, thrown |-> FALSE,
   pos |-> IF pos.at # Count(a, pos.node) THEN pos
           ELSE [node |-> a.next[pos.node], at |-> 0, index |-> pos.index]]
Spread(a, pos, last, list, old) ==
  Outcome(Counted(Filled(TailMoved(a, pos.node, pos.at, last), pos.node, pos.at, last, list),
                  pos.node, last, pos.index - pos.at, old), pos)

DoInsertIn(room, a, pos, list) ==
  LET first == IF pos.node = Null THEN Begin(room.arr) ELSE pos
      old == {pos.node, IF pos.node = Null THEN Null ELSE a.next[pos.node]}
  IN IF Count(TailMoved(room.arr, first.node, first.at, room.node), room.node) > SegmentSize
     THEN [arr |-> a, pos |-> pos, thrown |-> TRUE]
     ELSE Spread(room.arr, first, room.node, list, old)

DoInsert(a, pos, list) ==
  DoInsertIn(IF pos.node # Null /\ Len(list) <= Available(a, pos.node)
             THEN [arr |-> a, node |-> pos.node] ELSE AllocateSpace(a, pos, Len(list)),
             a, pos, list)

\* insert(): copies of one value go in one by one.
RECURSIVE InsertCopies(_, _, _, _)
InsertCopies(a, pos, count, value) ==
  LET Rest(one) == InsertCopies(one.arr, Increment(one.arr, one.pos), count - 1, value) IN
  IF count = 0 THEN a ELSE Rest(DoInsert(a, pos, <<value>>))

----------------------------------------------------------------------------
(* erase()                                                                 *)

\* Mutant: the item count in the tree is not lowered when a segment keeps some.
Cut_Uncounted(a, n, from, to) ==
  LET kept == SubSeq(a.seg[n], 1, from) \o SubSeq(a.seg[n], to + 1, Count(a, n))
      u == [a EXCEPT !.seg[n] = kept, !.size = @ - (to - from)]
  IN IF kept = <<>> THEN FreeNode(u, n) ELSE u

\* The items of n from place `from` to before `to` go, and n if it has no more.
Cut(a, n, from, to) ==
  LET kept == SubSeq(a.seg[n], 1, from) \o SubSeq(a.seg[n], to + 1, Count(a, n))
      u == [a EXCEPT !.seg[n] = kept, !.size = @ - (to - from)]
  IN IF kept = <<>> THEN FreeNode(u, n)
     ELSE [u EXCEPT !.tree = SetSize(@, n, @.size[n] - (to - from))]

RECURSIVE FreeBetween(_, _, _)
FreeBetween(a, n, last) ==
  IF n = last THEN a ELSE FreeBetween(Cut(a, n, 0, Count(a, n)), a.next[n], last)

EraseRange(a, first, last) ==
  LET FirstCut(u) == Cut(u, first.node, first.at, Count(u, first.node)) IN
  IF first.index = last.index THEN a
  ELSE IF first.node = last.node THEN Cut(a, first.node, first.at, last.at)
  ELSE Cut(FirstCut(FreeBetween(a, a.next[first.node], last.node)), last.node, 0, last.at)

----------------------------------------------------------------------------
(* The operations.  Which node is which does not matter: after each, the   *)
(* nodes are numbered as they follow each other.                           *)

Renumbered(a) ==
  LET chain == Chain(a)
      Number(n) == IF n = Nil THEN Nil ELSE CHOOSE k \in DOMAIN chain : chain[k] = n
      Nodes(f, empty, Value(_)) ==
        [k \in DOMAIN f |-> IF k \in DOMAIN chain THEN Value(f[chain[k]]) ELSE empty]
      Same(x) == x
      t == a.tree
  IN [seg |-> Nodes(a.seg, <<>>, Same), next |-> Nodes(a.next, Null, Number),
      prev |-> Nodes(a.prev, Null, Number), front |-> Number(a.front), back |-> Number(a.back),
      size |-> a.size,
      tree |-> [root |-> Number(t.root), red |-> {Number(n) : n \in t.red},
                parent |-> Nodes(t.parent, Nil, Number), left |-> Nodes(t.left, Nil, Number),
                right |-> Nodes(t.right, Nil, Number), size |-> Nodes(t.size, 0, Same)]]

Becomes(a) ==
  /\ Len(SelectSeq(Items(a), LAMBDA v : v \in Marked)) <= 1
  /\ arr' = Renumbered(a)

\* insert() of the items of a range
InsertRange ==
  \E i \in 0 .. arr.size, n \in 1 .. MinOf(MaxInsert, MaxSize - arr.size) :
    \E list \in [1 .. n -> Values] : Becomes(DoInsert(arr, At(arr, i), list).arr)

\* insert() of copies, push_front(), push_back()
Insert ==
  \E i \in 0 .. arr.size, n \in 1 .. MinOf(MaxInsert, MaxSize - arr.size), v \in Values :
    Becomes(InsertCopies(arr, At(arr, i), n, v))

\* erase(), pop_front(), pop_back() and clear()
Erase == \E i, j \in 0 .. arr.size : i < j /\ Becomes(EraseRange(arr, At(arr, i), At(arr, j)))

Resize ==
  \E n \in 0 .. MinOf(MaxSize, arr.size + MaxInsert) :
    Becomes(IF arr.size < n THEN InsertCopies(arr, End(arr), n - arr.size, Default)
            ELSE EraseRange(arr, At(arr, n), End(arr)))

Init == arr = EmptyArray
Next == InsertRange \/ Insert \/ Erase \/ Resize
Spec == Init /\ [][Next]_arr

----------------------------------------------------------------------------
(* Properties                                                              *)

\* Every step makes the array what a vector would be after it, and an
\* insertion that throws has changed nothing, whatever nodes are split, filled
\* or freed.
Promised == INSTANCE ItemVector WITH items <- Items(arr)
VectorSpec == Promised!Spec

\* The tree and the list agree: the item that operator[] finds at an index,
\* that an iterator reaches by += from any place before or by -= from any place
\* behind, is the one that steps of ++ from begin() come to.
RECURSIVE Stepped(_, _)
Stepped(a, k) == IF k = 0 THEN Begin(a) ELSE Increment(a, Stepped(a, k - 1))
ReachedByIndex ==
  /\ arr.size = Len(Items(arr)) /\ InOrder(arr.tree, arr.tree.root) = Chain(arr)
  /\ \A i \in 0 .. arr.size :
       LET there == Stepped(arr, i) IN
       /\ there = (IF i = arr.size THEN End(arr) ELSE Find(arr, i))
       /\ \A j \in 0 .. i : Plus(arr, Stepped(arr, j), i - j) = there
       /\ \A j \in i .. arr.size : Minus(arr, Stepped(arr, j), j - i) = there
       /\ i > 0 => Decrement(arr, there) = Stepped(arr, i - 1)

\* Rotations of the tree after insertions and deletions leave it balanced and
\* its links, which climbing counts follow, consistent.
Shaped == Balanced(arr.tree) /\ Linked(arr.tree)

\* What an insertion returns is where the first new item is, even when the
\* place was the end of a segment, or the segment was split there.
ReturnedThere ==
  \A i \in 0 .. arr.size, n \in 1 .. MinOf(MaxInsert, MaxSize - arr.size) :
    LET done == DoInsert(arr, At(arr, i), [k \in 1 .. n |-> Default])
    IN ~done.thrown => done.pos = Find(done.arr, i)

\* An insertion fails for want of room only when a range is put before two or
\* more items of a segment that has room for them elsewhere in it and in the
\* next one, which then is given the items behind the place and has no room
\* for those: never one of a single item.
RefusedOnlyRange ==
  \A i \in 0 .. arr.size, n \in 1 .. MinOf(MaxInsert, MaxSize - arr.size) :
    LET pos == At(arr, i)
        tail == Count(arr, pos.node) - pos.at
        after == arr.next[pos.node]
    IN DoInsert(arr, pos, [k \in 1 .. n |-> Default]).thrown
         <=> /\ pos.node # Null
             /\ after # Null
             /\ n > Available(arr, pos.node)
             /\ n - Available(arr, pos.node) <= Available(arr, after)
             /\ tail <= Available(arr, pos.node)
             /\ tail > Available(arr, after)
=============================================================================
