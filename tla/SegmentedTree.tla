--------------------------- MODULE SegmentedTree ---------------------------
(***************************************************************************)
(* neolib::segmented_tree, a tree whose nodes each keep the list of their  *)
(* children, the number of nodes below them, and how many of those a skip  *)
(* iterator does not visit.  The numbers are std::size_t: where one would  *)
(* be negative here it has wrapped there, and differences are the same.    *)
(* iParent is the node in whose children a node is: update_parents() keeps *)
(* it so when nodes are moved.                                             *)
(***************************************************************************)
EXTENDS Integers, FiniteSets, SequencesExt

CONSTANTS MaxNodes, \* bound: nodes in the tree
          Values,
          MaxHigh,  \* bound: nodes with a value other than the least one
          MaxSkips, \* bound: nodes with their children skipped
          MaxCount  \* bound: what a count may come to

SegmentedTreeAssumption ==
  /\ Values \subseteq Int /\ Values # {} /\ {MaxNodes, MaxHigh, MaxSkips, MaxCount} \subseteq Nat

Root == 0
TreeNodes == 1 .. MaxNodes

VARIABLES
  tree,         \* children, value, count, skipped: of each node; skip: the nodes with iSkipChildren
  branchErased, \* a node with others below it was erased
  disturbed     \* nodes came, went, or were skipped or not below a skipped one
vars == <<tree, branchErased, disturbed>>

EmptyTree ==
  [children |-> [n \in TreeNodes \cup {Root} |-> <<>>], value |-> [n \in TreeNodes |-> CHOOSE v \in Values : \A w \in Values : v <= w],
   count |-> [n \in TreeNodes \cup {Root} |-> 0], skipped |-> [n \in TreeNodes \cup {Root} |-> 0], skip |-> {}]

RECURSIVE Preorder(_, _)
Preorder(t, n) == <<n>> \o FlattenSeq([k \in DOMAIN t.children[n] |-> Preorder(t, t.children[n][k])])

Present(t) == Range(Preorder(t, Root)) \ {Root}
Below(t, n) == Range(Preorder(t, n)) \ {n}
Parent(t, n) == CHOOSE m \in DOMAIN t.children : n \in Range(t.children[m])
Place(t, n) == CHOOSE k \in DOMAIN t.children[Parent(t, n)] : t.children[Parent(t, n)][k] = n

RECURSIVE AtOrAbove(_, _)
AtOrAbove(t, n) == {n} \cup IF n = Root THEN {} ELSE AtOrAbove(t, Parent(t, n))

\* What increment_*_count() and decrement_*_count() do: d more for n and all above it
Raised(t, counts, n, d) ==
  LET raised == AtOrAbove(t, n) IN [m \in DOMAIN counts |-> IF m \in raised THEN counts[m] + d ELSE counts[m]]

----------------------------------------------------------------------------
(* Iterators: the parent node, and the place in its children               *)

Begin == [parent |-> Root, at |-> 1]
End(t) == [parent |-> Root, at |-> Len(t.children[Root]) + 1]
NodeAt(t, i) == t.children[i.parent][i.at]

RECURSIVE Climbed(_, _)
Climbed(t, i) ==
  IF i.at <= Len(t.children[i.parent]) \/ i.parent = Root THEN i
  ELSE Climbed(t, [parent |-> Parent(t, i.parent), at |-> Place(t, i.parent) + 1])

\* operator++, of a skip iterator or a normal one
Increment(t, i, skips) ==
  LET n == NodeAt(t, i) IN
  IF t.children[n] = <<>> \/ (skips /\ n \in t.skip) THEN Climbed(t, [i EXCEPT !.at = @ + 1])
  ELSE [parent |-> n, at |-> 1]

RECURSIVE LastBelow(_, _, _)
LastBelow(t, i, skips) ==
  LET n == NodeAt(t, i) IN
  IF t.children[n] = <<>> \/ (skips /\ n \in t.skip) THEN i
  ELSE LastBelow(t, [parent |-> n, at |-> Len(t.children[n])], skips)

Decrement(t, i, skips) ==
  IF i.at = 1 THEN [parent |-> Parent(t, i.parent), at |-> Place(t, i.parent)]
  ELSE LastBelow(t, [i EXCEPT !.at = @ - 1], skips)

RECURSIVE Visited(_, _, _)
Visited(t, i, skips) ==
  IF i = End(t) THEN <<>> ELSE <<NodeAt(t, i)>> \o Visited(t, Increment(t, i, skips), skips)

size == tree.count[Root]
ksize == tree.count[Root] - tree.skipped[Root]

----------------------------------------------------------------------------
(* The operations.  Which node is which does not matter: they are numbered *)
(* in preorder.                                                            *)

Renumbered(t) ==
  LET order == Tail(Preorder(t, Root))
      Old(k) == IF k = Root THEN Root ELSE order[k]
      New(n) == CHOOSE k \in DOMAIN order : order[k] = n
      Is(k) == k = Root \/ k \in DOMAIN order
  IN [children |-> [k \in DOMAIN t.children |->
                      IF Is(k) THEN [j \in DOMAIN t.children[Old(k)] |-> New(t.children[Old(k)][j])] ELSE <<>>],
      value |-> [k \in TreeNodes |-> IF Is(k) THEN t.value[Old(k)] ELSE EmptyTree.value[k]],
      count |-> [k \in DOMAIN t.count |-> IF Is(k) THEN t.count[Old(k)] ELSE 0],
      skipped |-> [k \in DOMAIN t.skipped |-> IF Is(k) THEN t.skipped[Old(k)] ELSE 0],
      skip |-> {New(n) : n \in t.skip}]

\* Bound: no step but clear() is taken once the tree is disturbed.
Becomes(t) ==
  /\ ~disturbed
  /\ t.count[Root] <= MaxCount /\ \A n \in DOMAIN t.skipped : t.skipped[n] \in -1 .. MaxCount
  /\ Cardinality(t.skip) <= MaxSkips
  /\ Cardinality({n \in Present(t) : \E v \in Values : v < t.value[n]}) <= MaxHigh
  /\ tree' = Renumbered(t)

\* insert(), push_back() and push_front()
Inserted(t, p, k, v) ==
  LET n == CHOOSE m \in TreeNodes : m \notin Present(t) IN
  [t EXCEPT !.children[p] = InsertAt(@, k, n), !.value[n] = v, !.count = Raised(t, @, p, 1)]

Insert ==
  \E p \in Present(tree) \cup {Root}, v \in Values : \E k \in 1 .. Len(tree.children[p]) + 1 :
    /\ Cardinality(Present(tree)) < MaxNodes
    /\ Becomes(Inserted(tree, p, k, v))
    /\ disturbed' = (disturbed \/ AtOrAbove(tree, p) \cap tree.skip # {})
    /\ UNCHANGED branchErased

\* erase(): n goes with all below it.
Erased(t, n) ==
  [t EXCEPT !.children[Parent(t, n)] = RemoveAt(@, Place(t, n)),
            !.skip = @ \ ({n} \cup Below(t, n)), !.count = Raised(t, @, Parent(t, n), -1)]
AfterErased(t, n) == [parent |-> Parent(t, n), at |-> Place(t, n)]

Erase ==
  \E n \in Present(tree) :
    /\ Becomes(Erased(tree, n))
    /\ branchErased' = (branchErased \/ Below(tree, n) # {})
    /\ disturbed' = (disturbed \/ (AtOrAbove(tree, n) \ {n}) \cap tree.skip # {})

Skipping(t, n) ==
  [t EXCEPT !.skip = @ \cup {n}, !.skipped = Raised(t, @, Parent(t, n), t.count[n] - t.skipped[n])]

SkipChildren ==
  \E n \in Present(tree) \ tree.skip :
    /\ Becomes(Skipping(tree, n))
    /\ disturbed' = (disturbed \/ AtOrAbove(tree, n) \cap tree.skip # {})
    /\ UNCHANGED branchErased

UnskipChildren ==
  \E n \in tree.skip :
    /\ Becomes([tree EXCEPT !.skip = @ \ {n},
                            !.skipped = Raised(tree, @, Parent(tree, n), tree.skipped[n] - tree.count[n])])
    /\ disturbed' = (disturbed \/ (AtOrAbove(tree, n) \ {n}) \cap tree.skip # {})
    /\ UNCHANGED branchErased

Clear == tree' = EmptyTree /\ branchErased' = FALSE /\ disturbed' = FALSE

\* Mutant: what is below a node with its children skipped is not sorted.
Sorting_Unskipped(t, n) == n \notin t.skip /\ Len(t.children[n]) # t.count[n]

\* sort() goes on to the children of n when there are more nodes below it.
Sorting(t, n) == Len(t.children[n]) # t.count[n]

RECURSIVE SortReaches(_, _)
SortReaches(t, n) ==
  {n} \cup IF Sorting(t, n) THEN UNION {SortReaches(t, c) : c \in Range(t.children[n])} ELSE {}

SortedBy(t, Before(_, _)) ==
  LET reached == SortReaches(t, Root)
  IN [t EXCEPT !.children = [n \in DOMAIN @ |-> IF n \in reached THEN SortSeq(@[n], Before) ELSE @[n]]]

\* std::sort(), which may swap equal values
Sort ==
  \E rank \in Permutations(TreeNodes) :
    LET Before(x, y) == \/ tree.value[x] < tree.value[y]
                        \/ tree.value[x] = tree.value[y] /\ rank[x] < rank[y]
    IN Becomes(SortedBy(tree, Before)) /\ UNCHANGED <<branchErased, disturbed>>

Init == tree = EmptyTree /\ branchErased = FALSE /\ disturbed = FALSE
Next == Insert \/ Erase \/ SkipChildren \/ UnskipChildren \/ Clear \/ Sort
Spec == Init /\ [][Next]_vars

----------------------------------------------------------------------------
(* Properties                                                              *)

TypeOK ==
  /\ DOMAIN tree.children = TreeNodes \cup {Root} /\ tree.skip \subseteq Present(tree)
  /\ \A n \in TreeNodes : tree.value[n] \in Values /\ tree.count[n] \in 0 .. MaxCount
  /\ branchErased \in BOOLEAN /\ disturbed \in BOOLEAN

\* ++ from begin() visits each node once, parents before their children, and
\* -- from end() visits them backwards; a skip iterator leaves out all that is
\* below a node whose children are skipped.
RECURSIVE Unskipped(_, _)
Unskipped(t, n) ==
  <<n>> \o IF n \in t.skip THEN <<>>
           ELSE FlattenSeq([k \in DOMAIN t.children[n] |-> Unskipped(t, t.children[n][k])])
RECURSIVE VisitedBack(_, _, _)
VisitedBack(t, i, skips) ==
  IF i = Begin THEN <<>>
  ELSE LET j == Decrement(t, i, skips) IN Append(VisitedBack(t, j, skips), NodeAt(t, j))
VisitsAll ==
  \A skips \in BOOLEAN :
    LET all == Tail(IF skips THEN Unskipped(tree, Root) ELSE Preorder(tree, Root)) IN
    Visited(tree, Begin, skips) = all /\ VisitedBack(tree, End(tree), skips) = all

\* size() and descendent_count() are right until a node that has others below it
\* is erased: erase() takes off one for all of them.
CountsUntilBranchErased ==
  ~branchErased => \A n \in Present(tree) \cup {Root} : tree.count[n] = Cardinality(Below(tree, n))

\* ksize() is the number of nodes a skip iterator visits until that happens or a
\* node comes, goes, or has its children skipped or not, below a node with its
\* children skipped: the nodes above that one were told before how many it hides.
SkippedUntilDisturbed ==
  ~branchErased /\ ~disturbed => ksize = Len(Visited(tree, Begin, TRUE))

\* What erase() returns is where the traversal goes on, except after the last
\* child of a node, when it is the end of a list of children, from which
\* neither ++ nor a comparison with end() leads on.
EraseReturnsNext ==
  \A n \in Present(tree) :
    LET after == Erased(tree, n)
        at == AfterErased(tree, n)
        stuck == at.parent # Root /\ at.at > Len(after.children[at.parent])
    IN IF stuck THEN at # End(after)
       ELSE Visited(after, at, FALSE) =
              SelectSeq(Visited(tree, at, FALSE), LAMBDA m : m \notin {n} \cup Below(tree, n))

\* sort() puts the children of every node in order, though it goes by counts that
\* may be too high.
SortsAll ==
  LET sorted == SortedBy(tree, LAMBDA x, y : tree.value[x] < tree.value[y])
  IN \A n \in Present(tree) \cup {Root} : \A j, k \in DOMAIN sorted.children[n] :
       j < k => tree.value[sorted.children[n][j]] <= tree.value[sorted.children[n][k]]
=============================================================================
