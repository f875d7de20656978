----------------------------- MODULE ArrayTree -----------------------------
(***************************************************************************)
(* neolib::array_tree, a red-black tree of nodes in the order of an array, *)
(* in which a node is found by the index of an item: the size of a node is *)
(* the number of items in it and below it.  A tree is a record: its root,  *)
(* its red nodes, and the links and sizes of nodes 1, 2, ... and of        *)
(* iNil, which is 0.                                                       *)
(***************************************************************************)
EXTENDS Integers, Sequences

CONSTANT MaxNodes \* bound: nodes of the tree

ArrayTreeAssumption == MaxNodes \in Nat

Nil == 0
TreeNodes == 1 .. MaxNodes

NoNodes == [n \in 0 .. MaxNodes |-> Nil]
EmptyTree ==
  [root |-> Nil, red |-> {}, parent |-> NoNodes, left |-> NoNodes, right |-> NoNodes, size |-> NoNodes]

Own(t, n) == t.size[n] - t.size[t.left[n]] - t.size[t.right[n]]
Painted(t, n, red) == [t EXCEPT !.red = IF red /\ n # Nil THEN @ \cup {n} ELSE @ \ {n}]
BlackRoot(t) == Painted(t, t.root, FALSE)
Opposite(side) == IF side = "left" THEN "right" ELSE "left"
SideOf(t, n) == IF n = t.left[t.parent[n]] THEN "left" ELSE "right"

\* set_size(): what it adds to a node it adds to those above.
RECURSIVE SetSize(_, _, _)
SetSize(t, n, size) ==
  IF n = Nil \/ size = t.size[n] THEN t
  ELSE SetSize([t EXCEPT !.size[n] = size], t.parent[n],
               t.size[t.parent[n]] + size - t.size[n])

----------------------------------------------------------------------------
(* find_node(): the node with the item at `pos`, and where its items begin *)

RECURSIVE Descend(_, _, _, _)
Descend(t, n, index, pos) ==
  CASE n # Nil /\ pos < index ->
         LET l == t.left[n] IN Descend(t, l, index - (t.size[l] - t.size[t.left[l]]), pos)
    [] n # Nil /\ pos >= index + Own(t, n) ->
         LET r == t.right[n] IN Descend(t, r, index + Own(t, n) + t.size[t.left[r]], pos)
    [] OTHER -> [node |-> n, index |-> index]

FindNode(t, pos) == Descend(t, t.root, t.size[t.left[t.root]], pos)

----------------------------------------------------------------------------
(* left_rotate() and right_rotate(): y, the child of x on the other side,  *)
(* takes its place.                                                        *)

Relinked(t, up, n, y) ==
  IF up = Nil THEN [t EXCEPT !.root = y]
  ELSE IF n = t.left[up] THEN [t EXCEPT !.left[up] = y] ELSE [t EXCEPT !.right[up] = y]

Rotate(t, side, x) ==
  LET o == Opposite(side)
      y == t[o][x]
      inner == t[side][y]
      u == Relinked([t EXCEPT ![o][x] = inner, !.parent[inner] = IF inner = Nil THEN @ ELSE x],
                    t.parent[x], x, y)
  IN [u EXCEPT ![side][y] = x, !.parent[y] = t.parent[x], !.parent[x] = y,
               !.size[y] = t.size[x], !.size[x] = @ - t.size[y] + t.size[inner]]

----------------------------------------------------------------------------
(* insert_node(): a new node, with its size, whose items begin at `pos`    *)

RECURSIVE InsertFixup(_, _)
InsertFixup(t, z) ==
  LET p == t.parent[z]
      g == t.parent[p]
      side == SideOf(t, p)
      uncle == t[Opposite(side)][g]
      turned == z = t[Opposite(side)][p]
      u == IF turned THEN Rotate(t, side, p) ELSE t
      top == IF turned THEN z ELSE p
  IN CASE p \notin t.red -> BlackRoot(t)
       [] p \in t.red /\ uncle \in t.red ->
            InsertFixup(Painted(Painted(Painted(t, p, FALSE), uncle, FALSE), g, TRUE), g)
       [] OTHER ->
            InsertFixup(Rotate(Painted(Painted(u, top, FALSE), g, TRUE), Opposite(side), g),
                        IF turned THEN p ELSE z)

\* The node that is to be the parent, and the side
RECURSIVE Place(_, _, _, _)
Place(t, n, index, pos) ==
  LET l == t.left[n]
      r == t.right[n]
  IN IF pos <= index
     THEN IF l = Nil THEN <<n, "left">>
          ELSE Place(t, l, index - (t.size[l] - t.size[t.left[l]]), pos)
     ELSE IF r = Nil THEN <<n, "right">>
          ELSE Place(t, r, index + Own(t, n) + t.size[t.left[r]], pos)

InsertNode(t, z, size, pos) ==
  LET at == Place(t, t.root, t.size[t.left[t.root]], pos)
      new == [t EXCEPT !.red = @ \cup {z}, !.size[z] = size]
      u == [new EXCEPT ![at[2]][at[1]] = z, !.parent[z] = at[1]]
  IN InsertFixup(IF t.root = Nil THEN [new EXCEPT !.root = z]
                 ELSE SetSize(u, at[1], u.size[at[1]] + size), z)

----------------------------------------------------------------------------
(* delete_node()                                                           *)

RECURSIVE Minimum(_, _)
Minimum(t, n) == IF t.left[n] = Nil THEN n ELSE Minimum(t, t.left[n])

Sibling(t, x) == t[Opposite(SideOf(t, x))][t.parent[x]]

\* A red sibling gives way to a black one.
WithBlackSibling(t, x) ==
  LET p == t.parent[x]
      w == Sibling(t, x)
  IN IF w \in t.red THEN Rotate(Painted(Painted(t, w, FALSE), p, TRUE), SideOf(t, x), p) ELSE t

\* A sibling with a red child has one on the side away from x.
WithOuterRed(t, x) ==
  LET w == Sibling(t, x)
      o == Opposite(SideOf(t, x))
      inner == t[SideOf(t, x)][w]
  IN IF t[o][w] \in t.red THEN t ELSE Rotate(Painted(Painted(t, inner, FALSE), w, TRUE), o, w)

SiblingLifted(t, x) ==
  LET p == t.parent[x]
      w == Sibling(t, x)
      outer == t[Opposite(SideOf(t, x))][w]
  IN Rotate(Painted(Painted(Painted(t, w, p \in t.red), p, FALSE), outer, FALSE), SideOf(t, x), p)

RECURSIVE DeleteFixup(_, _)
Lifted(t, x) ==
  LET w == Sibling(t, x) IN
  IF {t.left[w], t.right[w]} \cap t.red = {}
  THEN DeleteFixup(Painted(t, w, TRUE), t.parent[x])
  ELSE BlackRoot(SiblingLifted(WithOuterRed(t, x), x))

DeleteFixup(t, x) ==
  IF x = t.root \/ x \in t.red THEN Painted(t, x, FALSE) ELSE Lifted(WithBlackSibling(t, x), x)

\* y, with no child but x, is taken out.
Spliced(t, y, x) ==
  LET up == t.parent[y]
      u == SetSize(t, up, t.size[up] - t.size[y])
      v == SetSize(u, up, u.size[up] + t.size[x])
  IN Relinked([v EXCEPT !.parent[x] = up], up, y, x)

\* node::replace(): y takes the place of z, with its own items.
Replaced(t, z, y, own) ==
  LET up == t.parent[z]
      below == t.size[t.left[z]] + t.size[t.right[z]]
      gone == SetSize(t, up, t.size[up] - t.size[z])
      linked == Relinked([gone EXCEPT !.parent = [n \in DOMAIN @ |->
                            IF n = y THEN up
                            ELSE IF n \in {t.left[z], t.right[z]} \ {Nil} \/ (n = Nil /\ @[n] = z) THEN y
                            ELSE @[n]],
                          !.left[y] = t.left[z], !.right[y] = t.right[z], !.size[y] = own + below],
                        up, z, y)
  IN SetSize(Painted(linked, y, z \in t.red), up, linked.size[up] + own + below)

\* A node that is out of the tree is as if it had never been in it, and the
\* parent of iNil, which only a deletion reads, as if it were none.
Forgotten(t, z) ==
  [t EXCEPT !.red = @ \ {z}, !.parent[z] = Nil, !.left[z] = Nil, !.right[z] = Nil, !.size[z] = 0,
            !.parent[Nil] = Nil]

DeleteNode(t, z) ==
  LET emptied == SetSize(t, z, t.size[t.left[z]] + t.size[t.right[z]])
      y == IF t.left[z] = Nil \/ t.right[z] = Nil THEN z ELSE Minimum(t, t.right[z])
      x == IF t.left[y] # Nil THEN t.left[y] ELSE t.right[y]
      own == Own(t, y)
      u == IF y = z THEN Relinked([emptied EXCEPT !.parent[x] = t.parent[y]], t.parent[y], y, x)
           ELSE Replaced(Spliced(emptied, y, x), z, y, own)
  IN Forgotten(IF y \in t.red THEN u ELSE DeleteFixup(u, x), z)

----------------------------------------------------------------------------
RECURSIVE InOrder(_, _)
InOrder(t, n) ==
  IF n = Nil THEN <<>> ELSE InOrder(t, t.left[n]) \o <<n>> \o InOrder(t, t.right[n])

\* The number of black nodes on every way down from n, or -1
RECURSIVE BlackHeight(_, _)
BlackHeight(t, n) ==
  LET l == BlackHeight(t, t.left[n]) IN
  IF n = Nil THEN 0
  ELSE IF l = -1 \/ l # BlackHeight(t, t.right[n]) THEN -1
  ELSE IF n \in t.red THEN l ELSE l + 1

\* The tree is balanced, so that an item is found in logarithmic time: its
\* root is black, no red node is below a red one, and there are as many black
\* nodes on all ways down.
Balanced(t) ==
  /\ t.root \notin t.red
  /\ \A n \in t.red : t.parent[n] \notin t.red
  /\ BlackHeight(t, t.root) # -1

\* The links go up as they go down.
Linked(t) ==
  /\ t.parent[t.root] = Nil
  /\ \A n \in TreeNodes : \A side \in {"left", "right"} : t[side][n] # Nil => t.parent[t[side][n]] = n
=============================================================================
