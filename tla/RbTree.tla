------------------------------- MODULE RbTree --------------------------------
(***************************************************************************)
(* The red-black tree of win-epoll.c, in which wepoll finds the ports by   *)
(* handle and the sockets of a port by number.  A node lives in the        *)
(* structure it finds, so that deletion relinks nodes and never copies a   *)
(* key: a node is its key here.                                            *)
(***************************************************************************)
EXTENDS Integers, FiniteSets

CONSTANT MaxKey   \* a bound: the keys are 1..MaxKey

ASSUME RbTreeAssumption == MaxKey \in Nat

VARIABLES
  tree,   \* tree_t and its nodes
  keys    \* what was added and not deleted since

treeVars == <<tree, keys>>

Nil  == 0
Keys == 1..MaxKey
Other == [left |-> "right", right |-> "left"]

Blank == [root |-> Nil, kid |-> [side \in {"left", "right"} |-> [k \in Keys |-> Nil]],
          up |-> [k \in Keys |-> Nil], red |-> [k \in Keys |-> FALSE]]

Kid(t, n, side) == t.kid[side][n]
IsRed(t, n)     == n # Nil /\ t.red[n]
Colour(t, ns, red) == [t EXCEPT !.red = [k \in Keys |-> IF k \in ns THEN red ELSE @[k]]]
SideOf(t, n, above) == IF Kid(t, above, "left") = n THEN "left" ELSE "right"

SetUp(t, n, above) == IF n = Nil THEN t ELSE [t EXCEPT !.up[n] = above]

(* Whatever pointed at node n from above points at m. *)
Relink(t, n, m) ==
  IF t.up[n] = Nil THEN [t EXCEPT !.root = m]
  ELSE [t EXCEPT !.kid[SideOf(t, n, t.up[n])][t.up[n]] = m]

(* TREE__ROTATE *)
Rotate(t, p, cis) ==
  LET trans == Other[cis]
      q     == Kid(t, p, trans)
      inner == Kid(t, q, cis)
      moved == [Relink(t, p, q) EXCEPT !.up[q] = t.up[p], !.up[p] = q,
                                       !.kid[trans][p] = inner, !.kid[cis][q] = p]
  IN SetUp(moved, inner, p)

(* tree_find(): the node, or Nil. *)
Find(t, key) ==
  LET from[n \in 0..MaxKey] ==
        IF n \in {Nil, key} THEN n
        ELSE from[Kid(t, n, IF key < n THEN "left" ELSE "right")]
  IN from[t.root]

(* The last node on the way to where key would be. *)
Above(t, key) ==
  LET from[n \in Keys] ==
        LET down == Kid(t, n, IF key < n THEN "left" ELSE "right")
        IN IF down = Nil THEN n ELSE from[down]
  IN IF t.root = Nil THEN Nil ELSE from[t.root]

(* The rotations that end tree_add(), and the loop that leads there: while    *)
(* the uncle is red too, red moves up two levels.                             *)
Straighten(t, node, parent, cis) ==
  LET grand == t.up[parent]
      u     == IF node = Kid(t, parent, Other[cis]) THEN Rotate(t, parent, cis) ELSE t
      top   == Kid(u, grand, cis)
  IN Rotate(Colour(Colour(u, {top}, FALSE), {grand}, TRUE), grand, Other[cis])

RECURSIVE AfterInsert(_, _)
AfterInsert(t, node) ==
  LET parent == t.up[node]
      grand  == t.up[parent]
      cis    == SideOf(t, parent, grand)
      uncle  == Kid(t, grand, Other[cis])
  IN IF ~IsRed(t, parent) THEN t
     ELSE IF IsRed(t, uncle)
     THEN AfterInsert(Colour(Colour(t, {parent, uncle}, FALSE), {grand}, TRUE), grand)
     ELSE Straighten(t, node, parent, cis)

Linked(t, key) ==
  LET above == Above(t, key)
      leaf  == [t EXCEPT !.up[key] = above, !.red[key] = TRUE,
                         !.kid["left"][key] = Nil, !.kid["right"][key] = Nil]
  IN IF above = Nil THEN [leaf EXCEPT !.root = key]
     ELSE [leaf EXCEPT !.kid[IF key < above THEN "left" ELSE "right"][above] = key]

(* tree_add(), when the key is not there. *)
TreeAdd(t, key) ==
  LET u == AfterInsert(Linked(t, key), key) IN Colour(u, {u.root}, FALSE)

(* Mutant for RedBlack: a sibling that is red is not rotated away. *)
BlackSiblingMutant(t, parent, cis) == t

(* TREE__REBALANCE_AFTER_REMOVE, by its parts: a red sibling is rotated away, *)
(* so that the sibling is black; ...                                          *)
BlackSibling(t, parent, cis) ==
  LET sibling == Kid(t, parent, Other[cis])
  IN IF ~IsRed(t, sibling) THEN t
     ELSE Rotate(Colour(Colour(t, {sibling}, FALSE), {parent}, TRUE), parent, cis)

(* ... if it has a red child, rotations end the loop at the root, ...         *)
Borrow(t, parent, cis) ==
  LET trans == Other[cis]
      near  == Kid(t, parent, trans)
      u     == IF IsRed(t, Kid(t, near, trans)) THEN t
               ELSE Rotate(Colour(Colour(t, {Kid(t, near, cis)}, FALSE), {near}, TRUE), near, trans)
      sib   == Kid(u, parent, trans)
      c     == Colour(Colour(u, {sib}, u.red[parent]), {parent, Kid(u, sib, trans)}, FALSE)
  IN Rotate(c, parent, cis)

(* ... else it turns red, and the loop goes on above. *)
RECURSIVE AfterRemove(_, _, _)
AfterRemove(t, node, parent) ==
  IF node = t.root THEN Colour(t, {node}, FALSE)
  ELSE LET cis == SideOf(t, node, parent)
           u   == BlackSibling(t, parent, cis)
           sib == Kid(u, parent, Other[cis])
       IN IF IsRed(u, Kid(u, sib, "left")) \/ IsRed(u, Kid(u, sib, "right"))
          THEN LET b == Borrow(u, parent, cis) IN Colour(b, {b.root}, FALSE)
          ELSE LET r == Colour(u, {sib}, TRUE)
               IN IF r.red[parent] THEN Colour(r, {parent}, FALSE)
                  ELSE AfterRemove(r, parent, r.up[parent])

(* The node that takes n's place: its only child, or its successor. *)
Successor(t, n) ==
  LET least[m \in Keys] == IF Kid(t, m, "left") = Nil THEN m ELSE least[Kid(t, m, "left")]
  IN IF Kid(t, n, "left") = Nil THEN Kid(t, n, "right")
     ELSE IF Kid(t, n, "right") = Nil THEN Kid(t, n, "left")
     ELSE least[Kid(t, n, "right")]

(* n is taken out: the tree, the place where a node is missing now, what is   *)
(* above of it, and whether the missing node was red.                         *)
Unlinked(t, n) ==
  LET next  == Successor(t, n)
      left  == Kid(t, n, "left")
      right == Kid(t, n, "right")
      u     == Relink(t, n, next)
      child == Kid(t, next, "right")
      took  == [u EXCEPT !.red[next] = t.red[n], !.kid["left"][next] = left,
                         !.up[left] = next, !.up[next] = t.up[n]]
      Out(tr, node, parent, red) == [tree |-> SetUp(tr, node, parent), node |-> node,
                                     parent |-> parent, red |-> red]
  IN IF left = Nil \/ right = Nil THEN Out(u, next, t.up[n], t.red[n])
     ELSE IF next = right THEN Out(took, child, next, t.red[next])
     ELSE Out([took EXCEPT !.kid["left"][t.up[next]] = child, !.kid["right"][next] = right,
                           !.up[right] = next],
              child, t.up[next], t.red[next])

(* tree_del() *)
TreeDel(t, n) ==
  LET out == Unlinked(t, n)
  IN IF out.red THEN out.tree
     ELSE IF IsRed(out.tree, out.node) THEN Colour(out.tree, {out.node}, FALSE)
     ELSE AfterRemove(out.tree, out.node, out.parent)

------------------------------------------------------------------------------
TreeInit == tree = Blank /\ keys = {}

(* A key that is there already is refused, and the tree left alone. *)
Add(key) ==
  /\ keys' = keys \cup {key}
  /\ tree' = IF Find(tree, key) = Nil THEN TreeAdd(tree, key) ELSE tree

(* The node is freed, or added again; what it held does not matter. *)
Del(key) ==
  /\ Find(tree, key) # Nil
  /\ keys' = keys \ {key}
  /\ LET u == TreeDel(tree, key)
     IN tree' = [u EXCEPT !.up[key] = Nil, !.red[key] = FALSE,
                          !.kid = [side \in DOMAIN @ |-> [@[side] EXCEPT ![key] = Nil]]]

TreeNext == \E key \in Keys : Add(key) \/ Del(key)

------------------------------------------------------------------------------
(* The keys below a node, and its black height, -1 when its sides differ. *)
Below ==
  LET under[n \in 0..MaxKey] ==
        IF n = Nil THEN {} ELSE {n} \cup under[Kid(tree, n, "left")] \cup under[Kid(tree, n, "right")]
  IN under

Black ==
  LET height[n \in 0..MaxKey] ==
        IF n = Nil THEN 0
        ELSE LET l == height[Kid(tree, n, "left")]
                 r == height[Kid(tree, n, "right")]
             IN IF l # r \/ l = -1 THEN -1 ELSE l + IF tree.red[n] THEN 0 ELSE 1
  IN height

(* However keys come and go, tree_find() finds exactly those that are there:  *)
(* the tree is ordered, its links up match those down, and it is balanced, no *)
(* red node below a red one and as many black ones on every way down.         *)
RedBlack ==
  /\ Below[tree.root] = keys
  /\ \A key \in Keys : (Find(tree, key) # Nil) <=> (key \in keys)
  /\ \A n \in keys, side \in {"left", "right"} :
       LET m == Kid(tree, n, side)
       IN m # Nil => /\ tree.up[m] = n
                     /\ ~(tree.red[n] /\ tree.red[m])
                     /\ \A k \in Below[m] : IF side = "left" THEN k < n ELSE k > n
  /\ tree.root # Nil => tree.up[tree.root] = Nil /\ ~tree.red[tree.root]
  /\ Black[tree.root] # -1
==============================================================================
