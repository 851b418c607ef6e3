------------------------------ MODULE KnoteTree ------------------------------
(***************************************************************************)
(* The red-black trees of libkqueue (src/common/tree.h), in which a filter *)
(* keeps its knotes.  A tree is a record of links between nodes; a node is *)
(* its key (knote_cmp() orders knotes by their ident alone), and 0 is NULL.*)
(* The code for the left and for the right side differ by the direction    *)
(* only, which is a parameter here.  The header also generates splay trees;*)
(* these are a state machine of their own, SplayInit and SplayNext.        *)
(***************************************************************************)
EXTENDS Integers, Sequences

CONSTANTS Nodes, SplayNodes   \* sets of positive integers

VARIABLES tree, \* RB_HEAD and the entries of the nodes
          kept, \* history: the set of nodes inserted and not removed
          splay,   \* SPLAY_HEAD and the entries of the nodes
          members, \* history: the nodes inserted and not removed
          answer   \* history: what the last call returned, and what it should

Nil == 0
Left == "left"
Right == "right"
Other(d) == IF d = Left THEN Right ELSE Left

\* RB_INIT
Empty == [root |-> Nil,
          link |-> [d \in {Left, Right} |-> [x \in Nodes |-> Nil]],
          parent |-> [x \in Nodes |-> Nil],
          red |-> [x \in Nodes |-> FALSE]]

IsRed(t, x) == x # Nil /\ t.red[x]
Paint(t, x, r) == IF x = Nil THEN t ELSE [t EXCEPT !.red[x] = r]
Link(t, d, x, y) == [t EXCEPT !.link[d][x] = y]
Parent(t, x, p) == IF x = Nil THEN t ELSE [t EXCEPT !.parent[x] = p]
SideOf(t, p, x) == IF t.link[Left][p] = x THEN Left ELSE Right
\* what points to old in its parent p, or the root, points to new
Replace(t, p, old, new) ==
    IF p = Nil THEN [t EXCEPT !.root = new] ELSE Link(t, SideOf(t, p, old), p, new)

\* RB_ROTATE_LEFT, and with the directions swapped RB_ROTATE_RIGHT
Rotate(t, d, x) ==
    LET y  == t.link[Other(d)][x]
        c  == t.link[d][y]
        p  == t.parent[x]
        u1 == Parent(Link(t, Other(d), x, c), c, x)
        u2 == Replace(Parent(u1, y, p), p, x, y)
    IN Parent(Link(u2, d, y, x), x, y)

\* RB_INSERT_COLOR
RECURSIVE InsertColor(_, _)
InsertColor(t, x) ==
    LET p == t.parent[x] IN
    IF ~IsRed(t, p) THEN Paint(t, t.root, FALSE)
    ELSE LET g == t.parent[p]
             d == SideOf(t, g, p)
             uncle == t.link[Other(d)][g]
             inner == t.link[Other(d)][p] = x
             \* after a rotation of the parent the element is the parent
             u1 == IF inner THEN Rotate(t, d, p) ELSE t
             e1 == IF inner THEN p ELSE x
             p1 == IF inner THEN x ELSE p
         IN IF IsRed(t, uncle)
              THEN InsertColor(Paint(Paint(Paint(t, uncle, FALSE), p, FALSE), g, TRUE), g)
              ELSE InsertColor(Rotate(Paint(Paint(u1, p1, FALSE), g, TRUE), Other(d), g), e1)

\* The loop of RB_INSERT, RB_FIND and RB_NFIND: the nodes visited for a key.
RECURSIVE Path(_, _, _)
Path(t, x, k) ==
    IF x = Nil THEN <<>>
    ELSE IF k = x THEN <<x>>
    ELSE <<x>> \o Path(t, t.link[IF k < x THEN Left ELSE Right][x], k)
Last(s) == IF s = <<>> THEN Nil ELSE s[Len(s)]

\* RB_FIND
Find(t, k) == IF Last(Path(t, t.root, k)) = k THEN k ELSE Nil

\* RB_NFIND: the first node not below the key
NFind(t, k) ==
    LET s == Path(t, t.root, k)
        above == {i \in DOMAIN s : s[i] >= k}
    IN IF above = {} THEN Nil
       ELSE s[CHOOSE i \in above : \A j \in above : j <= i]

\* RB_INSERT; a node with the same key is left alone
Insert(t, x) ==
    LET p == Last(Path(t, t.root, x))
        u1 == [t EXCEPT !.parent[x] = p, !.link[Left][x] = Nil, !.link[Right][x] = Nil,
                        !.red[x] = TRUE]
        u2 == IF p = Nil THEN [u1 EXCEPT !.root = x]
              ELSE Link(u1, IF x < p THEN Left ELSE Right, p, x)
    IN IF p = x THEN t ELSE InsertColor(u2, x)

\* RB_REMOVE_COLOR: a black node is missing at x, which may be NULL, below p
RECURSIVE RemoveColor(_, _, _)
RemoveColor(t, p, x) ==
    IF IsRed(t, x) \/ x = t.root THEN Paint(t, x, FALSE)
    ELSE LET d  == SideOf(t, p, x)
             o  == Other(d)
             s0 == t.link[o][p]
             u1 == IF IsRed(t, s0) THEN Rotate(Paint(Paint(t, s0, FALSE), p, TRUE), d, p) ELSE t
             s1 == u1.link[o][p]
             near == u1.link[d][s1]
             far  == u1.link[o][s1]
         IN IF ~IsRed(u1, near) /\ ~IsRed(u1, far)
              THEN RemoveColor(Paint(u1, s1, TRUE), u1.parent[p], p)
              ELSE LET u2 == IF IsRed(u1, far) THEN u1
                             ELSE Rotate(Paint(Paint(u1, near, FALSE), s1, TRUE), o, s1)
                       s2 == u2.link[o][p]
                       u3 == Paint(Paint(u2, s2, u2.red[p]), p, FALSE)
                       u4 == Rotate(Paint(u3, u3.link[o][s2], FALSE), d, p)
                   IN Paint(u4, u4.root, FALSE)

RECURSIVE Descend(_, _, _)
Descend(t, d, x) == IF t.link[d][x] = Nil THEN x ELSE Descend(t, d, t.link[d][x])

\* Mutant: the parent of the successor is used although it was moved.
RemoveStaleParent(t, x) ==
    LET l == t.link[Left][x]  r == t.link[Right][x]
        two == l # Nil /\ r # Nil
        e == IF two THEN Descend(t, Left, r) ELSE x
        child == IF l = Nil \/ two THEN t.link[Right][e] ELSE l
        p == t.parent[e]
        u1 == Replace(Parent(t, child, p), p, e, child)
        u2 == [u1 EXCEPT !.link[Left][e] = u1.link[Left][x], !.link[Right][e] = u1.link[Right][x],
                         !.parent[e] = u1.parent[x], !.red[e] = u1.red[x]]
        u3 == Replace(u2, u2.parent[x], x, e)
        u4 == Parent(Parent(u3, u3.link[Left][x], e), u3.link[Right][x], e)
    IN IF t.red[e] THEN (IF two THEN u4 ELSE u1)
       ELSE RemoveColor(IF two THEN u4 ELSE u1, p, child)

\* RB_REMOVE: with two children the successor takes the place of the node
Remove(t, x) ==
    LET l == t.link[Left][x]  r == t.link[Right][x]
        two == l # Nil /\ r # Nil
        e == IF two THEN Descend(t, Left, r) ELSE x
        child == IF l = Nil \/ two THEN t.link[Right][e] ELSE l
        p0 == t.parent[e]
        p == IF two /\ p0 = x THEN e ELSE p0
        u1 == Replace(Parent(t, child, p0), p0, e, child)
        u2 == [u1 EXCEPT !.link[Left][e] = u1.link[Left][x], !.link[Right][e] = u1.link[Right][x],
                         !.parent[e] = u1.parent[x], !.red[e] = u1.red[x]]
        u3 == Replace(u2, u2.parent[x], x, e)
        u4 == Parent(Parent(u3, u3.link[Left][x], e), u3.link[Right][x], e)
    IN IF t.red[e] THEN (IF two THEN u4 ELSE u1)
       ELSE RemoveColor(IF two THEN u4 ELSE u1, p, child)

\* RB_NEXT, and with the directions swapped RB_PREV
RECURSIVE Climb(_, _, _)
Climb(t, d, x) ==
    IF t.parent[x] # Nil /\ x = t.link[d][t.parent[x]] THEN Climb(t, d, t.parent[x])
    ELSE t.parent[x]
Step(t, d, x) == IF t.link[d][x] # Nil THEN Descend(t, Other(d), t.link[d][x])
                 ELSE Climb(t, d, x)

\* RB_MINMAX
MinMax(t, d) == IF t.root = Nil THEN Nil ELSE Descend(t, d, t.root)

-----------------------------------------------------------------------------
vars == <<tree, kept>>

Init == tree = Empty /\ kept = {}

\* A removed node is freed: what is left in its entry is forgotten.
Forget(t, x) == [t EXCEPT !.parent[x] = Nil, !.red[x] = FALSE,
                          !.link = [d \in {Left, Right} |-> [@[d] EXCEPT ![x] = Nil]]]

\* knote_insert() and knote_delete()
KnoteInsert(x) ==
    /\ x \notin kept
    /\ tree' = Insert(tree, x)
    /\ kept' = kept \cup {x}
KnoteDelete(x) ==
    /\ Find(tree, x) = x
    /\ tree' = Forget(Remove(tree, x), x)
    /\ kept' = kept \ {x}

Next == \E x \in Nodes : KnoteInsert(x) \/ KnoteDelete(x)
-----------------------------------------------------------------------------
\* The number of black nodes on every path from x, or -1 when they differ.
RECURSIVE BlackHeight(_, _)
BlackHeight(t, x) ==
    IF x = Nil THEN 0
    ELSE LET l == BlackHeight(t, t.link[Left][x])  r == BlackHeight(t, t.link[Right][x])
         IN IF l # r \/ l = -1 THEN -1 ELSE l + (IF t.red[x] THEN 0 ELSE 1)

\* Whatever knotes are added and deleted, in whatever order, the tree stays a
\* red-black tree: parents and children agree, no red node has a red child, and
\* every path has as many black nodes, so that RB_FIND takes a logarithmic time.
Balanced ==
    /\ ~IsRed(tree, tree.root) /\ BlackHeight(tree, tree.root) # -1
    /\ tree.root # Nil => tree.parent[tree.root] = Nil
    /\ \A x \in kept, d \in {Left, Right} :
         LET c == tree.link[d][x] IN
         c # Nil => tree.parent[c] = x /\ (IsRed(tree, x) => ~IsRed(tree, c))

\* The tree is the set of the nodes inserted and not removed: RB_FIND finds
\* exactly these, and RB_MIN with RB_NEXT, or RB_MAX with RB_PREV, visit them in
\* the order of their keys; RB_NFIND finds the next one.
IsOrderedSet ==
    LET least(S) == IF S = {} THEN Nil ELSE CHOOSE x \in S : \A y \in S : x <= y
        greatest(S) == IF S = {} THEN Nil ELSE CHOOSE x \in S : \A y \in S : x >= y
    IN /\ \A k \in Nodes : /\ Find(tree, k) = (IF k \in kept THEN k ELSE Nil)
                           /\ NFind(tree, k) = least({x \in kept : x >= k})
       /\ MinMax(tree, Left) = least(kept) /\ MinMax(tree, Right) = greatest(kept)
       /\ \A x \in kept : /\ Step(tree, Right, x) = least({y \in kept : y > x})
                          /\ Step(tree, Left, x) = greatest({y \in kept : y < x})
-----------------------------------------------------------------------------
(* Splay trees.                                                            *)

\* The local __node, at which the two side trees are collected.
Node == -1

\* SPLAY_INIT
SplayEmpty == [root |-> Nil, link |-> [d \in {Left, Right} |-> [x \in SplayNodes \cup {Node} |-> Nil]]]

\* SPLAY_ROTATE_RIGHT for the left side
RotateUp(t, d, x) ==
    [t EXCEPT !.link[d][t.root] = t.link[Other(d)][x], !.link[Other(d)][x] = t.root, !.root = x]

\* SPLAY_LINKLEFT and SPLAY_LINKRIGHT: the root joins the tree that ends at e.
LinkUnder(t, d, e) == [t EXCEPT !.link[d][e] = t.root, !.root = t.link[d][t.root]]

\* SPLAY_ASSEMBLE
Assemble(t, end) ==
    LET r  == t.root
        u1 == [t EXCEPT !.link[Right][end[Left]] = t.link[Left][r]]
        u2 == [u1 EXCEPT !.link[Left][end[Right]] = u1.link[Right][r]]
        u3 == [u2 EXCEPT !.link[Left][r] = u2.link[Right][Node]]
    IN [u3 EXCEPT !.link[Right][r] = u3.link[Left][Node]]

\* The loop of SPLAY: k is left of x, or right of it.
Toward(k, x) == IF k < x THEN Left ELSE Right
RECURSIVE Split(_, _, _)
Split(t, end, k) ==
    IF k = t.root THEN Assemble(t, end)
    ELSE LET d == Toward(k, t.root)
             x == t.link[d][t.root]
             outer == x # Nil /\ x # k /\ Toward(k, x) = d
             u1 == IF outer THEN RotateUp(t, d, x) ELSE t
         IN IF x = Nil \/ u1.link[d][u1.root] = Nil THEN Assemble(u1, end)
            ELSE Split(LinkUnder(u1, d, end[Other(d)]), [end EXCEPT ![Other(d)] = u1.root], k)

\* SPLAY: a node next to the key becomes the root.
Splay(t, k) ==
    LET s == Split([t EXCEPT !.link[Left][Node] = Nil, !.link[Right][Node] = Nil],
                   [d \in {Left, Right} |-> Node], k)
    IN [s EXCEPT !.link[Left][Node] = Nil, !.link[Right][Node] = Nil]

\* SPLAY_MINMAX: as SPLAY for a key below or above every node.
Below == 0
Above == 1 + CHOOSE k \in SplayNodes : \A x \in SplayNodes : x <= k
SplayMinMax(t, k) == Splay(t, k)

\* SPLAY_FIND
SplayFind(t, k) == IF t.root = Nil THEN t ELSE Splay(t, k)

\* SPLAY_INSERT
SplayInsert(t, x) ==
    LET s == Splay(t, x)
        r == s.root
        d == Toward(x, r)
    IN IF t.root = Nil THEN [t EXCEPT !.link[Left][x] = Nil, !.link[Right][x] = Nil, !.root = x]
       ELSE IF r = x THEN s
       ELSE [s EXCEPT !.link[d][x] = s.link[d][r], !.link[Other(d)][x] = r, !.link[d][r] = Nil,
                      !.root = x]

\* SPLAY_REMOVE
SplayRemove(t, x) ==
    LET s == Splay(t, x)
        rest == Splay([s EXCEPT !.root = s.link[Left][x]], x)
    IN IF t.root = Nil THEN t
       ELSE IF s.root # x THEN s
       ELSE IF s.link[Left][x] = Nil THEN [s EXCEPT !.root = s.link[Right][x]]
       ELSE [rest EXCEPT !.link[Right][rest.root] = s.link[Right][x]]

RECURSIVE Leftmost(_, _)
Leftmost(t, x) == IF t.link[Left][x] = Nil THEN x ELSE Leftmost(t, t.link[Left][x])

\* SPLAY_NEXT of a node in the tree, which its splay moved to the root
NextOf(t, x) == LET r == Splay(t, x).link[Right][x]
                IN IF r = Nil THEN Nil ELSE Leftmost(Splay(t, x), r)
-----------------------------------------------------------------------------
Least(S) == IF S = {} THEN Nil ELSE CHOOSE x \in S : \A y \in S : x <= y
Greatest(S) == IF S = {} THEN Nil ELSE CHOOSE x \in S : \A y \in S : x >= y

SplayInit == splay = SplayEmpty /\ members = {} /\ answer = <<Nil, Nil>>

\* A removed node is freed; what is left in it is of no importance.
Insertion(x) == /\ splay' = SplayInsert(splay, x)
                /\ members' = members \cup {x}
                /\ answer' = <<splay'.root, x>>
Removal(x) == /\ LET t == SplayRemove(splay, x)
                 IN splay' = [t EXCEPT !.link[Left][x] = IF x \in members THEN Nil ELSE @,
                                       !.link[Right][x] = IF x \in members THEN Nil ELSE @]
              /\ members' = members \ {x}
              /\ answer' = <<Nil, Nil>>
Lookup(x) == /\ splay' = SplayFind(splay, x)
             /\ answer' = <<splay'.root = x, x \in members>>
             /\ UNCHANGED members
First == /\ splay.root # Nil
         /\ splay' = SplayMinMax(splay, Below)
         /\ answer' = <<splay'.root, Least(members)>>
         /\ UNCHANGED members
Final == /\ splay.root # Nil
         /\ splay' = SplayMinMax(splay, Above)
         /\ answer' = <<splay'.root, Greatest(members)>>
         /\ UNCHANGED members
Successor(x) == /\ x \in members
                /\ splay' = Splay(splay, x)
                /\ answer' = <<NextOf(splay, x), Least({y \in members : y > x})>>
                /\ UNCHANGED members

SplayNext == First \/ Final \/ \E x \in SplayNodes : Insertion(x) \/ Removal(x) \/ Lookup(x) \/ Successor(x)
splayVars == <<splay, members, answer>>

Spec == /\ Init /\ SplayInit
        /\ [][(Next /\ UNCHANGED splayVars) \/ (SplayNext /\ UNCHANGED vars)]_<<vars, splayVars>>
-----------------------------------------------------------------------------
\* The nodes below x.
RECURSIVE NodesOf(_, _)
NodesOf(t, x) ==
    IF x = Nil THEN {} ELSE {x} \cup NodesOf(t, t.link[Left][x]) \cup NodesOf(t, t.link[Right][x])

\* Whatever is inserted, removed and looked up, the splay tree holds the nodes that
\* were inserted and not removed, in order, and SPLAY_FIND, SPLAY_MIN, SPLAY_MAX and
\* SPLAY_NEXT find what they should.
SplayOrdered ==
    /\ NodesOf(splay, splay.root) = members
    /\ \A x \in members : /\ \A y \in NodesOf(splay, splay.link[Left][x]) : y < x
                          /\ \A y \in NodesOf(splay, splay.link[Right][x]) : y > x
    /\ answer[1] = answer[2]
=============================================================================
