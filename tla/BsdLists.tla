------------------------------ MODULE BsdLists -------------------------------
(***************************************************************************)
(* The lists of platform/windows/queue.h, on which sources, kevents and    *)
(* work items are kept: STAILQ, LIST and TAILQ.  A head and an element     *)
(* each have a pointer to an element, and the "address of a next pointer"  *)
(* is the name of the head or element it is in.  So next[a] is *a, and     *)
(* next[h] the first element of h.                                         *)
(***************************************************************************)
EXTENDS Integers, Sequences, SequencesExt

CONSTANTS Heads, Elements, NULL

VARIABLES kind,   \* which of the three lists
          mem,    \* the pointers: next of heads and elements, prev of elements
                  \* (le_prev, tqe_prev) and last of heads (stqh_last, tqh_last)
          content \* history: the elements of each list in order

vars == <<kind, mem, content>>

STAILQ == "STAILQ"
LIST == "LIST"
TAILQ == "TAILQ"

PutNext(m, a, b) == [m EXCEPT !.next[a] = b]
PutPrev(m, e, a) == [m EXCEPT !.prev[e] = a]
PutLast(m, h, a) == [m EXCEPT !.last[h] = a]

\* The pointer back of the element after a, or the last pointer of h, becomes b.
Behind(m, h, a, b) == IF m.next[a] = NULL THEN PutLast(m, h, b) ELSE PutPrev(m, m.next[a], b)
-----------------------------------------------------------------------------
STAILQ_INIT(m, h) == PutLast(PutNext(m, h, NULL), h, h)
STAILQ_INSERT_AFTER(m, h, a, e) ==
    LET m1 == PutNext(m, e, m.next[a])
    IN PutNext(IF m.next[a] = NULL THEN PutLast(m1, h, e) ELSE m1, a, e)
STAILQ_INSERT_HEAD(m, h, e) ==
    LET m1 == PutNext(m, e, m.next[h])
    IN PutNext(IF m.next[h] = NULL THEN PutLast(m1, h, e) ELSE m1, h, e)
STAILQ_INSERT_TAIL(m, h, e) == PutLast(PutNext(PutNext(m, e, NULL), m.last[h], e), h, e)
STAILQ_REMOVE_HEAD(m, h) ==
    LET m1 == PutNext(m, h, m.next[m.next[h]])
    IN IF m1.next[h] = NULL THEN PutLast(m1, h, h) ELSE m1
STAILQ_REMOVE_AFTER(m, h, a) ==
    LET m1 == PutNext(m, a, m.next[m.next[a]])
    IN IF m1.next[a] = NULL THEN PutLast(m1, h, a) ELSE m1
\* The loop finds the element before e.
STAILQ_REMOVE(m, h, e) ==
    IF m.next[h] = e THEN STAILQ_REMOVE_HEAD(m, h)
    ELSE STAILQ_REMOVE_AFTER(m, h, CHOOSE a \in Elements : a \in Range(content[h]) /\ m.next[a] = e)
STAILQ_CONCAT(m, h, g) ==
    IF m.next[g] = NULL THEN m
    ELSE STAILQ_INIT(PutLast(PutNext(m, m.last[h], m.next[g]), h, m.last[g]), g)
STAILQ_SWAP(m, h, g) ==
    LET s == [m EXCEPT !.next[h] = m.next[g], !.next[g] = m.next[h],
                       !.last[h] = m.last[g], !.last[g] = m.last[h]]
        fixed(n, x) == IF n.next[x] = NULL THEN PutLast(n, x, x) ELSE n
    IN fixed(fixed(s, h), g)
STAILQ_LAST(m, h) == IF m.next[h] = NULL THEN NULL ELSE m.last[h]
-----------------------------------------------------------------------------
LIST_INIT(m, h) == PutNext(m, h, NULL)
LIST_INSERT_AFTER(m, a, e) ==
    LET m1 == PutNext(m, e, m.next[a])
        m2 == IF m.next[a] = NULL THEN m1 ELSE PutPrev(m1, m.next[a], e)
    IN PutPrev(PutNext(m2, a, e), e, a)
LIST_INSERT_BEFORE(m, a, e) ==
    PutPrev(PutNext(PutNext(PutPrev(m, e, m.prev[a]), e, a), m.prev[a], e), a, e)
LIST_INSERT_HEAD(m, h, e) == LIST_INSERT_AFTER(m, h, e)
LIST_REMOVE(m, e) ==
    LET m1 == IF m.next[e] = NULL THEN m ELSE PutPrev(m, m.next[e], m.prev[e])
    IN PutNext(m1, m.prev[e], m.next[e])
LIST_SWAP(m, h, g) ==
    LET s == [m EXCEPT !.next[h] = m.next[g], !.next[g] = m.next[h]]
        fixed(n, x) == IF n.next[x] = NULL THEN n ELSE PutPrev(n, n.next[x], x)
    IN fixed(fixed(s, h), g)
-----------------------------------------------------------------------------
TAILQ_INIT(m, h) == PutLast(PutNext(m, h, NULL), h, h)
TAILQ_INSERT_AFTER(m, h, a, e) == PutPrev(PutNext(Behind(PutNext(m, e, m.next[a]), h, e, e), a, e), e, a)
TAILQ_INSERT_BEFORE(m, a, e) ==
    PutPrev(PutNext(PutNext(PutPrev(m, e, m.prev[a]), e, a), m.prev[a], e), a, e)
TAILQ_INSERT_HEAD(m, h, e) == PutPrev(PutNext(Behind(PutNext(m, e, m.next[h]), h, e, e), h, e), e, h)
TAILQ_INSERT_TAIL(m, h, e) ==
    PutLast(PutNext(PutPrev(PutNext(m, e, NULL), e, m.last[h]), m.last[h], e), h, e)
\* Mutant: the last pointer of the head is not moved back.
TAILQ_REMOVE_keeps_last(m, h, e) ==
    LET m1 == IF m.next[e] = NULL THEN m ELSE PutPrev(m, m.next[e], m.prev[e])
    IN PutNext(m1, m.prev[e], m.next[e])
TAILQ_REMOVE(m, h, e) == PutNext(Behind(m, h, e, m.prev[e]), m.prev[e], m.next[e])
TAILQ_CONCAT(m, h, g) ==
    IF m.next[g] = NULL THEN m
    ELSE LET m1 == PutPrev(PutNext(m, m.last[h], m.next[g]), m.next[g], m.last[h])
         IN TAILQ_INIT(PutLast(m1, h, m1.last[g]), g)
TAILQ_SWAP(m, h, g) ==
    LET s == [m EXCEPT !.next[h] = m.next[g], !.next[g] = m.next[h],
                       !.last[h] = m.last[g], !.last[g] = m.last[h]]
    IN Behind(Behind(s, h, h, h), g, g, g)
\* An address is read as if it were that of a head, whose second field is its last
\* pointer; that of an element is its pointer back.
TAILQ_PREV(m, e) == m.next[IF m.prev[e] \in Heads THEN m.last[m.prev[e]] ELSE m.prev[m.prev[e]]]
TAILQ_LAST(m, h) == m.next[IF m.last[h] \in Heads THEN m.last[m.last[h]] ELSE m.prev[m.last[h]]]
-----------------------------------------------------------------------------
INITIALIZER(k) == [next |-> [a \in Heads \cup Elements |-> NULL],
                   prev |-> [e \in Elements |-> NULL],
                   last |-> [h \in Heads |-> IF k = LIST THEN NULL ELSE h]]
Init == /\ kind \in {STAILQ, LIST, TAILQ}
        /\ mem = INITIALIZER(kind)
        /\ content = [h \in Heads |-> <<>>]

\* A removed element is freed or inserted anew: what its pointers hold is of no
\* importance.
Forget(m, e) == [m EXCEPT !.next[e] = NULL, !.prev[e] = NULL]

Free == Elements \ UNION {Range(content[h]) : h \in Heads}

\* Insert e at place i of list h.
InsertMem(h, i, e) ==
    LET c == content[h] IN
    CASE kind = STAILQ ->
            {IF i = 1 THEN STAILQ_INSERT_HEAD(mem, h, e) ELSE STAILQ_INSERT_AFTER(mem, h, c[i - 1], e)}
            \cup (IF i = Len(c) + 1 THEN {STAILQ_INSERT_TAIL(mem, h, e)} ELSE {})
      [] kind = LIST ->
            {IF i = 1 THEN LIST_INSERT_HEAD(mem, h, e) ELSE LIST_INSERT_AFTER(mem, c[i - 1], e)}
            \cup (IF i <= Len(c) THEN {LIST_INSERT_BEFORE(mem, c[i], e)} ELSE {})
      [] kind = TAILQ ->
            {IF i = 1 THEN TAILQ_INSERT_HEAD(mem, h, e) ELSE TAILQ_INSERT_AFTER(mem, h, c[i - 1], e)}
            \cup (IF i <= Len(c) THEN {TAILQ_INSERT_BEFORE(mem, c[i], e)}
                  ELSE {TAILQ_INSERT_TAIL(mem, h, e)})
Insert(h, e) ==
    /\ e \in Free
    /\ \E i \in 1 .. Len(content[h]) + 1 :
         /\ mem' \in InsertMem(h, i, e)
         /\ content' = [content EXCEPT ![h] = InsertAt(@, i, e)]
    /\ UNCHANGED kind

Delete(h, e) ==
    /\ e \in Range(content[h])
    /\ mem' = Forget(CASE kind = STAILQ -> STAILQ_REMOVE(mem, h, e)
                       [] kind = LIST -> LIST_REMOVE(mem, e)
                       [] kind = TAILQ -> TAILQ_REMOVE(mem, h, e), e)
    /\ content' = [content EXCEPT ![h] = SelectSeq(@, LAMBDA x : x # e)]
    /\ UNCHANGED kind

Reset(h) ==
    /\ LET m == CASE kind = STAILQ -> STAILQ_INIT(mem, h)
                  [] kind = LIST -> LIST_INIT(mem, h)
                  [] kind = TAILQ -> TAILQ_INIT(mem, h)
       IN mem' = FoldSet(LAMBDA e, n : Forget(n, e), m, Range(content[h]))
    /\ content' = [content EXCEPT ![h] = <<>>]
    /\ UNCHANGED kind

Concat(h, g) ==
    /\ kind # LIST
    /\ mem' = IF kind = STAILQ THEN STAILQ_CONCAT(mem, h, g) ELSE TAILQ_CONCAT(mem, h, g)
    /\ content' = [content EXCEPT ![h] = @ \o content[g], ![g] = <<>>]
    /\ UNCHANGED kind

Swap(h, g) ==
    /\ mem' = CASE kind = STAILQ -> STAILQ_SWAP(mem, h, g)
                [] kind = LIST -> LIST_SWAP(mem, h, g)
                [] kind = TAILQ -> TAILQ_SWAP(mem, h, g)
    /\ content' = [content EXCEPT ![h] = content[g], ![g] = content[h]]
    /\ UNCHANGED kind

Next == \E h \in Heads :
            \/ Reset(h)
            \/ \E e \in Elements : Insert(h, e) \/ Delete(h, e)
            \/ \E g \in Heads \ {h} : Concat(h, g) \/ Swap(h, g)
Spec == Init /\ [][Next]_vars
-----------------------------------------------------------------------------
\* Whatever is inserted, removed, concatenated and swapped, FOREACH visits the
\* elements of each list in order, FOREACH_REVERSE in the reverse order, and the
\* next element at the end goes where stqh_last or tqh_last says.
ListsAgree == \A h \in Heads :
    LET c == content[h]
        at(i) == IF i \in DOMAIN c THEN c[i] ELSE NULL
    IN /\ mem.next[h] = at(1)
       /\ \A i \in DOMAIN c : mem.next[c[i]] = at(i + 1)
       /\ kind # LIST => mem.last[h] = IF c = <<>> THEN h ELSE c[Len(c)]
       /\ kind = STAILQ => STAILQ_LAST(mem, h) = at(Len(c))
       /\ kind = TAILQ => /\ TAILQ_LAST(mem, h) = at(Len(c))
                          /\ \A i \in DOMAIN c : TAILQ_PREV(mem, c[i]) = at(i - 1)
=============================================================================
