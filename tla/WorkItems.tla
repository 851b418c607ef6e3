------------------------------ MODULE WorkItems ------------------------------
(***************************************************************************)
(* The interface of libpthread_workqueue (src/api.c) and its work items    *)
(* (src/witem_cache.c): a thread creates a queue with attributes and adds  *)
(* items, a worker takes the item, copies its function and frees it.  With *)
(* WITEM_CACHE_TYPE 3 every thread keeps the items it freed in a list of   *)
(* its own, and frees them when it ends.                                   *)
(***************************************************************************)
EXTENDS Integers, Sequences, FiniteSets, SequencesExt

CONSTANTS Threads, Items, Functions, Prios, MaxAdds, NULL

VARIABLES cached,  \* whether WITEM_CACHE_TYPE is 3
          attr, workq, heap, func, cache, list, adds, ended

vars == <<cached, attr, workq, heap, func, cache, list, adds, ended>>

WORKQ_NUM_PRIOQUEUE == 4
DEFAULT == 1
NoAttr == [sig |-> FALSE, queueprio |-> NULL, overcommit |-> NULL]

Init ==
    /\ cached \in BOOLEAN /\ attr = NoAttr /\ workq = NULL
    /\ heap = Items /\ func = [i \in Items |-> NULL]
    /\ cache = [t \in Threads |-> <<>>] /\ list = <<>> /\ adds = 0 /\ ended = {}

AttrOnly == UNCHANGED <<cached, workq, heap, func, cache, list, adds, ended>>

\* pthread_workqueue_attr_init_np(), ..._setovercommit_np() and
\* ..._setqueuepriority_np(), which refuse what is no attribute struct
AttrInit == attr' = [sig |-> TRUE, queueprio |-> DEFAULT, overcommit |-> FALSE] /\ AttrOnly
SetOvercommit(o) == attr.sig /\ attr' = [attr EXCEPT !.overcommit = o] /\ AttrOnly

SetPriority(p) == /\ attr.sig /\ p \in 0..WORKQ_NUM_PRIOQUEUE - 1
                  /\ attr' = [attr EXCEPT !.queueprio = p] /\ AttrOnly

\* pthread_workqueue_create_np(), with an attribute struct or NULL
Create(a) ==
    /\ workq = NULL
    /\ a # NULL => attr.sig /\ attr.queueprio \in 0..WORKQ_NUM_PRIOQUEUE - 1
    /\ workq' = IF a = NULL THEN [prio |-> DEFAULT, overcommit |-> FALSE]
                ELSE [prio |-> attr.queueprio, overcommit |-> attr.overcommit]
    /\ UNCHANGED <<cached, attr, heap, func, cache, list, adds, ended>>

\* malloc() or umem_cache_alloc(), which are tried until they succeed
PlainAlloc == \E i \in heap : heap' = heap \ {i} /\ list' = Append(list, i) /\ UNCHANGED cache

\* witem_alloc(): where there is a cache, from the list of the thread, else from the heap
AllocFromHeap(t) == cache[t] = <<>> /\ PlainAlloc
Alloc(t) == IF cached THEN \/ AllocFromHeap(t)
                           \/ /\ cache[t] # <<>> /\ list' = Append(list, Head(cache[t]))
                              /\ cache' = [cache EXCEPT ![t] = Tail(@)] /\ UNCHANGED heap
            ELSE PlainAlloc

\* pthread_workqueue_additem_np()
AddItem(t, f) ==
    /\ workq # NULL /\ t \notin ended /\ adds < MaxAdds /\ adds' = adds + 1
    /\ Alloc(t)
    /\ func' = [func EXCEPT ![Last(list')] = f]
    /\ UNCHANGED <<cached, attr, workq, ended>>

PlainFree(i) == heap' = heap \cup {i} /\ UNCHANGED <<cache, func>>


\* witem_free()
Free(t, i) ==
    IF cached THEN cache' = [cache EXCEPT ![t] = <<i>> \o @] /\ func' = [func EXCEPT ![i] = NULL] /\ UNCHANGED heap
    ELSE PlainFree(i)

\* a worker takes an item, and frees it before it calls the function
Take(t) ==
    /\ list # <<>> /\ t \notin ended
    /\ list' = Tail(list) /\ Free(t, Head(list))
    /\ UNCHANGED <<cached, attr, workq, adds, ended>>

\* witem_cache_cleanup(), the destructor of the thread's list
ThreadEnds(t) ==
    /\ t \notin ended /\ ended' = ended \cup {t}
    /\ heap' = heap \cup ToSet(cache[t]) /\ cache' = [cache EXCEPT ![t] = <<>>]
    /\ UNCHANGED <<cached, attr, workq, func, list, adds>>

Next ==
    \/ AttrInit \/ \E o \in BOOLEAN : SetOvercommit(o)
    \/ \E p \in Prios : SetPriority(p)
    \/ \E a \in {NULL, TRUE} : Create(a)
    \/ \E t \in Threads : Take(t) \/ ThreadEnds(t) \/ \E f \in Functions : AddItem(t, f)

Spec == Init /\ [][Next]_vars
-----------------------------------------------------------------------------
\* Every item is in one place: the heap, the list of one thread, or the queue,
\* where it has its function; and the queue has one of the priorities there are,
\* so that the manager finds the list it belongs to.
ItemOnce ==
    /\ \A i \in Items :
         Cardinality({t \in Threads : \E x \in DOMAIN cache[t] : cache[t][x] = i})
         + Cardinality({x \in DOMAIN list : list[x] = i}) + (IF i \in heap THEN 1 ELSE 0) = 1
    /\ \A x \in DOMAIN list : func[list[x]] \in Functions
    /\ workq # NULL => workq.prio \in 0..WORKQ_NUM_PRIOQUEUE - 1
=============================================================================
