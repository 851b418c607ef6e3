----------------------------- MODULE KQueueTable -----------------------------
(***************************************************************************)
(* kqueue() and the table from descriptors to kqueues that kevent() looks  *)
(* into (libkqueue/src/common/kqueue.c, map.c, filter.c).  A kqueue is     *)
(* closed with close(), which the library does not see.  On Windows a      *)
(* kqueue has no descriptor of its own: kq_id is 0 for each.               *)
(***************************************************************************)
EXTENDS Integers, FiniteSets, FiniteSetsExt

CONSTANTS Threads, rlim_max, MaxKqueues

VARIABLES windows, initialised, kqmap, fds, pc, id, kq, returned, made, filt, aborted

vars == <<windows, initialised, kqmap, fds, pc, id, kq, returned, made, filt, aborted>>

\* the filters, by number; EVFILT_* is the number negated
Filters == [READ |-> 1, WRITE |-> 2, VNODE |-> 4, PROC |-> 5, SIGNAL |-> 6, TIMER |-> 7, USER |-> 11]
EVFILT_SYSCOUNT == 11
NotImplemented == IF windows THEN {"PROC", "VNODE", "SIGNAL"} ELSE {"PROC"}

\* map_new(): one place for each descriptor a process may have
get_fd_limit == rlim_max
map_new == [i \in 0..get_fd_limit - 1 |-> 0]
InMap(i) == i \in DOMAIN kqmap

Init ==
    /\ windows \in BOOLEAN /\ initialised = 0 /\ kqmap = map_new /\ fds = {}
    /\ pc = [t \in Threads |-> "idle"] /\ id = [t \in Threads |-> 0] /\ kq = [t \in Threads |-> 0]
    /\ returned = {} /\ made = 0 /\ filt = <<>> /\ aborted = FALSE

\* filter_instantiate(): a filter that is not implemented leaves the place empty
filter_instantiate(f) == IF f \in NotImplemented THEN "none" ELSE f
\* filter_register() puts a filter into the place of its number, and
\* filter_register_all() does so for the seven there are
filter_register(table, f) == [table EXCEPT ![Filters[f] - 1] = filter_instantiate(f)]
filter_register_all ==
    FoldSet(LAMBDA f, table : filter_register(table, f), [i \in 0..EVFILT_SYSCOUNT - 1 |-> "none"], DOMAIN Filters)
\* filter_lookup(): ~id is the place of the filter id
filter_lookup(table, n) == IF n - 1 \notin 0..EVFILT_SYSCOUNT - 1 THEN "EINVAL" ELSE table[n - 1]

\* pthread_once() of libkqueue_init(), with a mutex around it; on Windows the
\* arguments of InterlockedCompareExchange() make every call take the branch
LibkqueueInit(t) ==
    /\ pc[t] = "idle" /\ made < MaxKqueues /\ ~aborted
    /\ made' = made + 1
    /\ IF windows \/ initialised = 0
       THEN kqmap' = map_new /\ initialised' = initialised + 1 ELSE UNCHANGED <<kqmap, initialised>>
    /\ kq' = [kq EXCEPT ![t] = made'] /\ pc' = [pc EXCEPT ![t] = "create"]
    /\ UNCHANGED <<windows, fds, id, returned, filt, aborted>>

\* epoll_create() returns the lowest free descriptor; 0 to 2 are in use
KqueueInit(t) ==
    /\ pc[t] = "create"
    /\ LET free == (3..get_fd_limit - 1) \ fds
       IN IF windows THEN id' = [id EXCEPT ![t] = 0] /\ pc' = [pc EXCEPT ![t] = "delete"] /\ UNCHANGED fds
          ELSE IF free = {} THEN pc' = [pc EXCEPT ![t] = "idle"] /\ UNCHANGED <<id, fds>>
          ELSE /\ id' = [id EXCEPT ![t] = Min(free)] /\ fds' = fds \cup {Min(free)}
               /\ pc' = [pc EXCEPT ![t] = "delete"]
    /\ filt' = filter_register_all
    /\ UNCHANGED <<windows, initialised, kqmap, kq, returned, made, aborted>>

\* map_delete(): the place is emptied by compare and swap, and once more by a
\* plain store
MapDelete(t) ==
    /\ pc[t] \in {"delete", "clear"}
    /\ kqmap' = [kqmap EXCEPT ![id[t]] = 0]
    /\ pc' = [pc EXCEPT ![t] = IF @ = "delete" THEN "clear" ELSE "insert"]
    /\ UNCHANGED <<windows, initialised, fds, id, kq, returned, made, filt, aborted>>

\* map_insert() into an empty place; linux_kqueue_free() aborts
MapInsert(t) ==
    /\ pc[t] = "insert"
    /\ IF InMap(id[t]) /\ kqmap[id[t]] = 0
       THEN /\ kqmap' = [kqmap EXCEPT ![id[t]] = kq[t]]
            /\ returned' = returned \cup {<<id[t], kq[t]>>}
            /\ UNCHANGED aborted
       ELSE aborted' = ~windows /\ UNCHANGED <<kqmap, returned>>
    /\ pc' = [pc EXCEPT ![t] = "idle"]
    /\ UNCHANGED <<windows, initialised, fds, id, kq, made, filt>>

\* the program closes the descriptor of a kqueue, or opens and closes a file
Close(q) ==
    /\ ~windows
    /\ returned' = returned \ {q} /\ fds' = fds \ {q[1]}
    /\ UNCHANGED <<windows, initialised, kqmap, pc, id, kq, made, filt, aborted>>
OpenFile ==
    /\ fds = {} /\ fds' = {3}
    /\ UNCHANGED <<windows, initialised, kqmap, pc, id, kq, returned, made, filt, aborted>>

Next ==
    \/ \E t \in Threads : LibkqueueInit(t) \/ KqueueInit(t) \/ MapDelete(t) \/ MapInsert(t)
    \/ \E q \in returned : Close(q)
    \/ OpenFile

Spec == Init /\ [][Next]_vars
-----------------------------------------------------------------------------
kqueue_lookup(i) == IF InMap(i) THEN kqmap[i] ELSE 0

\* kevent() on a descriptor finds the kqueue that kqueue() returned it for, also
\* when a closed kqueue had the same descriptor before, and each filter under its
\* number.  On Windows this holds for the first kqueue until there is another.
LookupFinds ==
    /\ ~aborted
    /\ \A q \in returned : 
         /\ kqueue_lookup(q[1]) = q[2] \/ (windows /\ made > 1)
         /\ \A f \in DOMAIN Filters \ NotImplemented : filter_lookup(filt, Filters[f]) = f
=============================================================================
