--------------------------- MODULE DispatchProcess ---------------------------
(***************************************************************************)
(* libdispatch in a process: what is set up when the library is loaded,    *)
(* what a thread keeps in its thread-specific data (the queue it runs, a   *)
(* semaphore and a list of continuations) and what is done with it when    *)
(* the thread exits, and what is left of all that in the child of a fork() *)
(* (queue.c, continuation_cache.[ch], queue_kevent.c, shims/tsd.h).        *)
(* One global queue stands for all of them; one worker serves it.          *)
(***************************************************************************)
EXTENDS Integers, Sequences, FiniteSets, SequencesExt

CONSTANTS MainThread, PoolThread, ClientThread,   \* the threads
          Continuations,          \* memory for continuations
          MaxAsync,               \* dispatch_async_f() calls of a thread
          MaxSemaphores,          \* semaphores that are ever created
          NULL

Threads == {MainThread, PoolThread, ClientThread}

VARIABLES alive,        \* threads of the process
          queue_key, sema4_key, cache_key,   \* thread-specific data
          heap,         \* free continuations
          items,        \* dq_items of the global queue; "crash" in a child
          requested,    \* a worker has been asked for
          zone,         \* _dispatch_ccache_zone exists
          kq,           \* the kqueue is open, and the manager queue was pushed
          _dispatch_safe_fork,
          hand,         \* the continuation a thread is about to push or is running
          at,           \* where a thread is
          semas,        \* semaphores that a thread has taken
          made,         \* semaphores created so far
          freed,        \* semaphores released
          ncalls, inChild, crashed

vars == <<alive, queue_key, sema4_key, cache_key, heap, items, requested, zone, kq, _dispatch_safe_fork,
          hand, at, semas, made, freed, ncalls, inChild, crashed>>

\* the words that push_list() looks at
Empty == items = <<>>
Poisoned == items = <<"crash">>

Init ==
    /\ alive = {MainThread}
    /\ queue_key = [t \in Threads |-> NULL] /\ sema4_key = [t \in Threads |-> NULL]
    /\ cache_key = [t \in Threads |-> <<>>]
    /\ heap = Continuations /\ items = <<>> /\ requested = FALSE /\ zone = FALSE /\ kq = FALSE
    /\ _dispatch_safe_fork = TRUE
    /\ hand = [t \in Threads |-> NULL] /\ at = [t \in Threads |-> IF t = MainThread THEN "load" ELSE "none"]
    /\ semas = [t \in Threads |-> <<>>] /\ made = 0 /\ freed = {}
    /\ ncalls = [t \in Threads |-> 0] /\ inChild = FALSE /\ crashed = "no"

Runs(t) == t \in alive /\ crashed = "no"
Go(t, where) == at' = [at EXCEPT ![t] = where]
keys == <<queue_key, sema4_key, cache_key>>
memory == <<heap, zone, semas, made, freed>>
-----------------------------------------------------------------------------
(* The library is loaded, and threads come.                                *)

\* init() and libdispatch_init(): the thread that loads the library is given the
\* main queue
libdispatch_init ==
    /\ at[MainThread] = "load" /\ Go(MainThread, "idle")
    /\ queue_key' = [queue_key EXCEPT ![MainThread] = "main_q"]
    /\ UNCHANGED <<alive, sema4_key, cache_key, memory, items, requested, kq, _dispatch_safe_fork, hand, ncalls,
                   inChild, crashed>>

ClientStarts ==
    /\ Runs(MainThread) /\ at[MainThread] = "idle" /\ at[ClientThread] = "none"
    /\ alive' = alive \cup {ClientThread} /\ Go(ClientThread, "idle")
    /\ UNCHANGED <<keys, memory, items, requested, kq, _dispatch_safe_fork, hand, ncalls, inChild, crashed>>
-----------------------------------------------------------------------------
(* dispatch_async_f().                                                     *)

_dispatch_continuation_alloc_cacheonly(t) ==
    /\ cache_key[t] # <<>> /\ hand' = [hand EXCEPT ![t] = Head(cache_key[t])]
    /\ cache_key' = [cache_key EXCEPT ![t] = Tail(@)]
    /\ UNCHANGED <<heap, zone>>

\* the zone is made once; there is always memory in the end
_dispatch_continuation_alloc_from_heap(t) ==
    /\ heap # {} /\ zone' = TRUE
    /\ LET dc == CHOOSE c \in heap : TRUE
       IN hand' = [hand EXCEPT ![t] = dc] /\ heap' = heap \ {dc}
    /\ UNCHANGED cache_key

dispatch_async_f(t) ==
    /\ Runs(t) /\ at[t] \in {"idle", "run"} /\ ncalls[t] < MaxAsync
    /\ ncalls' = [ncalls EXCEPT ![t] = @ + 1]
    /\ \/ _dispatch_continuation_alloc_cacheonly(t)
       \/ cache_key[t] = <<>> /\ _dispatch_continuation_alloc_from_heap(t)
    /\ Go(t, IF at[t] = "run" THEN "push_run" ELSE "push")
    /\ UNCHANGED <<alive, queue_key, sema4_key, semas, made, freed, items, requested, kq, _dispatch_safe_fork,
                   inChild, crashed>>

\* _dispatch_queue_push_list(): "if we crash here with a value less than 0x1000, then
\* we are at a known bug in client code"
Push(t) ==
    /\ Runs(t) /\ at[t] \in {"push", "push_run"}
    /\ hand' = [hand EXCEPT ![t] = NULL]
    /\ IF Poisoned THEN crashed' = "poisoned" /\ UNCHANGED <<items, at>>
       ELSE /\ items' = Append(items, hand[t]) /\ UNCHANGED crashed
            /\ Go(t, IF Empty THEN IF at[t] = "push" THEN "wakeup" ELSE "wakeup_run"
                     ELSE IF at[t] = "push" THEN "idle" ELSE "run")
    /\ UNCHANGED <<alive, keys, memory, requested, kq, _dispatch_safe_fork, ncalls, inChild>>


\* _dispatch_queue_wakeup_global()
Wakeup(t) ==
    /\ Runs(t) /\ at[t] \in {"wakeup", "wakeup_run"}
    /\ Go(t, IF at[t] = "wakeup" THEN "idle" ELSE "run")
    /\ requested' = (requested \/ ~Empty)
    /\ _dispatch_safe_fork' = (_dispatch_safe_fork /\ Empty)
    /\ UNCHANGED <<alive, keys, memory, items, kq, hand, ncalls, inChild, crashed>>

\* _dispatch_get_kq_init(), run once: the kqueue does not survive a fork(), and the
\* manager queue is pushed on a global queue, as a plain object
_dispatch_get_kq_init(t) ==
    /\ Runs(t) /\ at[t] = "idle" /\ ~kq /\ kq' = TRUE
    /\ _dispatch_safe_fork' = FALSE
    /\ IF Poisoned THEN crashed' = "poisoned" /\ UNCHANGED <<items, at>>
       ELSE /\ items' = Append(items, "mgr_q") /\ UNCHANGED crashed
            /\ Go(t, IF Empty THEN "wakeup" ELSE "idle")
    /\ UNCHANGED <<alive, keys, memory, requested, hand, ncalls, inChild>>
-----------------------------------------------------------------------------
(* The worker.                                                             *)

WorkerStarts ==
    /\ requested /\ crashed = "no" /\ PoolThread \notin alive
    /\ alive' = alive \cup {PoolThread} /\ requested' = FALSE
    /\ queue_key' = [queue_key EXCEPT ![PoolThread] = "root"]
    /\ Go(PoolThread, "drain")
    /\ UNCHANGED <<sema4_key, cache_key, memory, items, kq, _dispatch_safe_fork, hand, ncalls, inChild, crashed>>

\* _dispatch_continuation_pop(): the continuation is put in the cache before its
\* function is called
Pop(t) ==
    /\ Runs(t) /\ at[t] = "drain" /\ ~Empty
    /\ items' = Tail(items)
    /\ IF Head(items) = "mgr_q" THEN UNCHANGED cache_key
       ELSE cache_key' = [cache_key EXCEPT ![t] = <<Head(items)>> \o @]
    /\ Go(t, "run")
    /\ UNCHANGED <<alive, queue_key, sema4_key, memory, requested, kq, _dispatch_safe_fork, hand, ncalls, inChild,
                   crashed>>
Return(t) ==
    /\ Runs(t) /\ at[t] = "run" /\ semas[t] = <<>> /\ Go(t, "drain")
    /\ UNCHANGED <<alive, keys, memory, items, requested, kq, _dispatch_safe_fork, hand, ncalls, inChild, crashed>>

\* _dispatch_worker_thread2() ends: the queue key is cleared, and the cache is freed
\* by _dispatch_force_cache_cleanup()
Drained(t) ==
    /\ Runs(t) /\ at[t] = "drain" /\ Empty
    /\ queue_key' = [queue_key EXCEPT ![t] = NULL]
    /\ heap' = heap \cup ToSet(cache_key[t]) /\ cache_key' = [cache_key EXCEPT ![t] = <<>>]
    /\ Go(t, "exit")
    /\ UNCHANGED <<alive, sema4_key, semas, made, freed, zone, items, requested, kq, _dispatch_safe_fork, hand, ncalls,
                   inChild, crashed>>
-----------------------------------------------------------------------------
(* Semaphores of dispatch_sync_f() and the like.                           *)

_dispatch_get_thread_semaphore(t) ==
    /\ Runs(t) /\ at[t] \in {"idle", "run"} /\ Len(semas[t]) < 2
    /\ \/ /\ sema4_key[t] # NULL /\ semas' = [semas EXCEPT ![t] = <<sema4_key[t]>> \o @] /\ UNCHANGED made
       \/ /\ sema4_key[t] = NULL /\ made < MaxSemaphores /\ made' = made + 1
          /\ semas' = [semas EXCEPT ![t] = <<made + 1>> \o @]
    /\ sema4_key' = [sema4_key EXCEPT ![t] = NULL]
    /\ UNCHANGED <<alive, queue_key, cache_key, heap, zone, freed, items, requested, kq, _dispatch_safe_fork, hand, at,
                   ncalls, inChild, crashed>>

_dispatch_put_thread_semaphore(t) ==
    /\ Runs(t) /\ at[t] \in {"idle", "run"} /\ semas[t] # <<>>
    /\ semas' = [semas EXCEPT ![t] = Tail(@)]
    /\ sema4_key' = [sema4_key EXCEPT ![t] = Head(semas[t])]
    /\ freed' = freed \cup ({sema4_key[t]} \ {NULL})
    /\ UNCHANGED <<alive, queue_key, cache_key, heap, zone, made, items, requested, kq, _dispatch_safe_fork, hand, at,
                   ncalls, inChild, crashed>>
-----------------------------------------------------------------------------
(* Threads exit, and the process forks.                                    *)

\* the destructors of the three keys, for the values that are not NULL:
\* _dispatch_queue_cleanup(), dispatch_release() and _dispatch_cache_cleanup2().  A
\* function of a queue must not end its thread.
ThreadExit(t) ==
    /\ Runs(t) /\ t # MainThread /\ semas[t] = <<>>
    /\ at[t] \in {"idle", "exit", "run"}
    /\ alive' = alive \ {t} /\ Go(t, IF t = PoolThread THEN "none" ELSE "gone")
    /\ crashed' = IF queue_key[t] # NULL THEN "premature exit" ELSE "no"
    /\ queue_key' = [queue_key EXCEPT ![t] = NULL]
    /\ freed' = freed \cup ({sema4_key[t]} \ {NULL}) /\ sema4_key' = [sema4_key EXCEPT ![t] = NULL]
    /\ heap' = heap \cup ToSet(cache_key[t]) /\ cache_key' = [cache_key EXCEPT ![t] = <<>>]
    /\ UNCHANGED <<semas, made, zone, items, requested, kq, _dispatch_safe_fork, hand, ncalls, inChild>>

\* No other thread is inside of libdispatch when a thread forks: the child would
\* find half of what it was doing.
Quiet(t) == \A u \in alive \ {t} : at[u] \in {"idle", "drain", "run", "exit"}

\* fork(), seen from the child, where dispatch_atfork_child() runs
Fork(t) ==
    /\ Runs(t) /\ at[t] = "idle" /\ ~inChild /\ Quiet(t)
    /\ inChild' = TRUE /\ alive' = {t}
    /\ items' = IF _dispatch_safe_fork THEN items ELSE <<"crash">>
    /\ requested' = FALSE
    /\ at' = [u \in Threads |-> IF u = t THEN "idle" ELSE IF u = PoolThread THEN "none" ELSE "gone"]
    /\ queue_key' = [u \in Threads |-> IF u = t THEN queue_key[t] ELSE NULL]
    /\ sema4_key' = [u \in Threads |-> IF u = t THEN sema4_key[t] ELSE NULL]
    /\ cache_key' = [u \in Threads |-> IF u = t THEN cache_key[t] ELSE <<>>]
    /\ semas' = [u \in Threads |-> IF u = t THEN semas[t] ELSE <<>>]
    /\ hand' = [u \in Threads |-> NULL]
    /\ ncalls' = [u \in Threads |-> 0]
    /\ UNCHANGED <<heap, zone, made, freed, kq, _dispatch_safe_fork, crashed>>

Next ==
    \/ libdispatch_init \/ ClientStarts \/ WorkerStarts
    \/ \E t \in Threads :
         \/ dispatch_async_f(t) \/ Push(t) \/ Wakeup(t) \/ _dispatch_get_kq_init(t)
         \/ Pop(t) \/ Return(t) \/ Drained(t)
         \/ _dispatch_get_thread_semaphore(t) \/ _dispatch_put_thread_semaphore(t)
         \/ ThreadExit(t) \/ Fork(t)

Spec == Init /\ [][Next]_vars
-----------------------------------------------------------------------------
\* A continuation is in one place: the heap, the cache of one thread, the queue, or
\* the hand of a thread that is about to push it; and a semaphore that was created and
\* not released is in the hand or the cache of one thread that is still there.  (The
\* child of a fork() loses what the threads of its parent had.)
OneOwner ==
    LET places(dc) ==
          Cardinality({t \in Threads : dc \in ToSet(cache_key[t])}) + Cardinality({t \in Threads : hand[t] = dc})
            + (IF dc \in heap THEN 1 ELSE 0) + (IF dc \in ToSet(items) THEN 1 ELSE 0)
        owned == UNION {ToSet(semas[t]) \cup ({sema4_key[t]} \ {NULL}) : t \in alive}
    IN /\ \A dc \in Continuations : places(dc) <= 1 /\ (crashed = "no" /\ ~inChild => places(dc) = 1)
       /\ owned \cap freed = {} /\ (~inChild => owned \cup freed = 1 .. made)
       /\ crashed = "poisoned" => inChild

\* In the child of a fork() libdispatch either works or crashes, it never waits for
\* threads that only its parent had: as long as there are items in a queue, a worker is
\* at them, was asked for or is about to be.  (The parent, where nothing is poisoned,
\* is bound by the same.)
NeverForsaken ==
    crashed = "no" /\ ~Empty /\ ~Poisoned =>
       \/ requested
       \/ PoolThread \in alive /\ at[PoolThread] # "exit"
       \/ \E t \in alive : at[t] \in {"wakeup", "wakeup_run"}
=============================================================================
