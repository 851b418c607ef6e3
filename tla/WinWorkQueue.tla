---------------------------- MODULE WinWorkQueue ----------------------------
(***************************************************************************)
(* libpthread_workqueue on Windows (src/windows/manager.c): work queues    *)
(* without threads of their own.  For Windows XP each item added submits a *)
(* callback to the system's thread pool, and the callback runs whatever    *)
(* item it finds first; later systems submit the item itself.  The queues  *)
(* are created before items are added; queue 1 is scanned first.           *)
(***************************************************************************)
EXTENDS Integers, Sequences, FiniteSets

CONSTANTS Queues,      \* 1..n, in the order of wqlist
          Callers,     \* threads that add items
          Workers,     \* threads of the system's pool
          Items

VARIABLES legacy_xp,   \* the build: PROVIDE_LEGACY_XP_SUPPORT
          item_listhead, caller, submitted, worker, todo, ran, lost

vars == <<legacy_xp, item_listhead, caller, submitted, worker, todo, ran, lost>>

NONE == 0

Init ==
    /\ legacy_xp \in BOOLEAN
    /\ item_listhead = [q \in Queues |-> <<>>]
    /\ caller = [c \in Callers |-> NONE]
    /\ submitted = <<>>
    /\ worker = [t \in Workers |-> [pc |-> "idle", at |-> 0, item |-> NONE]]
    /\ todo = Items
    /\ ran = {} /\ lost = {}

\* pthread_workqueue_additem_np(): the item is inserted, then a callback submitted
AddItem(c, q, i) ==
    /\ caller[c] = NONE /\ i \in todo /\ todo' = todo \ {i}
    /\ item_listhead' = IF legacy_xp THEN [item_listhead EXCEPT ![q] = Append(@, i)] ELSE item_listhead
    /\ caller' = [caller EXCEPT ![c] = i]
    /\ UNCHANGED <<legacy_xp, submitted, worker, ran, lost>>

\* QueueUserWorkItem(), which aborts when it fails
QueueUserWorkItem(c) ==
    /\ legacy_xp /\ caller[c] # NONE /\ caller' = [caller EXCEPT ![c] = NONE]
    /\ submitted' = Append(submitted, NONE)
    /\ UNCHANGED <<legacy_xp, item_listhead, worker, todo, ran, lost>>

\* SubmitThreadpoolWork(); when CreateThreadpoolWork() fails the item is dropped
SubmitThreadpoolWork(c) ==
    /\ ~legacy_xp /\ caller[c] # NONE /\ caller' = [caller EXCEPT ![c] = NONE]
    /\ \/ submitted' = Append(submitted, caller[c]) /\ UNCHANGED lost
       \/ lost' = lost \cup {caller[c]} /\ UNCHANGED submitted
    /\ UNCHANGED <<legacy_xp, item_listhead, worker, todo, ran>>

\* the pool calls worker_main()
StartCallback(t) ==
    /\ worker[t].pc = "idle" /\ submitted # <<>>
    /\ submitted' = Tail(submitted)
    /\ worker' = [worker EXCEPT ![t] = [pc |-> IF legacy_xp THEN "scan" ELSE "run", at |-> 1,
                                         item |-> Head(submitted)]]
    /\ UNCHANGED <<legacy_xp, item_listhead, caller, todo, ran, lost>>

\* wqlist_scan(): one queue is locked at a time
Scan(t) ==
    /\ worker[t].pc = "scan"
    /\ LET q == worker[t].at
       IN IF item_listhead[q] # <<>>
          THEN /\ item_listhead' = [item_listhead EXCEPT ![q] = Tail(@)]
               /\ worker' = [worker EXCEPT ![t] = [pc |-> "run", at |-> 0, item |-> Head(item_listhead[q])]]
          ELSE /\ worker' = [worker EXCEPT ![t].pc = IF q < Cardinality(Queues) THEN "scan" ELSE "idle",
                                            ![t].at = q + 1]
               /\ UNCHANGED item_listhead
    /\ UNCHANGED <<legacy_xp, caller, submitted, todo, ran, lost>>

Run(t) ==
    /\ worker[t].pc = "run"
    /\ ran' = ran \cup {worker[t].item}
    /\ worker' = [worker EXCEPT ![t] = [pc |-> "idle", at |-> 0, item |-> NONE]]
    /\ UNCHANGED <<legacy_xp, item_listhead, caller, submitted, todo, lost>>

Next ==
    \/ \E c \in Callers : \/ \E q \in Queues, i \in Items : AddItem(c, q, i)
                          \/ QueueUserWorkItem(c) \/ SubmitThreadpoolWork(c)
    \/ \E t \in Workers : StartCallback(t) \/ Scan(t) \/ Run(t)

Spec == Init /\ [][Next]_vars
-----------------------------------------------------------------------------
\* No item is left behind: a callback need not find the item it was submitted for,
\* and may find none at all, yet when no callback is left every item has run.
EveryCallbackCounts ==
    submitted = <<>> /\ (\A t \in Workers : worker[t].pc = "idle") /\ (\A c \in Callers : caller[c] = NONE)
      => ran \cup lost \cup todo = Items
=============================================================================
