----------------------------- MODULE MainQueue ------------------------------
(***************************************************************************)
(* The main queue of libdispatch (src/queue.c) and what drains it: the     *)
(* event loop of a Qt application, through the bridge of libqtdispatch     *)
(* (src/qdispatchapplicationprivate.h), or, once the main thread has       *)
(* called dispatch_main(), the workers of the default root queue.          *)
(*                                                                         *)
(* The queue is born with its running count and the lock bit of its        *)
(* suspend count taken, on behalf of the main thread.  The wakeup of a     *)
(* push cannot take the lock and calls the handler of the bridge instead,  *)
(* which posts an event to the event loop.  dispatch_main() gives both up, *)
(* from where on the main queue is an ordinary serial queue.               *)
(***************************************************************************)
EXTENDS Integers, Sequences, FiniteSets, SequencesExt

CONSTANTS Clients, Workers,
          Programs,  \* what the main thread may do: "qt" or "dispatch_main"
          Calls      \* Calls[c]: how many calls of each kind client c makes

VARIABLES program,   \* what the main thread does
          items,     \* the list of the main queue
          head,      \* dq_items_head is set: the first item can be reached
          running, suspend, \* dq_running, and do_suspend_cnt
          root,      \* how often the main queue is on the list of its root queue
          handler,   \* main_q_handler is registered
          events,    \* events posted to the bridge
          draining,  \* main_q_is_draining
          pc, cur,   \* of each thread: where it is, and the item it works on
          left,      \* of each client: calls left, by kind
          pushed, ran, \* history: the items in the order they were pushed and run
          elsewhere  \* history: an item has run on a thread that is not the main one

vars == <<program, items, head, running, suspend, root, handler, events, draining,
          pc, cur, left, pushed, ran, elsewhere>>

Threads == Clients \cup Workers \cup {"main"}
None == [c |-> "none", n |-> 0, sync |-> FALSE]

Goto(t, l) == pc' = [pc EXCEPT ![t] = l]

\* Where a thread goes when its wakeup is done.
Home(t) == IF t = "main" THEN IF program = "qt" THEN "loop" ELSE "parked" ELSE "idle"
\* A client that has pushed a synchronous item waits for it.
Pushed(t) == IF t \in Clients /\ cur[t].sync /\ cur[t] \notin Range(ran) THEN "wait"
             ELSE Home(t)

InitWith(r) ==
    /\ program \in Programs
    /\ items = <<>> /\ head = FALSE
    /\ running = r /\ suspend = 1
    /\ root = 0 /\ handler = FALSE /\ events = 0 /\ draining = FALSE
    /\ pc = [t \in Threads |-> IF t = "main" THEN "start" ELSE "idle"]
    /\ cur = [t \in Threads |-> None]
    /\ left = Calls
    /\ pushed = <<>> /\ ran = <<>> /\ elsewhere = FALSE

\* Mutant: the queue is not locked on behalf of the main thread.
InitUnlocked == InitWith(0)

\* struct dispatch_queue_s _dispatch_main_q
Init == InitWith(1)

-----------------------------------------------------------------------------
(* The calls of a client.                                                  *)

NewItem(c, kind) == [c |-> c, n |-> left[c].async + left[c].sync, sync |-> kind = "sync"]

\* _dispatch_queue_push(): whoever finds the list empty also sets the head and
\* wakes the queue up.
Push(t, x) ==
    /\ items' = Append(items, x)
    /\ pushed' = Append(pushed, x)
    /\ head' = (head /\ items # <<>>)
    /\ cur' = [cur EXCEPT ![t] = x]
    /\ Goto(t, IF items = <<>> THEN "slow" ELSE IF x.sync THEN "wait" ELSE "idle")

dispatch_async_f(c) ==
    /\ pc[c] = "idle" /\ left[c].async > 0
    /\ left' = [left EXCEPT ![c].async = @ - 1]
    /\ Push(c, NewItem(c, "async"))
    /\ UNCHANGED <<program, running, suspend, root, handler, events, draining, ran, elsewhere>>

\* dispatch_barrier_sync_f(): when the queue is empty and ...
dispatch_barrier_sync_f(c) ==
    /\ pc[c] = "idle" /\ left[c].sync > 0
    /\ Goto(c, IF items = <<>> /\ suspend < 2 THEN "sync_lock" ELSE "sync_slow")
    /\ cur' = [cur EXCEPT ![c] = NewItem(c, "sync")]
    /\ left' = [left EXCEPT ![c].sync = @ - 1]
    /\ UNCHANGED <<program, items, head, running, suspend, root, handler, events, draining,
                   pushed, ran, elsewhere>>

\* ... nobody runs it, the caller does what it has to do itself,
SyncLock(c) ==
    /\ pc[c] = "sync_lock"
    /\ IF running = 0 THEN running' = 1 /\ Goto(c, "sync_run")
                      ELSE running' = running /\ Goto(c, "sync_slow")
    /\ UNCHANGED <<program, items, head, suspend, root, handler, events, draining, cur, left,
                   pushed, ran, elsewhere>>

SyncRun(c) ==
    /\ pc[c] = "sync_run"
    /\ elsewhere' = TRUE
    /\ Goto(c, "sync_unlock")
    /\ UNCHANGED <<program, items, head, running, suspend, root, handler, events, draining,
                   cur, left, pushed, ran>>

\* _dispatch_queue_unlock()
SyncUnlock(c) ==
    /\ pc[c] = "sync_unlock"
    /\ running' = running - 1
    /\ Goto(c, IF running = 1 THEN "wakeup" ELSE "idle")
    /\ cur' = [cur EXCEPT ![c] = None]
    /\ UNCHANGED <<program, items, head, suspend, root, handler, events, draining, left,
                   pushed, ran, elsewhere>>

\* ... else _dispatch_barrier_sync_f_slow() queues it, and waits until the
\* thread that drains the main queue has called it.
SyncSlow(c) ==
    /\ pc[c] = "sync_slow"
    /\ Push(c, cur[c])
    /\ UNCHANGED <<program, running, suspend, root, handler, events, draining, left, ran,
                   elsewhere>>

SyncReturn(c) ==
    /\ pc[c] = "wait" /\ cur[c] \in Range(ran)
    /\ Goto(c, "idle")
    /\ UNCHANGED <<program, items, head, running, suspend, root, handler, events, draining,
                   cur, left, pushed, ran, elsewhere>>

-----------------------------------------------------------------------------
(* Waking the main queue up.                                               *)

\* _dispatch_queue_push_list_slow()
PushSlow(t) ==
    /\ pc[t] = "slow"
    /\ head' = TRUE
    /\ Goto(t, "wakeup")
    /\ UNCHANGED <<program, items, running, suspend, root, handler, events, draining, cur, left,
                   pushed, ran, elsewhere>>

\* _dispatch_wakeup(): the main queue cannot be suspended by its clients.
Wakeup(t) ==
    /\ pc[t] = "wakeup"
    /\ Goto(t, IF items = <<>> THEN Pushed(t) ELSE "trylock")
    /\ UNCHANGED <<program, items, head, running, suspend, root, handler, events, draining, cur,
                   left, pushed, ran, elsewhere>>

\* The handler of the bridge, when there is one
_dispatch_queue_wakeup_main(t) == Goto(t, IF handler THEN "post" ELSE Pushed(t))

\* Without the lock there is only the handler.
WakeupLock(t) ==
    /\ pc[t] = "trylock"
    /\ IF suspend = 0
         THEN suspend' = 1 /\ root' = root + 1 /\ Goto(t, Pushed(t))
         ELSE UNCHANGED <<suspend, root>> /\ _dispatch_queue_wakeup_main(t)
    /\ UNCHANGED <<program, items, head, running, handler, events, draining, cur, left, pushed,
                   ran, elsewhere>>

\* QDispatchLibBridge::handleNewItem()
handleNewItem(t) ==
    /\ pc[t] = "post"
    /\ events' = events + 1
    /\ Goto(t, Pushed(t))
    /\ UNCHANGED <<program, items, head, running, suspend, root, handler, draining, cur, left,
                   pushed, ran, elsewhere>>

-----------------------------------------------------------------------------
(* The Qt application on the main thread.                                  *)

\* _dispatch_register_signal_handler_4QT(): there is one handler for good
register_signal_handler == handler' = TRUE

\* QDispatchLibBridge::registerCallback() when the application is constructed:
\* register the handler, and call it for what is pending already.
registerCallback ==
    /\ pc["main"] = "start" /\ program = "qt"
    /\ register_signal_handler
    /\ Goto("main", "post")
    /\ UNCHANGED <<program, items, head, running, suspend, root, events, draining, cur, left,
                   pushed, ran, elsewhere>>

\* The event loop delivers an event (QDispatchLibBridge::event()):
\* _dispatch_main_queue_callback_4QT() drains the queue ...
Event ==
    /\ pc["main"] = "loop" /\ events > 0
    /\ events' = events - 1
    /\ draining' = TRUE
    /\ Goto("main", "drain")
    /\ UNCHANGED <<program, items, head, running, suspend, root, handler, cur, left, pushed,
                   ran, elsewhere>>

\* ... unless it is called by an event loop that an item of the queue runs.
NestedEvent ==
    /\ pc["main"] = "run" /\ events > 0 /\ draining
    /\ events' = events - 1
    /\ UNCHANGED <<program, items, head, running, suspend, root, handler, draining, pc, cur,
                   left, pushed, ran, elsewhere>>

\* _dispatch_queue_drain(): until the list is empty; of an item whose push has
\* not set the head yet it waits for it.
Drain(t) ==
    /\ pc[t] = "drain"
    /\ \/ /\ items # <<>> /\ head
          /\ items' = Tail(items)
          /\ cur' = [cur EXCEPT ![t] = Head(items)]
          /\ Goto(t, "run")
          /\ UNCHANGED draining
       \/ /\ items = <<>>
          /\ Goto(t, IF t = "main" THEN "loop" ELSE "drained")
          /\ draining' = (draining /\ t # "main")
          /\ UNCHANGED <<items, cur>>
    /\ UNCHANGED <<program, head, running, suspend, root, handler, events, left, pushed, ran,
                   elsewhere>>

\* An item of the queue; a synchronous one is called here as well, and then
\* signals its caller (_dispatch_barrier_sync_f_slow_invoke()).
Run(t) ==
    /\ pc[t] = "run"
    /\ ran' = Append(ran, cur[t])
    /\ elsewhere' = (elsewhere \/ t # "main")
    /\ Goto(t, "drain")
    /\ UNCHANGED <<program, items, head, running, suspend, root, handler, events, draining,
                   cur, left, pushed>>

-----------------------------------------------------------------------------
(* dispatch_main(), and the workers of the root queue.                     *)

\* _dispatch_queue_cleanup2() gives up the running count ...
dispatch_main ==
    /\ pc["main"] = "start" /\ program = "dispatch_main"
    /\ running' = running - 1
    /\ Goto("main", "cleanup")
    /\ UNCHANGED <<program, items, head, suspend, root, handler, events, draining, cur, left,
                   pushed, ran, elsewhere>>

\* ... and the lock, and wakes the queue up.
Cleanup2 ==
    /\ pc["main"] = "cleanup"
    /\ suspend' = suspend - 1
    /\ Goto("main", IF suspend = 1 THEN "wakeup" ELSE "parked")
    /\ UNCHANGED <<program, items, head, running, root, handler, events, draining, cur, left,
                   pushed, ran, elsewhere>>

\* A worker takes the main queue from the list of the root queue
\* (_dispatch_queue_invoke()) ...
Invoke(w) ==
    /\ pc[w] = "idle" /\ root > 0
    /\ root' = root - 1
    /\ Goto(w, "invoke")
    /\ UNCHANGED <<program, items, head, running, suspend, handler, events, draining, cur, left,
                   pushed, ran, elsewhere>>

\* ... drains it if nobody else runs it ...
InvokeLock(w) ==
    /\ pc[w] = "invoke"
    /\ IF running = 0 THEN running' = 1 /\ Goto(w, "drain")
                      ELSE running' = running /\ Goto(w, "listless")
    /\ UNCHANGED <<program, items, head, suspend, root, handler, events, draining, cur, left,
                   pushed, ran, elsewhere>>

Drained(w) ==
    /\ pc[w] = "drained"
    /\ running' = running - 1
    /\ Goto(w, "listless")
    /\ UNCHANGED <<program, items, head, suspend, root, handler, events, draining, cur, left,
                   pushed, ran, elsewhere>>

\* ... and gives up the lock, and checks that the queue is idle.
InvokeUnlock(w) ==
    /\ pc[w] = "listless"
    /\ suspend' = suspend - 1
    /\ Goto(w, IF suspend = 1 THEN "check_running" ELSE "idle")
    /\ UNCHANGED <<program, items, head, running, root, handler, events, draining, cur, left,
                   pushed, ran, elsewhere>>

CheckRunning(w) ==
    /\ pc[w] = "check_running"
    /\ Goto(w, IF running = 0 THEN "wakeup" ELSE "idle")
    /\ UNCHANGED <<program, items, head, running, suspend, root, handler, events, draining, cur,
                   left, pushed, ran, elsewhere>>

-----------------------------------------------------------------------------
Waking(t) == PushSlow(t) \/ Wakeup(t) \/ WakeupLock(t) \/ handleNewItem(t)

\* What a client does on its own once it has begun a call
Goes(c) == SyncLock(c) \/ SyncRun(c) \/ SyncUnlock(c) \/ SyncSlow(c) \/ SyncReturn(c)

Main == registerCallback \/ Event \/ dispatch_main \/ Cleanup2

Worker(w) == Invoke(w) \/ InvokeLock(w) \/ Drained(w) \/ InvokeUnlock(w) \/ CheckRunning(w)

Next == \/ \E c \in Clients : dispatch_async_f(c) \/ dispatch_barrier_sync_f(c) \/ Goes(c)
        \/ \E t \in Threads : Waking(t) \/ Drain(t) \/ Run(t)
        \/ Main \/ NestedEvent
        \/ \E w \in Workers : Worker(w)

\* The program reaches its event loop or dispatch_main(), and every thread is
\* scheduled; a client need not make another call, and an item need not run an
\* event loop.
Fairness == /\ WF_vars(Main)
            /\ \A c \in Clients : WF_vars(Goes(c))
            /\ \A t \in Threads : WF_vars(Waking(t) \/ Drain(t) \/ Run(t))
            /\ \A w \in Workers : WF_vars(Worker(w))

Spec == Init /\ [][Next]_vars /\ Fairness

-----------------------------------------------------------------------------
Runs(t) == pc[t] \in {"run", "sync_run"}

(* Two items of the main queue are never executed at once, by whatever     *)
(* threads: the main thread in its event loop, workers after               *)
(* dispatch_main(), and callers that run their synchronous item            *)
(* themselves; items are executed in the order they were queued; and       *)
(* under a Qt event loop all of them are executed by the main thread.      *)
MainSerial ==
    /\ \A t, u \in Threads : Runs(t) /\ Runs(u) => t = u
    /\ IsPrefix(ran, pushed)
    /\ program = "qt" => ~elsewhere

\* An item waits on the main queue, or a client for its item.
Waiting == items # <<>> \/ \E c \in Clients : pc[c] \in {"slow", "wait"}
=============================================================================
