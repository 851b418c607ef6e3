----------------------------- MODULE RootQueue -----------------------------
(***************************************************************************)
(* A global (root) queue of libdispatch/src/queue.c: producers push items  *)
(* on a lock-free list and wake up worker threads, which take the items    *)
(* concurrently.  The front of the list is handed from worker to worker by *)
(* exchanging dq_items_head with a mediator value.                         *)
(*                                                                         *)
(* Workers come from pthread_workqueue_additem_np(), at most one request   *)
(* at a time (dgq_pending), or, without a kernel work queue, from a pool   *)
(* of threads that sleep on a semaphore and retire after 65 seconds.       *)
(* _dispatch_root_queues_init() decides between the two; it is called with *)
(* dispatch_once_f() by whoever first wakes a worker up (module            *)
(* DispatchOnce).  The semaphore is the abstract one, with its value and   *)
(* the wakeups promised to sleepers (see DispatchSemaphore).               *)
(***************************************************************************)
EXTENDS Integers, Sequences, FiniteSets, SequencesExt

CONSTANTS Producers,    \* threads that push items
          Workers,      \* threads that run _dispatch_worker_thread(2)
          Others,       \* threads that wake up another root queue
          MaxPush,      \* bound on the items each producer pushes
          PoolSize,     \* initial dgq_thread_pool_size
          NULL, MEDIATOR

ASSUME ThreadsAssumption ==
    /\ IsFiniteSet(Producers) /\ IsFiniteSet(Workers)
    /\ Producers \cap Workers = {} /\ Others \cap (Producers \cup Workers) = {}
ASSUME BoundsAssumption ==
    MaxPush \in Nat /\ PoolSize \in Nat /\ PoolSize > 0

Threads == Producers \cup Workers
Items == Producers \X (1 .. MaxPush)

ASSUME NULLAssumption == NULL \notin Items /\ MEDIATOR \notin Items /\ NULL # MEDIATOR

VARIABLES
    kworkqueue,     \* whether dgq_kworkqueue is set
    pred, oncepc, inits, inited, \* the state of dispatch_once_f(): its predicate,
                    \* where each thread is in it, how often the initialisation
                    \* has run, whether a call has returned
    head, tail,     \* dq_items_head, dq_items_tail
    nxt,            \* do_next of each item
    pending,        \* dgq_pending
    requests,       \* threads asked for that have not started yet
    pool,           \* dgq_thread_pool_size
    mvalue,         \* dsema_value of dgq_thread_mediator
    promised,       \* wakeups promised to its sleepers
    prev,           \* the old tail a producer has to link to
    item, next,     \* head and next of _dispatch_queue_concurrent_drain_one()
    pc, ret,        \* where each thread is, and where a wakeup returns
    pushed, popped, \* history: the items in the order of push, and of pop
    done            \* the items whose block has run

once == <<kworkqueue, pred, oncepc, inits, inited>>
list == <<head, tail, nxt>>
contexts == <<pending, requests, pool>>
mediator == <<mvalue, promised>>
threads == <<contexts, mediator>>
locals == <<prev, item, next>>
history == <<pushed, popped, done>>
vars == <<once, list, threads, locals, pc, ret, history>>

Once == INSTANCE DispatchOnce
            WITH Threads <- Threads \cup Others,
                 val <- pred, pc <- oncepc, ran <- inits, returned <- inited

Init == /\ kworkqueue = FALSE /\ Once!Init
        /\ head = NULL /\ tail = NULL
        /\ nxt = [i \in Items |-> NULL]
        /\ pending = 0 /\ requests = 0 /\ pool = PoolSize
        /\ mvalue = 0 /\ promised = 0
        /\ prev = [p \in Producers |-> NULL]
        /\ item = [w \in Workers |-> NULL]
        /\ next = [w \in Workers |-> NULL]
        /\ pc = [t \in Threads |-> IF t \in Producers THEN "idle" ELSE "off"]
        /\ ret = [t \in Threads |-> "idle"]
        /\ pushed = <<>> /\ popped = <<>> /\ done = {}

Goto(t, l) == pc' = [pc EXCEPT ![t] = l]

\* Enter _dispatch_queue_wakeup_global(), to return to label l.
CallWakeup(t, l) == Goto(t, "wakeup") /\ ret' = [ret EXCEPT ![t] = l]

\* Return from it.  Locals that go out of scope are reset.
Return(t) == Goto(t, ret[t]) /\ ret' = [ret EXCEPT ![t] = "idle"]

PushedBy(p) == Len(SelectSeq(pushed, LAMBDA i : i[1] = p))

-----------------------------------------------------------------------------
(* _dispatch_queue_push().  The suspend count of a root queue is its lock  *)
(* bit, so _dispatch_wakeup() comes down to the probe of its vtable, which *)
(* is _dispatch_queue_wakeup_global(); retain and release do not change a  *)
(* global object.                                                          *)

PushTail(p) ==
    /\ pc[p] = "idle"
    /\ PushedBy(p) < MaxPush
    /\ LET i == <<p, PushedBy(p) + 1>>
       IN  /\ nxt' = [nxt EXCEPT ![i] = NULL]
           /\ tail' = i
           /\ pushed' = Append(pushed, i)
    /\ prev' = [prev EXCEPT ![p] = tail]
    /\ Goto(p, IF tail # NULL THEN "push_link" ELSE "push_head")
    /\ UNCHANGED <<once, head, threads, item, next, ret, popped, done>>

PushLink(p) ==
    /\ pc[p] = "push_link"
    /\ nxt' = [nxt EXCEPT ![prev[p]] = <<p, PushedBy(p)>>]
    /\ prev' = [prev EXCEPT ![p] = NULL]
    /\ Goto(p, "idle")
    /\ UNCHANGED <<once, head, tail, threads, item, next, ret, history>>

PushHead(p) ==
    /\ pc[p] = "push_head"
    /\ head' = <<p, PushedBy(p)>>
    /\ CallWakeup(p, "idle")
    /\ UNCHANGED <<once, tail, nxt, threads, locals, history>>

-----------------------------------------------------------------------------
(* _dispatch_queue_wakeup_global()                                         *)

WakeupTail(t) ==
    /\ pc[t] = "wakeup"
    /\ IF tail = NULL THEN Return(t) ELSE Goto(t, "wakeup_once") /\ UNCHANGED ret
    /\ UNCHANGED <<once, list, threads, locals, history>>

\* Back from dispatch_once_f(), or still inside.
OnceReturns(t) ==
    /\ IF oncepc'[t] # "idle" THEN UNCHANGED pc
       ELSE Goto(t, IF kworkqueue' THEN "wakeup_pending" ELSE "wakeup_signal")
    /\ UNCHANGED <<list, threads, locals, ret, history>>

\* dispatch_once_f() outside the function itself.
OnceStep(t) ==
    /\ \/ Once!CheckPredicate(t) \/ Once!CompareAndSwap(t)
       \/ Once!Publish(t) \/ Once!Spin(t)
    /\ UNCHANGED kworkqueue

\* _dispatch_root_queues_init(): the environment may disable the kernel work
\* queue, and its creation may fail.
RootQueuesInit(t) == Once!RunFunc(t) /\ kworkqueue' \in BOOLEAN

WakeupOnce(t) ==
    /\ pc[t] = "wakeup_once"
    /\ OnceStep(t) \/ RootQueuesInit(t)
    /\ OnceReturns(t)

\* The predicate belongs to all root queues: a wakeup of another one.
OtherInit(o) ==
    /\ OnceStep(o) \/ RootQueuesInit(o)
    /\ UNCHANGED <<list, threads, locals, pc, ret, history>>

WakeupPending(t) ==
    /\ pc[t] = "wakeup_pending"
    /\ IF pending = 0 THEN pending' = 1 /\ Goto(t, "wakeup_additem") /\ UNCHANGED ret
                      ELSE UNCHANGED pending /\ Return(t)
    /\ UNCHANGED <<once, list, requests, pool, mvalue, promised, locals, history>>

\* pthread_workqueue_additem_np(), or pthread_create(), which is retried until
\* it succeeds.
RequestThread(t) ==
    /\ pc[t] \in {"wakeup_additem", "wakeup_create"}
    /\ requests' = requests + 1
    /\ Return(t)
    /\ UNCHANGED <<once, list, pending, pool, mvalue, promised, locals, history>>

\* dispatch_semaphore_signal() says whether it woke a sleeper up.
WakeupSignal(t) ==
    /\ pc[t] = "wakeup_signal"
    /\ mvalue' = mvalue + 1
    /\ IF mvalue < 0 THEN promised' = promised + 1 /\ Return(t)
                     ELSE UNCHANGED <<promised, ret>> /\ Goto(t, "wakeup_pool")
    /\ UNCHANGED <<once, list, pending, requests, pool, locals, history>>

WakeupPool(t) ==
    /\ pc[t] = "wakeup_pool"
    /\ IF pool = 0 THEN UNCHANGED pool /\ Return(t)
                   ELSE pool' = pool - 1 /\ Goto(t, "wakeup_create") /\ UNCHANGED ret
    /\ UNCHANGED <<once, list, pending, requests, mvalue, promised, locals, history>>

-----------------------------------------------------------------------------
(* _dispatch_worker_thread() and _dispatch_worker_thread2()                *)

\* The thread asked for starts.
StartWorker(w) ==
    /\ pc[w] = "off"
    /\ requests > 0
    /\ requests' = requests - 1
    /\ Goto(w, "start")
    /\ UNCHANGED <<once, list, pending, pool, mvalue, promised, locals, ret, history>>

ClearPending(w) ==
    /\ pc[w] = "start"
    /\ pending' = 0
    /\ Goto(w, "drain")
    /\ UNCHANGED <<once, list, requests, pool, mvalue, promised, locals, ret, history>>

\* _dispatch_queue_concurrent_drain_one(): exchange the head.
TakeHead(w) ==
    /\ pc[w] = "drain"
    /\ head' = MEDIATOR
    /\ CASE head = NULL -> Goto(w, "undo") /\ UNCHANGED <<item, ret, popped>>
         [] head = MEDIATOR -> CallWakeup(w, "drained") /\ UNCHANGED <<item, popped>>
         [] OTHER -> /\ item' = [item EXCEPT ![w] = head]
                     /\ popped' = Append(popped, head)
                     /\ Goto(w, "next")
                     /\ UNCHANGED ret
    /\ UNCHANGED <<once, tail, nxt, threads, prev, next, pushed, done>>

\* The queue was empty: withdraw the mediator unless a producer has replaced it.
UndoMediator(w) ==
    /\ pc[w] = "undo"
    /\ head' = IF head = MEDIATOR THEN NULL ELSE head
    /\ Goto(w, "drained")
    /\ UNCHANGED <<once, tail, nxt, threads, locals, ret, history>>

ReadNext(w) ==
    /\ pc[w] = "next"
    /\ next' = [next EXCEPT ![w] = nxt[item[w]]]
    /\ Goto(w, IF nxt[item[w]] = NULL THEN "clear" ELSE "restore")
    /\ UNCHANGED <<once, list, threads, prev, item, ret, history>>

ClearHead(w) ==
    /\ pc[w] = "clear"
    /\ head' = NULL
    /\ Goto(w, "cas_tail")
    /\ UNCHANGED <<once, tail, nxt, threads, locals, ret, history>>

\* Mutant: the item is assumed to be the last one.
ClearTailBlindly(w) ==
    /\ pc[w] = "cas_tail"
    /\ tail' = NULL /\ Goto(w, "run")
    /\ UNCHANGED <<once, head, nxt, threads, locals, ret, history>>

ClearTail(w) ==
    /\ pc[w] = "cas_tail"
    /\ IF tail = item[w] THEN tail' = NULL /\ Goto(w, "run")
                         ELSE UNCHANGED tail /\ Goto(w, "spin")
    /\ UNCHANGED <<once, head, nxt, threads, locals, ret, history>>

\* Wait until the producer of the next item has linked it.
SpinNext(w) ==
    /\ pc[w] = "spin"
    /\ nxt[item[w]] # NULL
    /\ next' = [next EXCEPT ![w] = nxt[item[w]]]
    /\ Goto(w, "restore")
    /\ UNCHANGED <<once, list, threads, prev, item, ret, history>>

\* Hand the rest of the list over to another worker before running the item.
RestoreHead(w) ==
    /\ pc[w] = "restore"
    /\ head' = next[w]
    /\ next' = [next EXCEPT ![w] = NULL]
    /\ CallWakeup(w, "run")
    /\ UNCHANGED <<once, tail, nxt, threads, prev, item, history>>

\* _dispatch_continuation_pop()
RunItem(w) ==
    /\ pc[w] = "run"
    /\ done' = done \cup {item[w]}
    /\ item' = [item EXCEPT ![w] = NULL]
    /\ Goto(w, "drain")
    /\ UNCHANGED <<once, list, threads, prev, next, ret, pushed, popped>>

\* A thread of the kernel work queue ends; one of the pool waits for more,
\* unless a signal came before.
Drained(w) ==
    /\ pc[w] = "drained"
    /\ IF kworkqueue THEN UNCHANGED mvalue /\ Goto(w, "off")
       ELSE mvalue' = mvalue - 1 /\ Goto(w, IF mvalue > 0 THEN "start" ELSE "sleep")
    /\ UNCHANGED <<once, list, pending, requests, pool, promised, locals, ret, history>>

WokenUp(w) ==
    /\ pc[w] = "sleep"
    /\ promised > 0
    /\ promised' = promised - 1
    /\ Goto(w, "start")
    /\ UNCHANGED <<once, list, pending, requests, pool, mvalue, locals, ret, history>>

\* 65 seconds have passed and no signal came in between.
TimedOut(w) ==
    /\ pc[w] = "sleep"
    /\ mvalue < 0
    /\ mvalue' = mvalue + 1
    /\ Goto(w, "retire")
    /\ UNCHANGED <<once, list, pending, requests, pool, promised, locals, ret, history>>

Retire(w) ==
    /\ pc[w] = "retire"
    /\ pool' = pool + 1
    /\ Goto(w, "retired")
    /\ UNCHANGED <<once, list, pending, requests, mvalue, promised, locals, ret, history>>

\* Mutant: no second look at the list.
RetiredBlindly(w) ==
    /\ pc[w] = "retired"
    /\ Goto(w, "off")
    /\ UNCHANGED <<once, list, threads, locals, ret, history>>

\* An item may have been pushed while the pool was full.
Retired(w) ==
    /\ pc[w] = "retired"
    /\ IF tail # NULL THEN CallWakeup(w, "off") ELSE Goto(w, "off") /\ UNCHANGED ret
    /\ UNCHANGED <<once, list, threads, locals, history>>

-----------------------------------------------------------------------------
Push(p) == PushTail(p) \/ PushLink(p) \/ PushHead(p)

Wakeup(t) == \/ WakeupTail(t) \/ WakeupOnce(t) \/ WakeupPending(t)
             \/ RequestThread(t) \/ WakeupSignal(t) \/ WakeupPool(t)

DrainOne(w) == \/ TakeHead(w) \/ UndoMediator(w) \/ ReadNext(w) \/ ClearHead(w)
               \/ ClearTail(w) \/ SpinNext(w) \/ RestoreHead(w)

Worker(w) == \/ StartWorker(w) \/ ClearPending(w) \/ DrainOne(w) \/ RunItem(w)
             \/ Drained(w) \/ WokenUp(w) \/ Retire(w) \/ Retired(w)

Next == \/ \E p \in Producers : Push(p)
        \/ \E t \in Threads : Wakeup(t)
        \/ \E w \in Workers : Worker(w) \/ TimedOut(w)
        \/ \E o \in Others : OtherInit(o)

Spec == Init /\ [][Next]_vars

\* A producer inside a call and a worker keep running, and threads asked for
\* start; nothing obliges a producer to push or a sleeper to time out.
Fairness ==
    /\ \A p \in Producers : WF_vars(PushLink(p) \/ PushHead(p) \/ Wakeup(p))
    /\ \A w \in Workers : WF_vars(Worker(w) \/ Wakeup(w))
    /\ \A o \in Others : WF_vars(OtherInit(o))

FairSpec == Spec /\ Fairness

-----------------------------------------------------------------------------
WakeupPC == {"wakeup", "wakeup_once", "wakeup_pending", "wakeup_additem", "wakeup_signal",
             "wakeup_pool", "wakeup_create"}

\* Owning the front of the list.
OwnerPC == {"next", "clear", "cas_tail", "spin", "restore"}

ProducerPC == {"idle", "push_link", "push_head"} \cup WakeupPC

WorkerPC == {"off", "start", "drain", "undo", "run", "drained", "sleep", "retire",
             "retired"} \cup OwnerPC \cup WakeupPC

ThreadsAt(S) == {t \in Threads : pc[t] \in S}

TypeOK ==
    /\ kworkqueue \in BOOLEAN
    /\ head \in Items \cup {NULL, MEDIATOR} /\ tail \in Items \cup {NULL}
    /\ nxt \in [Items -> Items \cup {NULL}]
    /\ pending \in {0, 1} /\ requests \in Nat /\ pool \in 0 .. PoolSize
    /\ mvalue \in Int /\ promised \in Nat
    /\ prev \in [Producers -> Items \cup {NULL}]
    /\ item \in [Workers -> Items \cup {NULL}]
    /\ next \in [Workers -> Items \cup {NULL}]
    /\ \A p \in Producers : pc[p] \in ProducerPC /\ ret[p] = "idle"
    /\ \A w \in Workers : pc[w] \in WorkerPC
                          /\ ret[w] \in {"idle", "drained", "run", "off"}
    /\ pushed \in Seq(Items) /\ popped \in Seq(Items) /\ done \subseteq Items

\* _dispatch_root_queues_init() runs once, and nobody looks at the work queue, the
\* pool or its semaphore before it has.
InitialisedOnce ==
    /\ inits <= 1
    /\ ThreadsAt({"wakeup_pending", "wakeup_additem", "wakeup_signal", "wakeup_pool",
                  "wakeup_create"}) # {} => inits = 1

\* The mediator is a lock: at most one worker at a time takes the front of the
\* list apart, although a worker that found the queue empty may withdraw the
\* mediator of another one.
OneOwner == Cardinality(ThreadsAt(OwnerPC)) <= 1

\* Items leave the queue in the order in which they were pushed, each once.
FIFO == IsPrefix(popped, pushed)

\* dgq_pending is set exactly while one thread is asked for and has not started.
OneRequest ==
    kworkqueue => pending = requests + Cardinality(ThreadsAt({"wakeup_additem", "start"}))

\* A thread of the pool gives its place back exactly once, so there are never
\* more than PoolSize, and never fewer available than the counter says.
Places == Workers \cap ThreadsAt(WorkerPC \ {"off", "retired"})

PoolAccount ==
    ~kworkqueue =>
        pool + requests + Cardinality(ThreadsAt({"wakeup_create"}))
             + Cardinality({w \in Places : ret[w] # "off"}) = PoolSize

\* The front of a root queue is taken apart by one worker at a time and items
\* leave it in order, each once; at most one request for a thread is under way,
\* and the places of the thread pool add up, from the one initialisation on.
RootQueueSafe == InitialisedOnce /\ OneOwner /\ FIFO /\ OneRequest /\ PoolAccount

=============================================================================
