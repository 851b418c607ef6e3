------------------------------ MODULE WorkQueue ------------------------------
(***************************************************************************)
(* libpthread_workqueue on POSIX systems (src/posix/manager.c, src/api.c): *)
(* work queues of several priorities served by a pool of workers, a        *)
(* manager thread that grows and shrinks the pool, and the overcommit      *)
(* queues, whose items get a thread of their own when none is idle.  Steps *)
(* under one lock that cannot block are one action.                        *)
(***************************************************************************)
EXTENDS Integers, Sequences, FiniteSets, FiniteSetsExt

CONSTANTS Clients,
          Programs,      \* what the clients do: a set of functions from Clients
                         \* to sequences of records [op, oc, prio]
          Prios,         \* queue priorities, 0 the highest
          Workers,       \* identities of the threads of the pool
          OcWorkers,     \* identities of the overcommit threads
          cpu_count, worker_max,
          WORKER_IDLE_SECONDS_THRESHOLD,
          SpinSettings,  \* values of PWQ_SPIN_THREADS
          MaxTicks,      \* bound on the timeouts of the manager
          MaxFailures,   \* bound on the failures of pthread_create()
          NULL

VARIABLES prog,    \* what each client has still to do
          pc,      \* where each client is
          list,    \* item_listhead of the queue of each priority, NULL without one
          mask,    \* wqlist_mask
          mtx,     \* the holder of wqlist_mtx
          asleep,  \* the workers that wait for wqlist_has_work
          w,       \* the workers: where they are, and locals
          sb,      \* the scoreboard, and pending_thread_create
          mg,      \* the manager thread and its locals
          spin,    \* PWQ_SPIN_THREADS and current_threads_spinning
          oc,      \* the overcommit queues: lists, mask, idle threads, signals
          ow,      \* the overcommit threads
          failures, \* of pthread_create(), in the pool and in overcommit
          added, taken  \* history: items in the order of their insertion and removal

queues == <<list, mask, added, taken>>
wait == <<mtx, asleep>>
pool == <<list, mask, mtx, asleep, w, sb, mg, spin>>
overcommit == <<oc, ow>>
clients == <<prog, pc>>
vars == <<pool, overcommit, clients, failures, added, taken>>

worker_min == 2
\* worker_idle_threshold_per_cpu()
worker_idle_threshold ==
    IF cpu_count \in {0, 1, 2, 4} THEN 2
    ELSE IF cpu_count = 6 THEN 4
    ELSE IF cpu_count \in {8, 12} THEN 6
    ELSE IF cpu_count \in {16, 24} THEN 8
    ELSE IF cpu_count \in {32, 64} THEN 12
    ELSE cpu_count \div 4

EXIT == <<0, 0>>   \* the item of worker_stop(), without a function
ETIMEDOUT == 1

\* manager_init()
\* pthread_workqueue_init_np() reads the environment, once
pthread_workqueue_init_np == spin \in [max : SpinSettings, cur : {0}]

Init ==
    /\ prog \in Programs
    /\ pc = [c \in Clients |-> "idle"]
    /\ list = [p \in Prios |-> NULL]
    /\ mask = {} /\ mtx = NULL /\ asleep = {}
    /\ w = [x \in Workers |-> [pc |-> "none", idx |-> NULL, item |-> NULL]]
    /\ sb = [idle |-> 0, count |-> 0, pending |-> 0, sem |-> 0, suspend |-> FALSE]
    /\ mg = [pc |-> "none", rv |-> 0, acc |-> 0, stop |-> 0, ticks |-> 0, started |-> 0]
    /\ pthread_workqueue_init_np
    /\ oc = [list |-> [p \in Prios |-> NULL], mask |-> {}, idle |-> 0, signals |-> 0]
    /\ ow = [x \in OcWorkers |-> [pc |-> "none", item |-> NULL]]
    /\ failures = [pool |-> 0, oc |-> 0]
    /\ added = [p \in Prios |-> <<>>] /\ taken = [p \in Prios |-> <<>>]

-----------------------------------------------------------------------------
(* Clients.                                                                *)

Op(c) == Head(prog[c])
MayCall(c, op) == pc[c] = "idle" /\ prog[c] # <<>> /\ Op(c).op = op
Finished(c) == prog' = [prog EXCEPT ![c] = Tail(@)]
Item(c) == <<c, Len(prog[c])>>

\* manager_start(): pthread_create() is tried until it succeeds
manager_start == [mg EXCEPT !.pc = "start"]

\* pthread_workqueue_create_np() and manager_workqueue_create(): the first queue
\* that does not overcommit starts the manager.
Create(c) ==
    /\ MayCall(c, "create")
    /\ mtx = NULL
    /\ LET p == Op(c).prio IN
       IF Op(c).oc
         THEN /\ oc.list[p] = NULL
              /\ oc' = [oc EXCEPT !.list[p] = <<>>]
              /\ UNCHANGED <<list, mg>>
         ELSE /\ list[p] = NULL
              /\ list' = [list EXCEPT ![p] = <<>>]
              /\ mg' = IF mg.pc = "none" THEN manager_start ELSE mg
              /\ UNCHANGED oc
    /\ Finished(c)
    /\ UNCHANGED <<pc, mask, wait, w, sb, spin, ow, failures, added, taken>>

\* pthread_workqueue_additem_np() and manager_workqueue_additem(), the part under
\* the spin lock of the queue: the mask is set for the first item only.
AddItem(c) ==
    /\ MayCall(c, "add") /\ ~Op(c).oc /\ list[Op(c).prio] # NULL
    /\ LET p == Op(c).prio IN
         /\ list' = [list EXCEPT ![p] = Append(@, Item(c))]
         /\ mask' = IF list[p] = <<>> THEN mask \cup {p} ELSE mask
         /\ added' = [added EXCEPT ![p] = Append(@, Item(c))]
    /\ pc' = [pc EXCEPT ![c] = "signal"]
    /\ UNCHANGED <<prog, wait, w, sb, mg, spin, overcommit, failures, taken>>

\* pthread_cond_signal() wakes one of those who wait, if any does.
Signal == IF asleep = {} THEN UNCHANGED asleep
          ELSE \E x \in asleep : asleep' = asleep \ {x}

\* Then a thread is woken up if one is idle.  The mutex is not held.
AddSignal(c) ==
    /\ pc[c] = "signal"
    /\ IF sb.idle > 0 THEN Signal ELSE UNCHANGED asleep
    /\ pc' = [pc EXCEPT ![c] = "idle"]
    /\ Finished(c)
    /\ UNCHANGED <<queues, mtx, w, sb, mg, spin, overcommit, failures>>

\* pthread_create() of a thread, or its failure.  Which one of those that do not
\* exist makes no difference.
Spawn(kind, threads, after, state) ==
    \/ /\ LET new == {x \in DOMAIN threads : threads[x].pc = "none"}
          IN new # {} /\ after = [threads EXCEPT ![CHOOSE x \in new : TRUE].pc = state]
       /\ UNCHANGED failures
    \/ /\ failures[kind] < MaxFailures
       /\ failures' = [failures EXCEPT ![kind] = @ + 1]
       /\ after = threads

\* manager_workqueue_additem() of an overcommit queue, with ocwq_mtx held: signal
\* an idle thread, or create one.  The result of pthread_create() is ignored.
OcAddItem(c) ==
    /\ MayCall(c, "add") /\ Op(c).oc /\ oc.list[Op(c).prio] # NULL
    /\ LET p == Op(c).prio
           o == [oc EXCEPT !.list[p] = Append(@, Item(c)), !.mask = @ \cup {p}]
       IN \/ /\ oc.idle > 0
             /\ oc' = [o EXCEPT !.idle = @ - 1, !.signals = @ + 1]
             /\ UNCHANGED <<ow, failures>>
          \/ /\ oc.idle = 0
             /\ oc' = o
             /\ Spawn("oc", ow, ow', "start")
    /\ Finished(c)
    /\ UNCHANGED <<pc, pool, added, taken>>

\* pthread_workqueue_suspend_np() waits for the manager; _resume_np() wakes it.
Suspend(c) ==
    /\ MayCall(c, "suspend") /\ mg.pc # "none"
    /\ sb' = [sb EXCEPT !.suspend = TRUE]
    /\ Finished(c)
    /\ UNCHANGED <<pc, queues, wait, w, mg, spin, overcommit, failures>>

Resume(c) ==
    /\ MayCall(c, "resume")
    /\ sb' = IF sb.suspend THEN [sb EXCEPT !.suspend = FALSE, !.sem = @ + 1] ELSE sb
    /\ Finished(c)
    /\ UNCHANGED <<pc, queues, wait, w, mg, spin, overcommit, failures>>

-----------------------------------------------------------------------------
(* overcommit_worker_main(), with ocwq_mtx held but for the call.          *)

\* One turn of the loop from a state o: an item of the first queue, or the wait.
OcTurn(x, o) ==
    IF o.mask = {}
      THEN /\ oc' = [o EXCEPT !.idle = @ + 1]
           /\ ow' = [ow EXCEPT ![x].pc = "wait"]
      ELSE LET p == Min(o.mask) IN
           /\ oc' = [o EXCEPT !.list[p] = Tail(@),
                              !.mask = IF Len(o.list[p]) = 1 THEN @ \ {p} ELSE @]
           /\ ow' = [ow EXCEPT ![x] = [pc |-> "run", item |-> Head(o.list[p])]]

OcStart(x) ==
    /\ ow[x].pc \in {"start", "run"}
    /\ OcTurn(x, oc)
    /\ UNCHANGED <<clients, pool, failures, added, taken>>

\* pthread_cond_timedwait() returns, on a signal or on time: a signal counted is
\* taken by whoever returns first, and the others leave.
OcReturn(x) ==
    /\ ow[x].pc = "wait"
    /\ \/ /\ oc.signals > 0
          /\ OcTurn(x, [oc EXCEPT !.signals = @ - 1])
       \/ /\ oc.signals = 0
          /\ oc' = [oc EXCEPT !.idle = @ - 1]
          /\ ow' = [ow EXCEPT ![x] = [pc |-> "none", item |-> NULL]]
    /\ UNCHANGED <<clients, pool, failures, added, taken>>

-----------------------------------------------------------------------------
(* worker_main().                                                          *)

others == <<clients, mg, overcommit, failures>>
Goto(x, l) == w' = [w EXCEPT ![x].pc = l]

\* wqlist_scan() in three places: the fast path, the spinning loop, and the slow
\* path with wqlist_mtx held, the only one that takes the items of worker_stop().
Scans == {"scan", "sscan", "wscan"}
Skips(l) == l # "wscan"
\* where a scan of each place goes on without an item, and with one
Failed(l) == [scan |-> "spin", sscan |-> "sscan", wscan |-> "cond"][l]
Found(l)  == [scan |-> "got", sscan |-> "sgot", wscan |-> "unlock"][l]

\* The thread starts.
Begin(x) ==
    /\ w[x].pc = "created"
    /\ sb' = [sb EXCEPT !.pending = @ - 1]
    /\ Goto(x, "scan")
    /\ UNCHANGED <<others, queues, wait, spin>>

\* ffs(wqlist_mask), without a lock
ScanMask(x) ==
    /\ w[x].pc \in Scans /\ w[x].idx = NULL
    /\ w' = IF mask = {} THEN [w EXCEPT ![x].pc = Failed(@)]
            ELSE [w EXCEPT ![x].idx = Min(mask)]
    /\ UNCHANGED <<others, queues, wait, sb, spin>>

\* reset_queue_mask(): the bit of a queue that is now empty
reset_queue_mask(p) == mask' = mask \ {p}

\* Mutant: the bit is cleared by whoever takes an item.
ScanTakeClears(x) ==
    LET l == w[x].pc  p == w[x].idx
        head == IF list[p] # <<>> THEN Head(list[p]) ELSE NULL
    IN /\ l \in Scans /\ p # NULL
       /\ IF head = NULL \/ (head = EXIT /\ Skips(l))
            THEN /\ w' = [w EXCEPT ![x].pc = Failed(@), ![x].idx = NULL]
                 /\ UNCHANGED queues
            ELSE /\ list' = [list EXCEPT ![p] = Tail(@)]
                 /\ reset_queue_mask(p)
                 /\ taken' = [taken EXCEPT ![p] = Append(@, head)]
                 /\ w' = [w EXCEPT ![x] = [pc |-> Found(l), idx |-> NULL, item |-> head]]
                 /\ UNCHANGED added
       /\ UNCHANGED <<others, wait, sb, spin>>

\* the rest of wqlist_scan(), under the spin lock of the queue
ScanTake(x) ==
    LET l == w[x].pc  p == w[x].idx
        head == IF list[p] # <<>> THEN Head(list[p]) ELSE NULL
    IN /\ l \in Scans /\ p # NULL
       /\ IF head = NULL \/ (head = EXIT /\ Skips(l))
            THEN /\ w' = [w EXCEPT ![x].pc = Failed(@), ![x].idx = NULL]
                 /\ UNCHANGED queues
            ELSE /\ list' = [list EXCEPT ![p] = Tail(@)]
                 /\ IF Len(list[p]) = 1 THEN reset_queue_mask(p) ELSE UNCHANGED mask
                 /\ taken' = [taken EXCEPT ![p] = Append(@, head)]
                 /\ w' = [w EXCEPT ![x] = [pc |-> Found(l), idx |-> NULL, item |-> head]]
                 /\ UNCHANGED added
       /\ UNCHANGED <<others, wait, sb, spin>>

\* wqlist_scan_spin(): a bounded number of threads spins, the others go on.
SpinEnter(x) ==
    /\ w[x].pc = "spin"
    /\ spin' = [spin EXCEPT !.cur = @ + 1]
    /\ Goto(x, IF spin.cur + 1 <= spin.max THEN "sscan" ELSE "sleave")
    /\ UNCHANGED <<others, queues, wait, sb>>

\* the last idle thread wakes the manager
Post == sb' = IF sb.idle = 1 THEN [sb EXCEPT !.sem = @ + 1] ELSE sb

SpinPost(x) ==
    /\ w[x].pc = "sgot"
    /\ Post
    /\ Goto(x, "sleave")
    /\ UNCHANGED <<others, queues, wait, spin>>

SpinLeave(x) ==
    /\ w[x].pc = "sleave"
    /\ spin' = [spin EXCEPT !.cur = @ - 1]
    /\ Goto(x, IF w[x].item = NULL THEN "lock" ELSE "got")
    /\ UNCHANGED <<others, queues, wait, sb>>


\* wqlist_scan_wait()
Lock(x) ==
    /\ w[x].pc = "lock" /\ mtx = NULL
    /\ mtx' = x
    /\ Goto(x, "wscan")
    /\ UNCHANGED <<others, queues, asleep, sb, spin>>

CondWait(x) ==
    /\ w[x].pc = "cond"
    /\ asleep' = asleep \cup {x} /\ mtx' = NULL
    /\ Goto(x, "asleep")
    /\ UNCHANGED <<others, queues, sb, spin>>

Awake(x) ==
    /\ w[x].pc = "asleep" /\ x \notin asleep /\ mtx = NULL
    /\ mtx' = x
    /\ Goto(x, "wscan")
    /\ UNCHANGED <<others, queues, asleep, sb, spin>>

Unlock(x) ==
    /\ w[x].pc = "unlock"
    /\ mtx' = NULL
    /\ Post
    /\ Goto(x, "got")
    /\ UNCHANGED <<others, queues, asleep, spin>>

\* Mutant: a worker that exits is no longer idle, but still counted.
TakeExitCounted(x) ==
    /\ w[x].pc = "got"
    /\ IF w[x].item = EXIT
         THEN /\ sb' = [sb EXCEPT !.idle = @ - 1]
              /\ w' = [w EXCEPT ![x] = [pc |-> "none", idx |-> NULL, item |-> NULL]]
         ELSE /\ sb' = [sb EXCEPT !.idle = @ - 1]
              /\ Goto(x, "run")
    /\ UNCHANGED <<others, queues, wait, spin>>

\* The worker exits, or calls the function ...
Take(x) ==
    /\ w[x].pc = "got"
    /\ IF w[x].item = EXIT
         THEN /\ sb' = [sb EXCEPT !.idle = @ - 1, !.count = @ - 1]
              /\ w' = [w EXCEPT ![x] = [pc |-> "none", idx |-> NULL, item |-> NULL]]
         ELSE /\ sb' = [sb EXCEPT !.idle = @ - 1]
              /\ Goto(x, "run")
    /\ UNCHANGED <<others, queues, wait, spin>>

\* ... which returns.
Return(x) ==
    /\ w[x].pc = "run"
    /\ sb' = [sb EXCEPT !.idle = @ + 1]
    /\ w' = [w EXCEPT ![x] = [pc |-> "scan", idx |-> NULL, item |-> NULL]]
    /\ UNCHANGED <<others, queues, wait, spin>>

-----------------------------------------------------------------------------
(* manager_main().                                                         *)

Alive == {x \in Workers : w[x].pc # "none"}
unmanaged == <<clients, queues, wait, spin, overcommit>>

\* worker_start(): the counters first, then the thread.
Starting == sb' = [sb EXCEPT !.pending = @ + 1, !.idle = @ + 1, !.count = @ + 1]

\* The minimum number of workers.
MgrStart ==
    /\ mg.pc = "start"
    /\ IF mg.started < worker_min
         THEN Starting /\ mg' = [mg EXCEPT !.pc = "create", !.started = @ + 1]
         ELSE UNCHANGED sb /\ mg' = [mg EXCEPT !.pc = "loop"]
    /\ UNCHANGED <<unmanaged, w, failures>>

\* pthread_create() in worker_start(); pending_thread_create stays on a failure
MgrCreate ==
    /\ mg.pc = "create"
    /\ Spawn("pool", w, w', "created")
    /\ sb' = IF failures' = failures THEN sb
             ELSE [sb EXCEPT !.idle = @ - 1, !.count = @ - 1]
    /\ mg' = [mg EXCEPT !.pc = "start"]
    /\ UNCHANGED unmanaged

\* sem_timedwait() or, suspended, sem_wait(); the latter leaves sem_timedwait_rv
MgrWake ==
    /\ mg.pc = "loop"
    /\ \/ /\ sb.sem > 0
          /\ sb' = [sb EXCEPT !.sem = @ - 1]
          /\ mg' = [mg EXCEPT !.pc = "check", !.rv = IF sb.suspend THEN @ ELSE 0]
       \/ /\ sb.sem = 0 /\ ~sb.suspend /\ mg.ticks < MaxTicks
          /\ mg' = [mg EXCEPT !.pc = "check", !.rv = ETIMEDOUT, !.ticks = @ + 1]
          /\ UNCHANGED sb
    /\ UNCHANGED <<unmanaged, w, failures>>

\* No worker is available: a new one, up to worker_idle_threshold, or beyond it
\* when the load allows (see MgrLoad); else the idle seconds are accumulated.
MgrCheck ==
    /\ mg.pc = "check"
    /\ IF sb.idle = 0 /\ sb.count > 0 /\ sb.pending = 0
         THEN IF sb.count < worker_idle_threshold
                THEN Starting /\ mg' = [mg EXCEPT !.pc = "create"]
                ELSE /\ mg' = [mg EXCEPT !.pc = IF sb.count < worker_max THEN "load" ELSE "loop"]
                     /\ UNCHANGED sb
         ELSE LET acc == IF sb.idle > worker_idle_threshold THEN mg.acc + sb.idle ELSE 0
                  stop == acc \div WORKER_IDLE_SECONDS_THRESHOLD
              IN /\ mg' = IF mg.rv # ETIMEDOUT THEN [mg EXCEPT !.pc = "loop"]
                          ELSE IF stop = 0 THEN [mg EXCEPT !.pc = "loop", !.acc = acc]
                          ELSE [mg EXCEPT !.pc = "surplus", !.acc = 0, !.stop = stop]
                 /\ UNCHANGED sb
    /\ UNCHANGED <<unmanaged, w, failures>>

\* What threads_runnable() may answer: how many of the threads of the process are
\* in state R when its entry is read; 0 when /proc cannot be read.
threads_runnable == 0 .. Cardinality(Alive) + 1

\* linux_get_runqueue_length(): what the system runs, and never 0.
linux_get_runqueue_length == 1 .. cpu_count + 1
get_runqueue_length == linux_get_runqueue_length

\* Another thread while the probes allow it, unless a worker has become idle.
MgrLoad ==
    /\ mg.pc = "load"
    /\ \E running \in threads_runnable, length \in get_runqueue_length :
          IF running <= cpu_count /\ length <= cpu_count /\ sb.idle = 0
            THEN Starting /\ mg' = [mg EXCEPT !.pc = "create"]
            ELSE UNCHANGED sb /\ mg' = [mg EXCEPT !.pc = "loop"]
    /\ UNCHANGED <<unmanaged, w, failures>>

\* idle_surplus_threads is unsigned: when there is no surplus any more it wraps
\* to a number that does not limit max_threads_to_stop.
MgrSurplus ==
    /\ mg.pc = "surplus"
    /\ LET surplus == sb.idle - worker_idle_threshold
       IN mg' = [mg EXCEPT !.pc = "stop", !.stop = IF surplus >= 0 THEN Min({@, surplus}) ELSE @]
    /\ UNCHANGED <<unmanaged, w, sb, failures>>

\* worker_stop(), for each of them when there still are too many idle
MgrStop ==
    /\ mg.pc = "stop"
    /\ \/ /\ mg.stop > 0 /\ sb.idle > worker_idle_threshold
          /\ mtx = NULL
          /\ LET p == Min({q \in Prios : list[q] # NULL})
             IN /\ list' = [list EXCEPT ![p] = Append(@, EXIT)]
                /\ mask' = mask \cup {p}
                /\ added' = [added EXCEPT ![p] = Append(@, EXIT)]
          /\ Signal
          /\ mg' = [mg EXCEPT !.stop = @ - 1]
       \/ /\ mg.stop > 0 /\ sb.idle <= worker_idle_threshold
          /\ mg' = [mg EXCEPT !.stop = @ - 1]
          /\ UNCHANGED <<list, mask, added, asleep>>
       \/ /\ mg.stop = 0
          /\ mg' = [mg EXCEPT !.pc = "loop"]
          /\ UNCHANGED <<list, mask, added, asleep>>
    /\ UNCHANGED <<clients, mtx, w, sb, spin, overcommit, failures, taken>>

-----------------------------------------------------------------------------
Client(c) ==
    \/ Create(c) \/ AddItem(c) \/ AddSignal(c) \/ OcAddItem(c) \/ Suspend(c) \/ Resume(c)
Worker(x) ==
    \/ Begin(x) \/ ScanMask(x) \/ ScanTake(x) \/ SpinEnter(x) \/ SpinPost(x) \/ SpinLeave(x)
    \/ Lock(x) \/ CondWait(x) \/ Awake(x) \/ Unlock(x) \/ Take(x) \/ Return(x)
Manager == MgrStart \/ MgrCreate \/ MgrWake \/ MgrCheck \/ MgrLoad \/ MgrSurplus \/ MgrStop

Next ==
    \/ \E c \in Clients : Client(c)
    \/ \E x \in Workers : Worker(x)
    \/ \E x \in OcWorkers : OcStart(x) \/ OcReturn(x)
    \/ Manager

Spec == Init /\ [][Next]_vars
-----------------------------------------------------------------------------
(* Properties.                                                             *)

\* The scoreboard, updated by five separate atomic operations, agrees with the
\* threads: count is those alive or being created, idle those that do not run
\* a function, and a failed pthread_create() leaves one thread pending for ever
\* (worker_start(), worker_main(), wqlist_scan_wait()).
ScoreboardAccount ==
    LET creating == IF mg.pc = "create" THEN 1 ELSE 0
    IN /\ sb.count = Cardinality(Alive) + creating
       /\ sb.idle = Cardinality({x \in Alive : w[x].pc # "run"}) + creating
       /\ sb.pending = Cardinality({x \in Alive : w[x].pc = "created"}) + creating
                       + failures.pool

\* Items leave a queue once each and in the order of their insertion, and the
\* mask that workers read without a lock names exactly the queues with items
\* (manager_workqueue_additem(), wqlist_scan(), reset_queue_mask()).
InOrder ==
    \A p \in Prios :
        /\ added[p] = taken[p] \o (IF list[p] = NULL THEN <<>> ELSE list[p])
        /\ p \in mask <=> list[p] \notin {NULL, <<>>}

\* No overcommit item waits for a busy thread: for every item queued there is a
\* signal not taken yet or a thread just created, but for the threads that
\* pthread_create() refused; and the idle count with the signals is the number of
\* threads that wait (overcommit_worker_main(), manager_workqueue_additem()).
OvercommitHasThread ==
    /\ oc.idle + oc.signals = Cardinality({x \in OcWorkers : ow[x].pc = "wait"})
    /\ FoldSet(LAMBDA p, n : n + Len(oc.list[p]), 0, {p \in Prios : oc.list[p] # NULL})
         <= oc.signals + Cardinality({x \in OcWorkers : ow[x].pc = "start"}) + failures.oc


=============================================================================
