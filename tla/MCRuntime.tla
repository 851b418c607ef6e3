------------------------------ MODULE MCRuntime ------------------------------
(***************************************************************************)
(* A root queue and, beside it, instances of what a process needs around   *)
(* its queues: the main queue, the creation of queues, times and           *)
(* dispatch_after_f(), blocks, the synchronized areas of the C++           *)
(* interface, and the life of the process and its threads.  They share no  *)
(* state, and part says which of them a behaviour is about.                *)
(***************************************************************************)
EXTENDS RootQueue, XSynchronized

CONSTANTS c1, c2, c3, m1

VARIABLES part,
          program, items, mhead, running, suspend, root, handler, events, draining, mpc, cur, left,
          mpushed, ran, elsewhere,
          mono, real, when, exact, after,
          numbers, cpus, queues, qpc, attr, blocks,
          frame, forwarding, byref, heap, held, todo, copies, touched,
          mode, fields, content, nested, mem, live, owned, roots, bcopies,
          alive, queue_key, sema4_key, cache_key, pheap, pitems, requested, zone, kq, _dispatch_safe_fork,
          hand, at, semas, made, freed, ncalls, inChild, crashed

mainVars == <<program, items, mhead, running, suspend, root, handler, events, draining, mpc, cur,
              left, mpushed, ran, elsewhere>>
timeVars == <<mono, real, when, exact, after>>
createVars == <<numbers, cpus, queues, qpc, attr, blocks>>
blockVars == <<frame, forwarding, byref, heap, held, todo, copies, touched>>
gcVars == <<mode, fields, content, nested, mem, live, owned, roots, bcopies>>
processVars == <<alive, queue_key, sema4_key, cache_key, pheap, pitems, requested, zone, kq, _dispatch_safe_fork,
                 hand, at, semas, made, freed, ncalls, inChild, crashed>>

Main == INSTANCE MainQueue WITH
            head <- mhead, pc <- mpc, pushed <- mpushed, Clients <- {c1, c2}, Workers <- {m1},
            Programs <- {"qt", "dispatch_main"},
            Calls <- [c \in {c1, c2} |-> [async |-> 1, sync |-> IF c = c1 THEN 1 ELSE 0]]
Time == INSTANCE DispatchTime WITH W <- 6, MaxNow <- 4, Wall0 <- 6, MaxFires <- 3
Create == INSTANCE QueueCreate WITH pc <- qpc, Threads <- {c1, c2}, MaxQueues <- 2, MaxSets <- 2, W <- 3,
                               Widths <- -5 .. 5 \cup {8, 9}
Block == INSTANCE BlocksRuntime WITH
             Threads <- {c1, c2}, Owner <- c1, Blocks <- 1 .. 5, Kinds <- {"stack", "heap"},
             BLOCK_REFCOUNT_MASK <- 3, MaxCopies <- 2
Managed == INSTANCE BlocksGC WITH
               frame <- live, copies <- bcopies, Blocks <- 1 .. 4, BLOCK_REFCOUNT_MASK <- 3, MaxCopies <- 3
Process == INSTANCE DispatchProcess WITH
               heap <- pheap, items <- pitems, MainThread <- c1, PoolThread <- c2, ClientThread <- c3,
               Continuations <- {"k1", "k2", "k3"}, MaxAsync <- 1, MaxSemaphores <- 2

AllInit == /\ part \in {"root", "main", "time", "create", "block", "area", "gc", "process"}
           /\ Init /\ Main!Init /\ Time!Init /\ Create!Init /\ Block!Init /\ AreaInit
           /\ Managed!Init /\ Process!Init
           /\ part = "main" \/ program = "qt"
           /\ part = "create" \/ cpus = 3
           /\ part = "block" \/ frame = 0
           /\ part = "gc" \/ (fields = {} /\ content = {1, 2} /\ nested = 0)

AllNext ==
    /\ part' = part
    /\ \/ part = "root" /\ Next /\ UNCHANGED <<mainVars, timeVars, createVars, blockVars, areaVars, gcVars, processVars>>
       \/ part = "main" /\ Main!Next /\ UNCHANGED <<vars, timeVars, createVars, blockVars, areaVars, gcVars, processVars>>
       \/ part = "time" /\ Time!Next /\ UNCHANGED <<vars, mainVars, createVars, blockVars, areaVars, gcVars, processVars>>
       \/ part = "create" /\ Create!Next /\ UNCHANGED <<vars, mainVars, timeVars, blockVars, areaVars, gcVars, processVars>>
       \/ part = "block" /\ Block!Next /\ UNCHANGED <<vars, mainVars, timeVars, createVars, areaVars, gcVars, processVars>>
       \/ part = "area" /\ AreaNext /\ UNCHANGED <<vars, mainVars, timeVars, createVars, blockVars, gcVars, processVars>>
       \/ part = "gc" /\ Managed!Next
          /\ UNCHANGED <<vars, mainVars, timeVars, createVars, blockVars, areaVars, processVars>>
       \/ part = "process" /\ Process!Next
          /\ UNCHANGED <<vars, mainVars, timeVars, createVars, blockVars, areaVars, gcVars>>

\* The fairness of RootQueue and of MainQueue.
AllFairness ==
    /\ \A p \in Producers : WF_vars(part = "root" /\ (PushLink(p) \/ PushHead(p) \/ Wakeup(p)))
    /\ \A w \in Workers : WF_vars(part = "root" /\ (Worker(w) \/ Wakeup(w)))
    /\ \A o \in Others : WF_vars(part = "root" /\ OtherInit(o))
    /\ WF_mainVars(part = "main" /\ Main!Main)
    /\ \A c \in {c1, c2} : WF_mainVars(part = "main" /\ Main!Goes(c))
    /\ \A t \in {c1, c2, m1, "main"} :
         WF_mainVars(part = "main" /\ (Main!Waking(t) \/ Main!Drain(t) \/ Main!Run(t)))
    /\ WF_mainVars(part = "main" /\ Main!Worker(m1))

AllSpec == /\ AllInit
           /\ [][AllNext]_<<part, vars, mainVars, timeVars, createVars, blockVars, areaVars, gcVars, processVars>>
           /\ AllFairness
-----------------------------------------------------------------------------
\* Every item pushed to a root queue or to the main queue is executed: no wakeup
\* is lost to a pending request, a full or retiring pool, contention for the front
\* of the list, a handler not yet registered or the hand-over in dispatch_main().
EveryPushRuns ==
    (done # Range(pushed) \/ Main!Waiting) ~> (done = Range(pushed) /\ ~Main!Waiting)

\* Two items of the main queue are never executed at once, they are executed in
\* order, and under a Qt event loop by the main thread only.
MainSerial == part = "main" => Main!MainSerial



=============================================================================
