------------------------------ MODULE MCQueues ------------------------------
(* A serial queue that is suspended and resumed, and a concurrent one with  *)
(* readers and barriers: DispatchQueue itself, and an instance of it with   *)
(* other constants over the same variables.  part says which one is meant.  *)
EXTENDS DispatchQueue, TLC

CONSTANTS c1, c2, w1, w2, q1, q2,
          Parts   \* what is checked: "own", "concurrent"

VARIABLE part

\* The workers are interchangeable.
Symmetry == Permutations(Workers)

\* Bounds on the calls.
TwoTwo == (c1 :> 2) @@ (c2 :> 2)
OneTwo == (c1 :> 1) @@ (c2 :> 2)
TwoOne == (c1 :> 2) @@ (c2 :> 1)

\* Synchronous and asynchronous calls racing a client that suspends the queue.
SerialOps == (c1 :> {"barrier_sync", "suspend"})
             @@ (c2 :> {"async", "barrier_sync"})

\* Readers and barriers.
ConcurrentOps == (c1 :> {"async", "barrier_async"})
                 @@ (c2 :> {"sync", "barrier_sync"})

\* A barrier, then a block for the root queue.
RedirectOps == (c1 :> {"async", "barrier_async"}) @@ (c2 :> {"async"})

Concurrent == INSTANCE DispatchQueue WITH Width <- 4, Ops <- ConcurrentOps, MaxCalls <- OneTwo

BothInit == /\ part \in Parts
            /\ \/ part = "own" /\ Init
               \/ part = "concurrent" /\ Concurrent!Init

BothNext == /\ part' = part
            /\ \/ part = "own" /\ Next
               \/ part = "concurrent" /\ Concurrent!Next

BothSpec == BothInit /\ [][BothNext]_<<vars, part>>
-----------------------------------------------------------------------------

\* The two words that lock a queue are exact: do_suspend_cnt is the bit of the one
\* list or thread that has the queue, and two for every suspension; dq_running is
\* the bit of the one drain or synchronous call, and two for every reader.
QueueAccount == IF part = "own" THEN SuspendAccount ELSE Concurrent!RunningAccount
=============================================================================
