--------------------------- MODULE DispatchApply ---------------------------
(***************************************************************************)
(* One call of dispatch_apply_f() (libdispatch/src/apply.c).  The caller   *)
(* pushes a number of units on the queue; each of them takes indices from  *)
(* a shared counter until there are none left, and the last one to finish  *)
(* signals the caller.  The counter and the units live in the stack frame  *)
(* of the caller, which is gone once it returns.                           *)
(***************************************************************************)
EXTENDS Integers, FiniteSets

CONSTANTS MaxIterations, \* bound on the argument of dispatch_apply_f()
          CPUs,          \* _dispatch_hw_config.cc_max_active
          MaxCPUs,       \* DISPATCH_APPLY_MAX_CPUS
          Queues,        \* the queues it may be called with: dq_width, and
                         \* whether it is a root queue (has no target queue)
          WordSize       \* 2^w, the number of values of a uintptr_t

ASSUME SizesAssumption ==
    /\ MaxIterations \in Nat /\ WordSize \in Nat
    /\ CPUs \in Nat /\ CPUs > 0 /\ MaxCPUs \in Nat /\ MaxCPUs > 0
    /\ \A q \in Queues : q.width \in Nat /\ q.root \in BOOLEAN

Least(a, b) == IF a < b THEN a ELSE b

MaxThr == Least(CPUs, MaxCPUs)

\* Overrunning the iterations once per unit must not wrap the counter round.
ASSUME WordAssumption == MaxIterations + MaxThr < WordSize

Indices == 0 .. MaxIterations - 1
Units == 0 .. MaxThr - 1

VARIABLES dq,           \* the queue of the call
          iterations,   \* da_iterations
          caller,           \* where the caller is
          upc,          \* where each unit is
          idx,          \* the index a unit works on
          index,        \* da_index
          thrcnt,       \* da_thr_cnt
          permits,      \* the caller's thread semaphore
          count         \* how often the function was called for each index

args == <<dq, iterations>>
applyVars == <<args, caller, upc, idx, index, thrcnt, permits, count>>

ApplyInit == /\ dq \in Queues
             /\ iterations \in 0 .. MaxIterations
             /\ caller = "start"
             /\ upc = [u \in Units |-> "none"]
             /\ idx = [u \in Units |-> 0]
             /\ index = 0
             /\ thrcnt = Least(iterations, MaxThr)
             /\ permits = 0
             /\ count = [i \in Indices |-> 0]

\* Push the units; the caller runs the first one itself on a queue that is
\* "safe to borrow".
PushUnits ==
    /\ upc' = [u \in Units |-> IF u >= thrcnt THEN "none"
                               ELSE IF u = 0 /\ dq.root THEN "take" ELSE "queued"]
    /\ caller' = IF dq.root THEN "unit" ELSE "wait"

dispatch_apply_f ==
    /\ caller = "start"
    /\ IF iterations = 0 THEN caller' = "returned" /\ UNCHANGED upc
       ELSE IF dq.width <= 2 \/ thrcnt <= 1 THEN caller' = "serial" /\ UNCHANGED upc
       ELSE PushUnits
    /\ UNCHANGED <<args, idx, index, thrcnt, permits, count>>

\* _dispatch_apply_serial(), run with dispatch_sync_f().
ApplySerial ==
    /\ caller = "serial"
    /\ count' = [i \in Indices |-> IF i < iterations THEN count[i] + 1 ELSE count[i]]
    /\ caller' = "returned"
    /\ UNCHANGED <<args, upc, idx, index, thrcnt, permits>>

\* The queue gets round to a unit.
StartUnit(u) ==
    /\ upc[u] = "queued"
    /\ upc' = [upc EXCEPT ![u] = "take"]
    /\ UNCHANGED <<args, caller, idx, index, thrcnt, permits, count>>

\* Mutant: the last index is left out.
TakeIndexTooFew(u) ==
    /\ upc[u] = "take"
    /\ index' = (index + 1) % WordSize
    /\ IF index < iterations - 1
         THEN upc' = [upc EXCEPT ![u] = "func"] /\ idx' = [idx EXCEPT ![u] = index]
         ELSE upc' = [upc EXCEPT ![u] = "leave"] /\ UNCHANGED idx
    /\ UNCHANGED <<args, caller, thrcnt, permits, count>>

\* _dispatch_apply2(): atomically increment the counter.
TakeIndex(u) ==
    /\ upc[u] = "take"
    /\ index' = (index + 1) % WordSize
    /\ IF index < iterations
         THEN upc' = [upc EXCEPT ![u] = "func"] /\ idx' = [idx EXCEPT ![u] = index]
         ELSE upc' = [upc EXCEPT ![u] = "leave"] /\ UNCHANGED idx
    /\ UNCHANGED <<args, caller, thrcnt, permits, count>>

CallFunc(u) ==
    /\ upc[u] = "func"
    /\ count' = [count EXCEPT ![idx[u]] = @ + 1]
    /\ upc' = [upc EXCEPT ![u] = "take"]
    /\ UNCHANGED <<args, caller, idx, index, thrcnt, permits>>

\* Mutant: the last but one unit signals.
LeaveEarly(u) ==
    /\ upc[u] = "leave"
    /\ thrcnt' = thrcnt - 1
    /\ upc' = [upc EXCEPT ![u] = IF thrcnt' = 1 THEN "signal" ELSE "done"]
    /\ UNCHANGED <<args, caller, idx, index, permits, count>>

LeaveUnit(u) ==
    /\ upc[u] = "leave"
    /\ thrcnt' = thrcnt - 1
    /\ upc' = [upc EXCEPT ![u] = IF thrcnt' = 0 THEN "signal" ELSE "done"]
    /\ UNCHANGED <<args, caller, idx, index, permits, count>>

Signal(u) ==
    /\ upc[u] = "signal"
    /\ permits' = permits + 1
    /\ upc' = [upc EXCEPT ![u] = "done"]
    /\ UNCHANGED <<args, caller, idx, index, thrcnt, count>>

\* The caller has finished the unit it ran itself.
CallerUnitDone ==
    /\ caller = "unit"
    /\ upc[0] = "done"
    /\ caller' = "wait"
    /\ UNCHANGED <<args, upc, idx, index, thrcnt, permits, count>>

CallerWait ==
    /\ caller = "wait"
    /\ permits > 0
    /\ permits' = permits - 1
    /\ caller' = "returned"
    /\ UNCHANGED <<args, upc, idx, index, thrcnt, count>>

Unit(u) == StartUnit(u) \/ TakeIndex(u) \/ CallFunc(u) \/ LeaveUnit(u) \/ Signal(u)

ApplyNext == \/ dispatch_apply_f \/ ApplySerial \/ CallerUnitDone \/ CallerWait
             \/ \E u \in Units : Unit(u)

ApplySpec == ApplyInit /\ [][ApplyNext]_applyVars

\* Units that were pushed get a thread, and the function returns.
FairApplySpec == ApplySpec /\ WF_applyVars(ApplyNext)

-----------------------------------------------------------------------------
ApplyTypeOK == /\ dq \in Queues /\ iterations \in 0 .. MaxIterations
               /\ caller \in {"start", "serial", "unit", "wait", "returned"}
               /\ upc \in [Units -> {"none", "queued", "take", "func", "leave", "signal", "done"}]
               /\ idx \in [Units -> Nat]
               /\ \A u \in Units : upc[u] = "func" => idx[u] \in 0 .. iterations - 1
               /\ index \in Nat
               /\ thrcnt \in Nat
               /\ permits \in Nat
               /\ count \in [Indices -> Nat]

\* The function is called for every index exactly once before dispatch_apply_f()
\* returns, and never twice.
EachIndexOnce == /\ \A i \in Indices : count[i] <= 1
                 /\ caller = "returned" => \A i \in 0 .. iterations - 1 : count[i] = 1

\* No unit looks at the stack frame of the caller after it has returned.
FrameAlive == caller = "returned" => \A u \in Units : upc[u] \in {"none", "done"}

=============================================================================
