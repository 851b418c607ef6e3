---------------------------- MODULE MCCompletion ----------------------------
(***************************************************************************)
(* What must come to its end: a call of dispatch_apply_f(); a queue, from  *)
(* its creation to its disposal; a group, whose stores are visible at once *)
(* or ("late") pass through store buffers.  part says which one a          *)
(* behaviour is about.                                                     *)
(***************************************************************************)
EXTENDS DispatchGroup, DispatchApply, TLC

CONSTANTS c1, c2, w1, q1, q2, t1, t2, t3,
          Parts,        \* what is checked: "queue", "apply", "group", "late"
          PromptOps     \* what each thread does with a group without store buffers

VARIABLES part,
          qhead, qtail, qnxt, running, suspend, qref, qxref, listless, qstatus, targetq, onq,
          redirected, qcalls, kind, suspended, permit, qprev, dc, next, origtq, cached, qpc, qret,
          pushed, popped

queueVars == <<qhead, qtail, qnxt, running, suspend, qref, qxref, listless, qstatus, targetq, onq,
               redirected, qcalls, kind, suspended, permit, qprev, dc, next, origtq, cached, qpc, qret,
               pushed, popped>>
allVars == <<part, vars, applyVars, queueVars>>

\* A serial queue, a private concurrent one and a root queue.
SomeQueues == {[width |-> 1, root |-> FALSE], [width |-> 8, root |-> FALSE],
               [width |-> 8, root |-> TRUE]}

\* A queue that is suspended and retargeted, whose last reference a block or a
\* client gives up, and that must still finish everything and be freed.
LifeOps == (c1 :> {"barrier_sync", "suspend", "release"})
           @@ (c2 :> {"async", "last_async", "set_target"})

Life == INSTANCE DispatchQueue WITH
            head <- qhead, tail <- qtail, nxt <- qnxt, ref <- qref, xref <- qxref, status <- qstatus,
            calls <- qcalls, prev <- qprev, pc <- qpc, ret <- qret,
            Clients <- {c1, c2}, Workers <- {w1}, Targets <- {q1, q2}, FirstTarget <- q1,
            Width <- 1, Ops <- LifeOps, MaxCalls <- (c1 :> 1) @@ (c2 :> 2)

\* Waits and notifications against enters, leaves, blocks and releases; a thread
\* does not wait for a group that it has itself entered.
EveryOp == (t1 :> {"wait", "notify", "release"}) @@ (t2 :> {"enter", "release"})
           @@ (t3 :> {"async", "wait", "notify", "release"})
NotifyOps == (t1 :> {"notify", "release"}) @@ (t2 :> {"enter", "notify", "release"})
             @@ (t3 :> {"release"})

\* The smallest mix that shows a lost or an early notification.
RaceOps == (t1 :> {"notify"}) @@ (t2 :> {"enter", "notify"}) @@ (t3 :> {})

GroupCalls == (t1 :> 1) @@ (t2 :> 2) @@ (t3 :> 1)

\* The same group where every store is visible at once.
Prompt == INSTANCE DispatchGroup WITH Ops <- PromptOps, StoreBuffer <- FALSE

ASSUME ConstantsOK

AllInit == /\ part \in Parts
           /\ Init /\ ApplyInit /\ Life!Init
           /\ part = "apply" \/ (iterations = 0 /\ dq.width = 1)

AllNext == \/ part = "queue" /\ Life!Next /\ UNCHANGED <<part, vars, applyVars>>
           \/ part = "apply" /\ ApplyNext /\ UNCHANGED <<part, vars, queueVars>>
           \/ part = "group" /\ Prompt!Next /\ UNCHANGED <<part, applyVars, queueVars>>
           \/ part = "late" /\ Next /\ UNCHANGED <<part, applyVars, queueVars>>

\* The fairness of DispatchApply, of DispatchQueue, and of DispatchGroup where
\* stores are visible at once.
AllFairness ==
    /\ WF_applyVars(part = "apply" /\ ApplyNext)
    /\ \A c \in {c1, c2} :
         /\ WF_queueVars(part = "queue" /\ (Life!Push(c) \/ Life!Sync(c) \/ Life!Wakeup(c)))
         /\ WF_queueVars(part = "queue" /\ Life!dispatch_resume(c))
    /\ WF_queueVars(part = "queue" /\ (Life!Drain(w1) \/ Life!Invoke(w1) \/ Life!Redirected(w1)
                                     \/ Life!Wakeup(w1)))
    /\ \A t \in Threads :
         WF_vars(part = "group" /\ (Prompt!Wake(t) \/ Prompt!Wait(t) \/ Prompt!Notify(t) \/ Prompt!Leave(t)))

AllSpec == AllInit /\ [][AllNext]_allVars /\ AllFairness
SafeSpec == AllInit /\ [][AllNext]_allVars
-----------------------------------------------------------------------------
\* dq is only ever on the list of its current target, its reference count counts
\* those who may still use it, and when it is freed all its blocks have run and
\* nobody is inside one of its functions.
QueueLife == part = "queue" => Life!OnCurrentTarget /\ Life!RefCount /\ Life!FreedWhenDone

\* What is still owed: an item that waits, a synchronous call or an apply that has
\* not returned, a queue that was given up and is not freed; a wait that has not
\* returned and a notification not yet submitted.
Owed == CASE part = "queue" -> \/ popped # pushed
                               \/ \E c \in {c1, c2} : qpc[c] \in Life!SyncPC
                               \/ qxref = {} /\ qstatus # "freed"
          [] part = "apply" -> caller # "returned"
          [] part = "group" -> Unanswered
          [] part = "late"  -> FALSE

\* Every item that is pushed is popped, every synchronous call returns, and so
\* does dispatch_apply_f(); a queue whose last reference is given up is freed, and
\* meets none of the crashes of object.c and _dispatch_queue_dispose() on the way;
\* every thread that waits for a group that empties for good returns, and every
\* notification is submitted.
NothingOwed == Owed ~> ~Owed
=============================================================================
