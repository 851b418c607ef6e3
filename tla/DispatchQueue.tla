--------------------------- MODULE DispatchQueue ---------------------------
(***************************************************************************)
(* One dispatch queue dq (libdispatch/src/queue.c, queue_internal.h,       *)
(* object.c), the clients that call it and the worker threads of its       *)
(* target queues that drain it.                                            *)
(*                                                                         *)
(* The queue is a lock-free list (dq_items_head, dq_items_tail, do_next)   *)
(* with many producers, and two locks packed into counters:                *)
(*   - do_suspend_cnt: the low bit is set while dq is on the list of its   *)
(*     target queue or is being invoked; the rest counts suspensions;      *)
(*   - dq_running: the low bit is set while somebody holds the queue       *)
(*     exclusively; the rest counts readers.                               *)
(* Every atomic instruction and every access to a field another thread may *)
(* write at that moment is a step of its own.  The target queue is a list  *)
(* of objects to invoke; the thread semaphore of a blocked client is a     *)
(* counter of permits (module CountingSemaphore).                          *)
(***************************************************************************)
EXTENDS Integers, Sequences, FiniteSets, FiniteSetsExt, SequencesExt

CONSTANTS Clients,      \* threads that call the queue's functions
          Workers,      \* threads that serve the target queues
          Targets,      \* the root queues dq may target
          FirstTarget,  \* the one it is created with
          Width,        \* dq_width
          Ops,          \* Ops[c]: the operations client c may call
          MaxCalls,     \* MaxCalls[c]: bound on the calls of client c
          NULL

AllThreads == Clients \cup Workers

Items == UNION {{c} \X (1 .. MaxCalls[c]) : c \in Clients}

\* What a client may submit.  "async" is dispatch_async_f() and "last_async" is
\* one whose block releases the reference of the client that submitted it.
AsyncKinds == {"async", "barrier_async", "set_target", "last_async"}
SyncKinds == {"sync", "barrier_sync"}
Kinds == AsyncKinds \cup SyncKinds

\* DISPATCH_OBJ_BARRIER_BIT
Barriers == {"barrier_async", "set_target", "barrier_sync"}

Calls == Kinds \cup {"suspend", "release"}

ASSUME ThreadsAssumption ==
    /\ IsFiniteSet(Clients) /\ IsFiniteSet(Workers) /\ Clients # {}
    /\ Clients \cap Workers = {}
ASSUME TargetsAssumption == FirstTarget \in Targets
\* dispatch_queue_set_width() stores 1 or an even number.
ASSUME WidthAssumption == Width \in Nat /\ Width > 0 /\ (Width = 1 \/ Width % 2 = 0)
ASSUME OpsAssumption == Ops \in [Clients -> SUBSET Calls]
ASSUME MaxCallsAssumption ==
    DOMAIN MaxCalls = Clients /\ \A c \in Clients : MaxCalls[c] \in Nat
ASSUME NULLAssumption == NULL \notin Items

VARIABLES
    head, tail,     \* dq_items_head, dq_items_tail
    nxt,            \* do_next of each item
    running,        \* dq_running
    suspend,        \* do_suspend_cnt
    ref,            \* do_ref_cnt
    xref,           \* the clients that own an external reference
    listless,       \* do_next of dq is DISPATCH_OBJECT_LISTLESS
    status,         \* "alive", "freed", or the crash that ended the process
    targetq,        \* do_targetq
    onq,            \* onq[q]: how often dq is on the list of target queue q
    redirected,     \* items handed to the root queue by a concurrent queue
    calls,          \* number of calls each client made
    kind,           \* what each item is
    suspended,      \* how often each client has suspended dq
    permit,         \* the thread semaphore of each client
    prev,           \* the old tail a pushing client has to link to
    dc, next,       \* locals of _dispatch_queue_drain()
    origtq,         \* its orig_tq, the tq of _dispatch_queue_invoke()
    cached,         \* whether each worker's continuation cache holds any (only
                    \* a concurrent queue takes from it)
    pc, ret,        \* where each thread is, and where _dispatch_wakeup() returns
    pushed, popped  \* history: the items in the order of push, and of pop

list == <<head, tail, nxt>>
counts == <<running, suspend>>
refs == <<ref, xref, listless, status>>
target == <<targetq, onq, redirected>>
client == <<calls, kind, suspended, permit, prev>>
drain == <<dc, next, origtq, cached>>
history == <<pushed, popped>>
vars == <<list, counts, refs, target, client, drain, pc, ret, history>>

-----------------------------------------------------------------------------
Init == /\ head = NULL /\ tail = NULL
        /\ nxt = [i \in Items |-> NULL]
        /\ running = 0 /\ suspend = 0
        /\ ref = 1 /\ xref = Clients
        /\ listless = TRUE /\ status = "alive"
        /\ targetq = FirstTarget
        /\ onq = [q \in Targets |-> 0]
        /\ redirected = {}
        /\ calls = [c \in Clients |-> 0]
        /\ kind = [i \in Items |-> "async"]
        /\ suspended = [c \in Clients |-> 0]
        /\ permit = [c \in Clients |-> 0]
        /\ prev = [c \in Clients |-> NULL]
        /\ dc = [w \in Workers |-> NULL]
        /\ next = [w \in Workers |-> NULL]
        /\ origtq = [w \in Workers |-> FirstTarget]
        /\ cached = [w \in Workers |-> FALSE]
        /\ pc = [t \in AllThreads |-> "idle"]
        /\ ret = [t \in AllThreads |-> "idle"]
        /\ pushed = <<>> /\ popped = <<>>

Goto(t, l) == pc' = [pc EXCEPT ![t] = l]

At(t, l) == status = "alive" /\ pc[t] = l

SUSPENDED == suspend >= 2

\* The item the client's current call submits.
Item(c) == <<c, calls[c]>>

Owner(i) == i[1]

\* Enter _dispatch_wakeup(dq), to return to label l.
CallWakeup(t, l) == /\ Goto(t, "wakeup")
                    /\ ret' = [ret EXCEPT ![t] = l]

\* Return from _dispatch_wakeup(dq).  Locals that go out of scope are reset.
Return(t) == /\ Goto(t, ret[t])
             /\ ret' = [ret EXCEPT ![t] = "idle"]

\* Branch to _dispatch_wakeup(dq) and then l, or directly to l.
WakeupIf(b, t, l) == IF b THEN CallWakeup(t, l) ELSE Goto(t, l) /\ UNCHANGED ret

\* _dispatch_release(dq): the last reference disposes of the queue.  A crash
\* is the one the code announces.
ReleaseRef ==
    /\ ref' = ref - 1
    /\ status' = IF ref' > 0 THEN status
                 ELSE IF ref' < 0 THEN "over-release"
                 ELSE IF ~listless THEN "release while enqueued"
                 ELSE IF xref' # {} THEN "release while external references exist"
                 ELSE IF tail # NULL THEN "release while items are enqueued"
                 ELSE "freed"

\* dispatch_release(dq) of client c's reference.
dispatch_release(c) ==
    /\ xref' = xref \ {c}
    /\ IF xref' # {} THEN UNCHANGED <<ref, status>>
       ELSE IF SUSPENDED THEN status' = "release of a suspended object"
                              /\ UNCHANGED ref
       ELSE ReleaseRef
    /\ UNCHANGED listless

-----------------------------------------------------------------------------
(* Client calls.  A client calls the queue only while it owns a reference, *)
(* resumes it as often as it suspended it, and neither gives its reference *)
(* up nor waits for the queue before it has resumed it.                    *)

\* The next item client c submits.
Fresh(c) == <<c, calls[c] + 1>>

MayCall(c, op) == /\ At(c, "idle")
                  /\ c \in xref
                  /\ op \in Ops[c]
                  /\ calls[c] < MaxCalls[c]
                  /\ op \in SyncKinds => suspended[c] = 0
                  /\ \A i \in Items : Owner(i) = c /\ i[2] <= calls[c]
                                        => kind[i] # "last_async"

\* Start the call op, which submits an item of kind k, at label l.
Submit(c, op, k, l) ==
    /\ MayCall(c, op)
    /\ calls' = [calls EXCEPT ![c] = @ + 1]
    /\ kind' = [kind EXCEPT ![Fresh(c)] = k]
    /\ Goto(c, l)
    /\ UNCHANGED <<list, counts, refs, target, suspended, permit, prev, drain,
                   ret, history>>

dispatch_async_f(c) == Submit(c, "async", "async", "push")

\* The block gives up the reference its submitter holds.
LastAsync(c) == suspended[c] = 0 /\ Submit(c, "last_async", "last_async", "push")

dispatch_barrier_async_f(c) == Submit(c, "barrier_async", "barrier_async", "push")

dispatch_set_target_queue(c) == Submit(c, "set_target", "set_target", "push")

dispatch_barrier_sync_f(c) ==
    Submit(c, "barrier_sync", "barrier_sync", "bsync_tail")

\* A queue of width 1 treats it as dispatch_barrier_sync_f().
dispatch_sync_f(c) ==
    IF Width = 1 THEN Submit(c, "sync", "barrier_sync", "bsync_tail")
                 ELSE Submit(c, "sync", "sync", "sync_tail")

dispatch_suspend(c) ==
    /\ MayCall(c, "suspend")
    /\ calls' = [calls EXCEPT ![c] = @ + 1]
    /\ suspended' = [suspended EXCEPT ![c] = @ + 1]
    /\ suspend' = suspend + 2
    /\ UNCHANGED <<list, running, refs, target, kind, permit, prev, drain, pc,
                   ret, history>>

\* Mutant: resume without waking the queue up.
ResumeSilently(c) == /\ suspend' = suspend - 2
                     /\ Goto(c, "idle")
                     /\ UNCHANGED <<refs, ret>>

\* The part of dispatch_resume() that follows the atomic subtraction.
ResumeTail(c) ==
    /\ suspend' = suspend - 2
    /\ IF suspend < 2
         THEN /\ status' = "over-resume of an object"
              /\ UNCHANGED <<pc, ret>>
         ELSE WakeupIf(suspend = 2, c, "idle") /\ UNCHANGED status
    /\ UNCHANGED <<ref, xref, listless>>

dispatch_resume(c) ==
    /\ At(c, "idle")
    /\ suspended[c] > 0
    /\ suspended' = [suspended EXCEPT ![c] = @ - 1]
    /\ ResumeTail(c)
    /\ UNCHANGED <<list, running, target, calls, kind, permit, prev, drain,
                   history>>

ClientRelease(c) ==
    /\ MayCall(c, "release")
    /\ suspended[c] = 0
    /\ dispatch_release(c)
    /\ UNCHANGED <<list, counts, target, client, drain, pc, ret, history>>

-----------------------------------------------------------------------------
(* _dispatch_queue_push(): exchange the tail, then link the predecessor    *)
(* or, if there was none, become the head and wake the queue up.           *)

\* A synchronous call blocks once its item is on the queue.
AfterPush(c) == IF kind[Item(c)] \in SyncKinds THEN "wait" ELSE "idle"

PushTail(c) ==
    /\ At(c, "push")
    /\ nxt' = [nxt EXCEPT ![Item(c)] = NULL]
    /\ tail' = Item(c)
    /\ prev' = [prev EXCEPT ![c] = tail]
    /\ pushed' = Append(pushed, Item(c))
    /\ Goto(c, IF tail # NULL THEN "push_link" ELSE "push_retain")
    /\ UNCHANGED <<head, counts, refs, target, calls, kind, suspended, permit,
                   drain, ret, popped>>

PushLink(c) ==
    /\ At(c, "push_link")
    /\ nxt' = [nxt EXCEPT ![prev[c]] = Item(c)]
    /\ prev' = [prev EXCEPT ![c] = NULL]
    /\ Goto(c, AfterPush(c))
    /\ UNCHANGED <<head, tail, counts, refs, target, calls, kind, suspended,
                   permit, drain, ret, history>>

\* Mutant: the scenario of the comment at queue.c:690.
PushRetainMissing(c) ==
    /\ At(c, "push_retain")
    /\ Goto(c, "push_head")
    /\ UNCHANGED <<list, counts, refs, target, client, drain, ret, history>>

\* _dispatch_queue_push_list_slow()
PushRetain(c) ==
    /\ At(c, "push_retain")
    /\ ref' = ref + 1
    /\ Goto(c, "push_head")
    /\ UNCHANGED <<list, counts, xref, listless, status, target, client, drain,
                   ret, history>>

PushHead(c) ==
    /\ At(c, "push_head")
    /\ head' = Item(c)
    /\ CallWakeup(c, "push_release")
    /\ UNCHANGED <<tail, nxt, counts, refs, target, client, drain, history>>

PushRelease(c) ==
    /\ At(c, "push_release")
    /\ UNCHANGED <<xref, listless>>
    /\ ReleaseRef
    /\ Goto(c, AfterPush(c))
    /\ UNCHANGED <<list, counts, target, client, drain, ret, history>>

-----------------------------------------------------------------------------
(* _dispatch_wakeup(dq), called by clients and workers alike: if dq is not *)
(* suspended and not empty, take the lock bit of do_suspend_cnt and put dq *)
(* on the list of its target queue.  The list holds a reference.           *)

WakeupSuspended(t) ==
    /\ At(t, "wakeup")
    /\ IF SUSPENDED THEN Return(t) ELSE Goto(t, "wakeup_tail") /\ UNCHANGED ret
    /\ UNCHANGED <<list, counts, refs, target, client, drain, history>>

WakeupTail(t) ==
    /\ At(t, "wakeup_tail")
    /\ IF tail = NULL THEN Return(t) ELSE Goto(t, "wakeup_lock") /\ UNCHANGED ret
    /\ UNCHANGED <<list, counts, refs, target, client, drain, history>>

\* _dispatch_trylock(dq)
WakeupLock(t) ==
    /\ At(t, "wakeup_lock")
    /\ IF suspend = 0 THEN suspend' = 1 /\ Goto(t, "wakeup_retain") /\ UNCHANGED ret
                      ELSE UNCHANGED suspend /\ Return(t)
    /\ UNCHANGED <<list, running, refs, target, client, drain, history>>

WakeupRetain(t) ==
    /\ At(t, "wakeup_retain")
    /\ ref' = ref + 1
    /\ Goto(t, "wakeup_push")
    /\ UNCHANGED <<list, counts, xref, listless, status, target, client, drain,
                   ret, history>>

\* Put dq on the list of its target: do_next of dq is now in use.
PushOnTarget == /\ onq' = [onq EXCEPT ![targetq] = @ + 1]
                /\ listless' = FALSE

WakeupPush(t) ==
    /\ At(t, "wakeup_push")
    /\ PushOnTarget
    /\ Return(t)
    /\ UNCHANGED <<list, counts, ref, xref, status, targetq, redirected, client,
                   drain, history>>

-----------------------------------------------------------------------------
(* dispatch_barrier_sync_f(): three separate tests, then the function runs *)
(* on the caller's thread; otherwise the call is queued.                   *)

BarrierSyncTail(c) ==
    /\ At(c, "bsync_tail")
    /\ Goto(c, IF tail # NULL THEN "push" ELSE "bsync_suspended")
    /\ UNCHANGED <<list, counts, refs, target, client, drain, ret, history>>

BarrierSyncSuspended(c) ==
    /\ At(c, "bsync_suspended")
    /\ Goto(c, IF SUSPENDED THEN "push" ELSE "bsync_lock")
    /\ UNCHANGED <<list, counts, refs, target, client, drain, ret, history>>

\* _dispatch_queue_trylock(dq)
BarrierSyncLock(c) ==
    /\ At(c, "bsync_lock")
    /\ IF running = 0 THEN running' = 1 /\ Goto(c, "run_locked")
                      ELSE UNCHANGED running /\ Goto(c, "push")
    /\ UNCHANGED <<list, suspend, refs, target, client, drain, ret, history>>

\* The function returns; _dispatch_queue_unlock(dq).
BarrierSyncUnlock(c) ==
    /\ At(c, "run_locked")
    /\ running' = running - 1
    /\ WakeupIf(running' = 0, c, "idle")
    /\ UNCHANGED <<list, suspend, refs, target, client, drain, history>>

\* dispatch_semaphore_wait() of a queued synchronous call.
SyncWait(c) ==
    /\ At(c, "wait")
    /\ permit[c] > 0
    /\ permit' = [permit EXCEPT ![c] = @ - 1]
    /\ Goto(c, IF kind[Item(c)] = "barrier_sync" THEN "run_suspended"
                                                 ELSE "run_reader")
    /\ UNCHANGED <<list, counts, refs, target, calls, kind, suspended, prev,
                   drain, ret, history>>

\* Mutant: forget to resume.
BarrierSyncNoResume(c) ==
    /\ At(c, "run_suspended")
    /\ Goto(c, "idle")
    /\ UNCHANGED <<list, counts, refs, target, client, drain, ret, history>>

\* The function returns; dispatch_resume(dq) ends the suspension under which
\* it ran.
BarrierSyncResume(c) ==
    /\ At(c, "run_suspended")
    /\ ResumeTail(c)
    /\ UNCHANGED <<list, running, target, client, drain, history>>

-----------------------------------------------------------------------------
(* dispatch_sync_f() on a concurrent queue: the caller is a reader.        *)

SyncTail(c) ==
    /\ At(c, "sync_tail")
    /\ Goto(c, IF tail # NULL THEN "push" ELSE "sync_suspended")
    /\ UNCHANGED <<list, counts, refs, target, client, drain, ret, history>>

SyncSuspended(c) ==
    /\ At(c, "sync_suspended")
    /\ Goto(c, IF SUSPENDED THEN "push" ELSE "sync_add")
    /\ UNCHANGED <<list, counts, refs, target, client, drain, ret, history>>

SyncAdd(c) ==
    /\ At(c, "sync_add")
    /\ running' = running + 2
    /\ Goto(c, IF running % 2 = 1 THEN "sync_undo" ELSE "run_reader")
    /\ UNCHANGED <<list, suspend, refs, target, client, drain, ret, history>>

\* Somebody holds the queue exclusively: step back and queue the call.
SyncUndo(c) ==
    /\ At(c, "sync_undo")
    /\ running' = running - 2
    /\ WakeupIf(running' = 0, c, "push")
    /\ UNCHANGED <<list, suspend, refs, target, client, drain, history>>

\* The function returns.
SyncDone(c) ==
    /\ At(c, "run_reader")
    /\ running' = running - 2
    /\ WakeupIf(running' = 0, c, "idle")
    /\ UNCHANGED <<list, suspend, refs, target, client, drain, history>>

-----------------------------------------------------------------------------
(* Worker threads: _dispatch_queue_invoke(dq) when dq comes to the front   *)
(* of the list of a target queue.                                          *)

TakeQueue(w) ==
    /\ At(w, "idle")
    /\ \E q \in Targets : /\ onq[q] > 0
                          /\ onq' = [onq EXCEPT ![q] = @ - 1]
    /\ origtq' = [origtq EXCEPT ![w] = targetq]
    /\ Goto(w, "invoke")
    /\ UNCHANGED <<list, counts, refs, targetq, redirected, client, dc, next,
                   cached, ret, history>>

InvokeSuspended(w) ==
    /\ At(w, "invoke")
    /\ Goto(w, IF SUSPENDED THEN "listless" ELSE "invoke_lock")
    /\ UNCHANGED <<list, counts, refs, target, client, drain, ret, history>>

\* _dispatch_queue_trylock(dq)
InvokeLock(w) ==
    /\ At(w, "invoke_lock")
    /\ IF running = 0 THEN running' = 1 /\ Goto(w, "drain_tail")
                      ELSE UNCHANGED running /\ Goto(w, "listless")
    /\ UNCHANGED <<list, suspend, refs, target, client, drain, ret, history>>

(* _dispatch_queue_drain(dq)                                               *)

DrainTail(w) ==
    /\ At(w, "drain_tail")
    /\ Goto(w, IF tail = NULL THEN "drained" ELSE "drain_head")
    /\ UNCHANGED <<list, counts, refs, target, client, drain, ret, history>>

\* Spin until the producer has written the head, and take it.
DrainHead(w) ==
    /\ At(w, "drain_head")
    /\ head # NULL
    /\ dc' = [dc EXCEPT ![w] = head]
    /\ head' = NULL
    /\ Goto(w, "drain_next")
    /\ UNCHANGED <<tail, nxt, counts, refs, target, client, next, origtq, cached,
                   ret, history>>

\* Spin until the successor is linked, or the tail shows there is none.
DrainNext(w) ==
    /\ At(w, "drain_next")
    /\ \/ nxt[dc[w]] # NULL /\ UNCHANGED tail
       \/ nxt[dc[w]] = NULL /\ tail = dc[w] /\ tail' = NULL
    /\ next' = [next EXCEPT ![w] = nxt[dc[w]]]
    /\ Goto(w, "drain_suspended")
    /\ UNCHANGED <<head, nxt, counts, refs, target, client, dc, origtq, cached,
                   ret, history>>

DrainSuspended(w) ==
    /\ At(w, "drain_suspended")
    /\ Goto(w, IF SUSPENDED THEN "out" ELSE "drain_width")
    /\ UNCHANGED <<list, counts, refs, target, client, drain, ret, history>>

DrainWidth(w) ==
    /\ At(w, "drain_width")
    /\ Goto(w, IF running > Width THEN "out" ELSE "drain_item")
    /\ UNCHANGED <<list, counts, refs, target, client, drain, ret, history>>

\* What the drain does with an item it may take: run it, or redirect it.
PopLabel(i) ==
    CASE Width > 1 /\ kind[i] = "async" -> "redirect_add"
      [] Width > 1 /\ kind[i] = "last_async" -> "redirect_add"
      [] kind[i] = "sync" -> "sync_slow2"
      [] kind[i] = "barrier_sync" -> "bsync_invoke"
      [] kind[i] = "set_target" -> "set_target2"
      [] OTHER -> "run_item"

\* The target must be the same, and a barrier waits for the readers.
DrainItem(w) ==
    /\ At(w, "drain_item")
    /\ LET i == dc[w]
           out == \/ origtq[w] # targetq
                  \/ Width > 1 /\ kind[i] \in Barriers /\ running > 1
       IN  IF out THEN Goto(w, "out") /\ UNCHANGED <<cached, popped>>
           ELSE /\ Goto(w, PopLabel(i))
                /\ popped' = Append(popped, i)
                /\ cached' = [cached EXCEPT ![w] = Width > 1
                       /\ (@ \/ PopLabel(i) \in {"run_item", "set_target2"})]
    /\ UNCHANGED <<list, counts, refs, target, client, dc, next, origtq, ret,
                   pushed>>

\* The end of the inner loop: go on with the successor.
NextItem(w) == /\ dc' = [dc EXCEPT ![w] = next[w]]
               /\ next' = [next EXCEPT ![w] = NULL]
               /\ Goto(w, IF next[w] = NULL THEN "drain_tail" ELSE "drain_next")

\* The block of item i returns; that of a "last_async" item released the
\* reference of its submitter.
BlockDone(i) == IF kind[i] = "last_async" THEN dispatch_release(Owner(i))
                                          ELSE UNCHANGED refs

RunItem(w) ==
    /\ At(w, "run_item")
    /\ BlockDone(dc[w])
    /\ NextItem(w)
    /\ UNCHANGED <<list, counts, target, client, origtq, cached, ret,
                   history>>

\* _dispatch_set_target_queue2()
SetTarget(w) ==
    /\ At(w, "set_target2")
    /\ \E q \in Targets : targetq' = q
    /\ NextItem(w)
    /\ UNCHANGED <<list, counts, refs, onq, redirected, client, origtq,
                   cached, ret, history>>

\* _dispatch_barrier_sync_f_slow_invoke() suspends dq on behalf of the caller.
BarrierSyncInvoke(w) ==
    /\ At(w, "bsync_invoke")
    /\ suspend' = suspend + 2
    /\ Goto(w, "signal")
    /\ UNCHANGED <<list, running, refs, target, client, drain, ret, history>>

\* _dispatch_sync_f_slow2() makes the caller a reader.
SyncSlow2(w) ==
    /\ At(w, "sync_slow2")
    /\ running' = running + 2
    /\ Goto(w, "signal")
    /\ UNCHANGED <<list, suspend, refs, target, client, drain, ret, history>>

\* Both end with dispatch_semaphore_signal().
SyncSignal(w) ==
    /\ At(w, "signal")
    /\ permit' = [permit EXCEPT ![Owner(dc[w])] = @ + 1]
    /\ NextItem(w)
    /\ UNCHANGED <<list, counts, refs, target, calls, kind, suspended, prev,
                   origtq, cached, ret, history>>

(* _dispatch_async_f_redirect(): hand the item to the root queue.          *)

RedirectAdd(w) ==
    /\ At(w, "redirect_add")
    /\ running' = running + 2
    /\ Goto(w, "redirect_retain")
    /\ UNCHANGED <<list, suspend, refs, target, client, drain, ret, history>>

RedirectRetain(w) ==
    /\ At(w, "redirect_retain")
    /\ ref' = ref + 1
    /\ Goto(w, "redirect_push")
    /\ UNCHANGED <<list, counts, xref, listless, status, target, client, drain,
                   ret, history>>

\* "alloc_cacheonly() ? 0 : alloc_from_heap()": a cached continuation is
\* thrown away and a null pointer is written through.
RedirectPush(w) ==
    /\ At(w, "redirect_push")
    /\ IF cached[w]
         THEN /\ status' = "null continuation"
              /\ UNCHANGED <<redirected, dc, next, pc>>
         ELSE /\ redirected' = redirected \cup {dc[w]}
              /\ NextItem(w)
              /\ UNCHANGED status
    /\ UNCHANGED <<list, counts, ref, xref, listless, targetq, onq, client,
                   origtq, cached, ret, history>>

\* Leave an incomplete drain: put dc back in front of the list.  If a new
\* item was pushed meanwhile, wait until its producer has written the head.
DrainOut(w) ==
    /\ At(w, "out")
    /\ IF next[w] = NULL /\ tail # NULL
         THEN Goto(w, "out_wait") /\ UNCHANGED tail
         ELSE /\ Goto(w, "out_head")
              /\ tail' = IF next[w] = NULL THEN dc[w] ELSE tail
    /\ UNCHANGED <<head, nxt, counts, refs, target, client, drain, ret, history>>

DrainReturn(w) == /\ Goto(w, "drained")
                  /\ dc' = [dc EXCEPT ![w] = NULL]
                  /\ next' = [next EXCEPT ![w] = NULL]

OutHead(w) ==
    /\ At(w, "out_head")
    /\ head' = dc[w]
    /\ DrainReturn(w)
    /\ UNCHANGED <<tail, nxt, counts, refs, target, client, origtq, cached, ret,
                   history>>


OutWait(w) ==
    /\ At(w, "out_wait")
    /\ head # NULL
    /\ head' = dc[w]
    /\ nxt' = [nxt EXCEPT ![dc[w]] = head]
    /\ DrainReturn(w)
    /\ UNCHANGED <<tail, counts, refs, target, client, origtq, cached, ret,
                   history>>

(* The rest of _dispatch_queue_invoke(dq)                                  *)

\* Drop the drain lock; if the target changed, move to the new one.
Drained(w) ==
    /\ At(w, "drained")
    /\ running' = running - 1
    /\ Goto(w, IF origtq[w] = targetq THEN "listless" ELSE "repush")
    /\ origtq' = [origtq EXCEPT ![w] = FirstTarget]
    /\ UNCHANGED <<list, suspend, refs, target, client, dc, next, cached, ret,
                   history>>

Repush(w) ==
    /\ At(w, "repush")
    /\ PushOnTarget
    /\ Goto(w, "idle")
    /\ UNCHANGED <<list, counts, ref, xref, status, targetq, redirected, client,
                   drain, ret, history>>

Listless(w) ==
    /\ At(w, "listless")
    /\ listless' = TRUE
    /\ Goto(w, "unlock")
    /\ UNCHANGED <<list, counts, ref, xref, status, target, client, drain, ret,
                   history>>

\* Drop the lock bit of do_suspend_cnt.
InvokeUnlock(w) ==
    /\ At(w, "unlock")
    /\ suspend' = suspend - 1
    /\ Goto(w, IF suspend' = 0 THEN "check_running" ELSE "release")
    /\ UNCHANGED <<list, running, refs, target, client, drain, ret, history>>

\* Mutant: do not "verify that the queue is idle".
CheckRunningSkipped(w) ==
    /\ At(w, "check_running")
    /\ Goto(w, "release")
    /\ UNCHANGED <<list, counts, refs, target, client, drain, ret, history>>

CheckRunning(w) ==
    /\ At(w, "check_running")
    /\ WakeupIf(running = 0, w, "release")
    /\ UNCHANGED <<list, counts, refs, target, client, drain, history>>

InvokeRelease(w) ==
    /\ At(w, "release")
    /\ UNCHANGED <<xref, listless>>
    /\ ReleaseRef
    /\ Goto(w, "idle")
    /\ UNCHANGED <<list, counts, target, client, drain, ret, history>>

-----------------------------------------------------------------------------
(* _dispatch_async_f_redirect2(), on a worker of the root queue.  Both the *)
(* redirection and the item go to the worker's continuation cache.         *)

TakeRedirected(w) ==
    /\ At(w, "idle")
    /\ \E i \in redirected : /\ redirected' = redirected \ {i}
                             /\ dc' = [dc EXCEPT ![w] = i]
    /\ cached' = [cached EXCEPT ![w] = TRUE]
    /\ Goto(w, "run_redirected")
    /\ UNCHANGED <<list, counts, refs, targetq, onq, client, next, origtq, ret,
                   history>>

RunRedirected(w) ==
    /\ At(w, "run_redirected")
    /\ BlockDone(dc[w])
    /\ dc' = [dc EXCEPT ![w] = NULL]
    /\ Goto(w, "redirect_done")
    /\ UNCHANGED <<list, counts, target, client, next, origtq, cached, ret,
                   history>>

RedirectDone(w) ==
    /\ At(w, "redirect_done")
    /\ running' = running - 2
    /\ WakeupIf(running' = 0, w, "release")
    /\ UNCHANGED <<list, suspend, refs, target, client, drain, history>>

\* _dispatch_force_cache_cleanup(), when the worker finds nothing more to do.
CacheCleanup(w) ==
    /\ At(w, "idle")
    /\ cached[w]
    /\ cached' = [cached EXCEPT ![w] = FALSE]
    /\ UNCHANGED <<list, counts, refs, target, client, dc, next, origtq, pc, ret,
                   history>>

-----------------------------------------------------------------------------
Call(c) == \/ dispatch_async_f(c) \/ LastAsync(c) \/ dispatch_barrier_async_f(c)
           \/ dispatch_set_target_queue(c) \/ dispatch_barrier_sync_f(c)
           \/ dispatch_sync_f(c) \/ dispatch_suspend(c) \/ ClientRelease(c)

Push(c) == \/ PushTail(c) \/ PushLink(c) \/ PushRetain(c) \/ PushHead(c)
           \/ PushRelease(c)

Wakeup(t) == \/ WakeupSuspended(t) \/ WakeupTail(t) \/ WakeupLock(t)
             \/ WakeupRetain(t) \/ WakeupPush(t)

Sync(c) == \/ BarrierSyncTail(c) \/ BarrierSyncSuspended(c) \/ BarrierSyncLock(c)
           \/ BarrierSyncUnlock(c) \/ SyncWait(c) \/ BarrierSyncResume(c)
           \/ SyncTail(c) \/ SyncSuspended(c) \/ SyncAdd(c) \/ SyncUndo(c)
           \/ SyncDone(c)

Drain(w) == \/ DrainTail(w) \/ DrainHead(w) \/ DrainNext(w) \/ DrainSuspended(w)
            \/ DrainWidth(w) \/ DrainItem(w) \/ RunItem(w) \/ SetTarget(w)
            \/ BarrierSyncInvoke(w) \/ SyncSlow2(w) \/ SyncSignal(w)
            \/ RedirectAdd(w) \/ RedirectRetain(w) \/ RedirectPush(w)
            \/ DrainOut(w) \/ OutHead(w) \/ OutWait(w)

Invoke(w) == \/ TakeQueue(w) \/ InvokeSuspended(w) \/ InvokeLock(w) \/ Drained(w)
             \/ Repush(w) \/ Listless(w) \/ InvokeUnlock(w) \/ CheckRunning(w)
             \/ InvokeRelease(w)

Redirected(w) == TakeRedirected(w) \/ RunRedirected(w) \/ RedirectDone(w)

Next == \/ \E c \in Clients : Call(c) \/ dispatch_resume(c) \/ Push(c) \/ Sync(c)
        \/ \E t \in AllThreads : Wakeup(t)
        \/ \E w \in Workers : Drain(w) \/ Invoke(w) \/ Redirected(w)
                              \/ CacheCleanup(w)

Spec == Init /\ [][Next]_vars

\* A thread inside a library call keeps running, blocks return, the target
\* queues are served (module RootQueue), and clients resume what they suspend.
\* Nothing obliges a client to make another call.
Fairness ==
    /\ \A c \in Clients : WF_vars(Push(c) \/ Sync(c) \/ Wakeup(c))
                          /\ WF_vars(dispatch_resume(c))
    /\ \A w \in Workers : WF_vars(Drain(w) \/ Invoke(w) \/ Redirected(w) \/ Wakeup(w))

FairSpec == Spec /\ Fairness

-----------------------------------------------------------------------------
(* Where threads can be.                                                   *)

PushPC == {"push", "push_link", "push_retain", "push_head", "push_release"}

WakeupPC == {"wakeup", "wakeup_tail", "wakeup_lock", "wakeup_retain",
             "wakeup_push"}

SyncPC == {"bsync_tail", "bsync_suspended", "bsync_lock", "run_locked", "wait",
           "run_suspended", "sync_tail", "sync_suspended", "sync_add",
           "sync_undo", "run_reader"}

\* Inside _dispatch_queue_drain(), or about to drop the drain lock.
DrainPC == {"drain_tail", "drain_head", "drain_next", "drain_suspended",
            "drain_width", "drain_item", "run_item", "set_target2",
            "bsync_invoke", "sync_slow2", "signal", "redirect_add",
            "redirect_retain", "redirect_push", "out", "out_head", "out_wait",
            "drained"}

\* Inside _dispatch_queue_invoke() with the lock bit of do_suspend_cnt.
InvokePC == {"invoke", "invoke_lock", "repush", "listless", "unlock"} \cup DrainPC

RedirectedPC == {"run_redirected", "redirect_done"}

ClientPC == {"idle"} \cup PushPC \cup WakeupPC \cup SyncPC

WorkerPC == {"idle", "check_running", "release"} \cup WakeupPC \cup InvokePC
                \cup RedirectedPC

ThreadsAt(S) == {t \in AllThreads : pc[t] \in S}

TypeOK ==
    /\ head \in Items \cup {NULL} /\ tail \in Items \cup {NULL}
    /\ nxt \in [Items -> Items \cup {NULL}]
    /\ running \in Nat /\ suspend \in Nat
    /\ ref \in Nat /\ xref \subseteq Clients
    /\ listless \in BOOLEAN /\ status \in STRING
    /\ targetq \in Targets
    /\ onq \in [Targets -> Nat]
    /\ redirected \subseteq Items
    /\ \A c \in Clients : calls[c] \in 0 .. MaxCalls[c]
    /\ kind \in [Items -> Kinds]
    /\ suspended \in [Clients -> Nat] /\ permit \in [Clients -> Nat]
    /\ prev \in [Clients -> Items \cup {NULL}]
    /\ dc \in [Workers -> Items \cup {NULL}]
    /\ next \in [Workers -> Items \cup {NULL}]
    /\ origtq \in [Workers -> Targets]
    /\ cached \in [Workers -> BOOLEAN]
    /\ \A c \in Clients : pc[c] \in ClientPC
                          /\ ret[c] \in {"idle", "push", "push_release"}
    /\ \A w \in Workers : pc[w] \in WorkerPC /\ ret[w] \in {"idle", "release"}
    /\ pushed \in Seq(Items) /\ popped \in Seq(Items)

-----------------------------------------------------------------------------
(* Mutual exclusion                                                        *)

Exclusive == {"run_locked", "run_suspended", "run_item"}
Reading == {"run_reader", "run_redirected"}

\* "A queue will only invoke one block at a time" (include/dispatch/queue.h):
\* a block of a serial queue, or a barrier of a concurrent one, runs alone.
OneBlockAtATime ==
    \A t, u \in ThreadsAt(Exclusive \cup Reading) :
        t # u => pc[t] \in Reading /\ pc[u] \in Reading

\* The extent to which that holds for every mix of calls: the only blocks that
\* can overlap a barrier are those of a client that had tested the suspend count
\* before the queue was suspended on behalf of a queued dispatch_barrier_sync_f.
OnlyStaleSyncOverlaps ==
    \A t, u \in ThreadsAt(Exclusive \cup Reading) :
        /\ t # u
        /\ ~(pc[t] \in Reading /\ pc[u] \in Reading)
        => \/ pc[t] = "run_suspended" /\ pc[u] \in {"run_locked", "run_reader"}
           \/ pc[u] = "run_suspended" /\ pc[t] \in {"run_locked", "run_reader"}

-----------------------------------------------------------------------------
(* The list                                                                *)

\* Items are dequeued in the order in which they were enqueued, each at most
\* once, whatever producers, suspensions and incomplete drains interleave.
FIFO == IsPrefix(popped, pushed)

-----------------------------------------------------------------------------
(* The two lock words and the reference count                              *)

\* dq is only ever on the list of its current target, whatever the moment at
\* which _dispatch_set_target_queue2() changes it.
OnCurrentTarget == \A q \in Targets : q # targetq => onq[q] = 0

\* Those who may hold the lock bit of do_suspend_cnt: the list of the target
\* queue, the thread that is putting dq on it, the worker that invokes dq.
LockHolders == onq[targetq]
               + Cardinality(ThreadsAt({"wakeup_retain", "wakeup_push"}))
               + Cardinality(ThreadsAt(InvokePC))

\* The clients to which a queued synchronous call of kind k was granted but
\* whose thread has not yet seen it.
Granted(k) == {c \in Clients : permit[c] > 0 /\ kind[Item(c)] = k}

\* The workers about to grant such a call.
Granting(k) == {w \in Workers : pc[w] = "signal" /\ kind[dc[w]] = k}

\* Suspensions made on behalf of a queued dispatch_barrier_sync_f().
BarrierSuspensions ==
    Cardinality(ThreadsAt({"run_suspended"})) + Cardinality(Granted("barrier_sync"))
    + Cardinality(Granting("barrier_sync"))

\* do_suspend_cnt is the lock bit plus two for each suspension: a client that
\* resumes as often as it suspended never meets "Over-resume of an object".  The
\* bit is held once: dq is on at most one list, at most once, or is invoked by one
\* thread, never both.
SuspendAccount ==
    /\ LockHolders <= 1
    /\ suspend = LockHolders + 2 * (MapThenSumSet(LAMBDA c : suspended[c], Clients)
                                    + BarrierSuspensions)

Readers ==
    Cardinality(ThreadsAt({"sync_undo", "run_reader", "run_redirected",
                           "redirect_done", "redirect_retain", "redirect_push"}))
    + Cardinality(redirected)
    + Cardinality(Granted("sync")) + Cardinality(Granting("sync"))

\* dq_running is the barrier bit, held by one drain or one synchronous call,
\* plus two for each reader.
RunningAccount ==
    LET owners == Cardinality(ThreadsAt(DrainPC \cup {"run_locked"}))
    IN  owners <= 1 /\ running = owners + 2 * Readers

\* One reference for the clients, one for being on a target's list or invoked,
\* one for each producer about to wake dq up, one for each redirected item.
References ==
    (IF xref = {} THEN 0 ELSE 1)
    + onq[targetq]
    + Cardinality(ThreadsAt({"wakeup_push", "push_head", "push_release",
                             "check_running", "release"}
                            \cup InvokePC \cup RedirectedPC))
    + Cardinality({t \in ThreadsAt(WakeupPC) : ret[t] \in {"push_release", "release"}})
    + Cardinality({w \in Workers : pc[w] = "redirect_push"})
    + Cardinality(redirected)

RefCount == ref = References

\* "a queue will not be deallocated until all pending blocks have finished"
\* (include/dispatch/queue.h): when dq is freed its blocks have run, no thread is
\* inside one of its functions, and no list refers to it.
FreedWhenDone ==
    status = "freed" => /\ popped = pushed
                        /\ \A t \in AllThreads : pc[t] = "idle"
                        /\ \A q \in Targets : onq[q] = 0
                        /\ redirected = {}

\* _dispatch_async_f_redirect() never writes through a null pointer.
ContinuationAllocated == status # "null continuation"

-----------------------------------------------------------------------------
(* Progress                                                                *)

\* No lost wakeup: if items wait on a queue that is neither suspended nor
\* locked, some thread is on its way to wake it up.
NoLostWakeup ==
    (status = "alive" /\ tail # NULL /\ suspend = 0 /\ running = 0)
        => ThreadsAt({"push_retain", "push_head", "wakeup", "wakeup_tail",
                      "wakeup_lock", "check_running"}) # {}

=============================================================================
