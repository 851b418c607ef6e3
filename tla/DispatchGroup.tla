--------------------------- MODULE DispatchGroup ---------------------------
(***************************************************************************)
(* Dispatch groups (libdispatch/src/semaphore.c).  A group is a semaphore  *)
(* whose value starts at its maximum: entering decrements it, leaving      *)
(* increments it, and the group is empty when the value is the original    *)
(* one.  Whoever sees that it is empty wakes the threads that wait and     *)
(* submits the notifications, which form a lock-free list.                 *)
(*                                                                         *)
(* Each thread owns a reference until it releases it, balances its calls   *)
(* of enter and leave, and may run the blocks of dispatch_group_async_f(). *)
(* One step per atomic instruction.  The plain store of dsema_notify_head  *)
(* is followed by a plain load of dsema_value: with StoreBuffer, the store *)
(* may become visible after the load, as on x86.                           *)
(***************************************************************************)
EXTENDS Integers, Sequences, FiniteSets

CONSTANTS Threads,
          Orig,         \* LONG_MAX, the value of an empty group
          Ops,          \* Ops[t]: the operations thread t may call
          MaxCalls,     \* MaxCalls[t]: bound on the calls of thread t
          StoreBuffer,  \* whether a store may be delayed past a later load
          NULL

\* The notification thread t registers with its n-th call.
Notes == UNION {{t} \X (1 .. MaxCalls[t]) : t \in Threads}

\* What is assumed of the constants: the threads, of which there is one at least, and
\* the calls each may make are any finite number, and NULL is not a notification.
ConstantsOK ==
    /\ IsFiniteSet(Threads) /\ Threads # {} /\ Orig \in Nat
    /\ MaxCalls \in [Threads -> Nat]
    /\ NULL \notin Notes

VARIABLES
    value,          \* dsema_value
    waiters,        \* dsema_group_waiters
    sem,            \* tokens of the POSIX semaphore dsema_sem
    head, tail,     \* dsema_notify_head, dsema_notify_tail
    nxt,            \* dsn_next of each notification
    ref, xref,      \* do_ref_cnt; the threads that own an external reference
    status,         \* "alive", "freed" or "crashed"
    blocks,         \* blocks of dispatch_group_async_f() waiting to be run
    calls,          \* number of calls each thread made
    inside,         \* how often each thread has entered the group
    timeout,        \* "forever" or "timed", the argument of a wait
    owed,           \* rval of _dispatch_group_wake(): tokens still to post
    list,           \* its head, NULL once all are submitted
    took,           \* its do_rel
    prev,           \* prev of dispatch_group_notify_f()
    buffer,         \* a store to dsema_notify_head not yet visible
    pc, ret,        \* where each thread is, and where a wake returns
    noted, fired,   \* history: notifications registered, and submitted
    sawEmpty        \* history: notifications since whose registration the
                    \* group has been empty

object == <<value, waiters, sem, head, tail, nxt>>
refs == <<ref, xref, status>>
client == <<blocks, calls, inside, timeout>>
wake == <<owed, list, took>>
history == <<noted, fired, sawEmpty>>
vars == <<object, refs, client, wake, prev, buffer, pc, ret, history>>

Init == /\ value = Orig /\ waiters = 0 /\ sem = 0
        /\ head = NULL /\ tail = NULL
        /\ nxt = [n \in Notes |-> NULL]
        /\ ref = 1 /\ xref = Threads /\ status = "alive"
        /\ blocks = 0
        /\ calls = [t \in Threads |-> 0]
        /\ inside = [t \in Threads |-> 0]
        /\ timeout = [t \in Threads |-> "forever"]
        /\ owed = [t \in Threads |-> 0]
        /\ list = [t \in Threads |-> NULL]
        /\ took = [t \in Threads |-> FALSE]
        /\ prev = [t \in Threads |-> NULL]
        /\ buffer = [t \in Threads |-> NULL]
        /\ pc = [t \in Threads |-> "idle"]
        /\ ret = [t \in Threads |-> "idle"]
        /\ noted = <<>> /\ fired = <<>> /\ sawEmpty = {}

Empty == value = Orig

Elements(s) == {s[i] : i \in DOMAIN s}

Goto(t, l) == pc' = [pc EXCEPT ![t] = l]

\* Every atomic instruction waits for the thread's own stores.
At(t, l) == status = "alive" /\ pc[t] = l /\ buffer[t] = NULL

\* Enter _dispatch_group_wake(), to return to label l.
CallWake(t, l) == Goto(t, "wake") /\ ret' = [ret EXCEPT ![t] = l]

\* Wake the group up if it is empty, and go to label l either way.
WakeIfEmpty(t, l) == IF Empty THEN CallWake(t, l) ELSE Goto(t, l) /\ UNCHANGED ret

MayCall(t, op) == /\ At(t, "idle")
                  /\ t \in xref
                  /\ op \in Ops[t]
                  /\ calls[t] < MaxCalls[t]

Called(t) == calls' = [calls EXCEPT ![t] = @ + 1]

\* _dispatch_release(): the last reference disposes of the group, which crashes
\* if blocks have not left it (_dispatch_semaphore_dispose()).
ReleaseRef == /\ ref' = ref - 1
              /\ status' = IF ref' > 0 THEN status
                           ELSE IF value < Orig THEN "crashed" ELSE "freed"

-----------------------------------------------------------------------------
(* Entering and leaving.  The value never reaches zero, so an enter never  *)
(* sleeps and a leave never calls _dispatch_semaphore_signal_slow().       *)

dispatch_group_enter(t) ==
    /\ MayCall(t, "enter")
    /\ Called(t)
    /\ value' = value - 1
    /\ inside' = [inside EXCEPT ![t] = @ + 1]
    /\ UNCHANGED <<waiters, sem, head, tail, nxt, refs, blocks, timeout, wake,
                   prev, buffer, pc, ret, history>>

\* Retain, enter and push the block on a queue.
dispatch_group_async_f(t) ==
    /\ MayCall(t, "async")
    /\ Called(t)
    /\ ref' = ref + 1
    /\ value' = value - 1
    /\ blocks' = blocks + 1
    /\ UNCHANGED <<waiters, sem, head, tail, nxt, xref, status, inside, timeout,
                   wake, prev, buffer, pc, ret, history>>

\* Notifications that are registered when the group becomes empty.
NowEmpty == sawEmpty' = IF value' = Orig THEN Elements(noted) ELSE sawEmpty

dispatch_group_leave(t) ==
    /\ At(t, "idle")
    /\ inside[t] > 0
    /\ inside' = [inside EXCEPT ![t] = @ - 1]
    /\ value' = value + 1
    /\ NowEmpty
    /\ Goto(t, "leave_check")
    /\ UNCHANGED <<waiters, sem, head, tail, nxt, refs, blocks, calls, timeout,
                   wake, prev, buffer, ret, noted, fired>>

LeaveCheck(t) ==
    /\ At(t, "leave_check")
    /\ WakeIfEmpty(t, "idle")
    /\ UNCHANGED <<object, refs, client, wake, prev, buffer, history>>

\* A worker runs a block; _dispatch_continuation_pop() then leaves the group and
\* drops the reference of the block.
RunBlock(t) ==
    /\ At(t, "idle")
    /\ blocks > 0
    /\ blocks' = blocks - 1
    /\ value' = value + 1
    /\ NowEmpty
    /\ Goto(t, "block_check")
    /\ UNCHANGED <<waiters, sem, head, tail, nxt, refs, calls, inside, timeout,
                   wake, prev, buffer, ret, noted, fired>>

BlockCheck(t) ==
    /\ At(t, "block_check")
    /\ WakeIfEmpty(t, "block_release")
    /\ UNCHANGED <<object, refs, client, wake, prev, buffer, history>>

BlockRelease(t) ==
    /\ At(t, "block_release")
    /\ ReleaseRef
    /\ Goto(t, "idle")
    /\ UNCHANGED <<object, xref, client, wake, prev, buffer, ret, history>>

\* dispatch_release() of the thread's reference.
dispatch_release(t) ==
    /\ At(t, "idle") /\ t \in xref /\ "release" \in Ops[t]
    /\ inside[t] = 0
    /\ xref' = xref \ {t}
    /\ IF xref' = {} THEN ReleaseRef ELSE UNCHANGED <<ref, status>>
    /\ UNCHANGED <<object, client, wake, prev, buffer, pc, ret, history>>

-----------------------------------------------------------------------------
(* _dispatch_group_wake()                                                  *)

\* Exchange dsema_notify_head.
WakeTakeList(t) ==
    /\ At(t, "wake")
    /\ list' = [list EXCEPT ![t] = head]
    /\ took' = [took EXCEPT ![t] = head # NULL]
    /\ head' = NULL
    /\ Goto(t, "wake_waiters")
    /\ UNCHANGED <<value, waiters, sem, tail, nxt, refs, client, owed, prev,
                   buffer, ret, history>>

\* Exchange dsema_group_waiters.
WakeTakeWaiters(t) ==
    /\ At(t, "wake_waiters")
    /\ owed' = [owed EXCEPT ![t] = waiters]
    /\ waiters' = 0
    /\ Goto(t, "wake_post")
    /\ UNCHANGED <<value, sem, head, tail, nxt, refs, client, list, took, prev,
                   buffer, ret, history>>

\* Mutant: post one token only.
WakePostOnce(t) ==
    /\ At(t, "wake_post")
    /\ sem' = sem + (IF owed[t] > 0 THEN 1 ELSE 0)
    /\ owed' = [owed EXCEPT ![t] = 0]
    /\ Goto(t, "wake_notify")
    /\ UNCHANGED <<value, waiters, head, tail, nxt, refs, client, list, took,
                   prev, buffer, ret, history>>

\* sem_post() for each of them.
WakePost(t) ==
    /\ At(t, "wake_post")
    /\ IF owed[t] > 0
         THEN /\ sem' = sem + 1
              /\ owed' = [owed EXCEPT ![t] = @ - 1]
              /\ UNCHANGED pc
         ELSE UNCHANGED <<sem, owed>> /\ Goto(t, "wake_notify")
    /\ UNCHANGED <<value, waiters, head, tail, nxt, refs, client, list, took,
                   prev, buffer, ret, history>>

\* Submit the notification at the front of the list, if there is one.
WakeNotify(t) ==
    /\ At(t, "wake_notify")
    /\ IF list[t] = NULL
         THEN UNCHANGED fired /\ Goto(t, "wake_release")
         ELSE fired' = Append(fired, list[t]) /\ Goto(t, "wake_next")
    /\ UNCHANGED <<object, refs, client, wake, prev, buffer, ret, noted, sawEmpty>>

\* Mutant: a store of the tail instead of a compare and swap.
WakeNextUnchecked(t) ==
    /\ At(t, "wake_next")
    /\ tail' = IF nxt[list[t]] = NULL THEN NULL ELSE tail
    /\ list' = [list EXCEPT ![t] = nxt[list[t]]]
    /\ Goto(t, "wake_notify")
    /\ UNCHANGED <<value, waiters, sem, head, nxt, refs, client, owed, took, prev,
                   buffer, ret, history>>

\* Go on with the successor, or show with a compare and swap that there is none;
\* otherwise spin until its producer has linked it.
WakeNext(t) ==
    /\ At(t, "wake_next")
    /\ \/ nxt[list[t]] # NULL /\ UNCHANGED tail
       \/ nxt[list[t]] = NULL /\ tail = list[t] /\ tail' = NULL
    /\ list' = [list EXCEPT ![t] = nxt[list[t]]]
    /\ Goto(t, "wake_notify")
    /\ UNCHANGED <<value, waiters, sem, head, nxt, refs, client, owed, took, prev,
                   buffer, ret, history>>

\* Mutant: drop the reference whether or not there were notifications.
WakeReleaseAlways(t) ==
    /\ At(t, "wake_release")
    /\ ReleaseRef
    /\ took' = [took EXCEPT ![t] = FALSE]
    /\ Goto(t, ret[t]) /\ ret' = [ret EXCEPT ![t] = "idle"]
    /\ UNCHANGED <<object, xref, client, owed, list, prev, buffer, history>>

\* Drop the reference that the list of notifications held.
WakeRelease(t) ==
    /\ At(t, "wake_release")
    /\ IF took[t] THEN ReleaseRef ELSE UNCHANGED <<ref, status>>
    /\ took' = [took EXCEPT ![t] = FALSE]
    /\ Goto(t, ret[t]) /\ ret' = [ret EXCEPT ![t] = "idle"]
    /\ UNCHANGED <<object, xref, client, owed, list, prev, buffer, history>>

-----------------------------------------------------------------------------
(* dispatch_group_wait() and _dispatch_group_wait_slow()                   *)

\* An empty group, or a timeout of zero, returns at once.
dispatch_group_wait(t, k) ==
    /\ MayCall(t, "wait")
    /\ Called(t)
    /\ IF Empty \/ k = "now" THEN UNCHANGED <<timeout, pc>>
       ELSE timeout' = [timeout EXCEPT ![t] = k] /\ Goto(t, "wait")
    /\ UNCHANGED <<object, refs, blocks, inside, wake, prev, buffer, ret, history>>

WaitCheck(t) ==
    /\ At(t, "wait")
    /\ IF Empty THEN CallWake(t, "idle") ELSE Goto(t, "wait_inc") /\ UNCHANGED ret
    /\ UNCHANGED <<object, refs, client, wake, prev, buffer, history>>

WaitInc(t) ==
    /\ At(t, "wait_inc")
    /\ waiters' = waiters + 1
    /\ Goto(t, "wait_recheck")
    /\ UNCHANGED <<value, sem, head, tail, nxt, refs, client, wake, prev, buffer,
                   ret, history>>

WaitRecheck(t) ==
    /\ At(t, "wait_recheck")
    /\ IF Empty THEN CallWake(t, "idle") ELSE Goto(t, "sleep") /\ UNCHANGED ret
    /\ UNCHANGED <<object, refs, client, wake, prev, buffer, history>>

\* sem_timedwait() or sem_wait() takes a token; "goto again".
WaitWoken(t) ==
    /\ At(t, "sleep") \/ At(t, "sleep_on")
    /\ sem > 0
    /\ sem' = sem - 1
    /\ Goto(t, "wait")
    /\ UNCHANGED <<value, waiters, head, tail, nxt, refs, client, wake, prev,
                   buffer, ret, history>>

WaitTimedOut(t) ==
    /\ At(t, "sleep")
    /\ timeout[t] = "timed"
    /\ Goto(t, "undo")
    /\ UNCHANGED <<object, refs, client, wake, prev, buffer, ret, history>>

\* Withdraw from the waiters; if none are left a token is on its way, and it
\* must be taken.
WaitUndo(t) ==
    /\ At(t, "undo")
    /\ IF waiters > 0 THEN waiters' = waiters - 1 /\ Goto(t, "idle")
                      ELSE UNCHANGED waiters /\ Goto(t, "sleep_on")
    /\ UNCHANGED <<value, sem, head, tail, nxt, refs, client, wake, prev, buffer,
                   ret, history>>

-----------------------------------------------------------------------------
(* dispatch_group_notify_f()                                               *)

Note(t) == <<t, calls[t]>>

dispatch_group_notify_f(t) ==
    /\ MayCall(t, "notify")
    /\ Called(t)
    /\ LET n == <<t, calls[t] + 1>>
       IN  /\ prev' = [prev EXCEPT ![t] = tail]
           /\ tail' = n
           /\ noted' = Append(noted, n)
           /\ sawEmpty' = IF Empty THEN sawEmpty \cup {n} ELSE sawEmpty
    /\ Goto(t, IF tail # NULL THEN "notify_link" ELSE "notify_retain")
    /\ UNCHANGED <<value, waiters, sem, head, nxt, refs, blocks, inside, timeout,
                   wake, buffer, ret, fired>>

NotifyLink(t) ==
    /\ At(t, "notify_link")
    /\ nxt' = [nxt EXCEPT ![prev[t]] = Note(t)]
    /\ prev' = [prev EXCEPT ![t] = NULL]
    /\ Goto(t, "idle")
    /\ UNCHANGED <<value, waiters, sem, head, tail, refs, client, wake, buffer,
                   ret, history>>

NotifyRetain(t) ==
    /\ At(t, "notify_retain")
    /\ ref' = ref + 1
    /\ Goto(t, "notify_head")
    /\ UNCHANGED <<object, xref, status, client, wake, prev, buffer, ret, history>>

NotifyHead(t) ==
    /\ At(t, "notify_head")
    /\ IF StoreBuffer THEN buffer' = [buffer EXCEPT ![t] = Note(t)] /\ UNCHANGED head
                      ELSE head' = Note(t) /\ UNCHANGED buffer
    /\ Goto(t, "notify_check")
    /\ UNCHANGED <<value, waiters, sem, tail, nxt, refs, client, wake, prev, ret,
                   history>>

\* The store becomes visible.
FlushHead(t) ==
    /\ status = "alive"
    /\ buffer[t] # NULL
    /\ head' = buffer[t]
    /\ buffer' = [buffer EXCEPT ![t] = NULL]
    /\ UNCHANGED <<value, waiters, sem, tail, nxt, refs, client, wake, prev, pc,
                   ret, history>>

\* A plain load, which does not wait for the store.
NotifyCheck(t) ==
    /\ status = "alive" /\ pc[t] = "notify_check"
    /\ WakeIfEmpty(t, "idle")
    /\ UNCHANGED <<object, refs, client, wake, prev, buffer, history>>

-----------------------------------------------------------------------------
Call(t) == \/ dispatch_group_enter(t) \/ dispatch_group_async_f(t)
           \/ dispatch_group_notify_f(t) \/ dispatch_release(t)
           \/ \E k \in {"now", "timed", "forever"} : dispatch_group_wait(t, k)

Wake(t) == \/ WakeTakeList(t) \/ WakeTakeWaiters(t) \/ WakePost(t)
           \/ WakeNotify(t) \/ WakeNext(t) \/ WakeRelease(t)

Wait(t) == \/ WaitCheck(t) \/ WaitInc(t) \/ WaitRecheck(t) \/ WaitWoken(t)
           \/ WaitUndo(t)

Notify(t) == \/ NotifyLink(t) \/ NotifyRetain(t) \/ NotifyHead(t)
             \/ FlushHead(t) \/ NotifyCheck(t)

Leave(t) == \/ dispatch_group_leave(t) \/ LeaveCheck(t) \/ RunBlock(t)
            \/ BlockCheck(t) \/ BlockRelease(t)

Step(t) == Call(t) \/ Wake(t) \/ Wait(t) \/ WaitTimedOut(t) \/ Notify(t) \/ Leave(t)

Next == \E t \in Threads : Step(t)

Spec == Init /\ [][Next]_vars

\* Threads keep running, what was entered is left and blocks are run; nothing
\* obliges a thread to call and no sleep need time out.  A thread that sleeps
\* leaves the running of blocks to another one.
Fairness == \A t \in Threads : WF_vars(Wake(t) \/ Wait(t) \/ Notify(t) \/ Leave(t))

FairSpec == Spec /\ Fairness

-----------------------------------------------------------------------------
WakePC == {"wake", "wake_waiters", "wake_post", "wake_notify", "wake_next",
           "wake_release"}
WaitPC == {"wait", "wait_inc", "wait_recheck", "sleep", "sleep_on", "undo"}
NotifyPC == {"notify_link", "notify_retain", "notify_head", "notify_check"}
LeavePC == {"leave_check", "block_check", "block_release"}

ThreadsAt(S) == {t \in Threads : pc[t] \in S}

TypeOK ==
    /\ value \in Int /\ waiters \in Nat /\ sem \in Nat
    /\ head \in Notes \cup {NULL} /\ tail \in Notes \cup {NULL}
    /\ nxt \in [Notes -> Notes \cup {NULL}]
    /\ ref \in Nat /\ xref \subseteq Threads
    /\ status \in {"alive", "freed", "crashed"}
    /\ blocks \in Nat
    /\ calls \in [Threads -> Nat] /\ \A t \in Threads : calls[t] <= MaxCalls[t]
    /\ inside \in [Threads -> Nat]
    /\ timeout \in [Threads -> {"timed", "forever"}]
    /\ owed \in [Threads -> Nat]
    /\ list \in [Threads -> Notes \cup {NULL}]
    /\ took \in [Threads -> BOOLEAN]
    /\ prev \in [Threads -> Notes \cup {NULL}]
    /\ buffer \in [Threads -> Notes \cup {NULL}]
    /\ pc \in [Threads -> {"idle"} \cup WakePC \cup WaitPC \cup NotifyPC \cup LeavePC]
    /\ ret \in [Threads -> {"idle", "block_release"}]
    /\ noted \in Seq(Notes) /\ fired \in Seq(Notes)

\* The threads that count on a token of the semaphore.
Sleepers == ThreadsAt({"sleep", "sleep_on", "undo"})

\* f[t] tokens for each thread t.
Tokens(f) == UNION {{t} \X (1 .. f[t]) : t \in Threads}

\* No wakeup of a waiter is lost: every thread that sleeps in
\* dispatch_group_wait() is covered by dsema_group_waiters, by a token that a
\* wake still has to post or by one already posted, whatever timeouts withdraw
\* and stale tokens are taken by others.
SleepersCovered ==
    Cardinality(Sleepers) <= waiters + sem + Cardinality(Tokens(owed))

\* No notification is lost: once everybody has returned from an empty group,
\* all of those registered have been submitted.
NothingUnnotified ==
    /\ status = "alive" /\ Empty
    /\ \A t \in Threads : pc[t] \notin WakePC \cup NotifyPC \cup LeavePC
                          /\ buffer[t] = NULL
    => fired = noted

\* Notifications are submitted in the order of their registration, each once;
\* where stores are visible at once none is forgotten by the time everybody has
\* returned from an empty group.
EachNotifiedOnce ==
    /\ Len(fired) <= Len(noted) /\ \A i \in 1 .. Len(fired) : fired[i] = noted[i]
    /\ ~StoreBuffer => NothingUnnotified

\* A group that is freed is not used any more, and is never freed while blocks
\* are inside it.
NoUseAfterFree ==
    /\ status = "freed" => \A t \in Threads : pc[t] = "idle"
    /\ status # "crashed"

\* Calls that are balanced never leave a group more often than it was entered, and
\* as long as somebody may still use it the group is not freed.
GroupAlive == TypeOK /\ value <= Orig /\ NoUseAfterFree

\* "once all blocks associated with the dispatch group have completed"
\* (include/dispatch/group.h): the group has been empty at some moment since a
\* submitted notification was registered.
NotifiedAfterEmpty == Elements(fired) \subseteq sawEmpty

\* Somebody waits, or a notification is not yet submitted.
Unanswered == fired # noted \/ ThreadsAt(WaitPC) # {}
=============================================================================
