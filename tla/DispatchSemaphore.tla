------------------------- MODULE DispatchSemaphore -------------------------
(***************************************************************************)
(* dispatch_semaphore_t (libdispatch/src/semaphore.c), POSIX build: a      *)
(* counter dsema_value updated with atomic instructions, and a kernel      *)
(* semaphore dsema_sem on which a thread sleeps when the counter is        *)
(* exhausted.  dsema_sent_ksignals counts the wakeups that were promised   *)
(* to sleepers; a sleeper returns by taking one of those, never because    *)
(* sem_wait() returned.                                                    *)
(*                                                                         *)
(* Every atomic instruction, every system call and every plain read is a   *)
(* step of its own.  A compare-and-swap loop is one step: a failed attempt *)
(* changes nothing.                                                        *)
(***************************************************************************)
EXTENDS Integers, FiniteSets

CONSTANTS Threads,      \* the threads that share the semaphore
          Orig,         \* the value given to dispatch_semaphore_create()
          MaxSignals    \* bound on the number of signals in a behaviour

ASSUME ThreadsAssumption == IsFiniteSet(Threads) /\ Threads # {}
ASSUME OrigAssumption == Orig \in Nat
ASSUME MaxSignalsAssumption == MaxSignals \in Nat

VARIABLES value,        \* dsema_value
          ksignals,     \* dsema_sent_ksignals
          sem,          \* tokens in dsema_sem
          ref,          \* do_ref_cnt; the object is freed when it reaches 0
          xref,         \* the threads that own an external reference
          pc,           \* where each thread is
          timeout,      \* the timeout of each thread's current wait
          signalled,    \* number of dispatch_semaphore_signal() calls so far
          acquired      \* number of waits that returned 0 so far

vars == <<value, ksignals, sem, ref, xref, pc, timeout, signalled, acquired>>

Timeouts == {"NOW", "TIMED", "FOREVER"}

\* Inside _dispatch_semaphore_wait_slow().
WaitSlow == {"again", "sem_timedwait", "undo", "sem_wait"}

\* Inside _dispatch_semaphore_signal_slow(), before the promise is made.
Promising == {"retain", "inc_ksignals"}

SignalSlow == Promising \cup {"sem_post", "release"}

PC == {"idle"} \cup WaitSlow \cup SignalSlow

At(S) == {t \in Threads : pc[t] \in S}

Neg(n) == IF n < 0 THEN -n ELSE 0

Pos(n) == IF n > 0 THEN n ELSE 0

Goto(t, l) == pc' = [pc EXCEPT ![t] = l]

-----------------------------------------------------------------------------
\* dispatch_semaphore_create(Orig), then one dispatch_retain() per further
\* thread: every thread owns an external reference.
Init == /\ value = Orig
        /\ ksignals = 0
        /\ sem = 0
        /\ ref = 1
        /\ xref = Threads
        /\ pc = [t \in Threads |-> "idle"]
        /\ timeout = [t \in Threads |-> "FOREVER"]
        /\ signalled = 0
        /\ acquired = 0

-----------------------------------------------------------------------------
(* dispatch_semaphore_wait().  The caller owns a reference.                *)

dispatch_semaphore_wait(t, k) ==
    /\ pc[t] = "idle"
    /\ t \in xref
    /\ value' = value - 1
    /\ \/ /\ value' >= 0
          /\ acquired' = acquired + 1
          /\ UNCHANGED <<pc, timeout>>
       \/ /\ value' < 0
          /\ Goto(t, "again")
          /\ timeout' = [timeout EXCEPT ![t] = k]
          /\ UNCHANGED acquired
    /\ UNCHANGED <<ksignals, sem, ref, xref, signalled>>

\* The switch over the timeout at the end of the "again" block.
Sleep(t) == CASE timeout[t] = "NOW" -> "undo"
              [] timeout[t] = "TIMED" -> "sem_timedwait"
              [] OTHER -> "sem_wait"

\* again: take a promised wakeup and return 0, or go to sleep.
TakeKsignal(t) ==
    /\ pc[t] = "again"
    /\ \/ /\ ksignals > 0
          /\ ksignals' = ksignals - 1
          /\ acquired' = acquired + 1
          /\ Goto(t, "idle")
       \/ /\ ksignals = 0
          /\ Goto(t, Sleep(t))
          /\ UNCHANGED <<ksignals, acquired>>
    /\ UNCHANGED <<value, sem, ref, xref, timeout, signalled>>

\* sem_timedwait() returns with a token, or times out (whether or not a
\* token arrived meanwhile).
SemTimedWait(t) ==
    /\ pc[t] = "sem_timedwait"
    /\ \/ /\ sem > 0
          /\ sem' = sem - 1
          /\ Goto(t, "again")
       \/ /\ Goto(t, "undo")
          /\ UNCHANGED sem
    /\ UNCHANGED <<value, ksignals, ref, xref, timeout, signalled, acquired>>

\* Mutant: undo the decrement without looking at the counter.
UndoWaitUnchecked(t) ==
    /\ pc[t] = "undo"
    /\ value' = value + 1
    /\ Goto(t, "idle")
    /\ UNCHANGED <<ksignals, sem, ref, xref, timeout, signalled, acquired>>

\* Undo the decrement and return ETIMEDOUT; but if the counter is no longer
\* negative a signal was meant for a sleeper, and its wakeup is drained.
UndoWait(t) ==
    /\ pc[t] = "undo"
    /\ \/ /\ value < 0
          /\ value' = value + 1
          /\ Goto(t, "idle")
       \/ /\ value >= 0
          /\ Goto(t, "sem_wait")
          /\ UNCHANGED value
    /\ UNCHANGED <<ksignals, sem, ref, xref, timeout, signalled, acquired>>

SemWait(t) ==
    /\ pc[t] = "sem_wait"
    /\ sem > 0
    /\ sem' = sem - 1
    /\ Goto(t, "again")
    /\ UNCHANGED <<value, ksignals, ref, xref, timeout, signalled, acquired>>

-----------------------------------------------------------------------------
(* dispatch_semaphore_signal().  The caller need not own a reference; the  *)
(* one some waiter or owner still holds keeps the object alive.            *)

dispatch_semaphore_signal(t) ==
    /\ pc[t] = "idle"
    /\ xref # {}
    /\ signalled < MaxSignals
    /\ value' = value + 1
    /\ signalled' = signalled + 1
    /\ IF value' > 0 THEN UNCHANGED pc ELSE Goto(t, "retain")
    /\ UNCHANGED <<ksignals, sem, ref, xref, timeout, acquired>>

\* Mutant: rely on the waiter's reference throughout.
RetainMissing(t) ==
    /\ pc[t] = "retain"
    /\ Goto(t, "inc_ksignals")
    /\ UNCHANGED <<value, ksignals, sem, ref, xref, timeout, signalled, acquired>>

Retain(t) ==
    /\ pc[t] = "retain"
    /\ ref' = ref + 1
    /\ Goto(t, "inc_ksignals")
    /\ UNCHANGED <<value, ksignals, sem, xref, timeout, signalled, acquired>>

IncKsignals(t) ==
    /\ pc[t] = "inc_ksignals"
    /\ ksignals' = ksignals + 1
    /\ Goto(t, "sem_post")
    /\ UNCHANGED <<value, sem, ref, xref, timeout, signalled, acquired>>

\* Mutant: count the wakeup but do not post it.
SemPostMissing(t) ==
    /\ pc[t] = "sem_post"
    /\ Goto(t, "release")
    /\ UNCHANGED <<value, ksignals, sem, ref, xref, timeout, signalled, acquired>>

SemPost(t) ==
    /\ pc[t] = "sem_post"
    /\ sem' = sem + 1
    /\ Goto(t, "release")
    /\ UNCHANGED <<value, ksignals, ref, xref, timeout, signalled, acquired>>

ReleaseRef(t) ==
    /\ pc[t] = "release"
    /\ ref' = ref - 1
    /\ Goto(t, "idle")
    /\ UNCHANGED <<value, ksignals, sem, xref, timeout, signalled, acquired>>

-----------------------------------------------------------------------------
\* dispatch_release(): the last external reference gives up the internal
\* one it stood for.
dispatch_release(t) ==
    /\ pc[t] = "idle"
    /\ t \in xref
    /\ xref' = xref \ {t}
    /\ ref' = IF xref' = {} THEN ref - 1 ELSE ref
    /\ UNCHANGED <<value, ksignals, sem, pc, timeout, signalled, acquired>>

\* What _dispatch_semaphore_dispose() does when the last reference goes.
DisposeCrashes == value < Orig

-----------------------------------------------------------------------------
Wait(t) == \/ TakeKsignal(t) \/ SemTimedWait(t) \/ UndoWait(t) \/ SemWait(t)

Signal(t) == \/ Retain(t) \/ IncKsignals(t) \/ SemPost(t) \/ ReleaseRef(t)

Next == \E t \in Threads :
           \/ \E k \in Timeouts : dispatch_semaphore_wait(t, k)
           \/ dispatch_semaphore_signal(t)
           \/ dispatch_release(t)
           \/ Wait(t)
           \/ Signal(t)

Spec == Init /\ [][Next]_vars

\* A thread that is inside a call keeps running: the kernel schedules every
\* runnable thread.  Nothing obliges a client to call anything.
Fairness == \A t \in Threads : WF_vars(Wait(t)) /\ WF_vars(Signal(t))

FairSpec == Spec /\ Fairness

-----------------------------------------------------------------------------
TypeOK == /\ value \in Int
          /\ ksignals \in Nat
          /\ sem \in Nat
          /\ ref \in Int
          /\ xref \subseteq Threads
          /\ pc \in [Threads -> PC]
          /\ timeout \in [Threads -> Timeouts]
          /\ signalled \in Nat
          /\ acquired \in Nat

\* Every thread inside the slow wait is accounted for exactly once: by the
\* negative counter, by a wakeup promised in dsema_sent_ksignals, or by a
\* signaller about to promise it.  "If the internal value is negative, then
\* the absolute of the value is equal to the number of waiting threads"
\* (semaphore.c:102) holds with this correction.
WaitersAccounted ==
    Cardinality(At(WaitSlow)) =
        Neg(value) + ksignals + Cardinality(At(Promising))

\* No lost wakeup: for each promised wakeup there is a token to wake a
\* sleeper, a signaller about to post one, or a waiter that is awake and
\* about to look at dsema_sent_ksignals.
NoLostWakeup ==
    ksignals <= sem + Cardinality(At({"sem_post"})) + Cardinality(At({"again"}))

\* Permits are neither lost nor invented by timeouts racing signals: what was
\* acquired, what is left and what is promised add up to what was given.
Conservation ==
    acquired + Pos(value) + ksignals + Cardinality(At(Promising))
        = Orig + signalled

\* The comment at semaphore.c:387: until dsema_sent_ksignals is incremented a
\* signaller may rely on a reference held by a waiter; afterwards it holds its
\* own.  So no step of a wait or of a signal touches a freed object.
NoUseAfterFree == At(PC \ {"idle"}) # {} => ref > 0

\* Why it holds: a waiter keeps the external reference it came with.
WaitersHoldReference == At(WaitSlow) \subseteq xref

\* The reference count is one for the external references, and one for each
\* signaller between _dispatch_retain() and _dispatch_release().
RefCount == ref = Cardinality(At({"inc_ksignals", "sem_post", "release"}))
                  + (IF xref = {} THEN 0 ELSE 1)

\* The client crash of _dispatch_semaphore_dispose(), "deallocated while in
\* use", fires exactly when some client has not given back a permit it
\* acquired: no wait or signal still under way can confuse the test.
DisposeDetectsUse == ref = 0 => (DisposeCrashes <=> acquired > signalled)

\* A waiter does not stay in the slow path while the counter says that nobody
\* waits: dispatch_semaphore_signal() woke it, or a newcomer took its permit.
WaiterReturns == \A t \in Threads :
    (pc[t] \in WaitSlow /\ value >= 0) ~> (pc[t] \notin WaitSlow \/ value < 0)

-----------------------------------------------------------------------------
\* The permits nobody has taken: the positive counter, and the wakeups
\* promised or about to be promised.
Permits == Pos(value) + ksignals + Cardinality(At(Promising))

CS == INSTANCE CountingSemaphore WITH permits <- Permits

\* The semaphore implements the counter of permits.
ImplementsCounter == CS!Spec
=============================================================================
