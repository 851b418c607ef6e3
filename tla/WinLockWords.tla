---------------------------- MODULE WinLockWords -----------------------------
(***************************************************************************)
(* The locks on Windows whose word the emulation reads and writes itself:  *)
(* pthread_spinlock_t (platform/windows/pthread_create.h), and             *)
(* pthread_rwlock_t on top of the system's SRWLOCK (libpthread_workqueue/  *)
(* src/windows/pthread_rw_lock.h), which is locked and released by the     *)
(* system but tried by a compare-and-swap of the emulation.  The spin lock *)
(* is taken around the readers/writer lock by nobody: they are two locks   *)
(* that a thread uses one at a time.                                       *)
(***************************************************************************)
EXTENDS Integers, FiniteSets

CONSTANTS Threads,
          Deadlines,   \* times that a timed lock gives up after
          MaxCalls,    \* locks that a thread takes
          MaxTime      \* bound of the clock

VARIABLES l,        \* the spin lock: 0 or EBUSY
          ex, sh,   \* who owns the SRWLOCK, alone or shared
          queue,    \* threads that the system has put to sleep for it, and for what
          pc, seen, ts, now, ncalls, wrong

vars == <<l, ex, sh, queue, pc, seen, ts, now, ncalls, wrong>>

EBUSY == 1

\* The word of the SRWLOCK as the emulation takes it to be: 0, 1 for an
\* exclusive owner, 16 for each of several owners and 1, and one of the bits of 14
\* once there are waiters.
Word == IF queue # {} THEN 3
        ELSE IF ex # {} THEN 1
        ELSE IF sh # {} THEN 16 * Cardinality(sh) + 1 ELSE 0

Init ==
    /\ l = 0 /\ ex = {} /\ sh = {} /\ queue = {}
    /\ pc = [t \in Threads |-> "idle"]
    /\ seen = [t \in Threads |-> 0] /\ ts = [t \in Threads |-> 0]
    /\ now = 0 /\ ncalls = [t \in Threads |-> 0] /\ wrong = FALSE

Go(t, where) == pc' = [pc EXCEPT ![t] = where]
Begin(t) == pc[t] = "idle" /\ ncalls[t] < MaxCalls /\ ncalls' = [ncalls EXCEPT ![t] = @ + 1]
srw == <<ex, sh, queue, seen, ts, wrong>>
-----------------------------------------------------------------------------
(* pthread_spinlock_t.                                                     *)

\* pthread_spin_lock(): the exchange stores EBUSY whether the lock was free or not
SpinExchange(t) ==
    /\ \/ Begin(t)
       \/ pc[t] = "spin_again" /\ UNCHANGED ncalls
    /\ l' = EBUSY
    /\ Go(t, IF l = 0 THEN "spin_held" ELSE "spin_wait")
    /\ UNCHANGED <<srw, now>>
SpinRead(t) ==
    /\ pc[t] = "spin_wait" /\ l = 0
    /\ Go(t, "spin_again")
    /\ UNCHANGED <<l, srw, now, ncalls>>

\* pthread_spin_trylock() returns what the word was
SpinTryLock(t) ==
    /\ Begin(t) /\ l' = EBUSY
    /\ Go(t, IF l = 0 THEN "spin_held" ELSE "idle")
    /\ UNCHANGED <<srw, now>>

SpinUnlock(t) ==
    /\ pc[t] = "spin_held" /\ l' = 0
    /\ Go(t, "idle")
    /\ UNCHANGED <<srw, now, ncalls>>
-----------------------------------------------------------------------------
(* SRWLOCK.                                                                *)

\* the system: a lock is granted when the owners allow it, and to a newcomer only
\* when nobody sleeps
Grant(t, how) ==
    IF how = "rd" THEN ex = {} /\ sh' = sh \cup {t} /\ UNCHANGED ex
                  ELSE ex = {} /\ sh = {} /\ ex' = {t} /\ UNCHANGED sh

\* pthread_rwlock_rdlock() and pthread_rwlock_wrlock()
Acquire(t, how) ==
    /\ Begin(t)
    /\ \/ queue = {} /\ Grant(t, how) /\ Go(t, "held") /\ UNCHANGED queue
       \/ /\ queue # {} \/ ex # {} \/ (how = "wr" /\ sh # {})
          /\ queue' = queue \cup {<<t, how>>} /\ Go(t, "asleep") /\ UNCHANGED <<ex, sh>>
    /\ UNCHANGED <<l, seen, ts, now, wrong>>
Awake(t, how) ==
    /\ pc[t] = "asleep" /\ <<t, how>> \in queue /\ Grant(t, how)
    /\ queue' = queue \ {<<t, how>>} /\ Go(t, "held")
    /\ UNCHANGED <<l, seen, ts, now, ncalls, wrong>>

\* pthread_rwlock_tryrdlock(): the word is read, and tested
TryRdRead(t, where) ==
    /\ seen' = [seen EXCEPT ![t] = Word]
    /\ Go(t, IF Word = 1 \/ (Word % 16) \div 2 # 0 THEN where ELSE "try_cas")

\* then exchanged for one with a reader more, if it has not changed
TryRdExchange(t, where) ==
    IF Word = seen[t] THEN sh' = sh \cup {t} /\ Go(t, "held")
                      ELSE UNCHANGED sh /\ Go(t, where)

\* pthread_rwlock_trywrlock()
TryWrExchange(t, where) ==
    IF Word = 0 THEN ex' = {t} /\ Go(t, "held") ELSE UNCHANGED ex /\ Go(t, where)

\* where a try that fails leads: back to the caller, or to the clock of the timed
\* call
Failed(t, how) == IF ts[t] = 0 THEN "idle" ELSE how

TryRdLock(t) ==
    /\ \/ Begin(t) /\ \E d \in Deadlines \cup {0} : ts' = [ts EXCEPT ![t] = d]
       \/ pc[t] = "timed_rd" /\ UNCHANGED <<ts, ncalls>>
    /\ TryRdRead(t, IF ts'[t] = 0 THEN "idle" ELSE "clock_rd")
    /\ UNCHANGED <<l, ex, sh, queue, now, wrong>>
TryRdCas(t) ==
    /\ pc[t] = "try_cas" /\ TryRdExchange(t, Failed(t, "clock_rd"))
    /\ UNCHANGED <<l, ex, queue, seen, ts, now, ncalls, wrong>>
TryWrLock(t) ==
    /\ \/ Begin(t) /\ \E d \in Deadlines \cup {0} : ts' = [ts EXCEPT ![t] = d]
       \/ pc[t] = "timed_wr" /\ UNCHANGED <<ts, ncalls>>
    /\ TryWrExchange(t, IF ts'[t] = 0 THEN "idle" ELSE "clock_wr")
    /\ UNCHANGED <<l, sh, queue, seen, now, wrong>>

\* pthread_rwlock_timedrdlock() and pthread_rwlock_timedwrlock(): after each try the
\* clock says whether there is another
TimedRdLock(t) ==
    /\ pc[t] = "clock_rd" /\ Go(t, IF now > ts[t] THEN "ETIMEDOUT" ELSE "timed_rd")
    /\ UNCHANGED <<l, srw, now, ncalls>>
TimedWrLock(t) ==
    /\ pc[t] = "clock_wr" /\ Go(t, IF now > ts[t] THEN "ETIMEDOUT" ELSE "timed_wr")
    /\ UNCHANGED <<l, srw, now, ncalls>>
Return(t) ==
    /\ pc[t] = "ETIMEDOUT" /\ Go(t, "idle")
    /\ UNCHANGED <<l, srw, now, ncalls>>

\* pthread_rwlock_unlock() tells from the word how the lock is held; with waiters
\* it cannot, and the shared release of the system works for both
UnlockRead(t) ==
    /\ pc[t] = "held" /\ Go(t, "release")
    /\ seen' = [seen EXCEPT ![t] = Word]
    /\ UNCHANGED <<l, ex, sh, queue, ts, now, ncalls, wrong>>
Release(t) ==
    /\ pc[t] = "release" /\ Go(t, "idle")
    /\ wrong' = (wrong \/ IF seen[t] = 1 THEN t \notin ex ELSE t \in ex /\ Word = 1)
    /\ ex' = ex \ {t} /\ sh' = sh \ {t}
    /\ UNCHANGED <<l, queue, seen, ts, now, ncalls>>

Tick == now < MaxTime /\ now' = now + 1 /\ UNCHANGED <<l, srw, pc, ncalls>>

Next ==
    \/ \E t \in Threads :
         \/ SpinExchange(t) \/ SpinRead(t) \/ SpinTryLock(t) \/ SpinUnlock(t)
         \/ \E how \in {"rd", "wr"} : Acquire(t, how) \/ Awake(t, how)
         \/ TryRdLock(t) \/ TryRdCas(t) \/ TryWrLock(t)
         \/ TimedRdLock(t) \/ TimedWrLock(t) \/ Return(t) \/ UnlockRead(t) \/ Release(t)
    \/ Tick

Spec == Init /\ [][Next]_vars
-----------------------------------------------------------------------------
\* The emulation's own reading of the two lock words is right: one thread holds the
\* spin lock; a writer that the system or the compare-and-swap let in is alone; each
\* owner is released the way it was let in, or shared while others wait; and a timed
\* lock gives up only after its deadline.
WordsExclusive ==
    /\ Cardinality({t \in Threads : pc[t] = "spin_held"}) <= 1
    /\ Cardinality(ex) <= 1 /\ (ex # {} => sh = {})
    /\ {t \in Threads : pc[t] \in {"held", "release"}} = ex \cup sh
    /\ ~wrong
    /\ \A t \in Threads : pc[t] = "ETIMEDOUT" => now > ts[t]
=============================================================================
