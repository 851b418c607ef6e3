------------------------------ MODULE WinMutex -------------------------------
(***************************************************************************)
(* pthread_mutex_t on a CRITICAL_SECTION (platform/windows/pthread_mutex.h) *)
(* and pthread_cond_t on a CONDITION_VARIABLE (the second half of          *)
(* pthread_cond_variables.h).  The two system objects are modelled by what *)
(* the emulation needs of them: a release signals the semaphore inside of  *)
(* the critical section when a thread sleeps on it, a thread that was      *)
(* signalled tries again and may find the section taken.                   *)
(* pthread_mutex_timedlock() waits on that semaphore itself, unseen by the *)
(* system.                                                                 *)
(* The attributes of mutexes and of threads (pthread_create.h) are a state *)
(* machine of their own, AttrInit and AttrNext: a mutex attribute packs    *)
(* its type, whether it is shared, its protocol and its priority ceiling   *)
(* in one word; p_state of a thread attribute packs single flags.          *)
(***************************************************************************)
EXTENDS Integers, FiniteSets

CONSTANTS Threads,
          Timespecs,       \* [tv_sec, tv_nsec] that timed calls are given
          MSEC_PER_SEC,    \* 1000 and 1000000 of the code
          NSEC_PER_MSEC,
          MaxTime,         \* bound of the clock, in its finest unit
          MaxCalls,        \* calls of a thread that take the mutex or wait
          MutexValues,     \* per setter of an attribute, the values that it is called with
          StackValues,     \* stack addresses and sizes
          PTHREAD_PRIO_MULT,
          NULL

VARIABLES owner, depth,    \* of the critical section
          sem,             \* its semaphore: "none" until a thread has slept, or a count
          pc, ts, end,     \* of a thread; end is when the system ends its sleep
          now,             \* the clock, in nanoseconds
          ncalls,
          a, attr,         \* the attributes of mutexes and threads
          kept             \* history: what the accepted calls have asked for

vars == <<owner, depth, sem, pc, ts, end, now, ncalls>>

Free == owner = NULL

Init ==
    /\ owner = NULL /\ depth = 0 /\ sem = -1
    /\ pc = [t \in Threads |-> "idle"]
    /\ ts = [t \in Threads |-> NULL] /\ end = [t \in Threads |-> 0]
    /\ now = 0 /\ ncalls = [t \in Threads |-> 0]

_pthread_time_in_ms == now \div NSEC_PER_MSEC
_pthread_time_in_ms_from_timespec(s) == s.tv_sec * MSEC_PER_SEC + s.tv_nsec \div NSEC_PER_MSEC
_pthread_rel_time_in_ms(s) ==
    LET t1 == _pthread_time_in_ms_from_timespec(s)
        t2 == _pthread_time_in_ms
    IN IF t1 < t2 THEN 1 ELSE t1 - t2

\* the time that a timespec stands for
Deadline(s) == s.tv_sec * MSEC_PER_SEC * NSEC_PER_MSEC + s.tv_nsec

Go(t, where) == pc' = [pc EXCEPT ![t] = where]
Begin(t) == pc[t] = "idle" /\ ncalls[t] < MaxCalls /\ ncalls' = [ncalls EXCEPT ![t] = @ + 1]
CanEnter(t) == Free \/ owner = t
Entered(t) == owner' = t /\ depth' = depth + 1
Sleepers == {t \in Threads : pc[t] \in {"blocked", "cv_blocked", "cv_blocked_late"}}
-----------------------------------------------------------------------------
(* CRITICAL_SECTION.                                                       *)

\* EnterCriticalSection(): where says what the thread does once it is in
Enter(t, in, blocked) ==
    IF CanEnter(t) THEN Entered(t) /\ Go(t, in) /\ UNCHANGED sem
    ELSE /\ Go(t, blocked) /\ UNCHANGED <<owner, depth>>
         /\ sem' = IF sem = -1 THEN 0 ELSE sem

\* LeaveCriticalSection() of a section held once
Leave == owner' = NULL /\ depth' = 0 /\ sem' = IF Sleepers # {} THEN 1 ELSE sem

pthread_mutex_lock(t) ==
    /\ Begin(t) /\ depth < 2 /\ Enter(t, "idle", "blocked")
    /\ UNCHANGED <<ts, end, now>>

\* a sleeper is signalled, and tries again
Wake(t) ==
    /\ t \in Sleepers /\ sem = 1 /\ sem' = 0
    /\ Go(t, CASE pc[t] = "blocked" -> "retry" [] pc[t] = "cv_blocked" -> "cv_woken"
                                              [] OTHER -> "cv_late")
    /\ UNCHANGED <<owner, depth, ts, end, now, ncalls>>
Retry(t) ==
    /\ pc[t] = "retry" /\ Enter(t, "idle", "blocked")
    /\ UNCHANGED <<ts, end, now, ncalls>>

pthread_mutex_trylock(t) ==
    /\ Begin(t) /\ depth < 2
    /\ CanEnter(t) /\ Entered(t)
    /\ UNCHANGED <<sem, pc, ts, end, now>>

pthread_mutex_unlock(t) ==
    /\ owner = t /\ pc[t] = "idle"
    /\ IF depth = 1 THEN Leave ELSE depth' = depth - 1 /\ UNCHANGED <<owner, sem>>
    /\ UNCHANGED <<pc, ts, end, now, ncalls>>

\* pthread_mutex_timedlock() tries first
pthread_mutex_timedlock(t) ==
    /\ Begin(t) /\ depth < 2 /\ ts' \in {[ts EXCEPT ![t] = s] : s \in Timespecs}
    /\ IF CanEnter(t) THEN Entered(t) /\ UNCHANGED pc ELSE Go(t, "timed") /\ UNCHANGED <<owner, depth>>
    /\ UNCHANGED <<sem, end, now>>

\* "Have we waited long enough?"
TimedClock(t) ==
    /\ pc[t] = "timed"
    /\ Go(t, IF _pthread_time_in_ms > _pthread_time_in_ms_from_timespec(ts[t]) THEN "ETIMEDOUT" ELSE "sem_wait")
    /\ UNCHANGED <<owner, depth, sem, ts, end, now, ncalls>>

\* WaitForSingleObject() of the section's semaphore: it is signalled, the time is
\* up, or there is no semaphore yet
TimedWait(t) ==
    /\ pc[t] = "sem_wait" /\ Go(t, "timed_try")
    /\ \/ sem = 1 /\ sem' = 0
       \/ sem = -1 /\ UNCHANGED sem
       \/ _pthread_time_in_ms >= _pthread_time_in_ms_from_timespec(ts[t]) /\ UNCHANGED sem
    /\ UNCHANGED <<owner, depth, ts, end, now, ncalls>>

TimedTry(t) ==
    /\ pc[t] = "timed_try"
    /\ IF CanEnter(t) THEN Entered(t) /\ Go(t, "idle") ELSE Go(t, "timed") /\ UNCHANGED <<owner, depth>>
    /\ UNCHANGED <<sem, ts, end, now, ncalls>>
-----------------------------------------------------------------------------
(* CONDITION_VARIABLE.                                                     *)

\* pthread_cond_wait(): the section is left as the thread goes to sleep
pthread_cond_wait(t) ==
    /\ owner = t /\ depth = 1 /\ Begin(t)
    /\ ts' = [ts EXCEPT ![t] = NULL] /\ Go(t, "cv_sleep") /\ Leave
    /\ UNCHANGED <<end, now>>
pthread_cond_timedwait(t) ==
    /\ owner = t /\ depth = 1 /\ Begin(t)
    /\ \E s \in Timespecs :
         /\ ts' = [ts EXCEPT ![t] = s]
         /\ end' = [end EXCEPT ![t] = now + _pthread_rel_time_in_ms(s) * NSEC_PER_MSEC]
    /\ Go(t, "cv_sleep") /\ Leave
    /\ UNCHANGED now

\* pthread_cond_signal() and pthread_cond_broadcast()
Signal(c) ==
    /\ Begin(c)
    /\ \E t \in Threads : pc[t] = "cv_sleep" /\ Go(t, "cv_woken")
    /\ UNCHANGED <<owner, depth, sem, ts, end, now>>
Broadcast(c) ==
    /\ Begin(c)
    /\ pc' = [t \in Threads |-> IF pc[t] = "cv_sleep" THEN "cv_woken" ELSE pc[t]]
    /\ UNCHANGED <<owner, depth, sem, ts, end, now>>

SleepEnds(t) ==
    /\ pc[t] = "cv_sleep" /\ ts[t] # NULL /\ now >= end[t]
    /\ Go(t, "cv_late")
    /\ UNCHANGED <<owner, depth, sem, ts, end, now, ncalls>>

\* the section is entered again, whatever ended the sleep
Reenter(t) ==
    /\ \/ pc[t] = "cv_woken" /\ Enter(t, "cv_return", "cv_blocked")
       \/ pc[t] = "cv_late" /\ Enter(t, "ETIMEDOUT", "cv_blocked_late")
    /\ UNCHANGED <<ts, end, now, ncalls>>

\* "We can have a spurious wakeup after the timeout"
CondReturn(t) ==
    /\ pc[t] = "cv_return"
    /\ Go(t, IF ts[t] # NULL /\ _pthread_rel_time_in_ms(ts[t]) = 0 THEN "ETIMEDOUT" ELSE "idle")
    /\ UNCHANGED <<owner, depth, sem, ts, end, now, ncalls>>

Return(t) ==
    /\ pc[t] = "ETIMEDOUT" /\ Go(t, "idle") /\ ts' = [ts EXCEPT ![t] = NULL] /\ end' = [end EXCEPT ![t] = 0]
    /\ UNCHANGED <<owner, depth, sem, now, ncalls>>

Tick == now < MaxTime /\ now' = now + 1 /\ UNCHANGED <<owner, depth, sem, pc, ts, end, ncalls>>

Next ==
    \/ \E t \in Threads :
         \/ pthread_mutex_lock(t) \/ Wake(t) \/ Retry(t) \/ pthread_mutex_trylock(t) \/ pthread_mutex_unlock(t)
         \/ pthread_mutex_timedlock(t) \/ TimedClock(t) \/ TimedWait(t) \/ TimedTry(t)
         \/ pthread_cond_wait(t) \/ pthread_cond_timedwait(t) \/ Signal(t) \/ Broadcast(t) \/ SleepEnds(t)
         \/ Reenter(t) \/ CondReturn(t) \/ Return(t)
    \/ Tick

-----------------------------------------------------------------------------
\* pthread_mutex_timedlock() may take the signal that a release meant for a thread
\* that sleeps in pthread_mutex_lock(), and still nobody is forgotten: when the mutex
\* is free and threads sleep on it, the signal is there or a thread that took it is
\* about to try the mutex, and will signal in turn.
SignalPassedOn ==
    Free /\ Sleepers # {} =>
      sem = 1 \/ \E t \in Threads : pc[t] \in {"retry", "timed_try", "cv_woken", "cv_late"}

\* A timed call gives up after its time, the lock to the nanosecond, the wait for a
\* condition to the millisecond that its time falls in, and a wait for a condition
\* returns with the mutex held, in time or late.
TimedCallsRight ==
    \A t \in Threads :
      /\ pc[t] = "ETIMEDOUT" =>
           IF owner = t THEN _pthread_time_in_ms >= _pthread_time_in_ms_from_timespec(ts[t])
                        ELSE now > Deadline(ts[t])
      /\ pc[t] = "cv_return" => owner = t
-----------------------------------------------------------------------------
(* Attributes.                                                             *)

\* p_state is a set of flags, one of which each setter is about
Flags == {"PTHREAD_CREATE_DETACHED", "PTHREAD_INHERIT_SCHED", "PTHREAD_SCOPE_SYSTEM"}

\* pthread_mutexattr_init() and pthread_attr_init()
AttrInit ==
    /\ a = 0
    /\ attr = [p_state |-> {"PTHREAD_CANCEL_ENABLE"}, stack |-> 0, s_size |-> 0]
    /\ kept = [type |-> 0, pshared |-> 0, protocol |-> 0, prioceiling |-> 0, flags |-> {}, stack |-> 0, s_size |-> 0]
-----------------------------------------------------------------------------
gettype == a % 4
getpshared == (a % 8) - gettype
getprotocol == (a % 32) - (a % 8)
getprioceiling == a \div PTHREAD_PRIO_MULT

Keep(field, v) == kept' = [kept EXCEPT ![field] = v]

\* a setter returns EINVAL for a value outside of its bits, and replaces them
settype(v) ==
    /\ v \in 0 .. 3
    /\ a' = a - gettype + v
    /\ Keep("type", v) /\ UNCHANGED attr
setpshared(v) ==
    /\ v \in {0, 4}
    /\ a' = a - getpshared + v
    /\ Keep("pshared", v) /\ UNCHANGED attr

\* of the three protocols there are, 0, 8 and 16, the test lets none pass
setprotocol(v) ==
    /\ v = 8 + 16
    /\ a' = a - getprotocol + v
    /\ Keep("protocol", v) /\ UNCHANGED attr
setprioceiling(v) ==
    /\ a' = (a % PTHREAD_PRIO_MULT) + v * PTHREAD_PRIO_MULT
    /\ Keep("prioceiling", v) /\ UNCHANGED attr
-----------------------------------------------------------------------------
_pthread_get_state(flag) == attr.p_state \cap {flag}
_pthread_set_state(flag, val) == attr' = [attr EXCEPT !.p_state = (@ \ {flag}) \cup val]

setdetachstate(val) == _pthread_set_state("PTHREAD_CREATE_DETACHED", val)
setinheritsched(val) == _pthread_set_state("PTHREAD_INHERIT_SCHED", val)
setscope(val) == _pthread_set_state("PTHREAD_SCOPE_SYSTEM", val)

\* the three setters of a flag, with the flag or without it; others are refused
SetFlag ==
    /\ \E flag \in Flags : \E val \in SUBSET {flag} :
         /\ CASE flag = "PTHREAD_CREATE_DETACHED" -> setdetachstate(val)
              [] flag = "PTHREAD_INHERIT_SCHED" -> setinheritsched(val)
              [] OTHER -> setscope(val)
         /\ Keep("flags", (kept.flags \ {flag}) \cup val)
    /\ UNCHANGED a
setstackaddr(stack) ==
    attr' = [attr EXCEPT !.stack = stack] /\ Keep("stack", stack) /\ UNCHANGED a
setstacksize(size) ==
    attr' = [attr EXCEPT !.s_size = size] /\ Keep("s_size", size) /\ UNCHANGED a

AttrNext ==
    \/ \E v \in MutexValues : settype(v) \/ setpshared(v) \/ setprotocol(v)
    \/ \E v \in StackValues : setprioceiling(v) \/ setstackaddr(v) \/ setstacksize(v)
    \/ SetFlag

attrVars == <<a, attr, kept>>

Spec == /\ Init /\ AttrInit
        /\ [][(Next /\ UNCHANGED attrVars) \/ (AttrNext /\ UNCHANGED vars)]_<<vars, attrVars>>
-----------------------------------------------------------------------------
\* Whatever the setters were called with, and in whatever order, each getter returns
\* what the last call that was accepted asked for: no field of the packed word runs
\* into another.
AttrsKept ==
    /\ gettype = kept.type /\ getpshared = kept.pshared
    /\ getprotocol = kept.protocol /\ getprioceiling = kept.prioceiling
    /\ \A flag \in Flags : _pthread_get_state(flag) = kept.flags \cap {flag}
    /\ attr.stack = kept.stack /\ attr.s_size = kept.s_size
=============================================================================
