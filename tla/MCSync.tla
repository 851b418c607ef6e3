------------------------------- MODULE MCSync --------------------------------
(***************************************************************************)
(* What threads wait on, checked side by side: the semaphore of            *)
(* libdispatch, and the POSIX threads, locks and keys that libdispatch     *)
(* brings along for Windows.  They share no state, and part says which of  *)
(* them a behaviour is about.                                              *)
(***************************************************************************)
EXTENDS DispatchSemaphore

CONSTANT NULL

VARIABLES part,
          tv, main, run, _pthread_cancelling, cancels, failures, once, inits, uaf, tls,
          sc, mutex, waiters_count_, release_count_, wait_generation_count_, event_, waiter, wakes, owed,
          r_ct, w_pending, w_ct, w_id, rpc, locks,
          dest, key_max, key_sch, keyval, live, creates, exiting, round, called,
          spinlock, ex, sh, queue, wpc, seen, wts, wnow, wcalls, wrong,
          owner, depth, msem, mpc, mts, end, mnow, mcalls,
          mattr, tattr, kept

threadVars == <<tv, main, run, _pthread_cancelling, cancels, failures, once, inits, uaf, tls>>
condVars == <<sc, mutex, waiters_count_, release_count_, wait_generation_count_, event_, waiter, wakes,
              owed>>
rwlockVars == <<r_ct, w_pending, w_ct, w_id, rpc, locks>>
keysVars == <<dest, key_max, key_sch, keyval, live, creates, exiting, round, called>>
wordVars == <<spinlock, ex, sh, queue, wpc, seen, wts, wnow, wcalls, wrong>>
mutexVars == <<owner, depth, msem, mpc, mts, end, mnow, mcalls>>
attrVars == <<mattr, tattr, kept>>

lockVars == <<condVars, rwlockVars, wordVars, mutexVars, attrVars>>
winVars == <<threadVars, lockVars, keysVars>>
-----------------------------------------------------------------------------
Attributes == [detach : {{}, {"PTHREAD_CREATE_DETACHED"}}, type : {{}, {"PTHREAD_CANCEL_ASYNCHRONOUS"}}]
Waits == {[waiters |-> Threads, calls |-> {"broadcast"}],
          [waiters |-> {CHOOSE t \in Threads : TRUE}, calls |-> {"signal"}]}

Thread == INSTANCE WinThread WITH Threads <- {"t1", "t2"}, Requests <- Attributes, MaxFailures <- 1,
              MaxCancels <- 1,
              KeyThreads <- {"t1"}, Values <- {1}, Destructors <- {"once", "again"},
              PTHREAD_KEYS_MAX <- 5, PTHREAD_DESTRUCTOR_ITERATIONS <- 3, MaxCreates <- 4
Cond == INSTANCE WinCond WITH w <- waiter, Scenarios <- Waits, MaxWakes <- 2
RwLock == INSTANCE WinRwLock WITH pc <- rpc, MaxLocks <- 2
Words == INSTANCE WinLockWords WITH l <- spinlock, pc <- wpc, ts <- wts, now <- wnow, ncalls <- wcalls,
             Deadlines <- {1}, MaxCalls <- 1, MaxTime <- 2
Mutex == INSTANCE WinMutex WITH sem <- msem, pc <- mpc, ts <- mts, now <- mnow, ncalls <- mcalls,
             Timespecs <- {[tv_sec |-> 0, tv_nsec |-> 3]}, MSEC_PER_SEC <- 2, NSEC_PER_MSEC <- 2,
             MaxTime <- 3, MaxCalls <- 2, a <- mattr, attr <- tattr,
             MutexValues <- {0, 1, 3, 4, 5, 8, 16, 24}, StackValues <- {0, 1, 2}, PTHREAD_PRIO_MULT <- 32
-----------------------------------------------------------------------------
AllInit ==
    /\ part \in {"semaphore", "thread", "cond", "rwlock", "words", "mutex", "attrs", "keys"}
    /\ Init /\ Thread!Init /\ Cond!Init /\ RwLock!Init /\ Words!Init /\ Mutex!Init /\ Mutex!AttrInit
    /\ part = "cond" \/ sc.calls = {"signal"}

LockNext ==
    \/ part = "cond" /\ Cond!Next /\ UNCHANGED <<rwlockVars, wordVars, mutexVars, attrVars>>
    \/ part = "rwlock" /\ RwLock!Next /\ UNCHANGED <<condVars, wordVars, mutexVars, attrVars>>
    \/ part = "words" /\ Words!Next /\ UNCHANGED <<condVars, rwlockVars, mutexVars, attrVars>>
    \/ part = "mutex" /\ Mutex!Next /\ UNCHANGED <<condVars, rwlockVars, wordVars, attrVars>>
    \/ part = "attrs" /\ Mutex!AttrNext /\ UNCHANGED <<condVars, rwlockVars, wordVars, mutexVars>>

WinNext ==
    \/ part = "thread" /\ Thread!Next /\ UNCHANGED lockVars
    \/ LockNext /\ UNCHANGED <<threadVars, keysVars>>
    \/ part = "keys" /\ Thread!KeysNext /\ UNCHANGED lockVars

AllNext ==
    /\ part' = part
    /\ \/ part = "semaphore" /\ Next /\ UNCHANGED winVars
       \/ WinNext /\ UNCHANGED vars

\* Only the semaphore is checked for what must happen: a thread inside of a call
\* keeps running.
AllSpec == AllInit /\ [][AllNext]_<<part, vars, winVars>> /\ Fairness
-----------------------------------------------------------------------------


\* No reader passes a waiting writer, and an exiting thread leaves no value whose
\* destructor has not been called.
WinOrder == RwLock!WriterFirst /\ Thread!DestructorsRan
=============================================================================
