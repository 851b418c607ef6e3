------------------------------- MODULE WinCond -------------------------------
(***************************************************************************)
(* pthread_cond_t on Windows XP (platform/windows/                         *)
(* pthread_cond_variables.h): a manual-reset event, a count of waiters, of *)
(* threads to release and a generation.  What is done under                *)
(* waiters_count_lock_ is one step.                                        *)
(***************************************************************************)
EXTENDS Integers, FiniteSets

CONSTANTS Scenarios,    \* the threads that wait, holding the external mutex, and
                        \* the calls made: a subset of {"signal", "broadcast"}
          MaxWakes,     \* how many calls
          NULL

VARIABLES sc, mutex, waiters_count_, release_count_, wait_generation_count_, event_,
          w, wakes, owed

vars == <<sc, mutex, waiters_count_, release_count_, wait_generation_count_, event_, w, wakes, owed>>

Init ==
    /\ sc \in Scenarios
    /\ mutex = NULL
    /\ waiters_count_ = 0 /\ release_count_ = 0 /\ wait_generation_count_ = 0
    /\ event_ = FALSE
    /\ w = [t \in sc.waiters |-> [pc |-> "run", my_generation |-> 0]]
    /\ wakes = 0
    /\ owed = {}

Enter(t) ==
    /\ w[t].pc = "run" /\ mutex = NULL /\ mutex' = t
    /\ w' = [w EXCEPT ![t] = [pc |-> "unlock", my_generation |-> wait_generation_count_]]
    /\ waiters_count_' = waiters_count_ + 1
    /\ UNCHANGED <<sc, release_count_, wait_generation_count_, event_, wakes, owed>>

LeaveMutex(t) ==
    /\ w[t].pc = "unlock" /\ mutex' = NULL
    /\ w' = [w EXCEPT ![t].pc = "block"]
    /\ UNCHANGED <<sc, waiters_count_, release_count_, wait_generation_count_, event_, wakes, owed>>

\* WaitForSingleObject()
Woken(t) ==
    /\ w[t].pc = "block" /\ event_
    /\ w' = [w EXCEPT ![t].pc = "check"]
    /\ UNCHANGED <<sc, mutex, waiters_count_, release_count_, wait_generation_count_, event_, wakes, owed>>

Check(t) ==
    /\ w[t].pc = "check"
    /\ w' = [w EXCEPT ![t].pc = IF release_count_ > 0 /\ wait_generation_count_ # w[t].my_generation
                                THEN "relock" ELSE "block"]
    /\ UNCHANGED <<sc, mutex, waiters_count_, release_count_, wait_generation_count_, event_, wakes, owed>>

\* The mutex is taken again and the release used up
Leave(t) ==
    /\ w[t].pc = "relock" /\ mutex = NULL /\ mutex' = t
    /\ waiters_count_' = waiters_count_ - 1
    /\ release_count_' = release_count_ - 1
    /\ w' = [w EXCEPT ![t].pc = IF release_count_ = 1 THEN "reset" ELSE "done"]
    /\ owed' = owed \ {t}
    /\ UNCHANGED <<sc, wait_generation_count_, event_, wakes>>
Reset(t) ==
    /\ w[t].pc = "reset" /\ event_' = FALSE
    /\ w' = [w EXCEPT ![t].pc = "done"]
    /\ UNCHANGED <<sc, mutex, waiters_count_, release_count_, wait_generation_count_, wakes, owed>>
Done(t) ==
    /\ w[t].pc = "done" /\ mutex' = NULL
    /\ w' = [w EXCEPT ![t].pc = "run"]
    /\ UNCHANGED <<sc, waiters_count_, release_count_, wait_generation_count_, event_, wakes, owed>>

Waiting(t) == w[t].pc \in {"unlock", "block", "check"}

\* Callers hold the external mutex.
Signal ==
    /\ "signal" \in sc.calls /\ wakes < MaxWakes /\ wakes' = wakes + 1 /\ mutex = NULL
    /\ IF waiters_count_ > release_count_
       THEN /\ event_' = TRUE
            /\ release_count_' = release_count_ + 1
            /\ wait_generation_count_' = wait_generation_count_ + 1
       ELSE UNCHANGED <<event_, release_count_, wait_generation_count_>>
    /\ UNCHANGED <<sc, mutex, waiters_count_, w, owed>>


Broadcast ==
    /\ "broadcast" \in sc.calls /\ wakes < MaxWakes /\ wakes' = wakes + 1 /\ mutex = NULL
    /\ IF waiters_count_ > 0
       THEN /\ event_' = TRUE
            /\ release_count_' = waiters_count_
            /\ wait_generation_count_' = wait_generation_count_ + 1
       ELSE UNCHANGED <<event_, release_count_, wait_generation_count_>>
    /\ owed' = owed \cup {t \in sc.waiters : Waiting(t)}
    /\ UNCHANGED <<sc, mutex, waiters_count_, w>>

Next ==
    \/ \E t \in sc.waiters : \/ Enter(t) \/ LeaveMutex(t) \/ Woken(t) \/ Check(t)
                          \/ Leave(t) \/ Reset(t) \/ Done(t)
    \/ Signal \/ Broadcast

Spec == Init /\ [][Next]_vars
-----------------------------------------------------------------------------
\* "Number of threads to release": release_count_ is never negative and never
\* more than the waiters.
ReleaseCount == 0 <= release_count_ /\ release_count_ <= waiters_count_

\* No thread takes a release of the broadcast that another waiter is owed: while
\* a waiter of an earlier generation is blocked, a release is left for it and the
\* event it waits for is set.
BroadcastReaches ==
    \A t \in owed : Waiting(t) =>
       release_count_ >= Cardinality(owed) /\ (event_ \/ w[t].pc = "check")
=============================================================================
