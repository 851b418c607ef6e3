---------------------------- MODULE DispatchOnce ----------------------------
(***************************************************************************)
(* dispatch_once_f() (libdispatch/src/once.c) and the macro of the same    *)
(* name in include/dispatch/once.h that tests the predicate before it      *)
(* calls the function.                                                     *)
(***************************************************************************)
EXTENDS Integers, TLAPS

CONSTANT Threads

VARIABLES val,          \* the predicate
          pc,           \* where each thread is
          ran,          \* how often the function has run
          returned      \* whether some call has returned

vars == <<val, pc, ran, returned>>

\* ~0l
Done == -1

Init == /\ val = 0
        /\ pc = [t \in Threads |-> "idle"]
        /\ ran = 0
        /\ returned = FALSE

Goto(t, l) == pc' = [pc EXCEPT ![t] = l]

ReturnTo(t) == Goto(t, "idle") /\ returned' = TRUE

\* The macro: skip the call if the predicate is already ~0l.
CheckPredicate(t) ==
    /\ pc[t] = "idle"
    /\ IF val = Done THEN ReturnTo(t) ELSE Goto(t, "call") /\ UNCHANGED returned
    /\ UNCHANGED <<val, ran>>

CompareAndSwap(t) ==
    /\ pc[t] = "call"
    /\ IF val = 0 THEN val' = 1 /\ Goto(t, "func") ELSE UNCHANGED val /\ Goto(t, "spin")
    /\ UNCHANGED <<ran, returned>>

RunFunc(t) ==
    /\ pc[t] = "func"
    /\ ran' = ran + 1
    /\ Goto(t, "publish")
    /\ UNCHANGED <<val, returned>>

Publish(t) ==
    /\ pc[t] = "publish"
    /\ val' = Done
    /\ ReturnTo(t)
    /\ UNCHANGED ran

\* The losers spin until the winner has published ~0l.
Spin(t) ==
    /\ pc[t] = "spin"
    /\ val = Done
    /\ ReturnTo(t)
    /\ UNCHANGED <<val, ran>>

Step(t) == CompareAndSwap(t) \/ RunFunc(t) \/ Publish(t) \/ Spin(t)

Next == \E t \in Threads : CheckPredicate(t) \/ Step(t)

Spec == Init /\ [][Next]_vars

-----------------------------------------------------------------------------
TypeOK == /\ val \in {0, 1, Done}
          /\ pc \in [Threads -> {"idle", "call", "func", "publish", "spin"}]
          /\ ran \in Nat
          /\ returned \in BOOLEAN

\* "Execute a block once and only once" (include/dispatch/once.h): the function
\* runs at most once, and has completed before any call returns, whichever of
\* the macro, the winner or a spinning loser returns.
OnceAndOnlyOnce == ran <= 1 /\ (returned => ran = 1)

-----------------------------------------------------------------------------
(* The predicate says how far the winner is, and there is one winner.      *)

Inv ==
    /\ TypeOK
    /\ val = 0 => ran = 0 /\ ~returned
                  /\ \A t \in Threads : pc[t] \in {"idle", "call"}
    /\ val = 1 => ~returned /\ \E w \in Threads :
                     /\ \/ pc[w] = "func" /\ ran = 0
                        \/ pc[w] = "publish" /\ ran = 1
                     /\ \A t \in Threads : t # w => pc[t] \in {"idle", "call", "spin"}
    /\ val = Done => ran = 1
                     /\ \A t \in Threads : pc[t] \in {"idle", "call", "spin"}

\* The invariant holds initially: nobody has called yet.
LEMMA InitInv == Init => Inv
<1> SUFFICES ASSUME Init PROVE Inv
  OBVIOUS
<1>1. TypeOK
  BY DEF Init, TypeOK
<1>2. val # 1 /\ val # Done /\ ran = 0 /\ ~returned
  BY DEF Init, Done
<1>3. \A t \in Threads : pc[t] \in {"idle", "call"}
  BY DEF Init
<1> QED
  BY <1>1, <1>2, <1>3 DEF Inv

\* Every step of the macro and of dispatch_once_f() preserves the invariant.
LEMMA NextInv == Inv /\ [Next]_vars => Inv'
<1> SUFFICES ASSUME Inv, [Next]_vars PROVE Inv'
  OBVIOUS
<1> USE DEF Inv, TypeOK, Done, Goto, ReturnTo
<1>1. ASSUME NEW t \in Threads, CheckPredicate(t) PROVE Inv'
  BY <1>1 DEF CheckPredicate
<1>2. ASSUME NEW t \in Threads, CompareAndSwap(t) PROVE Inv'
  <2>1. CASE val = 0
    BY <1>2, <2>1 DEF CompareAndSwap
  <2>2. CASE val = 1
    BY <1>2, <2>2 DEF CompareAndSwap
  <2>3. CASE val = Done
    BY <1>2, <2>3 DEF CompareAndSwap
  <2> QED
    BY <2>1, <2>2, <2>3
<1>3. ASSUME NEW t \in Threads, RunFunc(t) PROVE Inv'
  <2>1. val = 1 /\ ran = 0
    BY <1>3 DEF RunFunc
  <2> QED
    BY <1>3, <2>1 DEF RunFunc
<1>4. ASSUME NEW t \in Threads, Publish(t) PROVE Inv'
  <2>1. val = 1 /\ ran = 1 /\ \A u \in Threads : u # t => pc[u] \in {"idle", "call", "spin"}
    BY <1>4 DEF Publish
  <2> QED
    BY <1>4, <2>1 DEF Publish
<1>5. ASSUME NEW t \in Threads, Spin(t) PROVE Inv'
  BY <1>5 DEF Spin
<1>6. CASE UNCHANGED vars
  BY <1>6 DEF vars
<1> QED
  BY <1>1, <1>2, <1>3, <1>4, <1>5, <1>6 DEF Next, Step

\* For any set of threads, the function of dispatch_once_f() runs at most once
\* and no call returns before it has run.
THEOREM OnceOnly == Spec => []OnceAndOnlyOnce
<1>1. Inv => OnceAndOnlyOnce
  BY DEF Inv, TypeOK, OnceAndOnlyOnce, Done
<1> QED
  BY InitInv, NextInv, <1>1, PTL DEF Spec
=============================================================================
