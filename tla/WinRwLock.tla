------------------------------ MODULE WinRwLock ------------------------------
(***************************************************************************)
(* pthread_rwlock_t on Windows XP (libpthread_workqueue/src/windows/       *)
(* pthread_rw_lock.h).  Every access is made under the spin lock mtx, so   *)
(* that each locked section is one step; a thread that has to wait gives   *)
(* the spin lock up and tries again.                                       *)
(***************************************************************************)
EXTENDS Integers, FiniteSetTheorems, TLAPS

CONSTANTS Threads, MaxLocks, NULL

VARIABLES r_ct, w_pending, w_ct, w_id, pc, locks

vars == <<r_ct, w_pending, w_ct, w_id, pc, locks>>

Init ==
    /\ r_ct = 0 /\ w_pending = 0 /\ w_ct = 0 /\ w_id = NULL
    /\ pc = [t \in Threads |-> "idle"]
    /\ locks = [t \in Threads |-> 0]

Begin(t) == pc[t] = "idle" /\ locks[t] < MaxLocks /\ locks' = [locks EXCEPT ![t] = @ + 1]

RdLock(t) ==
    /\ \/ Begin(t)
       \/ pc[t] = "rdlock" /\ UNCHANGED locks
    /\ IF w_ct > 0 \/ w_pending > 0
       THEN pc' = [pc EXCEPT ![t] = "rdlock"] /\ UNCHANGED r_ct
       ELSE pc' = [pc EXCEPT ![t] = "reading"] /\ r_ct' = r_ct + 1
    /\ UNCHANGED <<w_pending, w_ct, w_id>>

TryRdLock(t) ==
    /\ Begin(t)
    /\ w_ct = 0 /\ w_pending = 0
    /\ pc' = [pc EXCEPT ![t] = "reading"] /\ r_ct' = r_ct + 1
    /\ UNCHANGED <<w_pending, w_ct, w_id>>

\* Mutant: a writer that has to wait is not counted as pending.
WrLockUncounted(t) ==
    /\ \/ Begin(t)
       \/ pc[t] = "wrlock" /\ r_ct = 0 /\ w_ct = 0 /\ UNCHANGED locks
    /\ IF r_ct > 0 \/ w_ct > 0
       THEN pc' = [pc EXCEPT ![t] = "wrlock"] /\ UNCHANGED <<w_ct, w_id>>
       ELSE pc' = [pc EXCEPT ![t] = "writing"] /\ w_ct' = w_ct + 1 /\ w_id' = t
    /\ UNCHANGED <<r_ct, w_pending>>

WrLock(t) ==
    /\ \/ Begin(t) /\ w_pending' = w_pending + (IF r_ct > 0 \/ w_ct > 0 THEN 1 ELSE 0)
       \/ pc[t] = "wrlock" /\ r_ct = 0 /\ w_ct = 0 /\ w_pending' = w_pending - 1 /\ UNCHANGED locks
    /\ IF r_ct > 0 \/ w_ct > 0
       THEN pc' = [pc EXCEPT ![t] = "wrlock"] /\ UNCHANGED <<w_ct, w_id>>
       ELSE pc' = [pc EXCEPT ![t] = "writing"] /\ w_ct' = w_ct + 1 /\ w_id' = t
    /\ UNCHANGED r_ct

TryWrLock(t) ==
    /\ Begin(t)
    /\ r_ct = 0 /\ w_ct = 0
    /\ pc' = [pc EXCEPT ![t] = "writing"] /\ w_ct' = w_ct + 1 /\ w_id' = t
    /\ UNCHANGED <<r_ct, w_pending>>

\* the thread in w_id is the writer; any other is a reader
Unlock(t) ==
    /\ pc[t] \in {"reading", "writing"}
    /\ IF w_id = t THEN w_id' = NULL /\ w_ct' = w_ct - 1 /\ UNCHANGED r_ct
                   ELSE r_ct' = r_ct - 1 /\ UNCHANGED <<w_id, w_ct>>
    /\ pc' = [pc EXCEPT ![t] = "idle"]
    /\ UNCHANGED <<w_pending, locks>>

Next == \E t \in Threads : RdLock(t) \/ TryRdLock(t) \/ WrLock(t) \/ TryWrLock(t) \/ Unlock(t)

Spec == Init /\ [][Next]_vars
-----------------------------------------------------------------------------
\* A writer is alone, and the counters that say so agree with who is inside:
\* unlock tells writers from readers by w_id alone.
WriterAlone ==
    LET writers == {t \in Threads : pc[t] = "writing"}
        readers == {t \in Threads : pc[t] = "reading"}
    IN /\ r_ct = Cardinality(readers)
       /\ w_ct = Cardinality(writers)
       /\ writers # {} => Cardinality(writers) = 1 /\ readers = {}

\* A writer gets past the readers: while it waits no new reader is let in, so that
\* the readers it waits for only become fewer.
WriterFirst ==
    [][(\E t \in Threads : pc[t] = "wrlock") => r_ct' <= r_ct]_vars
-----------------------------------------------------------------------------
(* Proofs, for any set of threads.                                         *)

PC == {"idle", "rdlock", "wrlock", "reading", "writing"}
At(l) == {t \in Threads : pc[t] = l}

\* The inductive invariant: each counter is the number of threads it stands for,
\* and w_id names the thread that writes, which excludes readers.
IInv ==
    /\ pc \in [Threads -> PC]
    /\ r_ct \in Nat /\ w_pending \in Nat
    /\ IsFiniteSet(At("reading")) /\ r_ct = Cardinality(At("reading"))
    /\ IsFiniteSet(At("wrlock")) /\ w_pending = Cardinality(At("wrlock"))
    /\ w_ct = IF w_id = NULL THEN 0 ELSE 1
    /\ At("writing") = IF w_id = NULL THEN {} ELSE {w_id}
    /\ w_id # NULL => r_ct = 0

\* How the set of the threads at a label, and its number, changes when thread t moves.
LEMMA CountMove ==
    ASSUME IInv, NEW t \in Threads, NEW k \in PC, pc' = [pc EXCEPT ![t] = k], NEW l
    PROVE  /\ At(l)' = IF k = l THEN At(l) \cup {t} ELSE At(l) \ {t}
           /\ IsFiniteSet(At(l)) =>
                /\ IsFiniteSet(At(l)') /\ Cardinality(At(l)) \in Nat
                /\ Cardinality(At(l)') = Cardinality(At(l)) + (IF k = l THEN 1 ELSE 0)
                                                           - (IF pc[t] = l THEN 1 ELSE 0)
<1>1. At(l)' = IF k = l THEN At(l) \cup {t} ELSE At(l) \ {t}
  BY DEF At, IInv
<1>2. t \in At(l) <=> pc[t] = l
  BY DEF At
<1>3. ASSUME IsFiniteSet(At(l))
      PROVE  /\ IsFiniteSet(At(l)') /\ Cardinality(At(l)) \in Nat
             /\ Cardinality(At(l)') = Cardinality(At(l)) + (IF k = l THEN 1 ELSE 0)
                                                        - (IF pc[t] = l THEN 1 ELSE 0)
  <2>1. Cardinality(At(l)) \in Nat
    BY <1>3, FS_CardinalityType
  <2>2. CASE k = l
    BY <1>1, <1>2, <1>3, <2>1, <2>2, FS_AddElement
  <2>3. CASE k # l
    BY <1>1, <1>2, <1>3, <2>1, <2>3, FS_RemoveElement
  <2>4. QED
    BY <2>1, <2>2, <2>3
<1>4. QED
  BY <1>1, <1>3

\* A counter that is 0 says that nobody is there.
LEMMA CountZero ==
    ASSUME IInv
    PROVE  /\ r_ct = 0 <=> At("reading") = {}
           /\ w_pending = 0 <=> At("wrlock") = {}
BY FS_EmptySet DEF IInv

\* A new lock satisfies the invariant.
LEMMA InitInvariant == Init => IInv
<1> SUFFICES ASSUME Init PROVE IInv
  OBVIOUS
<1>1. \A l \in PC \ {"idle"} : At(l) = {}
  BY DEF Init, At
<1>2. QED
  BY <1>1, FS_EmptySet DEF Init, IInv, PC

\* Every lock, try and unlock preserves it.
LEMMA NextInvariant == ASSUME NULL \notin Threads PROVE IInv /\ [Next]_vars => IInv'
<1> SUFFICES ASSUME IInv, [Next]_vars PROVE IInv'
  OBVIOUS
<1> DEFINE Moves(t, k) ==
      /\ pc' \in [Threads -> PC]
      /\ At("reading")' = IF k = "reading" THEN At("reading") \cup {t} ELSE At("reading") \ {t}
      /\ At("writing")' = IF k = "writing" THEN At("writing") \cup {t} ELSE At("writing") \ {t}
      /\ IsFiniteSet(At("reading")') /\ IsFiniteSet(At("wrlock")')
      /\ Cardinality(At("reading")') = r_ct + (IF k = "reading" THEN 1 ELSE 0)
                                            - (IF pc[t] = "reading" THEN 1 ELSE 0)
      /\ Cardinality(At("wrlock")') = w_pending + (IF k = "wrlock" THEN 1 ELSE 0)
                                                - (IF pc[t] = "wrlock" THEN 1 ELSE 0)
      /\ Cardinality(At("reading")') \in Nat /\ Cardinality(At("wrlock")') \in Nat
<1>m. ASSUME NEW t \in Threads, NEW k \in PC, pc' = [pc EXCEPT ![t] = k] PROVE Moves(t, k)
  <2>1. pc' \in [Threads -> PC]
    BY <1>m DEF IInv
  <2>2. /\ At("reading")' = IF k = "reading" THEN At("reading") \cup {t} ELSE At("reading") \ {t}
        /\ IsFiniteSet(At("reading")')
        /\ Cardinality(At("reading")') = r_ct + (IF k = "reading" THEN 1 ELSE 0)
                                              - (IF pc[t] = "reading" THEN 1 ELSE 0)
    <3>1. IsFiniteSet(At("reading")) /\ r_ct = Cardinality(At("reading"))
      BY DEF IInv
    <3>2. QED
      BY <1>m, <3>1, CountMove
  <2>3. At("writing")' = IF k = "writing" THEN At("writing") \cup {t} ELSE At("writing") \ {t}
    BY <1>m, CountMove
  <2>4. /\ IsFiniteSet(At("wrlock")')
        /\ Cardinality(At("wrlock")') = w_pending + (IF k = "wrlock" THEN 1 ELSE 0)
                                                  - (IF pc[t] = "wrlock" THEN 1 ELSE 0)
    <3>1. IsFiniteSet(At("wrlock")) /\ w_pending = Cardinality(At("wrlock"))
      BY DEF IInv
    <3>2. QED
      BY <1>m, <3>1, CountMove
  <2>5. Cardinality(At("reading")') \in Nat /\ Cardinality(At("wrlock")') \in Nat
    BY <2>2, <2>4, FS_CardinalityType
  <2>6. QED
    BY <2>1, <2>2, <2>3, <2>4, <2>5
<1>w. /\ \A t \in Threads : t \in At("writing") <=> pc[t] = "writing"
      /\ \A t \in Threads : t \in At("reading") <=> pc[t] = "reading"
  BY DEF At
<1> HIDE DEF Moves
<1>1. ASSUME NEW t \in Threads, RdLock(t) \/ TryRdLock(t) PROVE IInv'
  <2>1. CASE pc' = [pc EXCEPT ![t] = "rdlock"] /\ pc[t] \in {"idle", "rdlock"}
             /\ UNCHANGED <<r_ct, w_pending, w_ct, w_id>>
    <3>1. Moves(t, "rdlock")
      BY <1>m, <2>1 DEF PC
    <3>2. QED
      BY <2>1, <3>1, <1>w DEF IInv, Moves
  <2>2. CASE pc' = [pc EXCEPT ![t] = "reading"] /\ pc[t] \in {"idle", "rdlock"}
             /\ r_ct' = r_ct + 1 /\ ~(w_ct > 0) /\ UNCHANGED <<w_pending, w_ct, w_id>>
    <3>1. Moves(t, "reading")
      BY <1>m, <2>2 DEF PC
    <3>2. QED
      BY <2>2, <3>1, <1>w DEF IInv, Moves
  <2>3. CASE RdLock(t)
    BY <2>1, <2>2, <2>3 DEF RdLock, Begin
  <2>4. CASE TryRdLock(t)
    <3>1. ~(w_ct > 0)
      BY <2>4 DEF TryRdLock
    <3>2. QED
      BY <2>2, <2>4, <3>1 DEF TryRdLock, Begin
  <2>5. QED
    BY <1>1, <2>3, <2>4
<1>2. ASSUME NEW t \in Threads, WrLock(t) \/ TryWrLock(t) PROVE IInv'
  <2>1. CASE pc' = [pc EXCEPT ![t] = "wrlock"] /\ pc[t] = "idle"
             /\ w_pending' = w_pending + 1 /\ UNCHANGED <<r_ct, w_ct, w_id>>
    <3>1. Moves(t, "wrlock")
      BY <1>m, <2>1 DEF PC
    <3>2. QED
      BY <2>1, <3>1, <1>w DEF IInv, Moves
  <2>2. CASE pc' = [pc EXCEPT ![t] = "writing"] /\ r_ct = 0 /\ w_ct = 0
             /\ w_ct' = w_ct + 1 /\ w_id' = t /\ UNCHANGED r_ct
             /\ \/ pc[t] = "idle" /\ UNCHANGED w_pending
                \/ pc[t] = "wrlock" /\ w_pending' = w_pending - 1
    <3>1. Moves(t, "writing")
      BY <1>m, <2>2 DEF PC
    <3>2. QED
      BY <2>2, <3>1, <1>w DEF IInv, Moves
  <2>3. QED
    BY <1>2, <2>1, <2>2 DEF WrLock, TryWrLock, Begin, IInv
<1>3. ASSUME NEW t \in Threads, Unlock(t) PROVE IInv'
  <2>1. Moves(t, "idle")
    BY <1>3, <1>m DEF PC, Unlock
  <2>2. QED
    BY <1>3, <2>1, <1>w DEF IInv, Moves, Unlock
<1>4. CASE UNCHANGED vars
  BY <1>4 DEF vars, IInv, At
<1>5. QED
  BY <1>1, <1>2, <1>3, <1>4 DEF Next

\* A writer is alone and the counters are right (pthread_rwlock_wrlock(),
\* pthread_rwlock_unlock()), for any set of threads and any number of calls.
THEOREM WriterIsAlone == ASSUME NULL \notin Threads PROVE Spec => []WriterAlone
<1>1. Spec => []IInv
  BY InitInvariant, NextInvariant, PTL DEF Spec
<1>2. IInv => WriterAlone
  BY CountZero, FS_EmptySet, FS_Singleton DEF IInv, WriterAlone, At
<1>3. QED
  BY <1>1, <1>2, PTL

\* While a writer waits no reader is let in (pthread_rwlock_rdlock()).
THEOREM WritersGoFirst == ASSUME NULL \notin Threads PROVE Spec => WriterFirst
<1>1. Spec => []IInv
  BY InitInvariant, NextInvariant, PTL DEF Spec
<1>2. IInv /\ [Next]_vars => [(\E t \in Threads : pc[t] = "wrlock") => r_ct' <= r_ct]_vars
  <2> SUFFICES ASSUME IInv, Next, NEW u \in Threads, pc[u] = "wrlock" PROVE r_ct' <= r_ct
    OBVIOUS
  <2>1. w_pending > 0
    BY CountZero DEF IInv, At
  <2>2. QED
    BY <2>1 DEF IInv, Next, RdLock, TryRdLock, WrLock, TryWrLock, Unlock
<1>3. QED
  BY <1>1, <1>2, PTL DEF Spec, WriterFirst
=============================================================================
