---------------------- MODULE DispatchSemaphoreProofs ----------------------
(***************************************************************************)
(* Proofs, for any finite set of threads, of the safety properties of      *)
(* DispatchSemaphore and of its refinement of CountingSemaphore.           *)
(***************************************************************************)
EXTENDS DispatchSemaphore, FiniteSetTheorems, TLAPS

\* The number of threads at one of the labels in S is a natural number, not
\* zero when some thread is there.
LEMMA CountNat ==
    ASSUME NEW S
    PROVE  /\ IsFiniteSet(At(S))
           /\ Cardinality(At(S)) \in Nat
           /\ \A t \in Threads : pc[t] \in S => Cardinality(At(S)) > 0
           /\ Cardinality(At(S)) > 0 => \E t \in Threads : pc[t] \in S
<1>1. IsFiniteSet(At(S))
  BY ThreadsAssumption, FS_Subset DEF At
<1>2. Cardinality(At(S)) \in Nat
  BY <1>1, FS_CardinalityType
<1>3. Cardinality(At(S)) = 0 <=> At(S) = {}
  BY <1>1, FS_EmptySet
<1>4. QED
  BY <1>1, <1>2, <1>3 DEF At

\* How that number changes when one thread moves.
LEMMA CountMove ==
    ASSUME pc \in [Threads -> PC], NEW t \in Threads, NEW l \in PC,
           Goto(t, l), NEW S
    PROVE  Cardinality(At(S))' =
               Cardinality(At(S)) + (IF l \in S THEN 1 ELSE 0)
                                  - (IF pc[t] \in S THEN 1 ELSE 0)
<1>1. IsFiniteSet(At(S)) /\ Cardinality(At(S)) \in Nat
  BY CountNat
<1>2. \A u \in Threads : pc'[u] = IF u = t THEN l ELSE pc[u]
  BY DEF Goto
<1>3. CASE l \in S /\ pc[t] \in S
  <2>1. At(S)' = At(S)
    BY <1>2, <1>3 DEF At
  <2>2. QED
    BY <2>1, <1>1, <1>3
<1>4. CASE l \in S /\ pc[t] \notin S
  <2>1. At(S)' = At(S) \cup {t} /\ t \notin At(S)
    BY <1>2, <1>4 DEF At
  <2>2. Cardinality(At(S) \cup {t}) = Cardinality(At(S)) + 1
    BY <2>1, <1>1, FS_AddElement
  <2>3. QED
    BY <2>1, <2>2, <1>1, <1>4
<1>5. CASE l \notin S /\ pc[t] \in S
  <2>1. At(S)' = At(S) \ {t} /\ t \in At(S)
    BY <1>2, <1>5 DEF At
  <2>2. Cardinality(At(S) \ {t}) = Cardinality(At(S)) - 1
    BY <2>1, <1>1, FS_RemoveElement
  <2>3. QED
    BY <2>1, <2>2, <1>1, <1>5
<1>6. CASE l \notin S /\ pc[t] \notin S
  <2>1. At(S)' = At(S)
    BY <1>2, <1>6 DEF At
  <2>2. QED
    BY <2>1, <1>1, <1>6
<1>7. QED
  BY <1>3, <1>4, <1>5, <1>6

-----------------------------------------------------------------------------
(* The numbers of threads the invariants speak of.                         *)

Referenced == {"inc_ksignals", "sem_post", "release"}

NWaiting == Cardinality(At(WaitSlow))
NPromising == Cardinality(At(Promising))
NPosting == Cardinality(At({"sem_post"}))
NAwake == Cardinality(At({"again"}))
NReferenced == Cardinality(At(Referenced))

Ind(b) == IF b THEN 1 ELSE 0

\* They are natural numbers.
LEMMA CountsNat ==
    /\ NWaiting \in Nat /\ NPromising \in Nat /\ NPosting \in Nat
    /\ NAwake \in Nat /\ NReferenced \in Nat
BY CountNat DEF NWaiting, NPromising, NPosting, NAwake, NReferenced

\* How they change when thread t moves to label l.
LEMMA CountsMove ==
    ASSUME TypeOK, NEW t \in Threads, NEW l \in PC, Goto(t, l)
    PROVE  /\ NWaiting' = NWaiting + Ind(l \in WaitSlow) - Ind(pc[t] \in WaitSlow)
           /\ NPromising' = NPromising + Ind(l \in Promising)
                                       - Ind(pc[t] \in Promising)
           /\ NPosting' = NPosting + Ind(l \in {"sem_post"})
                                   - Ind(pc[t] \in {"sem_post"})
           /\ NAwake' = NAwake + Ind(l \in {"again"}) - Ind(pc[t] \in {"again"})
           /\ NReferenced' = NReferenced + Ind(l \in Referenced)
                                         - Ind(pc[t] \in Referenced)
<1> pc \in [Threads -> PC]
  BY DEF TypeOK
<1>1. NWaiting' = NWaiting + Ind(l \in WaitSlow) - Ind(pc[t] \in WaitSlow)
  BY CountMove DEF NWaiting, Ind
<1>2. NPromising' = NPromising + Ind(l \in Promising) - Ind(pc[t] \in Promising)
  BY CountMove DEF NPromising, Ind
<1>3. NPosting' = NPosting + Ind(l \in {"sem_post"}) - Ind(pc[t] \in {"sem_post"})
  BY CountMove DEF NPosting, Ind
<1>4. NAwake' = NAwake + Ind(l \in {"again"}) - Ind(pc[t] \in {"again"})
  BY CountMove DEF NAwake, Ind
<1>5. NReferenced' = NReferenced + Ind(l \in Referenced)
                                 - Ind(pc[t] \in Referenced)
  BY CountMove DEF NReferenced, Ind
<1>6. QED
  BY <1>1, <1>2, <1>3, <1>4, <1>5

\* A step that leaves pc alone leaves them alone.
LEMMA CountsSame ==
    ASSUME UNCHANGED pc
    PROVE  /\ NWaiting' = NWaiting /\ NPromising' = NPromising
           /\ NPosting' = NPosting /\ NAwake' = NAwake
           /\ NReferenced' = NReferenced
BY DEF NWaiting, NPromising, NPosting, NAwake, NReferenced, At

-----------------------------------------------------------------------------
\* The inductive invariant: the four accounts balance, and a waiter keeps the
\* external reference it came with.
Inv == /\ TypeOK
       /\ WaitersAccounted
       /\ NoLostWakeup
       /\ Conservation
       /\ RefCount
       /\ WaitersHoldReference

\* The accounts in terms of the numbers above.
LEMMA Accounts ==
    /\ WaitersAccounted <=> NWaiting = Neg(value) + ksignals + NPromising
    /\ NoLostWakeup <=> ksignals <= sem + NPosting + NAwake
    /\ Conservation <=>
          acquired + Pos(value) + ksignals + NPromising = Orig + signalled
    /\ RefCount <=> ref = NReferenced + (IF xref = {} THEN 0 ELSE 1)
BY DEF WaitersAccounted, NoLostWakeup, Conservation, RefCount,
       NWaiting, NPromising, NPosting, NAwake, NReferenced, Referenced

\* The same in the next state.
LEMMA AccountsPrimed ==
    /\ WaitersAccounted' <=> NWaiting' = Neg(value') + ksignals' + NPromising'
    /\ NoLostWakeup' <=> ksignals' <= sem' + NPosting' + NAwake'
    /\ Conservation' <=>
          acquired' + Pos(value') + ksignals' + NPromising' = Orig + signalled'
    /\ RefCount' <=> ref' = NReferenced' + (IF xref' = {} THEN 0 ELSE 1)
BY DEF WaitersAccounted, NoLostWakeup, Conservation, RefCount, Neg, Pos,
       NWaiting, NPromising, NPosting, NAwake, NReferenced, Referenced

\* Initially nobody waits or signals.
LEMMA InitInv == Init => Inv
<1> SUFFICES ASSUME Init PROVE Inv
  OBVIOUS
<1>1. TypeOK
  BY OrigAssumption DEF Init, TypeOK, PC, Timeouts
<1>2. /\ At(WaitSlow) = {} /\ At(Promising) = {} /\ At({"sem_post"}) = {}
      /\ At({"again"}) = {} /\ At(Referenced) = {}
  BY DEF Init, At, WaitSlow, Promising, Referenced
<1>3. /\ NWaiting = 0 /\ NPromising = 0 /\ NPosting = 0 /\ NAwake = 0
      /\ NReferenced = 0
  BY <1>2, FS_EmptySet DEF NWaiting, NPromising, NPosting, NAwake, NReferenced
<1>4. Neg(value) = 0 /\ Pos(value) = Orig
  BY OrigAssumption DEF Init, Neg, Pos
<1>5. WaitersAccounted /\ NoLostWakeup /\ Conservation /\ RefCount
  BY <1>3, <1>4, Accounts, ThreadsAssumption, OrigAssumption DEF Init
<1>6. WaitersHoldReference
  BY <1>2 DEF WaitersHoldReference
<1>7. QED
  BY <1>1, <1>5, <1>6 DEF Inv

\* Every step of every thread preserves the invariant.
LEMMA NextInv == Inv /\ [Next]_vars => Inv'
<1> SUFFICES ASSUME Inv, [Next]_vars PROVE Inv'
  OBVIOUS
<1> USE DEF Inv
<1>a. /\ value \in Int /\ ksignals \in Nat /\ sem \in Nat /\ ref \in Int
      /\ signalled \in Nat /\ acquired \in Nat /\ Orig \in Nat
      /\ NWaiting \in Nat /\ NPromising \in Nat /\ NPosting \in Nat
      /\ NAwake \in Nat /\ NReferenced \in Nat
  BY CountsNat, OrigAssumption DEF TypeOK
<1>b. /\ NWaiting = Neg(value) + ksignals + NPromising
      /\ ksignals <= sem + NPosting + NAwake
      /\ acquired + Pos(value) + ksignals + NPromising = Orig + signalled
      /\ ref = NReferenced + (IF xref = {} THEN 0 ELSE 1)
  BY Accounts
<1>1. ASSUME NEW t \in Threads, NEW k \in Timeouts, dispatch_semaphore_wait(t, k)
      PROVE  Inv'
  <2>1. CASE value' >= 0
    <3>1. UNCHANGED <<pc, timeout>> /\ acquired' = acquired + 1
      BY <1>1, <2>1, <1>a DEF dispatch_semaphore_wait
    <3>2. TypeOK'
      BY <1>1, <3>1, <1>a DEF dispatch_semaphore_wait, TypeOK
    <3>3. WaitersHoldReference'
      BY <1>1, <3>1 DEF dispatch_semaphore_wait, WaitersHoldReference, At
    <3>4. WaitersAccounted' /\ NoLostWakeup' /\ Conservation' /\ RefCount'
      BY <1>1, <2>1, <3>1, <1>a, <1>b, CountsSame, AccountsPrimed
         DEF dispatch_semaphore_wait, Neg, Pos
    <3>5. QED
      BY <3>2, <3>3, <3>4
  <2>2. CASE value' < 0
    <3>1. Goto(t, "again") /\ UNCHANGED acquired
      BY <1>1, <2>2, <1>a DEF dispatch_semaphore_wait
    <3>2. TypeOK'
      BY <1>1, <2>2, <3>1, <1>a
         DEF dispatch_semaphore_wait, TypeOK, Goto, PC, WaitSlow
    <3>3. WaitersHoldReference'
      BY <1>1, <3>1 DEF dispatch_semaphore_wait, WaitersHoldReference, At, Goto,
                        TypeOK
    <3>4. /\ NWaiting' = NWaiting + 1 /\ NPromising' = NPromising
          /\ NPosting' = NPosting /\ NAwake' = NAwake + 1
          /\ NReferenced' = NReferenced
      BY <1>1, <3>1, <1>a, CountsMove
         DEF dispatch_semaphore_wait, Ind, PC, WaitSlow, Promising, Referenced
    <3>5. WaitersAccounted' /\ NoLostWakeup' /\ Conservation' /\ RefCount'
      BY <1>1, <2>2, <3>1, <3>4, <1>a, <1>b, AccountsPrimed
         DEF dispatch_semaphore_wait, Neg, Pos
    <3>6. QED
      BY <3>2, <3>3, <3>5
  <2>3. QED
    BY <1>1, <2>1, <2>2 DEF dispatch_semaphore_wait
<1>2. ASSUME NEW t \in Threads, TakeKsignal(t)
      PROVE  Inv'
  <2>1. CASE ksignals > 0
    <3>1. Goto(t, "idle") /\ pc[t] = "again"
      BY <1>2, <2>1, <1>a DEF TakeKsignal
    <3>2. TypeOK'
      BY <1>2, <2>1, <3>1, <1>a
         DEF TakeKsignal, TypeOK, Goto, PC, WaitSlow, SignalSlow, Promising, Sleep
    <3>3. WaitersHoldReference'
      BY <1>2, <3>1
         DEF TakeKsignal, WaitersHoldReference, At, Goto, TypeOK, WaitSlow
    <3>4. /\ NWaiting' = NWaiting - 1 /\ NPromising' = NPromising
          /\ NPosting' = NPosting /\ NAwake' = NAwake - 1
          /\ NReferenced' = NReferenced
      BY <1>2, <3>1, <1>a, CountsMove
         DEF Ind, PC, WaitSlow, SignalSlow, Promising, Referenced, Sleep
    <3>5. WaitersAccounted' /\ NoLostWakeup' /\ Conservation' /\ RefCount'
      BY <1>2, <2>1, <3>1, <3>4, <1>a, <1>b, AccountsPrimed
         DEF TakeKsignal, Neg, Pos
    <3>6. QED
      BY <3>2, <3>3, <3>5
  <2>2. CASE ksignals = 0
    <3>1. Goto(t, Sleep(t)) /\ pc[t] = "again" /\ UNCHANGED <<ksignals, acquired>>
      BY <1>2, <2>2, <1>a DEF TakeKsignal
    <3>2. TypeOK'
      BY <1>2, <2>2, <3>1, <1>a
         DEF TakeKsignal, TypeOK, Goto, PC, WaitSlow, SignalSlow, Promising, Sleep
    <3>3. WaitersHoldReference'
      BY <1>2, <3>1
         DEF TakeKsignal, WaitersHoldReference, At, Goto, TypeOK, WaitSlow
    <3>4. /\ NWaiting' = NWaiting /\ NPromising' = NPromising
          /\ NPosting' = NPosting /\ NAwake' = NAwake - 1
          /\ NReferenced' = NReferenced
      BY <1>2, <3>1, <1>a, CountsMove
         DEF Ind, PC, WaitSlow, SignalSlow, Promising, Referenced, Sleep
    <3>5. NAwake > 0
      BY <3>1, CountNat DEF NAwake
    <3>6. WaitersAccounted' /\ NoLostWakeup' /\ Conservation' /\ RefCount'
      BY <1>2, <2>2, <3>1, <3>4, <3>5, <1>a, <1>b, AccountsPrimed
         DEF TakeKsignal, Neg, Pos
    <3>7. QED
      BY <3>2, <3>3, <3>6
  <2>3. QED
    BY <1>2, <2>1, <2>2, <1>a DEF TakeKsignal
<1>3. ASSUME NEW t \in Threads, SemTimedWait(t)
      PROVE  Inv'
  <2>1. CASE sem > 0 /\ sem' = sem - 1 /\ Goto(t, "again")
    <3>1. Goto(t, "again") /\ pc[t] = "sem_timedwait"
      BY <1>3, <2>1, <1>a DEF SemTimedWait
    <3>2. TypeOK'
      BY <1>3, <2>1, <3>1, <1>a
         DEF SemTimedWait, TypeOK, Goto, PC, WaitSlow, SignalSlow, Promising, Sleep
    <3>3. WaitersHoldReference'
      BY <1>3, <3>1
         DEF SemTimedWait, WaitersHoldReference, At, Goto, TypeOK, WaitSlow
    <3>4. /\ NWaiting' = NWaiting /\ NPromising' = NPromising
          /\ NPosting' = NPosting /\ NAwake' = NAwake + 1
          /\ NReferenced' = NReferenced
      BY <1>3, <3>1, <1>a, CountsMove
         DEF Ind, PC, WaitSlow, SignalSlow, Promising, Referenced, Sleep
    <3>5. WaitersAccounted' /\ NoLostWakeup' /\ Conservation' /\ RefCount'
      BY <1>3, <2>1, <3>1, <3>4, <1>a, <1>b, AccountsPrimed
         DEF SemTimedWait, Neg, Pos
    <3>6. QED
      BY <3>2, <3>3, <3>5
  <2>2. CASE Goto(t, "undo") /\ UNCHANGED sem
    <3>1. Goto(t, "undo") /\ pc[t] = "sem_timedwait"
      BY <1>3, <2>2, <1>a DEF SemTimedWait
    <3>2. TypeOK'
      BY <1>3, <2>2, <3>1, <1>a
         DEF SemTimedWait, TypeOK, Goto, PC, WaitSlow, SignalSlow, Promising, Sleep
    <3>3. WaitersHoldReference'
      BY <1>3, <3>1
         DEF SemTimedWait, WaitersHoldReference, At, Goto, TypeOK, WaitSlow
    <3>4. /\ NWaiting' = NWaiting /\ NPromising' = NPromising
          /\ NPosting' = NPosting /\ NAwake' = NAwake
          /\ NReferenced' = NReferenced
      BY <1>3, <3>1, <1>a, CountsMove
         DEF Ind, PC, WaitSlow, SignalSlow, Promising, Referenced, Sleep
    <3>5. WaitersAccounted' /\ NoLostWakeup' /\ Conservation' /\ RefCount'
      BY <1>3, <2>2, <3>1, <3>4, <1>a, <1>b, AccountsPrimed
         DEF SemTimedWait, Neg, Pos
    <3>6. QED
      BY <3>2, <3>3, <3>5
  <2>3. QED
    BY <1>3, <2>1, <2>2 DEF SemTimedWait
<1>4. ASSUME NEW t \in Threads, UndoWait(t)
      PROVE  Inv'
  <2>1. CASE value < 0
    <3>1. Goto(t, "idle") /\ pc[t] = "undo"
      BY <1>4, <2>1, <1>a DEF UndoWait
    <3>2. TypeOK'
      BY <1>4, <2>1, <3>1, <1>a
         DEF UndoWait, TypeOK, Goto, PC, WaitSlow, SignalSlow, Promising, Sleep
    <3>3. WaitersHoldReference'
      BY <1>4, <3>1
         DEF UndoWait, WaitersHoldReference, At, Goto, TypeOK, WaitSlow
    <3>4. /\ NWaiting' = NWaiting - 1 /\ NPromising' = NPromising
          /\ NPosting' = NPosting /\ NAwake' = NAwake
          /\ NReferenced' = NReferenced
      BY <1>4, <3>1, <1>a, CountsMove
         DEF Ind, PC, WaitSlow, SignalSlow, Promising, Referenced, Sleep
    <3>5. WaitersAccounted' /\ NoLostWakeup' /\ Conservation' /\ RefCount'
      BY <1>4, <2>1, <3>1, <3>4, <1>a, <1>b, AccountsPrimed
         DEF UndoWait, Neg, Pos
    <3>6. QED
      BY <3>2, <3>3, <3>5
  <2>2. CASE value >= 0
    <3>1. Goto(t, "sem_wait") /\ pc[t] = "undo"
      BY <1>4, <2>2, <1>a DEF UndoWait
    <3>2. TypeOK'
      BY <1>4, <2>2, <3>1, <1>a
         DEF UndoWait, TypeOK, Goto, PC, WaitSlow, SignalSlow, Promising, Sleep
    <3>3. WaitersHoldReference'
      BY <1>4, <3>1
         DEF UndoWait, WaitersHoldReference, At, Goto, TypeOK, WaitSlow
    <3>4. /\ NWaiting' = NWaiting /\ NPromising' = NPromising
          /\ NPosting' = NPosting /\ NAwake' = NAwake
          /\ NReferenced' = NReferenced
      BY <1>4, <3>1, <1>a, CountsMove
         DEF Ind, PC, WaitSlow, SignalSlow, Promising, Referenced, Sleep
    <3>5. WaitersAccounted' /\ NoLostWakeup' /\ Conservation' /\ RefCount'
      BY <1>4, <2>2, <3>1, <3>4, <1>a, <1>b, AccountsPrimed
         DEF UndoWait, Neg, Pos
    <3>6. QED
      BY <3>2, <3>3, <3>5
  <2>3. QED
    BY <1>4, <2>1, <2>2, <1>a DEF UndoWait
<1>5. ASSUME NEW t \in Threads, SemWait(t)
      PROVE  Inv'
  <2>1. Goto(t, "again") /\ pc[t] = "sem_wait"
    BY <1>5 DEF SemWait
  <2>2. TypeOK'
    BY <1>5, <2>1, <1>a DEF SemWait, TypeOK, Goto, PC, WaitSlow, SignalSlow, Promising
  <2>3. WaitersHoldReference'
    BY <1>5, <2>1 DEF SemWait, WaitersHoldReference, At, Goto, TypeOK, WaitSlow
  <2>4. /\ NWaiting' = NWaiting /\ NPromising' = NPromising
        /\ NPosting' = NPosting /\ NAwake' = NAwake + 1
        /\ NReferenced' = NReferenced
    BY <1>5, <2>1, <1>a, CountsMove
       DEF Ind, PC, WaitSlow, SignalSlow, Promising, Referenced
  <2>5. WaitersAccounted' /\ NoLostWakeup' /\ Conservation' /\ RefCount'
    BY <1>5, <2>1, <2>4, <1>a, <1>b, AccountsPrimed DEF SemWait, Neg, Pos
  <2>6. QED
    BY <2>2, <2>3, <2>5
<1>6. ASSUME NEW t \in Threads, dispatch_semaphore_signal(t)
      PROVE  Inv'
  <2>1. CASE value' > 0
    <3>1. UNCHANGED pc
      BY <1>6, <2>1 DEF dispatch_semaphore_signal
    <3>2. TypeOK'
      BY <1>6, <3>1, <1>a DEF dispatch_semaphore_signal, TypeOK
    <3>3. WaitersHoldReference'
      BY <1>6, <3>1 DEF dispatch_semaphore_signal, WaitersHoldReference, At
    <3>4. WaitersAccounted' /\ NoLostWakeup' /\ Conservation' /\ RefCount'
      BY <1>6, <2>1, <3>1, <1>a, <1>b, CountsSame, AccountsPrimed
         DEF dispatch_semaphore_signal, Neg, Pos
    <3>5. QED
      BY <3>2, <3>3, <3>4
  <2>2. CASE ~(value' > 0)
    <3>1. Goto(t, "retain") /\ pc[t] = "idle"
      BY <1>6, <2>2, <1>a DEF dispatch_semaphore_signal
    <3>2. TypeOK'
      BY <1>6, <2>2, <3>1, <1>a
         DEF dispatch_semaphore_signal, TypeOK, Goto, PC, WaitSlow, SignalSlow, Promising, Sleep
    <3>3. WaitersHoldReference'
      BY <1>6, <3>1
         DEF dispatch_semaphore_signal, WaitersHoldReference, At, Goto, TypeOK, WaitSlow
    <3>4. /\ NWaiting' = NWaiting /\ NPromising' = NPromising + 1
          /\ NPosting' = NPosting /\ NAwake' = NAwake
          /\ NReferenced' = NReferenced
      BY <1>6, <3>1, <1>a, CountsMove
         DEF Ind, PC, WaitSlow, SignalSlow, Promising, Referenced, Sleep
    <3>5. WaitersAccounted' /\ NoLostWakeup' /\ Conservation' /\ RefCount'
      BY <1>6, <2>2, <3>1, <3>4, <1>a, <1>b, AccountsPrimed
         DEF dispatch_semaphore_signal, Neg, Pos
    <3>6. QED
      BY <3>2, <3>3, <3>5
  <2>3. QED
    BY <2>1, <2>2
<1>7. ASSUME NEW t \in Threads, Retain(t)
      PROVE  Inv'
  <2>1. Goto(t, "inc_ksignals") /\ pc[t] = "retain"
    BY <1>7 DEF Retain
  <2>2. TypeOK'
    BY <1>7, <2>1, <1>a DEF Retain, TypeOK, Goto, PC, WaitSlow, SignalSlow, Promising
  <2>3. WaitersHoldReference'
    BY <1>7, <2>1 DEF Retain, WaitersHoldReference, At, Goto, TypeOK, WaitSlow
  <2>4. /\ NWaiting' = NWaiting /\ NPromising' = NPromising
        /\ NPosting' = NPosting /\ NAwake' = NAwake
        /\ NReferenced' = NReferenced + 1
    BY <1>7, <2>1, <1>a, CountsMove
       DEF Ind, PC, WaitSlow, SignalSlow, Promising, Referenced
  <2>5. WaitersAccounted' /\ NoLostWakeup' /\ Conservation' /\ RefCount'
    BY <1>7, <2>1, <2>4, <1>a, <1>b, AccountsPrimed DEF Retain, Neg, Pos
  <2>6. QED
    BY <2>2, <2>3, <2>5
<1>8. ASSUME NEW t \in Threads, IncKsignals(t)
      PROVE  Inv'
  <2>1. Goto(t, "sem_post") /\ pc[t] = "inc_ksignals"
    BY <1>8 DEF IncKsignals
  <2>2. TypeOK'
    BY <1>8, <2>1, <1>a DEF IncKsignals, TypeOK, Goto, PC, WaitSlow, SignalSlow, Promising
  <2>3. WaitersHoldReference'
    BY <1>8, <2>1 DEF IncKsignals, WaitersHoldReference, At, Goto, TypeOK, WaitSlow
  <2>4. /\ NWaiting' = NWaiting /\ NPromising' = NPromising - 1
        /\ NPosting' = NPosting + 1 /\ NAwake' = NAwake
        /\ NReferenced' = NReferenced
    BY <1>8, <2>1, <1>a, CountsMove
       DEF Ind, PC, WaitSlow, SignalSlow, Promising, Referenced
  <2>5. WaitersAccounted' /\ NoLostWakeup' /\ Conservation' /\ RefCount'
    BY <1>8, <2>1, <2>4, <1>a, <1>b, AccountsPrimed DEF IncKsignals, Neg, Pos
  <2>6. QED
    BY <2>2, <2>3, <2>5
<1>9. ASSUME NEW t \in Threads, SemPost(t)
      PROVE  Inv'
  <2>1. Goto(t, "release") /\ pc[t] = "sem_post"
    BY <1>9 DEF SemPost
  <2>2. TypeOK'
    BY <1>9, <2>1, <1>a DEF SemPost, TypeOK, Goto, PC, WaitSlow, SignalSlow, Promising
  <2>3. WaitersHoldReference'
    BY <1>9, <2>1 DEF SemPost, WaitersHoldReference, At, Goto, TypeOK, WaitSlow
  <2>4. /\ NWaiting' = NWaiting /\ NPromising' = NPromising
        /\ NPosting' = NPosting - 1 /\ NAwake' = NAwake
        /\ NReferenced' = NReferenced
    BY <1>9, <2>1, <1>a, CountsMove
       DEF Ind, PC, WaitSlow, SignalSlow, Promising, Referenced
  <2>5. WaitersAccounted' /\ NoLostWakeup' /\ Conservation' /\ RefCount'
    BY <1>9, <2>1, <2>4, <1>a, <1>b, AccountsPrimed DEF SemPost, Neg, Pos
  <2>6. QED
    BY <2>2, <2>3, <2>5
<1>10. ASSUME NEW t \in Threads, ReleaseRef(t)
      PROVE  Inv'
  <2>1. Goto(t, "idle") /\ pc[t] = "release"
    BY <1>10 DEF ReleaseRef
  <2>2. TypeOK'
    BY <1>10, <2>1, <1>a DEF ReleaseRef, TypeOK, Goto, PC, WaitSlow, SignalSlow, Promising
  <2>3. WaitersHoldReference'
    BY <1>10, <2>1 DEF ReleaseRef, WaitersHoldReference, At, Goto, TypeOK, WaitSlow
  <2>4. /\ NWaiting' = NWaiting /\ NPromising' = NPromising
        /\ NPosting' = NPosting /\ NAwake' = NAwake
        /\ NReferenced' = NReferenced - 1
    BY <1>10, <2>1, <1>a, CountsMove
       DEF Ind, PC, WaitSlow, SignalSlow, Promising, Referenced
  <2>5. WaitersAccounted' /\ NoLostWakeup' /\ Conservation' /\ RefCount'
    BY <1>10, <2>1, <2>4, <1>a, <1>b, AccountsPrimed DEF ReleaseRef, Neg, Pos
  <2>6. QED
    BY <2>2, <2>3, <2>5
<1>11. ASSUME NEW t \in Threads, dispatch_release(t)
      PROVE  Inv'
  <2>1. TypeOK'
    BY <1>11, <1>a DEF dispatch_release, TypeOK
  <2>2. WaitersHoldReference'
    BY <1>11 DEF dispatch_release, WaitersHoldReference, At, WaitSlow
  <2>3. WaitersAccounted' /\ NoLostWakeup' /\ Conservation' /\ RefCount'
    BY <1>11, <1>a, <1>b, CountsSame, AccountsPrimed DEF dispatch_release
  <2>4. QED
    BY <2>1, <2>2, <2>3
<1>12. CASE UNCHANGED vars
  <2>1. TypeOK'
    BY <1>12 DEF vars, TypeOK
  <2>2. WaitersHoldReference'
    BY <1>12 DEF vars, WaitersHoldReference, At
  <2>3. WaitersAccounted' /\ NoLostWakeup' /\ Conservation' /\ RefCount'
    BY <1>12, <1>a, <1>b, CountsSame, AccountsPrimed DEF vars
  <2>4. QED
    BY <2>1, <2>2, <2>3
<1>13. QED
  BY <1>1, <1>2, <1>3, <1>4, <1>5, <1>6, <1>7, <1>8, <1>9, <1>10, <1>11, <1>12
     DEF Next, Wait, Signal

-----------------------------------------------------------------------------
\* In every reachable state, for any number of threads and any initial value,
\* the accounts of dsema_value, dsema_sent_ksignals, dsema_sem and do_ref_cnt
\* balance.
THEOREM Invariance == Spec => []Inv
BY InitInv, NextInv, PTL DEF Spec

\* The semaphore is well typed: in particular dsema_sent_ksignals is never
\* decremented below zero.
THEOREM TypeCorrect == Spec => []TypeOK
BY Invariance, PTL DEF Inv

\* No wakeup promised by dispatch_semaphore_signal() is lost, and waiters,
\* counter and promises agree, whatever timeouts race with signals.
THEOREM NoWakeupLost == Spec => [](NoLostWakeup /\ WaitersAccounted)
BY Invariance, PTL DEF Inv

\* No permit is lost or invented.
THEOREM PermitsConserved == Spec => []Conservation
BY Invariance, PTL DEF Inv

\* The reference protocol explained at semaphore.c:387 is sound: whenever a
\* thread is inside a wait or a signal the object has not been freed.
THEOREM NoUseAfterFreeHolds == Spec => []NoUseAfterFree
<1>1. Inv => NoUseAfterFree
  <2> SUFFICES ASSUME Inv, NEW t \in Threads, pc[t] # "idle" PROVE ref > 0
    BY DEF NoUseAfterFree, At
  <2>1. /\ NWaiting = Neg(value) + ksignals + NPromising
        /\ ref = NReferenced + (IF xref = {} THEN 0 ELSE 1)
        /\ NReferenced \in Nat /\ NPromising \in Nat /\ ksignals \in Nat
        /\ Neg(value) \in Nat
    BY Accounts, CountsNat DEF Inv, TypeOK, Neg
  <2>2. CASE pc[t] \in WaitSlow
    <3>1. xref # {}
      BY <2>2 DEF Inv, WaitersHoldReference, At
    <3>2. QED
      BY <3>1, <2>1
  <2>3. CASE pc[t] \in Referenced
    <3>1. NReferenced > 0
      BY <2>3, CountNat DEF NReferenced
    <3>2. QED
      BY <3>1, <2>1
  <2>4. CASE pc[t] = "retain"
    <3>1. NPromising > 0
      BY <2>4, CountNat DEF NPromising, Promising
    <3>2. NWaiting > 0
      BY <3>1, <2>1
    <3>3. \E u \in Threads : pc[u] \in WaitSlow
      BY <3>2, CountNat DEF NWaiting
    <3>4. xref # {}
      BY <3>3 DEF Inv, WaitersHoldReference, At
    <3>5. QED
      BY <3>4, <2>1
  <2>5. QED
    BY <2>2, <2>3, <2>4
       DEF Inv, TypeOK, PC, WaitSlow, SignalSlow, Promising, Referenced
<1>2. QED
  BY <1>1, Invariance, PTL

\* The test of _dispatch_semaphore_dispose() is exact.
THEOREM DisposeExact == Spec => []DisposeDetectsUse
<1>1. Inv => DisposeDetectsUse
  <2> SUFFICES ASSUME Inv, ref = 0 PROVE DisposeCrashes <=> acquired > signalled
    BY DEF DisposeDetectsUse
  <2>1. /\ NWaiting = Neg(value) + ksignals + NPromising
        /\ acquired + Pos(value) + ksignals + NPromising = Orig + signalled
        /\ ref = NReferenced + (IF xref = {} THEN 0 ELSE 1)
        /\ NReferenced \in Nat /\ NPromising \in Nat /\ ksignals \in Nat
        /\ value \in Int /\ acquired \in Nat /\ signalled \in Nat
        /\ NWaiting \in Nat /\ Orig \in Nat
    BY Accounts, CountsNat, OrigAssumption DEF Inv, TypeOK
  <2>2. xref = {}
    BY <2>1
  <2>3. NWaiting = 0
    BY <2>1, <2>2, CountNat DEF Inv, WaitersHoldReference, At, NWaiting
  <2>4. QED
    BY <2>1, <2>3 DEF Neg, Pos, DisposeCrashes
<1>2. QED
  BY <1>1, Invariance, PTL

-----------------------------------------------------------------------------
(* Refinement: a step of the semaphore is a step of the counter of permits *)
(* or leaves it alone.  The counter moves at the atomic instruction that   *)
(* decides the outcome: the increment of dsema_value in a signal, the      *)
(* decrement of dsema_value or of dsema_sent_ksignals in a wait.           *)

\* Only these steps move the counter.
LEMMA StepRefines == Inv /\ [Next]_vars => [CS!Next]_CS!vars
<1> SUFFICES ASSUME Inv, [Next]_vars PROVE CS!Next \/ UNCHANGED CS!vars
  OBVIOUS
<1>a. /\ value \in Int /\ ksignals \in Nat /\ NPromising \in Nat /\ TypeOK
      /\ signalled \in Nat /\ acquired \in Nat
  BY CountsNat DEF Inv, TypeOK
<1>b. /\ Permits = Pos(value) + ksignals + NPromising
      /\ Permits' = Pos(value') + ksignals' + NPromising'
  BY DEF Permits, NPromising, Pos
<1>1. ASSUME NEW t \in Threads, NEW k \in Timeouts, dispatch_semaphore_wait(t, k)
      PROVE  CS!Next \/ UNCHANGED CS!vars
  <2>1. CASE value' >= 0
    <3>1. UNCHANGED pc /\ acquired' = acquired + 1
      BY <1>1, <2>1, <1>a DEF dispatch_semaphore_wait
    <3>2. CS!Acquire
      BY <1>1, <2>1, <3>1, <1>a, <1>b, CountsSame
         DEF dispatch_semaphore_wait, CS!Acquire, Pos
    <3>3. QED
      BY <3>2 DEF CS!Next
  <2>2. CASE value' < 0
    <3>1. Goto(t, "again") /\ pc[t] = "idle" /\ UNCHANGED acquired
      BY <1>1, <2>2, <1>a DEF dispatch_semaphore_wait
    <3>2. NPromising' = NPromising
      BY <3>1, <1>a, CountsMove DEF Ind, PC, WaitSlow, Promising
    <3>3. UNCHANGED CS!vars
      BY <1>1, <2>2, <3>1, <3>2, <1>a, <1>b
         DEF dispatch_semaphore_wait, CS!vars, Pos
    <3>4. QED
      BY <3>3
  <2>3. QED
    BY <1>1, <2>1, <2>2, <1>a DEF dispatch_semaphore_wait
<1>2. ASSUME NEW t \in Threads, TakeKsignal(t)
      PROVE  CS!Next \/ UNCHANGED CS!vars
  <2>1. CASE ksignals > 0
    <3>1. Goto(t, "idle") /\ pc[t] = "again" /\ ksignals' = ksignals - 1
          /\ acquired' = acquired + 1
      BY <1>2, <2>1, <1>a DEF TakeKsignal
    <3>2. NPromising' = NPromising
      BY <3>1, <1>a, CountsMove DEF Ind, PC, WaitSlow, Promising
    <3>3. CS!Acquire
      BY <1>2, <2>1, <3>1, <3>2, <1>a, <1>b DEF TakeKsignal, CS!Acquire, Pos
    <3>4. QED
      BY <3>3 DEF CS!Next
  <2>2. CASE ksignals = 0
    <3>1. Goto(t, Sleep(t)) /\ pc[t] = "again" /\ UNCHANGED <<ksignals, acquired>>
      BY <1>2, <2>2, <1>a DEF TakeKsignal
    <3>2. NPromising' = NPromising
      BY <3>1, <1>a, CountsMove DEF Ind, PC, WaitSlow, Promising, Sleep
    <3>3. QED
      BY <1>2, <3>1, <3>2, <1>b DEF TakeKsignal, CS!vars
  <2>3. QED
    BY <2>1, <2>2, <1>a
<1>3. ASSUME NEW t \in Threads, SemTimedWait(t) \/ UndoWait(t) \/ SemWait(t)
      PROVE  UNCHANGED CS!vars
  <2>1. PICK l \in WaitSlow \cup {"idle"} : Goto(t, l)
    BY <1>3 DEF SemTimedWait, UndoWait, SemWait, WaitSlow
  <2>2. NPromising' = NPromising
    BY <1>3, <2>1, <1>a, CountsMove
       DEF SemTimedWait, UndoWait, SemWait, Ind, PC, WaitSlow, Promising
  <2>3. Pos(value') = Pos(value) /\ UNCHANGED <<ksignals, signalled, acquired>>
    BY <1>3, <1>a DEF SemTimedWait, UndoWait, SemWait, Pos
  <2>4. QED
    BY <2>2, <2>3, <1>b DEF CS!vars
<1>4. ASSUME NEW t \in Threads, dispatch_semaphore_signal(t)
      PROVE  CS!Next
  <2>1. CASE value' > 0
    <3>1. UNCHANGED pc
      BY <1>4, <2>1 DEF dispatch_semaphore_signal
    <3>2. CS!Signal
      BY <1>4, <2>1, <3>1, <1>a, <1>b, CountsSame
         DEF dispatch_semaphore_signal, CS!Signal, Pos
    <3>3. QED
      BY <3>2 DEF CS!Next
  <2>2. CASE ~(value' > 0)
    <3>1. Goto(t, "retain") /\ pc[t] = "idle"
      BY <1>4, <2>2 DEF dispatch_semaphore_signal
    <3>2. NPromising' = NPromising + 1
      BY <3>1, <1>a, CountsMove DEF Ind, PC, SignalSlow, Promising
    <3>3. CS!Signal
      BY <1>4, <2>2, <3>2, <1>a, <1>b
         DEF dispatch_semaphore_signal, CS!Signal, Pos
    <3>4. QED
      BY <3>3 DEF CS!Next
  <2>3. QED
    BY <2>1, <2>2
<1>5. ASSUME NEW t \in Threads, IncKsignals(t)
      PROVE  UNCHANGED CS!vars
  <2>1. NPromising' = NPromising - 1
    BY <1>5, <1>a, CountsMove DEF IncKsignals, Ind, PC, SignalSlow, Promising
  <2>2. QED
    BY <1>5, <2>1, <1>a, <1>b DEF IncKsignals, CS!vars, Pos
<1>6. ASSUME NEW t \in Threads, Retain(t) \/ SemPost(t) \/ ReleaseRef(t)
      PROVE  UNCHANGED CS!vars
  <2>1. NPromising' = NPromising
    BY <1>6, <1>a, CountsMove
       DEF Retain, SemPost, ReleaseRef, Ind, PC, SignalSlow, Promising
  <2>2. QED
    BY <1>6, <2>1, <1>b DEF Retain, SemPost, ReleaseRef, CS!vars
<1>7. ASSUME NEW t \in Threads, dispatch_release(t)
      PROVE  UNCHANGED CS!vars
  BY <1>7, <1>b, CountsSame DEF dispatch_release, CS!vars
<1>8. CASE UNCHANGED vars
  BY <1>8, <1>b, CountsSame DEF vars, CS!vars
<1>9. QED
  BY <1>1, <1>2, <1>3, <1>4, <1>5, <1>6, <1>7, <1>8 DEF Next, Wait, Signal

\* dispatch_semaphore_wait() and dispatch_semaphore_signal() implement an
\* atomic counter of permits.
THEOREM Refinement == Spec => ImplementsCounter
<1>1. Init => CS!Init
  <2> SUFFICES ASSUME Init PROVE CS!Init
    OBVIOUS
  <2>1. At(Promising) = {}
    BY DEF Init, At, Promising
  <2>2. Permits = Orig
    BY <2>1, FS_EmptySet, OrigAssumption DEF Init, Permits, Pos
  <2>3. QED
    BY <2>2 DEF Init, CS!Init
<1>2. QED
  BY <1>1, StepRefines, Invariance, PTL DEF Spec, CS!Spec, ImplementsCounter
=============================================================================
