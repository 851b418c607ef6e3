------------------------- MODULE DispatchGroupProofs ------------------------
(***************************************************************************)
(* A dispatch group keeps its promises for any finite number of threads    *)
(* and calls: the count of references, the proof that the invariant of     *)
(* DispatchGroupInvariant is inductive, and what follows from it.          *)
(***************************************************************************)
EXTENDS DispatchGroupList

-----------------------------------------------------------------------------
(* The references.                                                         *)

\* What a step of thread t adds to the references.
RefsDelta(t) ==
    Ind(xref' # {}) - Ind(xref # {}) + blocks' - blocks
    + Ind(t \in InBlock') - Ind(t \in InBlock) + Ind(t \in Retained') - Ind(t \in Retained)
    + Ind(head' # NULL) - Ind(head # NULL) + Ind(t \in Took') - Ind(t \in Took)

\* A step of thread t that changes nothing of what the other threads hold.
LEMMA RefsMove ==
    ASSUME ConstantsOK, TypeOK, TypeOK', NEW t \in Threads,
           \A u \in Threads : u # t => /\ pc'[u] = pc[u] /\ ret'[u] = ret[u]
                                       /\ buffer'[u] = buffer[u] /\ took'[u] = took[u]
    PROVE  Refs \in Int /\ Refs' = Refs + RefsDelta(t)
<1>1. /\ \A u : u # t => (u \in InBlock <=> u \in InBlock')
      /\ \A u : u # t => (u \in Retained <=> u \in Retained')
      /\ \A u : u # t => (u \in Took <=> u \in Took')
  BY DEF InBlock, Retained, Took
<1>2. IsFiniteSet(InBlock) /\ IsFiniteSet(Retained) /\ IsFiniteSet(Took)
  BY FS_Subset DEF ConstantsOK, InBlock, Retained, Took
<1>3. /\ Cardinality(InBlock') = Cardinality(InBlock) + Ind(t \in InBlock') - Ind(t \in InBlock)
      /\ Cardinality(InBlock) \in Nat /\ Cardinality(InBlock') \in Nat
  BY <1>1, <1>2, CardMove, Zenon
<1>4. /\ Cardinality(Retained') = Cardinality(Retained) + Ind(t \in Retained') - Ind(t \in Retained)
      /\ Cardinality(Retained) \in Nat /\ Cardinality(Retained') \in Nat
  BY <1>1, <1>2, CardMove, Zenon
<1>5. /\ Cardinality(Took') = Cardinality(Took) + Ind(t \in Took') - Ind(t \in Took)
      /\ Cardinality(Took) \in Nat /\ Cardinality(Took') \in Nat
  BY <1>1, <1>2, CardMove, Zenon
<1>6. blocks \in Nat /\ blocks' \in Nat
  BY DEF TypeOK
<1>7. QED
  BY <1>3, <1>4, <1>5, <1>6 DEF Refs, RefsDelta, Ind

\* Every step counts the references it takes and drops.
LEMMA RefsCounted == ConstantsOK /\ IInv /\ Next => ref' = Refs'
<1> SUFFICES ASSUME ConstantsOK, IInv, TypeOK', NEW t \in Threads, Step(t) PROVE ref' = Refs'
  BY TypeInvariant DEF Next
<1> TypeOK /\ Users /\ ListInv /\ Referenced
  BY DEF IInv
<1> USE DEF object, refs, client, wake, history
<1>a. /\ pc = [u \in Threads |-> pc[u]] /\ ret = [u \in Threads |-> ret[u]]
      /\ took \in [Threads -> BOOLEAN] /\ buffer = [u \in Threads |-> buffer[u]]
      /\ ret[t] \in {"idle", "block_release"} /\ xref \subseteq Threads
      /\ ref \in Nat /\ blocks \in Nat
  BY DEF TypeOK
<1>b. /\ t \in InBlock <=> pc[t] \in {"block_check", "block_release"} \/ ret[t] = "block_release"
      /\ t \in InBlock' <=> pc'[t] \in {"block_check", "block_release"} \/ ret'[t] = "block_release"
      /\ t \in Retained <=> pc[t] = "notify_head" \/ buffer[t] # NULL
      /\ t \in Retained' <=> pc'[t] = "notify_head" \/ buffer'[t] # NULL
      /\ t \in Took <=> took[t]
      /\ t \in Took' <=> took'[t]
  BY DEF InBlock, Retained, Took
<1>c. /\ ret[t] = "block_release" => pc[t] \in WakePC
      /\ took[t] => pc[t] \in WakePC \ {"wake"}
      /\ pc[t] = "notify_head" \/ buffer[t] # NULL => head = NULL
  BY DEF Users, ListInv, ListHeld, Holding, Forming
<1>n. pc[t] = "notify_head" => Note(t) # NULL
  <2>1. pc[t] = "notify_head" => calls[t] > 0
    BY DEF ListInv, LocalsInv, NotifyPC
  <2>2. MaxCalls[t] \in Nat
    BY DEF ConstantsOK
  <2>3. pc[t] = "notify_head" => Note(t) \in Notes
    BY <2>1, <2>2, NotesOf DEF TypeOK, Note
  <2>4. QED
    BY <2>3 DEF ConstantsOK
<1> DEFINE Mine == ref' - ref = RefsDelta(t)
<1>q. ASSUME UNCHANGED <<ref, xref, blocks, head>>, t \in InBlock' <=> t \in InBlock,
             t \in Retained' <=> t \in Retained, t \in Took' <=> t \in Took
      PROVE  Mine
  BY <1>a, <1>q DEF RefsDelta, Ind
<1>1. ASSUME Call(t) PROVE Mine
  <2>1. CASE dispatch_group_async_f(t) \/ dispatch_release(t)
    BY <1>a, <1>b, <2>1 DEF RefsDelta, Ind, dispatch_group_async_f, dispatch_release, MayCall,
       At, ReleaseRef
  <2>2. CASE ~(dispatch_group_async_f(t) \/ dispatch_release(t))
    BY <1>a, <1>b, <1>c, <1>q, <1>1, <2>2 DEF Call, dispatch_group_enter,
       dispatch_group_async_f, dispatch_group_notify_f, dispatch_release,
     dispatch_group_wait, MayCall, Called, At, Goto
  <2>3. QED
    BY <2>1, <2>2
<1>2. ASSUME Leave(t) PROVE Mine
  BY <1>a, <1>b, <1>c, <1>2 DEF RefsDelta, Ind, WakePC, ReleaseRef, Leave,
     dispatch_group_leave, LeaveCheck, RunBlock, BlockCheck, BlockRelease, WakeIfEmpty,
     CallWake, At, Goto
<1>3. ASSUME WakeTakeWaiters(t) \/ WakePost(t) \/ WakeNotify(t) \/ WakeNext(t) PROVE Mine
  BY <1>a, <1>b, <1>q, <1>3 DEF WakeTakeWaiters, WakePost, WakeNotify, WakeNext, At, Goto
<1>4. ASSUME WakeTakeList(t) PROVE Mine
  <2>1. took'[t] <=> head # NULL
    BY <1>a, <1>4, Zenon DEF WakeTakeList
  <2>2. /\ pc[t] = "wake" /\ pc'[t] = "wake_waiters" /\ head' = NULL /\ ~took[t] /\ buffer[t] = NULL
        /\ UNCHANGED <<ref, xref, blocks, ret, buffer>>
    BY <1>a, <1>c, <1>4 DEF WakeTakeList, At, Goto
  <2>3. QED
    BY <1>a, <1>b, <2>1, <2>2 DEF RefsDelta, Ind
<1>5. ASSUME WakeRelease(t) PROVE Mine
  <2>1. /\ pc[t] = "wake_release" /\ pc'[t] = ret[t] /\ ret'[t] = "idle" /\ buffer[t] = NULL
        /\ ~took'[t] /\ UNCHANGED <<head, xref, blocks, buffer>>
        /\ ref' = IF took[t] THEN ref - 1 ELSE ref
    BY <1>a, <1>5 DEF WakeRelease, At, Goto, ReleaseRef
  <2>2. (t \in InBlock' <=> t \in InBlock) /\ t \notin Retained /\ t \notin Retained'
    BY <1>a, <1>b, <2>1
  <2>3. QED
    BY <1>a, <1>b, <2>1, <2>2 DEF RefsDelta, Ind
<1>6. ASSUME Wait(t) \/ WaitTimedOut(t) PROVE Mine
  BY <1>a, <1>b, <1>c, <1>6 DEF RefsDelta, Ind, WakePC, Wait, WaitCheck, WaitInc, WaitRecheck,
     WaitWoken, WaitUndo, WaitTimedOut, CallWake, At, Goto
<1>7. ASSUME Notify(t) PROVE Mine
  <2>0. CASE NotifyRetain(t)
    BY <1>a, <1>b, <2>0 DEF RefsDelta, Ind, NotifyRetain, At, Goto
  <2>1. CASE NotifyHead(t)
    <3>1. /\ UNCHANGED <<ref, xref, blocks, took, ret>>
          /\ pc[t] = "notify_head" /\ pc'[t] = "notify_check" /\ buffer[t] = NULL /\ head = NULL
          /\ head' # NULL <=> buffer'[t] = NULL
      BY <1>a, <1>c, <1>n, <2>1 DEF NotifyHead, At, Goto
    <3>2. /\ t \in InBlock' <=> t \in InBlock
          /\ t \in Retained /\ (t \in Retained' <=> head' = NULL) /\ (t \in Took' <=> t \in Took)
      BY <1>b, <3>1
    <3>3. QED
      BY <1>a, <3>1, <3>2 DEF RefsDelta, Ind
  <2>2. CASE FlushHead(t)
    <3>1. /\ UNCHANGED <<ref, xref, blocks, took, ret, pc>>
          /\ head = NULL /\ head' # NULL /\ buffer[t] # NULL /\ buffer'[t] = NULL
      BY <1>a, <1>c, <2>2 DEF FlushHead
    <3>2. pc[t] # "notify_head"
      BY <3>1 DEF ListInv, LocalsInv
    <3>3. /\ t \in InBlock' <=> t \in InBlock
          /\ t \in Retained /\ t \notin Retained' /\ (t \in Took' <=> t \in Took)
      BY <1>b, <3>1, <3>2
    <3>4. QED
      BY <1>a, <3>1, <3>3 DEF RefsDelta, Ind
  <2>3. CASE NotifyLink(t) \/ NotifyCheck(t)
    BY <1>a, <1>b, <1>c, <1>q, <2>3 DEF WakePC, NotifyLink, NotifyCheck, WakeIfEmpty,
       CallWake, At, Goto
  <2>4. QED
    BY <1>7, <2>0, <2>1, <2>2, <2>3 DEF Notify
<1>8. Mine
  BY <1>1, <1>2, <1>3, <1>4, <1>5, <1>6, <1>7 DEF Step, Wake
<1>9. QED
  <2>1. ref = Refs /\ ref \in Nat /\ blocks \in Nat /\ ref' \in Nat /\ blocks' \in Nat
    BY Frame, Zenon DEF Referenced, TypeOK
  <2>2. Refs' = Refs + RefsDelta(t)
    BY Frame, RefsMove
  <2>3. QED
    BY <1>8, <2>1, <2>2

\* A sum of natural numbers is zero only if both are.
LEMMA NothingLeft == \A m, n \in Nat : m + n \in Nat /\ (m + n = 0 => m = 0 /\ n = 0)
OBVIOUS

\* The step that drops the last reference finds the group empty and nobody in it.
LEMMA LastReference ==
    ASSUME ConstantsOK, TypeOK', Users', Entered', Refs' = 0
    PROVE  value' = Orig /\ \A t \in Threads : pc'[t] = "idle"
<1>1. IsFiniteSet(InBlock') /\ IsFiniteSet(Retained') /\ IsFiniteSet(Took')
  BY FS_Subset DEF ConstantsOK, InBlock, Retained, Took
<1>2. /\ Cardinality(InBlock') \in Nat /\ Cardinality(Retained') \in Nat
      /\ Cardinality(Took') \in Nat /\ blocks' \in Nat
  BY <1>1, FS_CardinalityType DEF TypeOK
<1>i. Ind(xref' # {}) \in Nat /\ Ind(head' # NULL) \in Nat /\ (Ind(xref' # {}) = 0 => xref' = {})
  BY DEF Ind
<1>3. xref' = {} /\ blocks' = 0 /\ Cardinality(InBlock') = 0
  <2>1. Refs' = Ind(xref' # {}) + blocks' + Cardinality(InBlock') + Cardinality(Retained')
                + Ind(head' # NULL) + Cardinality(Took')
    BY DEF Refs
  <2>2. Ind(xref' # {}) + blocks' \in Nat
    BY <1>2, <1>i, NothingLeft
  <2>3. Ind(xref' # {}) + blocks' + Cardinality(InBlock') \in Nat
    BY <1>2, <2>2, NothingLeft
  <2>4. Ind(xref' # {}) + blocks' + Cardinality(InBlock') + Cardinality(Retained') \in Nat
    BY <1>2, <2>3, NothingLeft
  <2>5. Ind(xref' # {}) + blocks' + Cardinality(InBlock') + Cardinality(Retained') = 0
    <3> DEFINE m == Ind(xref' # {}) + blocks' + Cardinality(InBlock') + Cardinality(Retained')
               e == Ind(head' # NULL)
    <3>1. m \in Nat /\ e \in Nat /\ (m + e) + Cardinality(Took') = 0
      BY <1>i, <2>1, <2>4
    <3> HIDE DEF m, e
    <3>2. m + e \in Nat
      BY <3>1
    <3>3. m + e = 0
      BY <1>2, <3>1, <3>2, NothingLeft
    <3>4. m = 0
      BY <3>1, <3>3, NothingLeft
    <3>5. QED
      BY <3>4 DEF m
  <2>6. Ind(xref' # {}) + blocks' = 0 /\ Cardinality(InBlock') = 0
    BY <1>2, <2>2, <2>3, <2>5, NothingLeft
  <2>7. QED
    BY <1>2, <1>i, <2>6, NothingLeft
<1>4. InBlock' = {}
  BY <1>1, <1>3, FS_EmptySet
<1>5. \A t \in Threads : pc'[t] = "idle" /\ inside'[t] = 0
  BY <1>3, <1>4 DEF Users, TypeOK
<1>6. Tokens(inside') = {}
  <2>1. \A x : x \notin Tokens(inside')
    BY <1>5, TokensOf
  <2>2. QED
    BY <2>1
<1>7. Cardinality(Tokens(inside')) = 0
  BY <1>6, FS_EmptySet
<1>8. QED
  <2>1. value' + blocks' + Cardinality(Tokens(inside')) = Orig /\ value' \in Int
    BY DEF Entered, TypeOK
  <2>2. QED
    BY <1>3, <1>5, <1>7, <2>1

\* Every step keeps do_ref_cnt exact, and frees the group only when nobody uses it.
LEMMA ReferenceInvariant == ConstantsOK /\ IInv /\ Next => Referenced' /\ NoUseAfterFree'
<1> SUFFICES ASSUME ConstantsOK, IInv, Next PROVE Referenced' /\ NoUseAfterFree'
  OBVIOUS
<1> TypeOK /\ TypeOK' /\ Users' /\ Entered' /\ Referenced
  BY TypeInvariant, UsersInvariant, EnteredInvariant DEF IInv
<1>1. status = "alive" /\ ref' = Refs' /\ ref' \in Nat /\ ref > 0 /\ ref \in Nat
  BY RefsCounted, Frame, Zenon DEF Next, TypeOK, Referenced
<1>2. (ReleaseRef /\ value' = value) \/ (status' = status /\ ref' >= ref)
  <2> USE DEF object, refs
  <2>t. PICK t \in Threads : Step(t)
    BY DEF Next
  <2>r. ref \in Nat
    BY <1>1
  <2>1. CASE dispatch_release(t)
    BY <2>r, <2>1 DEF dispatch_release
  <2>2. CASE WakeRelease(t)
    BY <2>r, <2>2 DEF WakeRelease
  <2>3. CASE BlockRelease(t)
    BY <2>3 DEF BlockRelease
  <2>4. CASE status' = status /\ ref' \in {ref, ref + 1}
    BY <2>r, <2>4
  <2>5. CASE Call(t)
    BY <2>1, <2>4, <2>5 DEF Call, dispatch_group_enter, dispatch_group_async_f,
                            dispatch_group_notify_f, dispatch_group_wait
  <2>6. CASE Wake(t)
    BY <2>2, <2>4, <2>6 DEF Wake, WakeTakeList, WakeTakeWaiters, WakePost, WakeNotify, WakeNext
  <2>7. CASE Wait(t) \/ WaitTimedOut(t)
    BY <2>4, <2>7 DEF Wait, WaitCheck, WaitInc, WaitRecheck, WaitWoken, WaitUndo, WaitTimedOut
  <2>8. CASE Notify(t)
    BY <2>4, <2>8 DEF Notify, NotifyLink, NotifyRetain, NotifyHead, FlushHead, NotifyCheck
  <2>9. CASE Leave(t)
    BY <2>3, <2>4, <2>9 DEF Leave, dispatch_group_leave, LeaveCheck, RunBlock, BlockCheck
  <2>10. QED
    BY <2>t, <2>5, <2>6, <2>7, <2>8, <2>9 DEF Step
<1>3. CASE status' = status /\ ref' >= ref
  BY <1>1, <1>3 DEF Referenced, NoUseAfterFree
<1>4. CASE ReleaseRef /\ value' = value
  <2>1. CASE ref' > 0
    BY <1>1, <1>4, <2>1 DEF ReleaseRef, Referenced, NoUseAfterFree
  <2>2. CASE ~(ref' > 0)
    <3>1. Refs' = 0
      BY <1>1, <2>2
    <3>2. value' = Orig /\ \A t \in Threads : pc'[t] = "idle"
      BY <3>1, LastReference
    <3>3. status' = "freed"
      BY <1>4, <2>2, <3>2 DEF ReleaseRef, ConstantsOK
    <3>4. QED
      BY <3>2, <3>3 DEF Referenced, NoUseAfterFree
  <2>3. QED
    BY <2>1, <2>2
<1>5. QED
  BY <1>2, <1>3, <1>4

-----------------------------------------------------------------------------
(* Somebody always looks after the list.                                   *)

\* Every step leaves somebody to look after a list that waits in an empty group.
LEMMA LookedInvariant == ConstantsOK /\ IInv /\ Next => Looked'
<1> SUFFICES ASSUME ConstantsOK, IInv, NEW t \in Threads, Step(t), ~StoreBuffer PROVE Looked'
  BY DEF Next, Looked
<1> TypeOK /\ Entered /\ Looked
  BY DEF IInv
<1> USE DEF object, refs, client, wake, history
<1> DEFINE LookPC == {"leave_check", "block_check", "notify_check", "wake"}
           Kept == \/ head' = NULL \/ value' # Orig \/ pc'[t] \in LookPC
                   \/ UNCHANGED <<head, value>> /\ pc[t] \notin LookPC
<1>p. /\ pc = [u \in Threads |-> pc[u]] /\ ret[t] \in {"idle", "block_release"}
      /\ value \in Int /\ Orig \in Nat /\ value <= Orig
  <2>1. Cardinality(Tokens(inside)) \in Nat
    BY FS_CardinalityType DEF Entered
  <2>2. value \in Int /\ Orig \in Nat /\ blocks \in Nat
    BY DEF TypeOK, ConstantsOK
  <2>3. value <= Orig
    BY <2>1, <2>2 DEF Entered
  <2>4. QED
    BY <2>2, <2>3 DEF TypeOK
<1>b. \A u \in Threads : buffer[u] = NULL
  BY DEF Looked
<1>1. ASSUME Call(t) PROVE Kept /\ buffer' = buffer
  BY <1>p, <1>1 DEF Call, dispatch_group_enter, dispatch_group_async_f,
     dispatch_group_notify_f, dispatch_release,
     dispatch_group_wait, MayCall, Called, At, Goto
<1>2. ASSUME Leave(t) PROVE Kept /\ buffer' = buffer
  BY <1>p, <1>2 DEF Empty, Leave, dispatch_group_leave, LeaveCheck, RunBlock, BlockCheck,
     BlockRelease, WakeIfEmpty,
     CallWake, At, Goto
<1>3. ASSUME Wake(t) PROVE Kept /\ buffer' = buffer
  BY <1>p, <1>3 DEF Wake, WakeTakeList, WakeTakeWaiters, WakePost, WakeNotify, WakeNext,
     WakeRelease, At, Goto
<1>4. ASSUME Wait(t) \/ WaitTimedOut(t) PROVE Kept /\ buffer' = buffer
  BY <1>p, <1>4 DEF Wait, WaitCheck, WaitInc, WaitRecheck, WaitWoken, WaitUndo, WaitTimedOut,
     CallWake, At, Goto
<1>5. ASSUME Notify(t) PROVE Kept /\ buffer' = buffer
  BY <1>p, <1>b, <1>5 DEF Empty, Notify, NotifyLink, NotifyRetain, NotifyHead, FlushHead,
     NotifyCheck, WakeIfEmpty, CallWake,
     At, Goto
<1>6. Kept /\ buffer' = buffer
  BY <1>1, <1>2, <1>3, <1>4, <1>5 DEF Step
<1>7. CASE head' = NULL \/ value' # Orig \/ pc'[t] \in LookPC
  BY <1>b, <1>6, <1>7 DEF Looked, Empty
<1>8. CASE UNCHANGED <<head, value>> /\ pc[t] \notin LookPC
  <2>1. \A u \in Threads : u # t => pc'[u] = pc[u]
    BY Frame
  <2>2. QED
    BY <1>b, <1>6, <1>8, <2>1 DEF Looked, Empty
<1>9. QED
  BY <1>6, <1>7, <1>8

-----------------------------------------------------------------------------
(* The inductive invariant holds.                                          *)

\* A new group satisfies the invariant.
LEMMA InitInvariant == ConstantsOK /\ Init => IInv
<1> SUFFICES ASSUME ConstantsOK, Init PROVE IInv
  OBVIOUS
<1> USE DEF Init
<1>c. IsFiniteSet(Threads) /\ Orig \in Nat /\ MaxCalls \in [Threads -> Nat]
  BY DEF ConstantsOK
<1>1. TypeOK
  BY <1>c DEF TypeOK
<1>2. /\ IsFiniteSet({}) /\ Cardinality({}) = 0
      /\ Waiting = {} /\ InBlock = {} /\ Retained = {} /\ Took = {}
  BY FS_EmptySet DEF Waiting, WaitingPC, ThreadsAt, InBlock, Retained, Took
<1>3. Tokens(owed) = {} /\ Tokens(inside) = {}
  BY DEF Tokens
<1>z. Cardinality(Tokens(owed)) = 0 /\ Cardinality(Tokens(inside)) = 0 /\ Cardinality(Waiting) = 0
  BY <1>2, <1>3, Zenon
<1>y. /\ value = Orig /\ blocks = 0 /\ waiters = 0 /\ sem = 0
      /\ \A t \in Threads : owed[t] = 0
  OBVIOUS
<1>4. SleepInv
  BY ONLY <1>2, <1>3, <1>y, <1>z DEF SleepInv
<1>5. Index = {} /\ Cur = 1 /\ \A t \in Threads : ~Holding(t) /\ ~Forming(t)
  BY DEF Index, Cur, Ind, Holding, Forming
<1>6. ListInv
  <2>1. Ordered
    BY <1>5 DEF Ordered
  <2>2. LocalsInv
    BY DEF LocalsInv, NotifyPC
  <2>3. ListHeld
    BY <1>5 DEF ListHeld
  <2>4. AtFront
    BY <1>5 DEF AtFront
  <2>5. Linked
    BY DEF Linked
  <2>6. QED
    BY <2>1, <2>2, <2>3, <2>4, <2>5 DEF ListInv
<1>7. Looked
  BY DEF Looked
<1>8. Users
  BY DEF Users
<1>9. Entered
  BY ONLY <1>2, <1>3, <1>y, <1>z, <1>c DEF Entered
<1>10. Referenced
  <2>1. Ind(xref # {}) = 1 /\ Ind(head # NULL) = 0
    BY DEF Ind, ConstantsOK
  <2>2. Refs = 1
    BY <1>2, <2>1 DEF Refs
  <2>3. QED
    BY <2>2 DEF Referenced
<1>11. NoUseAfterFree
  BY DEF NoUseAfterFree
<1>12. QED
  BY <1>1, <1>4, <1>6, <1>7, <1>8, <1>9, <1>10, <1>11 DEF IInv, ConstantsOK

\* Every step of a group preserves the invariant.
LEMMA NextInvariant == ConstantsOK /\ IInv /\ [Next]_vars => IInv'
<1> SUFFICES ASSUME ConstantsOK, IInv, [Next]_vars PROVE IInv'
  OBVIOUS
<1>1. CASE Next
  BY <1>1, TypeInvariant, SleepInvariant, ListInvariant, LookedInvariant, ReferenceInvariant,
     EnteredInvariant, UsersInvariant DEF IInv
<1>2. CASE UNCHANGED vars
  <2> USE <1>2 DEF vars, object, refs, client, wake, history
  <2> IInv
    OBVIOUS
  <2>1. TypeOK'
    BY DEF IInv, TypeOK
  <2>2. SleepInv'
    BY Zenon DEF IInv, SleepInv, Waiting, ThreadsAt, Tokens
  <2>3. ListInv'
    <3>1. Aside
      BY DEF Aside, IInv, ListInv, LocalsInv, TypeOK
    <3>2. QED
      BY <2>1, <3>1, AsideKeeps
  <2>4. Looked' /\ Users' /\ NoUseAfterFree'
    BY Zenon DEF IInv, Looked, Empty, Users, NoUseAfterFree, InBlock
  <2>5. Referenced' /\ Entered'
    BY DEF IInv, Referenced, Refs, InBlock, Retained, Took, Entered, Tokens
  <2>6. QED
    BY <2>1, <2>2, <2>3, <2>4, <2>5 DEF IInv
<1>3. QED
  BY <1>1, <1>2

\* In every reachable state, for any finite number of threads and calls, the accounts
\* of dsema_group_waiters, of the list of notifications, of dsema_value and of
\* do_ref_cnt balance.
THEOREM Invariance == ASSUME ConstantsOK PROVE Spec => []IInv
<1>1. Init => IInv
  BY InitInvariant
<1>2. IInv /\ [Next]_vars => IInv'
  BY NextInvariant
<1>3. QED
  BY <1>1, <1>2, PTL DEF Spec

\* No wakeup of a thread in _dispatch_group_wait_slow() is lost: it is covered by
\* dsema_group_waiters, by a token that a _dispatch_group_wake() still has to post or by
\* one posted, whatever timeouts withdraw and stale tokens are taken by others.
THEOREM NoSleeperLost == ASSUME ConstantsOK PROVE Spec => []SleepersCovered
<1>1. IInv => SleepersCovered
  <2> SUFFICES ASSUME IInv PROVE SleepersCovered
    OBVIOUS
  <2>1. IsFiniteSet(Waiting)
    BY FS_Subset DEF ConstantsOK, Waiting, ThreadsAt
  <2>2. Sleepers \subseteq Waiting
    BY DEF Sleepers, Waiting, WaitingPC, ThreadsAt
  <2>3. /\ Cardinality(Sleepers) <= Cardinality(Waiting) /\ Cardinality(Waiting) \in Nat
        /\ Cardinality(Sleepers) \in Nat
    BY <2>1, <2>2, FS_Subset, FS_CardinalityType
  <2>4. /\ Cardinality(Waiting) <= waiters + sem + Cardinality(Tokens(owed))
        /\ waiters \in Nat /\ sem \in Nat /\ IsFiniteSet(Tokens(owed))
    BY DEF IInv, SleepInv, TypeOK
  <2>5. Cardinality(Tokens(owed)) \in Nat
    BY <2>4, FS_CardinalityType
  <2>6. QED
    BY <2>3, <2>4, <2>5 DEF SleepersCovered
<1>2. QED
  BY <1>1, Invariance, PTL

\* The lock-free list of dispatch_group_notify_f() submits each notification once, in the
\* order in which dsema_notify_tail was exchanged, whatever wakes race with it; and where
\* stores are visible at once none is left behind in an empty group.
THEOREM NotifiedOnce == ASSUME ConstantsOK PROVE Spec => []EachNotifiedOnce
<1>1. IInv => EachNotifiedOnce
  <2> SUFFICES ASSUME IInv PROVE EachNotifiedOnce
    OBVIOUS
  <2>1. /\ noted \in Seq(Notes) /\ fired \in Seq(Notes)
        /\ Len(fired) <= Len(noted) /\ \A i \in 1 .. Len(fired) : fired[i] = noted[i]
    BY DEF IInv, TypeOK, ListInv, Ordered
  <2>3. ASSUME ~StoreBuffer PROVE NothingUnnotified
    <3> SUFFICES ASSUME Empty, \A t \in Threads : /\ pc[t] \notin WakePC \cup NotifyPC \cup LeavePC
                                                    /\ buffer[t] = NULL
                 PROVE  fired = noted
      BY DEF NothingUnnotified
    <3>1. head = NULL
      BY <2>3 DEF IInv, Looked, WakePC, NotifyPC, LeavePC
    <3>2. \A t \in Threads : ~Holding(t)
      BY DEF IInv, ListInv, LocalsInv, Holding, Forming, WakePC, NotifyPC
    <3>3. Len(fired) = Len(noted)
      BY <3>1, <3>2 DEF IInv, ListInv, ListHeld
    <3>4. QED
      BY <2>1, <3>3
  <2>4. QED
    BY <2>1, <2>3 DEF EachNotifiedOnce
<1>2. QED
  BY <1>1, Invariance, PTL

\* The reference counting of semaphore.c is sound: a group whose last reference goes, be
\* it of a client, of a block or of a list of notifications, is empty and nobody is inside
\* one of its functions.
THEOREM GroupNotUsedAfterFree == ASSUME ConstantsOK PROVE Spec => []GroupAlive
<1>1. IInv => GroupAlive
  <2> SUFFICES ASSUME IInv PROVE GroupAlive
    OBVIOUS
  <2>1. TypeOK /\ NoUseAfterFree /\ Entered
    BY DEF IInv
  <2>2. /\ Cardinality(Tokens(inside)) \in Nat /\ value \in Int /\ blocks \in Nat
        /\ value + blocks + Cardinality(Tokens(inside)) = Orig
    BY <2>1, FS_CardinalityType DEF TypeOK, Entered
  <2>3. value <= Orig
    BY <2>2 DEF ConstantsOK
  <2>4. QED
    BY <2>1, <2>3 DEF GroupAlive
<1>2. QED
  BY <1>1, Invariance, PTL
=============================================================================

