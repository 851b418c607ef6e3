----------------------- MODULE DispatchGroupInvariant -----------------------
(***************************************************************************)
(* The inductive invariant of DispatchGroup, which DispatchGroupProofs     *)
(* shows to hold for any finite number of threads and calls, and the       *)
(* proof of those of its parts that count: the threads that wait, who is   *)
(* inside the group, and who has a reference.                              *)
(***************************************************************************)
EXTENDS DispatchGroup, FiniteSetTheorems, TLAPS

\* One where b holds.
Ind(b) == IF b THEN 1 ELSE 0

-----------------------------------------------------------------------------
(* The inductive invariant.                                                *)

\* The threads that are counted in dsema_group_waiters, until they are woken up or
\* withdraw.
WaitingPC == {"wait_recheck", "sleep", "sleep_on", "undo"}
Waiting == ThreadsAt(WaitingPC)

\* Every thread that waits is counted, owed a token or has one waiting for it.
SleepInv ==
    /\ \A t \in Threads : owed[t] > 0 => pc[t] = "wake_post"
    /\ IsFiniteSet(Tokens(owed))
    /\ Cardinality(Waiting) <= waiters + sem + Cardinality(Tokens(owed))

\* The notifications by number.
Index == 1 .. Len(noted)

\* The index of the notification at the front of the list: the first one that is not
\* submitted, or the one that a wake has just submitted and not yet left behind.
Cur == Len(fired) + Ind(~\E t \in Threads : pc[t] = "wake_next")

\* The thread that found the list empty has it until its head is stored; the
\* thread that took the head has it until it has emptied it.
Forming(t) == pc[t] \in {"notify_retain", "notify_head"} \/ buffer[t] # NULL
Holding(t) == Forming(t) \/ list[t] # NULL

\* A notification is registered once, and submitted in its turn.
Ordered ==
    /\ \A i, j \in Index : noted[i] = noted[j] => i = j
    /\ \A i \in Index : noted[i][2] <= calls[noted[i][1]]
    /\ Len(fired) <= Len(noted)
    /\ \A i \in 1 .. Len(fired) : fired[i] = noted[i]

\* Where the locals are in use.
LocalsInv ==
    \A t \in Threads :
      /\ list[t] # NULL => pc[t] \in {"wake_waiters", "wake_post", "wake_notify", "wake_next"}
      /\ pc[t] = "wake_next" => list[t] # NULL
      /\ buffer[t] # NULL => pc[t] \in {"notify_check", "wake", "idle"} /\ buffer[t] = Note(t)
      /\ pc[t] \in NotifyPC => calls[t] > 0

\* The list is empty, or it is held by one thread, or its head is stored.
ListHeld ==
    /\ \A t, u \in Threads : Holding(t) /\ Holding(u) => t = u
    /\ head # NULL => \A t \in Threads : ~Holding(t)
    /\ tail = NULL => head = NULL /\ Len(fired) = Len(noted) /\ \A t \in Threads : ~Holding(t)
    /\ tail # NULL => /\ Cur \in Index /\ tail = noted[Len(noted)]
                      /\ head # NULL \/ \E t \in Threads : Holding(t)

\* Whoever has the list has the notification at its front.
AtFront ==
    /\ head # NULL => head = noted[Cur]
    /\ \A t \in Threads : /\ Forming(t) => Note(t) = noted[Cur]
                          /\ list[t] # NULL => list[t] = noted[Cur]

\* Each notification behind is linked, or its producer is about to link it.
Linked ==
    /\ \A n \in Notes : (\A i \in Index : noted[i] # n) => nxt[n] = NULL
    /\ tail # NULL => /\ nxt[tail] = NULL
                      /\ \A i \in Cur .. Len(noted) - 1 : nxt[noted[i]] \in {NULL, noted[i + 1]}
    /\ \A t \in Threads : pc[t] = "notify_link" =>
         \E i \in Cur .. Len(noted) - 1 :
           prev[t] = noted[i] /\ Note(t) = noted[i + 1] /\ nxt[noted[i]] = NULL

ListInv == Ordered /\ LocalsInv /\ ListHeld /\ AtFront /\ Linked

\* Where stores are visible at once, somebody looks after a list whose head is stored
\* when the group is empty.
Looked ==
    ~StoreBuffer =>
      /\ \A t \in Threads : buffer[t] = NULL
      /\ head # NULL /\ Empty =>
           \E t \in Threads : pc[t] \in {"leave_check", "block_check", "notify_check", "wake"}

\* Who keeps the group alive: the clients together, each block until its worker has
\* left the group, and each list of notifications.
InBlock == {t \in Threads : pc[t] \in {"block_check", "block_release"} \/ ret[t] = "block_release"}
Retained == {t \in Threads : pc[t] = "notify_head" \/ buffer[t] # NULL}
Took == {t \in Threads : took[t]}

Refs == Ind(xref # {}) + blocks + Cardinality(InBlock) + Cardinality(Retained)
        + Ind(head # NULL) + Cardinality(Took)

\* do_ref_cnt counts them.
Referenced == status = "alive" => ref = Refs /\ ref > 0

\* dsema_value says how often the group was entered and not left.
Entered ==
    /\ IsFiniteSet(Tokens(inside))
    /\ value + blocks + Cardinality(Tokens(inside)) = Orig

\* Whoever works on the group has a reference.
Users ==
    \A t \in Threads :
      /\ pc[t] # "idle" /\ t \notin InBlock => t \in xref
      /\ inside[t] > 0 => t \in xref
      /\ ret[t] = "block_release" => pc[t] \in WakePC
      /\ took[t] => pc[t] \in WakePC \ {"wake"}

\* The inductive invariant.
IInv == /\ TypeOK /\ SleepInv
        /\ ListInv /\ Looked
        /\ Referenced /\ Entered /\ Users /\ NoUseAfterFree

-----------------------------------------------------------------------------
(* Counting.                                                               *)

\* Two sets that differ at t only.
LEMMA CardMove ==
    ASSUME NEW S, NEW T, IsFiniteSet(S), NEW t, \A u : u # t => (u \in S <=> u \in T)
    PROVE  /\ IsFiniteSet(T) /\ Cardinality(S) \in Nat /\ Cardinality(T) \in Nat
           /\ Cardinality(T) = Cardinality(S) + Ind(t \in T) - Ind(t \in S)
<1>1. Cardinality(S) \in Nat
  BY FS_CardinalityType
<1>2. CASE t \in T
  <2>1. T = S \cup {t}
    BY <1>2
  <2>2. QED
    BY <1>1, <1>2, <2>1, FS_AddElement, FS_CardinalityType DEF Ind
<1>3. CASE t \notin T
  <2>1. T = S \ {t}
    BY <1>3
  <2>2. QED
    BY <1>1, <1>3, <2>1, FS_RemoveElement, FS_CardinalityType DEF Ind
<1>4. QED
  BY <1>2, <1>3

\* What a token is.
LEMMA TokensOf ==
    ASSUME NEW f, NEW x
    PROVE  x \in Tokens(f) <=> \E t \in Threads : \E i \in 1 .. f[t] : x = <<t, i>>
BY DEF Tokens

\* One token more for thread t.
LEMMA TokensAdd ==
    ASSUME NEW f \in [Threads -> Nat], IsFiniteSet(Tokens(f)), NEW t \in Threads
    PROVE  LET g == [f EXCEPT ![t] = @ + 1]
           IN  /\ IsFiniteSet(Tokens(g)) /\ Cardinality(Tokens(f)) \in Nat
               /\ Cardinality(Tokens(g)) = Cardinality(Tokens(f)) + 1
<1> DEFINE g == [f EXCEPT ![t] = @ + 1]
<1>1. \A u \in Threads : g[u] = IF u = t THEN f[t] + 1 ELSE f[u]
  OBVIOUS
<1> HIDE DEF g
<1>2. \A x : x # <<t, f[t] + 1>> => (x \in Tokens(f) <=> x \in Tokens(g))
  BY <1>1, TokensOf
<1>3. <<t, f[t] + 1>> \in Tokens(g) /\ <<t, f[t] + 1>> \notin Tokens(f)
  BY <1>1, TokensOf
<1>4. /\ IsFiniteSet(Tokens(g)) /\ Cardinality(Tokens(f)) \in Nat
      /\ Cardinality(Tokens(g)) = Cardinality(Tokens(f)) + 1
  BY <1>2, <1>3, CardMove DEF Ind
<1>5. QED
  BY <1>4 DEF g

\* One less.
LEMMA TokensRemove ==
    ASSUME NEW f \in [Threads -> Nat], IsFiniteSet(Tokens(f)), NEW t \in Threads, f[t] > 0
    PROVE  LET g == [f EXCEPT ![t] = @ - 1]
           IN  /\ IsFiniteSet(Tokens(g)) /\ Cardinality(Tokens(f)) \in Nat
               /\ Cardinality(Tokens(g)) = Cardinality(Tokens(f)) - 1
<1> DEFINE g == [f EXCEPT ![t] = @ - 1]
<1>1. \A u \in Threads : g[u] = IF u = t THEN f[t] - 1 ELSE f[u]
  OBVIOUS
<1> HIDE DEF g
<1>2. \A x : x # <<t, f[t]>> => (x \in Tokens(f) <=> x \in Tokens(g))
  BY <1>1, TokensOf
<1>3. <<t, f[t]>> \notin Tokens(g) /\ <<t, f[t]>> \in Tokens(f)
  <2>1. f[t] \in 1 .. f[t] /\ f[t] \notin 1 .. g[t]
    BY <1>1
  <2>2. QED
    BY <2>1, TokensOf
<1>4. /\ IsFiniteSet(Tokens(g)) /\ Cardinality(Tokens(f)) \in Nat
      /\ Cardinality(Tokens(g)) = Cardinality(Tokens(f)) - 1
  <2> DEFINE x == <<t, f[t]>>
  <2>1. \A u : u # x => (u \in Tokens(f) <=> u \in Tokens(g))
    BY <1>2
  <2>2. x \notin Tokens(g) /\ x \in Tokens(f)
    BY <1>3
  <2> HIDE DEF x
  <2>3. QED
    BY <2>1, <2>2, CardMove DEF Ind
<1>5. QED
  BY <1>4 DEF g

\* Thread t, which has none, is given n of them.
LEMMA TokensGive ==
    ASSUME NEW f \in [Threads -> Nat], IsFiniteSet(Tokens(f)), NEW t \in Threads, f[t] = 0,
           NEW n \in Nat
    PROVE  LET g == [f EXCEPT ![t] = n]
           IN  /\ IsFiniteSet(Tokens(g)) /\ Cardinality(Tokens(f)) \in Nat
               /\ Cardinality(Tokens(g)) = Cardinality(Tokens(f)) + n
<1> DEFINE g == [f EXCEPT ![t] = n]
           new == {t} \X (1 .. n)
<1>1. \A u \in Threads : g[u] = IF u = t THEN n ELSE f[u]
  OBVIOUS
<1> HIDE DEF g
<1>2. Tokens(g) = Tokens(f) \cup new /\ Tokens(f) \cap new = {}
  <2>1. \A x : x \in new <=> \E i \in 1 .. n : x = <<t, i>>
    <3>1. \A x \in new : x[2] \in 1 .. n /\ x = <<t, x[2]>>
      OBVIOUS
    <3>2. \A i \in 1 .. n : <<t, i>> \in new
      OBVIOUS
    <3>3. QED
      BY <3>1, <3>2
  <2>2. \A x : x \in Tokens(g) <=> x \in Tokens(f) \/ x \in new
    BY <1>1, <2>1, TokensOf
  <2>3. \A x : ~(x \in Tokens(f) /\ x \in new)
    BY <2>1, TokensOf
  <2>4. QED
    BY <2>2, <2>3
<1>3. IsFiniteSet(new) /\ Cardinality(new) = n
  <2>1. IsFiniteSet({t}) /\ Cardinality({t}) = 1
    BY FS_Singleton, Zenon
  <2>2. IsFiniteSet(1 .. n) /\ Cardinality(1 .. n) = n
    <3>1. IsFiniteSet(1 .. n) /\ Cardinality(1 .. n) = IF 1 > n THEN 0 ELSE n - 1 + 1
      <4>1. 1 \in Int /\ n \in Int
        OBVIOUS
      <4>2. QED
        BY ONLY <4>1, FS_Interval
    <3>2. QED
      BY <3>1
  <2>3. IsFiniteSet(new) /\ Cardinality(new) = 1 * n
    BY <2>1, <2>2, FS_Product
  <2>4. QED
    BY <2>3
<1> HIDE DEF new
<1>4. /\ IsFiniteSet(Tokens(g)) /\ Cardinality(Tokens(f)) \in Nat
      /\ Cardinality(Tokens(g)) = Cardinality(Tokens(f)) + n
  BY <1>2, <1>3, FS_Union, FS_EmptySet, FS_CardinalityType
<1>5. QED
  BY <1>4 DEF g

\* What a notification is.
LEMMA NotesOf ==
    ASSUME NEW x
    PROVE  x \in Notes <=> \E t \in Threads : \E i \in 1 .. MaxCalls[t] : x = <<t, i>>
BY DEF Notes

\* The thread and the number of the call that a notification is made of.
LEMMA NoteParts ==
    ASSUME ConstantsOK, NEW x \in Notes
    PROVE  x[1] \in Threads /\ x[2] \in Nat /\ x = <<x[1], x[2]>> /\ x # NULL
<1>1. PICK t \in Threads : \E i \in 1 .. MaxCalls[t] : x = <<t, i>>
  BY NotesOf
<1>2. MaxCalls[t] \in Nat /\ x # NULL
  BY DEF ConstantsOK
<1>3. QED
  BY <1>1, <1>2


-----------------------------------------------------------------------------
(* What a step leaves alone, and the types.                                *)

\* A step of a thread needs the group, and leaves the locals of the other threads alone.
LEMMA Frame ==
    ASSUME TypeOK, NEW t \in Threads, Step(t)
    PROVE  /\ status = "alive"
           /\ \A u \in Threads : u # t =>
                /\ pc'[u] = pc[u] /\ ret'[u] = ret[u] /\ took'[u] = took[u] /\ buffer'[u] = buffer[u]
                /\ list'[u] = list[u] /\ calls'[u] = calls[u] /\ inside'[u] = inside[u]
                /\ owed'[u] = owed[u]
<1> USE DEF object, refs, client, wake, history
<1> /\ pc = [u \in Threads |-> pc[u]] /\ ret = [u \in Threads |-> ret[u]]
    /\ took = [u \in Threads |-> took[u]] /\ buffer = [u \in Threads |-> buffer[u]]
    /\ list = [u \in Threads |-> list[u]] /\ calls = [u \in Threads |-> calls[u]]
    /\ inside = [u \in Threads |-> inside[u]] /\ owed = [u \in Threads |-> owed[u]]
  BY DEF TypeOK
<1>1. CASE Call(t)
  BY <1>1 DEF Call, dispatch_group_enter, dispatch_group_async_f, dispatch_group_notify_f,
     dispatch_release,
     dispatch_group_wait, MayCall, Called, At, Goto
<1>2. CASE Leave(t)
  BY <1>2 DEF Leave, dispatch_group_leave, LeaveCheck, RunBlock, BlockCheck, BlockRelease,
     WakeIfEmpty,
     CallWake, At, Goto
<1>3. CASE Wake(t)
  BY <1>3 DEF Wake, WakeTakeList, WakeTakeWaiters, WakePost, WakeNotify, WakeNext,
     WakeRelease, At, Goto
<1>4. CASE Wait(t) \/ WaitTimedOut(t)
  BY <1>4 DEF Wait, WaitCheck, WaitInc, WaitRecheck, WaitWoken, WaitUndo, WaitTimedOut,
     CallWake, At, Goto
<1>5. CASE Notify(t)
  BY <1>5 DEF Notify, NotifyLink, NotifyRetain, NotifyHead, FlushHead, NotifyCheck,
     WakeIfEmpty, CallWake,
     At, Goto
<1>6. QED
  BY <1>1, <1>2, <1>3, <1>4, <1>5 DEF Step

\* Every step of a group preserves the types.
LEMMA TypeInvariant == ConstantsOK /\ IInv /\ Next => TypeOK'
<1> SUFFICES ASSUME ConstantsOK, IInv, NEW t \in Threads, Step(t) PROVE TypeOK'
  BY DEF Next
<1> TypeOK /\ Referenced /\ LocalsInv
  BY DEF IInv, ListInv
<1> USE DEF object, refs, client, wake, history
<1>r. status = "alive" => ref > 0
  BY DEF Referenced
<1>c. MaxCalls \in [Threads -> Nat]
  BY DEF ConstantsOK
<1>n. \A k \in 1 .. MaxCalls[t] : <<t, k>> \in Notes
  BY NotesOf
<1>1. CASE dispatch_group_enter(t)
  BY <1>c, <1>1 DEF dispatch_group_enter, MayCall, At, Called, TypeOK, WakePC, WaitPC,
     NotifyPC, LeavePC
<1>2. CASE dispatch_group_async_f(t)
  BY <1>c, <1>2 DEF dispatch_group_async_f, MayCall, At, Called, TypeOK, WakePC, WaitPC,
     NotifyPC, LeavePC
<1>3. CASE dispatch_release(t)
  BY <1>r, <1>3 DEF dispatch_release, At, ReleaseRef, TypeOK, WakePC, WaitPC, NotifyPC, LeavePC
<1>4. CASE dispatch_group_leave(t)
  BY <1>4 DEF dispatch_group_leave, At, Goto, NowEmpty, TypeOK, WakePC, WaitPC, NotifyPC,
     LeavePC
<1>5. CASE LeaveCheck(t)
  BY <1>5, Zenon DEF LeaveCheck, At, WakeIfEmpty, CallWake, Goto, TypeOK, WakePC, WaitPC,
     NotifyPC, LeavePC
<1>6. CASE RunBlock(t)
  BY <1>6 DEF RunBlock, At, Goto, NowEmpty, TypeOK, WakePC, WaitPC, NotifyPC, LeavePC
<1>7. CASE BlockCheck(t)
  BY <1>7, Zenon DEF BlockCheck, At, WakeIfEmpty, CallWake, Goto, TypeOK, WakePC, WaitPC,
     NotifyPC, LeavePC
<1>8. CASE BlockRelease(t)
  BY <1>r, <1>8 DEF BlockRelease, At, ReleaseRef, Goto, TypeOK, WakePC, WaitPC, NotifyPC,
     LeavePC
<1>9. CASE WakeTakeList(t)
  BY <1>9 DEF WakeTakeList, At, Goto, TypeOK, WakePC, WaitPC, NotifyPC, LeavePC
<1>10. CASE WakeTakeWaiters(t)
  BY <1>10 DEF WakeTakeWaiters, At, Goto, TypeOK, WakePC, WaitPC, NotifyPC, LeavePC
<1>11. CASE WakePost(t)
  <2>1. CASE owed[t] > 0
    <3>1. sem' \in Nat /\ owed' \in [Threads -> Nat]
      BY <1>11, <2>1 DEF WakePost, TypeOK, WakePC, WaitPC, NotifyPC, LeavePC
    <3>2. QED
      BY <1>11, <2>1, <3>1 DEF WakePost, TypeOK, WakePC, WaitPC, NotifyPC, LeavePC
  <2>2. CASE ~(owed[t] > 0)
    BY <1>11, <2>2, Zenon DEF WakePost, At, Goto, TypeOK, WakePC, WaitPC, NotifyPC, LeavePC
  <2>3. QED
    BY <2>1, <2>2
<1>12. CASE WakeNotify(t)
  <2>1. CASE list[t] = NULL
    BY <1>12, <2>1, Zenon DEF WakeNotify, At, Goto, TypeOK, WakePC, WaitPC, NotifyPC, LeavePC
  <2>2. CASE ~(list[t] = NULL)
    <3>1. fired' \in Seq(Notes)
      <4>1. list[t] \in Notes /\ fired \in Seq(Notes)
        BY <2>2 DEF TypeOK, WakePC, WaitPC, NotifyPC, LeavePC
      <4>2. fired' = Append(fired, list[t])
        BY <1>12, <2>2 DEF WakeNotify, TypeOK, WakePC, WaitPC, NotifyPC, LeavePC
      <4>3. QED
        BY ONLY <4>1, <4>2
    <3>2. QED
      BY <1>12, <2>2, <3>1, Zenon DEF WakeNotify, Goto, TypeOK, WakePC, WaitPC, NotifyPC,
         LeavePC
  <2>3. QED
    BY <2>1, <2>2
<1>13. CASE WakeNext(t)
  <2>1. CASE nxt[list[t]] = NULL
    BY <1>13, <2>1 DEF WakeNext, At, Goto, TypeOK, WakePC, WaitPC, NotifyPC, LeavePC
  <2>2. CASE ~(nxt[list[t]] = NULL)
    <3>1. list[t] \in Notes
      BY <1>13 DEF WakeNext, At, LocalsInv, TypeOK
    <3>2. list' \in [Threads -> Notes \cup {NULL}] /\ tail' = tail
      BY <1>13, <2>2, <3>1 DEF WakeNext, TypeOK, WakePC, WaitPC, NotifyPC, LeavePC
    <3>3. QED
      BY <1>13, <3>2 DEF WakeNext, Goto, TypeOK, WakePC, WaitPC, NotifyPC, LeavePC
  <2>3. QED
    BY <2>1, <2>2
<1>14. CASE WakeRelease(t)
  BY <1>r, <1>14 DEF WakeRelease, At, ReleaseRef, Goto, TypeOK, WakePC, WaitPC, NotifyPC,
     LeavePC
<1>15. CASE WaitCheck(t)
  BY <1>15, Zenon DEF WaitCheck, At, CallWake, Goto, TypeOK, WakePC, WaitPC, NotifyPC, LeavePC
<1>16. CASE WaitInc(t)
  BY <1>16 DEF WaitInc, At, Goto, TypeOK, WakePC, WaitPC, NotifyPC, LeavePC
<1>17. CASE WaitRecheck(t)
  BY <1>17, Zenon DEF WaitRecheck, At, CallWake, Goto, TypeOK, WakePC, WaitPC, NotifyPC, LeavePC
<1>18. CASE WaitWoken(t)
  BY <1>18 DEF WaitWoken, At, Goto, TypeOK, WakePC, WaitPC, NotifyPC, LeavePC
<1>19. CASE WaitTimedOut(t)
  BY <1>19 DEF WaitTimedOut, At, Goto, TypeOK, WakePC, WaitPC, NotifyPC, LeavePC
<1>20. CASE WaitUndo(t)
  <2>1. CASE waiters > 0
    <3>1. waiters' \in Nat
      BY <1>20, <2>1 DEF WaitUndo, TypeOK, WakePC, WaitPC, NotifyPC, LeavePC
    <3>2. QED
      BY <1>20, <2>1, <3>1, Zenon DEF WaitUndo, Goto, TypeOK, WakePC, WaitPC, NotifyPC, LeavePC
  <2>2. CASE ~(waiters > 0)
    BY <1>20, <2>2, Zenon DEF WaitUndo, At, Goto, TypeOK, WakePC, WaitPC, NotifyPC, LeavePC
  <2>3. QED
    BY <2>1, <2>2
<1>21. CASE NotifyRetain(t)
  BY <1>21 DEF NotifyRetain, At, Goto, TypeOK, WakePC, WaitPC, NotifyPC, LeavePC
<1>22. CASE FlushHead(t)
  BY <1>22 DEF FlushHead, At, TypeOK, WakePC, WaitPC, NotifyPC, LeavePC
<1>23. CASE NotifyCheck(t)
  BY <1>23, Zenon DEF NotifyCheck, WakeIfEmpty, CallWake, Goto, TypeOK, WakePC, WaitPC,
     NotifyPC, LeavePC
<1>24. CASE \E k \in {"now", "timed", "forever"} : dispatch_group_wait(t, k)
  <2>1. PICK k \in {"now", "timed", "forever"} : dispatch_group_wait(t, k)
    BY <1>24
  <2>2. calls' \in [Threads -> Nat] /\ \A u \in Threads : calls'[u] <= MaxCalls[u]
    BY <1>c, <2>1 DEF dispatch_group_wait, MayCall, Called, TypeOK, WakePC, WaitPC, NotifyPC,
       LeavePC
  <2>3. CASE Empty \/ k = "now"
    BY <2>1, <2>2, <2>3 DEF dispatch_group_wait, TypeOK, WakePC, WaitPC, NotifyPC, LeavePC
  <2>4. CASE ~(Empty \/ k = "now")
    BY <2>1, <2>2, <2>4, Zenon DEF dispatch_group_wait, Goto, TypeOK, WakePC, WaitPC,
       NotifyPC, LeavePC
  <2>5. QED
    BY <2>3, <2>4
<1>25. CASE dispatch_group_notify_f(t)
  <2>1. <<t, calls[t] + 1>> \in Notes
    BY <1>c, <1>25, <1>n DEF dispatch_group_notify_f, MayCall, TypeOK, WakePC, WaitPC,
       NotifyPC, LeavePC
  <2>2. QED
    BY <1>c, <1>25, <2>1 DEF dispatch_group_notify_f, MayCall, At, Called, Goto, TypeOK,
       WakePC, WaitPC, NotifyPC, LeavePC
<1>26. CASE NotifyLink(t)
  <2>1. Note(t) \in Notes
    BY <1>c, <1>26, <1>n DEF NotifyLink, At, LocalsInv, Note, TypeOK, WakePC, WaitPC,
       NotifyPC, LeavePC
  <2>2. QED
    BY <1>26, <2>1, Zenon DEF NotifyLink, At, Goto, TypeOK, WakePC, WaitPC, NotifyPC, LeavePC
<1>27. CASE NotifyHead(t)
  <2>1. Note(t) \in Notes
    BY <1>c, <1>27, <1>n DEF NotifyHead, At, LocalsInv, Note, TypeOK, WakePC, WaitPC,
       NotifyPC, LeavePC
  <2>2. QED
    BY <1>27, <2>1, Zenon DEF NotifyHead, At, Goto, TypeOK, WakePC, WaitPC, NotifyPC, LeavePC
<1>28. QED
  BY <1>1, <1>2, <1>3, <1>4, <1>5, <1>6, <1>7, <1>8, <1>9, <1>10, <1>11, <1>12, <1>13, <1>14,
     <1>15,
     <1>16, <1>17, <1>18, <1>19, <1>20, <1>21, <1>22, <1>23, <1>24, <1>25, <1>26, <1>27
     DEF Step, Call, Wake, Wait, Notify, Leave

-----------------------------------------------------------------------------
(* Every step preserves the account of the threads that wait.              *)

\* Every step preserves the account of the threads that wait: who joins the waiters
\* counts itself, and a wake owes a token for each that it takes.
LEMMA SleepInvariant == ConstantsOK /\ IInv /\ Next => SleepInv'
<1> SUFFICES ASSUME ConstantsOK, IInv, NEW t \in Threads, Step(t) PROVE SleepInv'
  BY DEF Next
<1> TypeOK /\ SleepInv
  BY DEF IInv
<1> USE DEF object, refs, client, wake, history
<1> DEFINE Out == Ind(pc[t] \in WaitingPC)
           In == Ind(pc'[t] \in WaitingPC)
           N == Cardinality(Waiting)
           M == Cardinality(Tokens(owed))
<1>1. /\ \A u \in Threads : u # t => pc'[u] = pc[u] /\ owed'[u] = owed[u]
      /\ pc = [u \in Threads |-> pc[u]]
  BY Frame DEF TypeOK
<1>2. /\ owed \in [Threads -> Nat] /\ waiters \in Nat /\ sem \in Nat /\ N \in Nat /\ M \in Nat
      /\ IsFiniteSet(Tokens(owed)) /\ N <= waiters + sem + M
      /\ N' \in Nat /\ N' = N + In - Out
  <2>1. IsFiniteSet(Waiting)
    BY FS_Subset DEF ConstantsOK, Waiting, ThreadsAt
  <2>2. \A u : u # t => (u \in Waiting <=> u \in Waiting')
    BY <1>1 DEF Waiting, ThreadsAt
  <2>3. N' \in Nat /\ N \in Nat /\ N' = N + Ind(t \in Waiting') - Ind(t \in Waiting)
    BY <2>1, <2>2, CardMove, Zenon
  <2>4. (t \in Waiting <=> pc[t] \in WaitingPC) /\ (t \in Waiting' <=> pc'[t] \in WaitingPC)
    BY DEF Waiting, ThreadsAt
  <2>5. QED
    BY <2>3, <2>4, FS_CardinalityType DEF SleepInv, TypeOK
<1>3. /\ In \in {0, 1} /\ Out \in {0, 1}
      /\ (In = 1 <=> pc'[t] \in WaitingPC) /\ (Out = 1 <=> pc[t] \in WaitingPC)
  BY DEF Ind
<1> HIDE DEF In, Out, N, M
<1>4. ASSUME IsFiniteSet(Tokens(owed')), N' <= waiters' + sem' + M', owed'[t] > 0 => pc'[t] = "wake_post"
      PROVE  SleepInv'
  <2>1. \A u \in Threads : owed'[u] > 0 => pc'[u] = "wake_post"
    BY <1>1, <1>4 DEF SleepInv
  <2>2. QED
    BY <1>4, <2>1 DEF SleepInv, N, M
\* the steps that take nothing from the account
<1>5. ASSUME owed' = owed, sem' = sem, owed[t] > 0 => pc'[t] = "wake_post",
             \/ waiters' = waiters + In - Out
             \/ waiters' = waiters /\ In <= Out
      PROVE  SleepInv'
  <2>1. M' = M /\ Tokens(owed') = Tokens(owed)
    BY <1>5 DEF M, Tokens
  <2>2. N' <= waiters' + sem' + M'
    BY <1>2, <1>3, <1>5, <2>1
  <2>3. QED
    BY <1>2, <1>4, <1>5, <2>1, <2>2
<1>6. owed[t] > 0 => pc[t] = "wake_post"
  BY DEF SleepInv
<1>7. CASE WaitWoken(t)
  <2>1. waiters' = waiters /\ owed' = owed /\ sem > 0 /\ sem' = sem - 1 /\ In = 0 /\ Out = 1
    BY <1>1, <1>3, <1>7 DEF WaitWoken, At, Goto, WaitingPC
  <2>2. M' = M /\ Tokens(owed') = Tokens(owed) /\ ~(owed'[t] > 0)
    BY <1>2, <1>6, <1>7, <2>1 DEF M, Tokens, WaitWoken, At
  <2>3. N' <= waiters' + sem' + M'
    BY <1>2, <2>1, <2>2
  <2>4. QED
    BY <1>2, <1>4, <2>2, <2>3
<1>8. CASE WakeTakeWaiters(t)
  <2>1. /\ waiters' = 0 /\ sem' = sem /\ owed' = [owed EXCEPT ![t] = waiters] /\ In = 0 /\ Out = 0
        /\ owed[t] = 0 /\ pc'[t] = "wake_post"
    BY <1>1, <1>2, <1>3, <1>6, <1>8 DEF WakeTakeWaiters, At, Goto, WaitingPC
  <2>2. IsFiniteSet(Tokens(owed')) /\ M' = M + waiters
    BY <1>2, <2>1, TokensGive, Zenon DEF M
  <2>3. N' <= waiters' + sem' + M'
    BY <1>2, <2>1, <2>2
  <2>4. QED
    BY <1>4, <2>1, <2>2, <2>3
<1>9. CASE WakePost(t) /\ owed[t] > 0
  <2>1. /\ waiters' = waiters /\ sem' = sem + 1 /\ owed' = [owed EXCEPT ![t] = @ - 1] /\ In = Out
        /\ pc'[t] = "wake_post"
    BY <1>6, <1>9 DEF WakePost, In, Out
  <2>2. IsFiniteSet(Tokens(owed')) /\ M' = M - 1
    BY <1>2, <1>9, <2>1, TokensRemove, Zenon DEF M
  <2>3. N' <= waiters' + sem' + M'
    BY <1>2, <1>3, <2>1, <2>2
  <2>4. QED
    BY <1>4, <2>1, <2>2, <2>3
<1>10. ASSUME UNCHANGED <<owed, sem>>, owed[t] > 0 => pc'[t] = "wake_post", waiters' = waiters,
              pc'[t] \in WaitingPC => pc[t] \in WaitingPC
       PROVE  SleepInv'
  BY <1>3, <1>5, <1>10
<1>11. ASSUME UNCHANGED <<owed, sem>>, ~(owed[t] > 0), WaitInc(t) \/ WaitUndo(t) PROVE SleepInv'
  <2>1. waiters' = waiters + In - Out \/ (waiters' = waiters /\ In <= Out)
    BY <1>1, <1>2, <1>3, <1>11 DEF WaitInc, WaitUndo, At, Goto, WaitingPC
  <2>2. QED
    BY <1>5, <1>11, <2>1
<1>12. CASE Call(t)
  BY <1>1, <1>2, <1>6, <1>10, <1>12 DEF WaitingPC, Call, dispatch_group_enter,
     dispatch_group_async_f, dispatch_group_notify_f, dispatch_release,
     dispatch_group_wait, MayCall, Called, At, Goto
<1>13. CASE Leave(t)
  BY <1>1, <1>2, <1>6, <1>10, <1>13 DEF WaitingPC, Leave, dispatch_group_leave, LeaveCheck,
     RunBlock, BlockCheck, BlockRelease, WakeIfEmpty,
     CallWake, At, Goto
<1>14. CASE Notify(t)
  BY <1>1, <1>2, <1>6, <1>10, <1>14 DEF WaitingPC, Notify, NotifyLink, NotifyRetain,
     NotifyHead, FlushHead, NotifyCheck, WakeIfEmpty, CallWake,
     At, Goto
<1>15. CASE Wake(t)
  <2>1. ret[t] \in {"idle", "block_release"}
    BY DEF TypeOK
  <2>2. QED
    BY <1>1, <1>2, <1>6, <1>8, <1>9, <1>10, <1>15, <2>1 DEF WaitingPC, Wake, WakeTakeList,
       WakeTakeWaiters, WakePost, WakeNotify, WakeNext, WakeRelease, At, Goto
<1>16. CASE Wait(t) \/ WaitTimedOut(t)
  BY <1>1, <1>2, <1>6, <1>7, <1>10, <1>11, <1>16 DEF WaitingPC, Wait, WaitCheck, WaitInc,
     WaitRecheck, WaitWoken, WaitUndo, WaitTimedOut, CallWake, At, Goto
<1>17. QED
  BY <1>12, <1>13, <1>14, <1>15, <1>16 DEF Step

-----------------------------------------------------------------------------
(* Every step keeps the account of who is inside, and of the references.   *)

\* Every step preserves the account of who is inside: dsema_value, the blocks and the
\* clients inside add up to its original value.
LEMMA EnteredInvariant == ConstantsOK /\ IInv /\ Next => Entered'
<1> SUFFICES ASSUME ConstantsOK, IInv, NEW t \in Threads, Step(t) PROVE Entered'
  BY DEF Next
<1> TypeOK /\ Entered
  BY DEF IInv
<1> USE DEF object, refs, client, wake, history
<1>t. /\ value \in Int /\ blocks \in Nat /\ Orig \in Nat /\ inside \in [Threads -> Nat]
      /\ IsFiniteSet(Tokens(inside)) /\ Cardinality(Tokens(inside)) \in Nat
      /\ value + blocks + Cardinality(Tokens(inside)) = Orig
  BY FS_CardinalityType DEF TypeOK, Entered, ConstantsOK
<1>1. CASE dispatch_group_enter(t)
  <2>1. value' = value - 1 /\ blocks' = blocks /\ inside' = [inside EXCEPT ![t] = @ + 1]
    BY <1>1 DEF dispatch_group_enter
  <2>2. IsFiniteSet(Tokens(inside')) /\ Cardinality(Tokens(inside')) = Cardinality(Tokens(inside)) + 1
    BY <1>t, <2>1, TokensAdd, Zenon
  <2>3. QED
    BY <1>t, <2>1, <2>2 DEF Entered
<1>2. CASE dispatch_group_leave(t)
  <2>1. value' = value + 1 /\ blocks' = blocks /\ inside' = [inside EXCEPT ![t] = @ - 1] /\ inside[t] > 0
    BY <1>2 DEF dispatch_group_leave
  <2>2. IsFiniteSet(Tokens(inside')) /\ Cardinality(Tokens(inside')) = Cardinality(Tokens(inside)) - 1
    BY <1>t, <2>1, TokensRemove, Zenon
  <2>3. QED
    BY <1>t, <2>1, <2>2 DEF Entered
<1>3. CASE dispatch_group_async_f(t)
  BY <1>t, <1>3 DEF dispatch_group_async_f, Entered, Tokens
<1>4. CASE RunBlock(t)
  BY <1>t, <1>4 DEF RunBlock, Entered, Tokens
<1>5. CASE UNCHANGED <<value, blocks, inside>>
  BY <1>t, <1>5 DEF Entered, Tokens
<1>6. QED
  <2>1. CASE Call(t)
    BY <1>1, <1>3, <1>5, <2>1, Zenon DEF Call, dispatch_group_notify_f, dispatch_release,
       dispatch_group_wait
  <2>2. CASE Wake(t)
    BY <1>5, <2>2 DEF Wake, WakeTakeList, WakeTakeWaiters, WakePost, WakeNotify, WakeNext,
       WakeRelease
  <2>3. CASE Wait(t) \/ WaitTimedOut(t)
    BY <1>5, <2>3 DEF Wait, WaitCheck, WaitInc, WaitRecheck, WaitWoken, WaitUndo, WaitTimedOut
  <2>4. CASE Notify(t)
    BY <1>5, <2>4, Zenon DEF Notify, NotifyLink, NotifyRetain, NotifyHead, FlushHead,
       NotifyCheck
  <2>5. CASE Leave(t)
    BY <1>2, <1>4, <1>5, <2>5 DEF Leave, LeaveCheck, BlockCheck, BlockRelease
  <2>6. QED
    BY <2>1, <2>2, <2>3, <2>4, <2>5 DEF Step

\* Whoever is at work, or inside, has a reference.
LEMMA UsersInvariant == ConstantsOK /\ IInv /\ Next => Users'
<1> SUFFICES ASSUME IInv, NEW t \in Threads, Step(t) PROVE Users'
  BY DEF Next
<1> TypeOK /\ Users
  BY DEF IInv
<1> USE DEF object, refs, client, wake, history
<1>a. /\ pc = [u \in Threads |-> pc[u]] /\ ret = [u \in Threads |-> ret[u]]
      /\ took = [u \in Threads |-> took[u]] /\ inside \in [Threads -> Nat]
      /\ ret[t] \in {"idle", "block_release"}
  BY DEF TypeOK
<1>b. /\ t \in InBlock <=> pc[t] \in {"block_check", "block_release"} \/ ret[t] = "block_release"
      /\ t \in InBlock' <=> pc'[t] \in {"block_check", "block_release"} \/ ret'[t] = "block_release"
  BY DEF InBlock
<1>c. /\ pc[t] # "idle" /\ t \notin InBlock => t \in xref
      /\ inside[t] > 0 => t \in xref
      /\ ret[t] = "block_release" => pc[t] \in WakePC
      /\ took[t] => pc[t] \in WakePC \ {"wake"}
  BY DEF Users
<1> DEFINE Mine == /\ pc'[t] # "idle" /\ t \notin InBlock' => t \in xref'
                   /\ inside'[t] > 0 => t \in xref'
                   /\ ret'[t] = "block_release" => pc'[t] \in WakePC
                   /\ took'[t] => pc'[t] \in WakePC \ {"wake"}
                   /\ xref' \cup {t} = xref \cup {t}
<1>1. ASSUME Call(t) PROVE Mine
  BY <1>a, <1>b, <1>c, <1>1 DEF WakePC, Call, dispatch_group_enter, dispatch_group_async_f,
     dispatch_group_notify_f, dispatch_release,
     dispatch_group_wait, MayCall, Called, At, Goto
<1>2. ASSUME Leave(t) PROVE Mine
  BY <1>a, <1>b, <1>c, <1>2 DEF WakePC, Leave, dispatch_group_leave, LeaveCheck, RunBlock,
     BlockCheck, BlockRelease, WakeIfEmpty,
     CallWake, At, Goto
<1>3. ASSUME Wake(t) PROVE Mine
  BY <1>a, <1>b, <1>c, <1>3 DEF WakePC, Wake, WakeTakeList, WakeTakeWaiters, WakePost,
     WakeNotify, WakeNext, WakeRelease, At, Goto
<1>4. ASSUME Wait(t) \/ WaitTimedOut(t) PROVE Mine
  BY <1>a, <1>b, <1>c, <1>4 DEF WakePC, Wait, WaitCheck, WaitInc, WaitRecheck, WaitWoken,
     WaitUndo, WaitTimedOut, CallWake, At, Goto
<1>5. ASSUME Notify(t) PROVE Mine
  BY <1>a, <1>b, <1>c, <1>5 DEF WakePC, Notify, NotifyLink, NotifyRetain, NotifyHead,
     FlushHead, NotifyCheck, WakeIfEmpty, CallWake,
     At, Goto
<1>6. Mine
  BY <1>1, <1>2, <1>3, <1>4, <1>5, Zenon DEF Step
<1>7. QED
  <2>1. \A u \in Threads : u # t =>
          /\ pc'[u] = pc[u] /\ ret'[u] = ret[u] /\ took'[u] = took[u] /\ inside'[u] = inside[u]
          /\ (u \in xref' <=> u \in xref)
    BY <1>6, Frame
  <2>2. QED
    BY <1>6, <2>1 DEF Users, InBlock
=============================================================================
