-------------------------- MODULE DispatchGroupList -------------------------
(***************************************************************************)
(* Every step of DispatchGroup preserves what the invariant says of the    *)
(* lock-free list of notifications: who has it, what is at its front and   *)
(* how far it is linked.  There is one lemma for each step that changes    *)
(* the list; all other steps stay aside of it.                             *)
(***************************************************************************)
EXTENDS DispatchGroupInvariant

-----------------------------------------------------------------------------
(* Every step preserves the list of notifications.                         *)

\* What a step needs to know of the types.
Funs ==
    /\ pc = [u \in Threads |-> pc[u]] /\ list = [u \in Threads |-> list[u]]
    /\ buffer = [u \in Threads |-> buffer[u]] /\ prev = [u \in Threads |-> prev[u]]
    /\ nxt = [n \in Notes |-> nxt[n]] /\ calls \in [Threads -> Nat]

\* The types give it.
LEMMA FunsOf == TypeOK => Funs
BY DEF TypeOK, Funs

\* A step that has nothing to do with the list.
Aside ==
    /\ UNCHANGED <<head, tail, nxt, list, prev, buffer, noted, fired>>
    /\ \A u \in Threads :
         /\ calls'[u] >= calls[u]
         /\ Forming(u) \/ pc[u] \in NotifyPC => calls'[u] = calls[u]
         /\ pc'[u] = "notify_link" <=> pc[u] = "notify_link"
         /\ pc'[u] = "wake_next" <=> pc[u] = "wake_next"
         /\ pc'[u] \in {"notify_retain", "notify_head"} <=> pc[u] \in {"notify_retain", "notify_head"}
         /\ pc'[u] = "notify_check" => pc[u] = "notify_check"
         /\ list[u] # NULL => pc'[u] \in {"wake_waiters", "wake_post", "wake_notify", "wake_next"}
         /\ buffer[u] # NULL => pc'[u] \in {"notify_check", "wake", "idle"}

\* A step aside of the list keeps the invariant of the list.
LEMMA AsideKeeps == ConstantsOK /\ IInv /\ TypeOK' /\ Aside => ListInv'
<1> SUFFICES ASSUME ConstantsOK, IInv, TypeOK', Aside PROVE ListInv'
  OBVIOUS
<1> TypeOK /\ ListInv
  BY DEF IInv
<1>1. /\ UNCHANGED <<Cur, Index>>
      /\ \A u \in Threads : (Forming(u)' <=> Forming(u)) /\ (Holding(u)' <=> Holding(u))
  BY DEF Aside, Cur, Index, Forming, Holding
<1>2. \A u \in Threads : Forming(u) \/ pc[u] \in NotifyPC => Note(u)' = Note(u)
  BY DEF Aside, Note
<1>3. Ordered'
  <2>1. \A i \in Index : noted[i][1] \in Threads /\ noted[i][2] \in Nat
    <3>1. \A i \in Index : noted[i] \in Notes
      BY DEF Index, TypeOK
    <3>2. QED
      BY <3>1, NoteParts
  <2>2. \A u \in Threads : calls[u] \in Nat /\ calls'[u] \in Nat /\ calls'[u] >= calls[u]
    BY DEF Aside, TypeOK
  <2>3. \A i \in Index : noted[i][2] <= calls'[noted[i][1]]
    BY <2>1, <2>2 DEF ListInv, Ordered
  <2>4. QED
    BY <1>1, <2>3 DEF Aside, ListInv, Ordered
<1>4. LocalsInv'
  <2>1. \A u \in Threads : buffer[u] # NULL => buffer'[u] = Note(u)'
    BY <1>2 DEF Aside, ListInv, LocalsInv, Forming
  <2>2. \A u \in Threads : pc'[u] \in NotifyPC => calls'[u] > 0
    BY DEF Aside, ListInv, LocalsInv, NotifyPC
  <2>3. QED
    BY <2>1, <2>2 DEF Aside, ListInv, LocalsInv
<1>5. ListHeld'
  BY <1>1 DEF Aside, ListInv, ListHeld
<1>6. AtFront'
  BY <1>1, <1>2 DEF Aside, ListInv, AtFront
<1>7. Linked'
  BY <1>1, <1>2 DEF Aside, ListInv, Linked, NotifyPC
<1>8. QED
  BY <1>3, <1>4, <1>5, <1>6, <1>7 DEF ListInv

\* What the invariant says of the sequences and of whoever holds the list.
LEMMA ListFacts ==
    ASSUME ConstantsOK, IInv
    PROVE  /\ Len(noted) \in Nat /\ Len(fired) \in Nat /\ Cur \in Nat
           /\ \A i \in Index : noted[i] \in Notes /\ noted[i] # NULL
           /\ \A t \in Threads : Holding(t) => tail # NULL /\ Cur \in Index /\ head = NULL
           /\ \A t \in Threads : pc[t] = "wake_next" => Holding(t) /\ Cur = Len(fired)
           /\ \A t \in Threads : Holding(t) /\ pc[t] # "wake_next" => Cur = Len(fired) + 1
<1> TypeOK /\ ListInv
  BY DEF IInv
<1>1. Len(noted) \in Nat /\ Len(fired) \in Nat
  BY DEF TypeOK
<1>2. \A i \in Index : noted[i] \in Notes
  BY DEF TypeOK, Index
<1>3. \A i \in Index : noted[i] # NULL
  BY <1>2, NoteParts
<1>4. \A t \in Threads : Holding(t) => tail # NULL /\ Cur \in Index /\ head = NULL
  BY DEF ListInv, ListHeld
<1>5. \A t \in Threads : pc[t] = "wake_next" => Holding(t) /\ Cur = Len(fired)
  BY <1>1 DEF ListInv, LocalsInv, Holding, Cur, Ind
<1>6. \A t \in Threads : Holding(t) /\ pc[t] # "wake_next" => Cur = Len(fired) + 1
  BY <1>1, <1>5 DEF ListInv, ListHeld, Cur, Ind
<1>7. QED
  BY <1>1, <1>2, <1>3, <1>4, <1>5, <1>6 DEF Cur, Ind

\* Linking a notification to the one before it.
LEMMA NotifyLinkKeeps ==
    ASSUME ConstantsOK, IInv, TypeOK', NEW t \in Threads, NotifyLink(t) PROVE ListInv'
<1> TypeOK /\ ListInv /\ Funs
  BY FunsOf DEF IInv
<1> USE DEF object, refs, client, wake, history
<1>1. PICK i \in Cur .. Len(noted) - 1 :
        prev[t] = noted[i] /\ Note(t) = noted[i + 1] /\ nxt[noted[i]] = NULL
  BY DEF NotifyLink, At, ListInv, Linked
<1>2. /\ UNCHANGED <<head, tail, list, buffer, noted, fired, calls>>
      /\ nxt' = [nxt EXCEPT ![noted[i]] = noted[i + 1]]
      /\ pc[t] = "notify_link" /\ pc' = [pc EXCEPT ![t] = "idle"] /\ prev' = [prev EXCEPT ![t] = NULL]
      /\ buffer[t] = NULL
  BY <1>1 DEF NotifyLink, Goto, At
<1>3. /\ UNCHANGED <<Cur, Index>> /\ \A u \in Threads : Note(u)' = Note(u)
      /\ \A u \in Threads : (Forming(u)' <=> Forming(u)) /\ (Holding(u)' <=> Holding(u))
  BY <1>2 DEF Funs, Cur, Index, Forming, Holding, Note
<1>4. Ordered' /\ LocalsInv' /\ ListHeld' /\ AtFront'
  <2>1. Ordered'
    BY <1>2, <1>3 DEF ListInv, Ordered
  <2>2. LocalsInv'
    BY <1>2, <1>3 DEF Funs, ListInv, LocalsInv, NotifyPC
  <2>3. ListHeld'
    BY <1>2, <1>3 DEF ListInv, ListHeld
  <2>4. AtFront'
    BY <1>2, <1>3 DEF ListInv, AtFront
  <2>5. QED
    BY <2>1, <2>2, <2>3, <2>4
<1>5. tail # NULL /\ i \in Index /\ i + 1 \in Index /\ tail = noted[Len(noted)]
  <2>1. Len(noted) \in Nat /\ Len(fired) \in Nat /\ Cur \in Nat /\ Cur < Len(noted)
    BY <1>1, ListFacts
  <2>2. tail # NULL
    BY <2>1, ListFacts DEF ListInv, ListHeld, Cur, Ind
  <2>3. Cur >= 1
    BY <2>2, ListFacts DEF ListInv, ListHeld, Index
  <2>4. QED
    BY <1>1, <2>1, <2>2, <2>3 DEF ListInv, ListHeld, Index
<1>6. \A j \in Index : j # i => nxt'[noted[j]] = nxt[noted[j]]
  BY <1>2, <1>5, ListFacts DEF Funs, ListInv, Ordered
<1>7. nxt'[noted[i]] = noted[i + 1]
  BY <1>2, <1>5, ListFacts DEF Funs
<1>8. Linked'
  <2>1. \A n \in Notes : (\A j \in Index : noted[j] # n) => nxt'[n] = NULL
    BY <1>2, <1>5 DEF Funs, ListInv, Linked
  <2>2. nxt'[tail] = NULL
    BY <1>1, <1>5, <1>6, ListFacts DEF ListInv, Linked, Index
  <2>3. \A j \in Cur .. Len(noted) - 1 : nxt'[noted[j]] \in {NULL, noted[j + 1]}
    BY <1>1, <1>5, <1>6, <1>7, ListFacts DEF ListInv, Linked, ListHeld, Index
  <2>4. ASSUME NEW u \in Threads, pc'[u] = "notify_link"
        PROVE  \E j \in Cur .. Len(noted) - 1 :
                 prev'[u] = noted[j] /\ Note(u) = noted[j + 1] /\ nxt'[noted[j]] = NULL
    <3>1. u # t /\ pc[u] = "notify_link" /\ prev'[u] = prev[u]
      BY <1>2, <2>4 DEF Funs
    <3>2. PICK j \in Cur .. Len(noted) - 1 :
            prev[u] = noted[j] /\ Note(u) = noted[j + 1] /\ nxt[noted[j]] = NULL
      BY <3>1 DEF ListInv, Linked
    <3>3. j # i
      BY <1>1, <3>1, <3>2 DEF Note
    <3>4. j \in Index
      BY <3>2, <1>5, ListFacts DEF ListInv, ListHeld, Index
    <3>5. QED
      BY <1>6, <3>1, <3>2, <3>3, <3>4
  <2>5. QED
    BY <1>2, <1>3, <2>1, <2>2, <2>3, <2>4 DEF Linked
<1>9. QED
  BY <1>4, <1>8 DEF ListInv

\* The head of the list becomes visible: at once, or when the buffer is flushed.
LEMMA HeadStored ==
    ASSUME ConstantsOK, IInv, TypeOK', NEW t \in Threads, Forming(t),
           head' = Note(t), buffer' = [buffer EXCEPT ![t] = NULL], Note(t) \in Notes,
           UNCHANGED <<tail, nxt, list, prev, noted, fired, calls>>,
           \/ pc[t] = "notify_head" /\ pc' = [pc EXCEPT ![t] = "notify_check"]
           \/ pc[t] \notin {"notify_retain", "notify_head"} /\ UNCHANGED pc
    PROVE  ListInv'
<1> TypeOK /\ ListInv /\ Funs
  BY FunsOf DEF IInv
<1>1. UNCHANGED <<Cur, Index>> /\ \A u \in Threads : Note(u)' = Note(u)
  BY DEF Funs, Cur, Index, Note
<1>2. \A u \in Threads : u # t => ~Holding(u)
  BY DEF ListInv, ListHeld, Holding
<1>3. \A u \in Threads : ~Forming(u)' /\ ~Holding(u)'
  <2>1. list[t] = NULL
    BY DEF Forming, ListInv, LocalsInv, Funs
  <2>2. ~Forming(t)' /\ ~Holding(t)'
    BY <2>1 DEF Forming, Holding, Funs
  <2>3. \A u \in Threads : u # t => ~Forming(u)' /\ ~Holding(u)'
    BY <1>2, Zenon DEF Forming, Holding, Funs
  <2>4. QED
    BY <2>2, <2>3
<1>4. Note(t) # NULL /\ Note(t) = noted[Cur] /\ tail # NULL
  BY NoteParts, ListFacts DEF ListInv, AtFront, Holding
<1>5. Ordered'
  BY <1>1 DEF ListInv, Ordered
<1>6. LocalsInv'
  <2>1. \A u \in Threads : pc'[u] \in NotifyPC => calls'[u] > 0
    BY DEF Funs, ListInv, LocalsInv, NotifyPC
  <2>2. \A u \in Threads : buffer'[u] = NULL
    BY <1>3 DEF Forming
  <2>3. \A u \in Threads : list'[u] = NULL
    BY <1>3 DEF Holding
  <2>4. \A u \in Threads : pc'[u] # "wake_next"
    <3>1. \A u \in Threads : pc[u] = "wake_next" => list[u] # NULL
      BY DEF ListInv, LocalsInv
    <3>2. QED
      BY <2>3, <3>1 DEF Funs
  <2>5. QED
    BY <2>1, <2>2, <2>3, <2>4 DEF LocalsInv
<1>7. ListHeld'
  BY <1>1, <1>3, <1>4 DEF ListInv, ListHeld
<1>8. AtFront'
  BY <1>1, <1>3, <1>4 DEF AtFront, Holding
<1>9. Linked'
  <2>1. \A u \in Threads : pc'[u] = "notify_link" => pc[u] = "notify_link"
    BY DEF Funs
  <2>2. QED
    BY <1>1, <2>1 DEF ListInv, Linked
<1>10. QED
  BY <1>5, <1>6, <1>7, <1>8, <1>9 DEF ListInv

\* Storing dsema_notify_head, or a store of it that becomes visible.
LEMMA NotifyHeadKeeps ==
    ASSUME ConstantsOK, IInv, TypeOK', NEW t \in Threads, NotifyHead(t) \/ FlushHead(t) PROVE ListInv'
<1> TypeOK /\ ListInv /\ Funs
  BY FunsOf DEF IInv
<1> USE DEF object, refs, client, wake, history
<1>1. Note(t) \in Notes /\ Note(t) # NULL
  <2>1. calls[t] > 0
    <3>1. CASE NotifyHead(t)
      BY <3>1 DEF NotifyHead, At, NotifyPC, ListInv, LocalsInv
    <3>2. CASE FlushHead(t)
      <4>1. buffer[t] \in Notes /\ buffer[t] = <<t, calls[t]>>
        BY <3>2 DEF FlushHead, ListInv, LocalsInv, Note, TypeOK
      <4>2. PICK u \in Threads : \E i \in 1 .. MaxCalls[u] : buffer[t] = <<u, i>>
        BY <4>1, NotesOf
      <4>3. QED
        BY <4>1, <4>2 DEF TypeOK
    <3>3. QED
      BY <3>1, <3>2
  <2>2. calls[t] \in 1 .. MaxCalls[t]
    <3>1. MaxCalls[t] \in Nat
      BY DEF ConstantsOK
    <3>2. QED
      BY <2>1, <3>1 DEF TypeOK
  <2>3. QED
    BY <2>2, NotesOf DEF Note, ConstantsOK
<1>2. CASE FlushHead(t)
  BY <1>1, <1>2, HeadStored, Zenon DEF FlushHead, ListInv, LocalsInv, Forming
<1>3. CASE NotifyHead(t) /\ ~StoreBuffer
  <2>1. buffer' = [buffer EXCEPT ![t] = NULL]
    BY <1>3 DEF NotifyHead, At, Funs
  <2>2. QED
    BY <1>1, <1>3, <2>1, HeadStored, Zenon DEF NotifyHead, At, Goto, Forming
<1>4. CASE NotifyHead(t) /\ StoreBuffer
  <2>1. /\ UNCHANGED <<head, tail, nxt, list, prev, noted, fired, calls>>
        /\ pc[t] = "notify_head" /\ pc' = [pc EXCEPT ![t] = "notify_check"]
        /\ buffer' = [buffer EXCEPT ![t] = Note(t)]
    BY <1>4 DEF NotifyHead, At, Goto
  <2>2. UNCHANGED <<Cur, Index>> /\ \A u \in Threads : Note(u)' = Note(u)
    BY <2>1 DEF Funs, Cur, Index, Note
  <2>3. \A u \in Threads : (Forming(u)' <=> Forming(u)) /\ (Holding(u)' <=> Holding(u))
    BY <1>1, <2>1, Zenon DEF Funs, Forming, Holding
  <2>4. Ordered'
    BY <2>1, <2>2 DEF ListInv, Ordered
  <2>5. LocalsInv'
    BY <2>1, <2>2, Zenon DEF ListInv, LocalsInv, Funs, NotifyPC
  <2>6. ListHeld'
    BY <2>1, <2>2, <2>3 DEF ListInv, ListHeld
  <2>7. AtFront'
    BY <2>1, <2>2, <2>3 DEF ListInv, AtFront
  <2>8. Linked'
    <3>1. \A u \in Threads : pc'[u] = "notify_link" => pc[u] = "notify_link"
      BY <2>1 DEF Funs
    <3>2. QED
      BY <2>1, <2>2, <3>1 DEF ListInv, Linked
  <2>9. QED
    BY <2>4, <2>5, <2>6, <2>7, <2>8 DEF ListInv
<1>5. QED
  BY <1>2, <1>3, <1>4

\* _dispatch_group_wake() takes the list.
LEMMA WakeTakeListKeeps ==
    ASSUME ConstantsOK, IInv, TypeOK', NEW t \in Threads, WakeTakeList(t) PROVE ListInv'
<1> TypeOK /\ ListInv /\ Funs
  BY FunsOf DEF IInv
<1> USE DEF object, refs, client, wake, history
<1>1. /\ UNCHANGED <<tail, nxt, prev, buffer, noted, fired, calls>>
      /\ pc[t] = "wake" /\ pc' = [pc EXCEPT ![t] = "wake_waiters"]
      /\ buffer[t] = NULL /\ list' = [list EXCEPT ![t] = head] /\ head' = NULL
  BY DEF WakeTakeList, At, Goto
<1>2. UNCHANGED <<Cur, Index>> /\ \A u \in Threads : Note(u)' = Note(u)
  BY <1>1 DEF Funs, Cur, Index, Note
<1>3. list[t] = NULL /\ ~Holding(t)
  BY <1>1 DEF ListInv, LocalsInv, Holding, Forming
<1>4. /\ \A u \in Threads : u # t => (Holding(u)' <=> Holding(u)) /\ list'[u] = list[u]
      /\ \A u \in Threads : Forming(u)' <=> Forming(u)
      /\ ~Forming(t) /\ list'[t] = head /\ (Holding(t)' <=> head # NULL)
  BY <1>1 DEF Funs, Forming, Holding
<1>5. Ordered'
  BY <1>1, <1>2 DEF ListInv, Ordered
<1>6. LocalsInv'
  BY <1>1, <1>2, <1>3 DEF ListInv, LocalsInv, Funs, NotifyPC
<1>7. ListHeld'
  BY <1>1, <1>2, <1>3, <1>4 DEF ListInv, ListHeld
<1>8. AtFront'
  BY <1>1, <1>2, <1>4 DEF ListInv, AtFront
<1>9. Linked'
  <2>1. \A u \in Threads : pc'[u] = "notify_link" => pc[u] = "notify_link"
    BY <1>1 DEF Funs
  <2>2. QED
    BY <1>1, <1>2, <2>1 DEF ListInv, Linked
<1>10. QED
  BY <1>5, <1>6, <1>7, <1>8, <1>9 DEF ListInv

\* _dispatch_group_wake() submits the notification at the front.
LEMMA WakeNotifyKeeps ==
    ASSUME ConstantsOK, IInv, TypeOK', NEW t \in Threads, WakeNotify(t), list[t] # NULL PROVE ListInv'
<1> TypeOK /\ ListInv /\ Funs
  BY FunsOf DEF IInv
<1> USE DEF object, refs, client, wake, history
<1>1. /\ UNCHANGED <<head, tail, nxt, list, prev, buffer, noted, calls>>
      /\ pc[t] = "wake_notify" /\ pc' = [pc EXCEPT ![t] = "wake_next"]
      /\ fired' = Append(fired, list[t])
  BY DEF WakeNotify, At, Goto
<1>2. Holding(t) /\ Cur = Len(fired) + 1 /\ Cur \in Index /\ list[t] = noted[Cur]
  BY <1>1, ListFacts DEF Holding, ListInv, AtFront
<1>3. /\ Len(fired') = Len(fired) + 1 /\ fired'[Len(fired) + 1] = list[t]
      /\ \A i \in 1 .. Len(fired) : fired'[i] = fired[i]
  BY <1>1 DEF TypeOK
<1>4. UNCHANGED <<Cur, Index>> /\ \A u \in Threads : Note(u)' = Note(u)
  <2>1. pc'[t] = "wake_next"
    BY <1>1 DEF TypeOK
  <2>2. Cur' = Len(fired')
    BY <1>3, <2>1, ListFacts DEF Cur, Ind
  <2>3. QED
    BY <1>1, <1>2, <1>3, <2>2 DEF Index, Note
<1>5. \A u \in Threads : (Forming(u)' <=> Forming(u)) /\ (Holding(u)' <=> Holding(u))
  BY <1>1 DEF TypeOK, Forming, Holding
<1>6. Ordered'
  <2>1. Len(fired') <= Len(noted) /\ \A i \in 1 .. Len(fired') : fired'[i] = noted[i]
    BY <1>2, <1>3, ListFacts DEF ListInv, Ordered, Index
  <2>2. QED
    BY <1>1, <1>4, <2>1, Zenon DEF ListInv, Ordered
<1>7. LocalsInv'
  BY <1>1, <1>4 DEF ListInv, LocalsInv, Funs, NotifyPC
<1>8. ListHeld'
  <2>1. tail # NULL
    BY <1>2, ListFacts
  <2>2. QED
    BY <1>1, <1>4, <1>5, <2>1 DEF ListInv, ListHeld
<1>9. AtFront'
  BY <1>1, <1>4, <1>5 DEF ListInv, AtFront
<1>10. Linked'
  <2>1. \A u \in Threads : pc'[u] = "notify_link" => pc[u] = "notify_link"
    BY <1>1 DEF TypeOK
  <2>2. QED
    BY <1>1, <1>4, <2>1 DEF ListInv, Linked
<1>11. QED
  BY <1>6, <1>7, <1>8, <1>9, <1>10 DEF ListInv

\* _dispatch_group_wake() goes on to the next one, or empties the list.
LEMMA WakeNextKeeps ==
    ASSUME ConstantsOK, IInv, TypeOK', NEW t \in Threads, WakeNext(t) PROVE ListInv'
<1> TypeOK /\ ListInv /\ Funs
  BY FunsOf DEF IInv
<1> USE DEF object, refs, client, wake, history
<1>1. /\ UNCHANGED <<head, nxt, prev, buffer, noted, fired, calls>>
      /\ pc[t] = "wake_next" /\ pc' = [pc EXCEPT ![t] = "wake_notify"]
      /\ buffer[t] = NULL
      /\ list' = [list EXCEPT ![t] = nxt[list[t]]]
  BY Zenon DEF WakeNext, At, Goto
<1>2. /\ Holding(t) /\ Cur = Len(fired) /\ Cur \in Index /\ list[t] = noted[Cur]
      /\ tail # NULL /\ tail = noted[Len(noted)] /\ head = NULL
  BY <1>1, ListFacts DEF Holding, ListInv, AtFront, ListHeld, LocalsInv
<1>3. \A u \in Threads : u # t => ~Holding(u) /\ ~Holding(u)' /\ pc'[u] # "wake_next"
  <2>1. \A u \in Threads : u # t => ~Holding(u)
    BY <1>2 DEF ListInv, ListHeld
  <2>2. \A u \in Threads : pc[u] = "wake_next" => Holding(u)
    BY ListFacts
  <2>3. QED
    BY <1>1, <2>1, <2>2 DEF Funs, Holding, Forming
<1>4. Cur' = Cur + 1 /\ Index' = Index /\ \A u \in Threads : Note(u)' = Note(u)
  <2>1. ~\E u \in Threads : pc'[u] = "wake_next"
    BY <1>1, <1>3 DEF Funs
  <2>2. QED
    BY <1>1, <1>2, <2>1, ListFacts DEF Cur, Ind, Index, Note
<1>5. ~Forming(t) /\ ~Forming(t)' /\ list'[t] = nxt[list[t]] /\ (Holding(t)' <=> nxt[list[t]] # NULL)
  BY <1>1 DEF Funs, Holding, Forming
<1>6. Ordered'
  BY <1>1, <1>4 DEF ListInv, Ordered
<1>7. LocalsInv'
  BY <1>1, <1>4 DEF ListInv, LocalsInv, Funs, NotifyPC
<1>l. \A u \in Threads : pc'[u] = "notify_link" => pc[u] = "notify_link"
  BY <1>1 DEF Funs
<1>8. CASE nxt[list[t]] # NULL
  <2>1. tail' = tail
    BY <1>8, Zenon DEF WakeNext
  <2>2. Cur \in Cur .. Len(noted) - 1
    BY <1>2, <1>8, ListFacts DEF ListInv, Linked, Index
  <2>3. nxt[list[t]] = noted[Cur + 1] /\ Cur + 1 \in Index
    BY <1>2, <1>8, <2>2, ListFacts DEF ListInv, Linked, Index
  <2>4. ListHeld'
    BY <1>1, <1>2, <1>3, <1>4, <1>5, <1>8, <2>1, <2>3 DEF ListHeld
  <2>5. AtFront'
    BY <1>1, <1>2, <1>3, <1>4, <1>5, <2>3 DEF AtFront, Holding
  <2>6. Linked'
    <3>1. \A i \in Cur + 1 .. Len(noted) - 1 : nxt[noted[i]] \in {NULL, noted[i + 1]}
      BY <1>2, ListFacts DEF ListInv, Linked
    <3>2. ASSUME NEW u \in Threads, pc'[u] = "notify_link"
          PROVE  \E i \in Cur + 1 .. Len(noted) - 1 :
                   prev[u] = noted[i] /\ Note(u) = noted[i + 1] /\ nxt[noted[i]] = NULL
      <4>1. PICK i \in Cur .. Len(noted) - 1 :
              prev[u] = noted[i] /\ Note(u) = noted[i + 1] /\ nxt[noted[i]] = NULL
        BY <1>l, <3>2 DEF ListInv, Linked
      <4>2. i # Cur
        BY <1>2, <1>8, <4>1
      <4>3. QED
        BY <4>1, <4>2, ListFacts
    <3>3. QED
      BY <1>1, <1>2, <1>4, <2>1, <3>1, <3>2 DEF ListInv, Linked
  <2>7. QED
    BY <1>6, <1>7, <2>4, <2>5, <2>6 DEF ListInv
<1>9. CASE nxt[list[t]] = NULL
  <2>1. tail = list[t] /\ tail' = NULL
    BY <1>9 DEF WakeNext
  <2>2. Cur = Len(noted)
    <3>1. Len(noted) \in Index /\ noted[Cur] = noted[Len(noted)]
      BY <1>2, <2>1, ListFacts DEF Index
    <3>2. QED
      BY <1>2, <3>1 DEF ListInv, Ordered
  <2>3. ListHeld'
    BY <1>1, <1>2, <1>3, <1>5, <1>9, <2>1, <2>2 DEF ListHeld
  <2>4. AtFront'
    BY <1>1, <1>2, <1>3, <1>5, <1>9 DEF AtFront, Holding
  <2>5. \A u \in Threads : pc'[u] # "notify_link"
    BY <1>l, <2>2, ListFacts DEF ListInv, Linked
  <2>6. Linked'
    BY <1>1, <1>4, <2>1, <2>5 DEF ListInv, Linked
  <2>7. QED
    BY <1>6, <1>7, <2>3, <2>4, <2>6 DEF ListInv
<1>10. QED
  BY <1>8, <1>9

\* dispatch_group_notify_f() puts itself at the end of the list.
LEMMA NotifyKeeps ==
    ASSUME ConstantsOK, IInv, TypeOK', NEW t \in Threads, dispatch_group_notify_f(t) PROVE ListInv'
<1> TypeOK /\ ListInv /\ Funs
  BY FunsOf DEF IInv
<1> USE DEF object, refs, client, wake, history
<1> DEFINE n == <<t, calls[t] + 1>>
<1>1. /\ UNCHANGED <<head, nxt, list, buffer, fired>>
      /\ pc[t] = "idle" /\ buffer[t] = NULL
      /\ pc' = [pc EXCEPT ![t] = IF tail # NULL THEN "notify_link" ELSE "notify_retain"]
      /\ calls' = [calls EXCEPT ![t] = @ + 1] /\ prev' = [prev EXCEPT ![t] = tail]
      /\ tail' = n /\ noted' = Append(noted, n)
  BY DEF dispatch_group_notify_f, MayCall, At, Called, Goto
<1>2. n \in Notes /\ n # NULL
  <2>1. calls[t] + 1 \in 1 .. MaxCalls[t]
    BY DEF dispatch_group_notify_f, MayCall, TypeOK, ConstantsOK
  <2>2. n \in Notes
    BY <2>1, NotesOf
  <2>3. QED
    BY <2>2 DEF ConstantsOK
<1>3. /\ Len(noted') = Len(noted) + 1 /\ noted'[Len(noted) + 1] = n
      /\ \A i \in Index : noted'[i] = noted[i]
      /\ Index' = Index \cup {Len(noted) + 1}
  <2>1. noted \in Seq(Notes)
    BY DEF TypeOK
  <2>2. QED
    BY <1>1, <1>2, <2>1 DEF Index
<1>4. /\ Note(t)' = n /\ \A u \in Threads : u # t => Note(u)' = Note(u)
      /\ \A u \in Threads : calls'[u] >= calls[u]
      /\ \A u \in Threads : calls[u] \in Nat /\ calls'[u] \in Nat
  <2>1. calls'[t] = calls[t] + 1 /\ \A u \in Threads : calls[u] \in Nat /\ (u # t => calls'[u] = calls[u])
    BY <1>1 DEF Funs
  <2>2. Note(t)' = n
    BY <2>1 DEF Note
  <2>3. \A u \in Threads : u # t => Note(u)' = Note(u)
    BY <2>1 DEF Note
  <2>4. \A u \in Threads : calls'[u] >= calls[u]
    BY <2>1
  <2>5. QED
    BY <2>1, <2>2, <2>3, <2>4
<1>5. \A i \in Index : noted[i][1] \in Threads /\ noted[i][2] \in Nat /\ noted[i] # n
  <2>1. \A i \in Index : noted[i] \in Notes
    BY ListFacts
  <2>2. \A i \in Index : noted[i][1] \in Threads /\ noted[i][2] \in Nat
    BY <2>1, NoteParts
  <2>3. \A i \in Index : noted[i][2] <= calls[noted[i][1]]
    BY DEF ListInv, Ordered
  <2>4. n[1] = t /\ n[2] = calls[t] + 1
    OBVIOUS
  <2>5. QED
    BY <1>4, <2>2, <2>3, <2>4
<1>6. list[t] = NULL /\ ~Holding(t)
  BY <1>1 DEF ListInv, LocalsInv, Holding, Forming
<1> HIDE DEF n
<1>7. Cur' = Cur /\ Len(noted) \in Nat /\ Cur \in Nat /\ Len(fired) \in Nat
  <2>1. (\E u \in Threads : pc'[u] = "wake_next") <=> (\E u \in Threads : pc[u] = "wake_next")
    BY <1>1 DEF Funs
  <2>2. QED
    BY <1>1, <2>1, ListFacts DEF Cur
<1>8. Ordered'
  <2>1. \A i, j \in Index' : noted'[i] = noted'[j] => i = j
    BY <1>3, <1>5 DEF ListInv, Ordered
  <2>2. \A i \in Index' : noted'[i][2] <= calls'[noted'[i][1]]
    <3>1. n[1] = t /\ n[2] = calls[t] + 1 /\ calls'[t] = calls[t] + 1
      BY <1>1 DEF n, Funs
    <3>2. ASSUME NEW i \in Index PROVE noted'[i][2] <= calls'[noted'[i][1]]
      <4>1. noted[i][2] <= calls[noted[i][1]] /\ calls[noted[i][1]] <= calls'[noted[i][1]]
        BY <1>4, <1>5 DEF ListInv, Ordered
      <4>2. calls[noted[i][1]] \in Nat /\ calls'[noted[i][1]] \in Nat
        BY <1>4, <1>5
      <4>3. QED
        BY <1>3, <1>5, <4>1, <4>2
    <3>3. QED
      BY <1>3, <1>4, <3>1, <3>2
  <2>3. Len(fired) <= Len(noted') /\ \A i \in 1 .. Len(fired) : fired[i] = noted'[i]
    BY <1>3, <1>7 DEF ListInv, Ordered, Index
  <2>4. QED
    BY <1>1, <2>1, <2>2, <2>3, Zenon DEF Ordered
<1>9. LocalsInv'
  <2>1. ASSUME NEW u \in Threads, u # t
        PROVE  /\ list'[u] # NULL => pc'[u] \in {"wake_waiters", "wake_post", "wake_notify", "wake_next"}
               /\ pc'[u] = "wake_next" => list'[u] # NULL
               /\ buffer'[u] # NULL => pc'[u] \in {"notify_check", "wake", "idle"} /\ buffer'[u] = Note(u)'
               /\ pc'[u] \in NotifyPC => calls'[u] > 0
    <3>1. pc'[u] = pc[u] /\ calls'[u] = calls[u] /\ list'[u] = list[u] /\ buffer'[u] = buffer[u]
      BY <1>1, <2>1 DEF Funs
    <3>2. QED
      BY <1>4, <2>1, <3>1 DEF ListInv, LocalsInv
  <2>2. /\ list'[t] = NULL /\ buffer'[t] = NULL /\ pc'[t] \in {"notify_link", "notify_retain"}
        /\ calls'[t] > 0
    BY <1>1, <1>4, <1>6 DEF Funs
  <2>3. QED
    BY <2>1, <2>2 DEF LocalsInv
<1>10. \A u \in Threads : u # t => (Forming(u)' <=> Forming(u)) /\ (Holding(u)' <=> Holding(u))
  BY <1>1 DEF Funs, Forming, Holding
<1>11. nxt[n] = NULL
  BY <1>2, <1>5 DEF ListInv, Linked
<1>12. \A m \in Notes : (\A i \in Index' : noted'[i] # m) => nxt'[m] = NULL
  BY <1>1, <1>3, Zenon DEF ListInv, Linked
<1>13. CASE tail = NULL
  <2>1. head = NULL /\ Len(fired) = Len(noted) /\ \A u \in Threads : ~Holding(u)
    BY <1>13 DEF ListInv, ListHeld
  <2>2. pc'[t] = "notify_retain" /\ Forming(t)' /\ Holding(t)'
    BY <1>1, <1>13 DEF Funs, Forming, Holding
  <2>3. Cur = Len(noted) + 1
    <3>1. ~\E u \in Threads : pc[u] = "wake_next"
      BY <2>1, ListFacts
    <3>2. QED
      BY <1>7, <2>1, <3>1 DEF Cur, Ind
  <2>4. ListHeld'
    BY <1>1, <1>2, <1>3, <1>7, <1>10, <2>1, <2>2, <2>3 DEF ListHeld
  <2>5. AtFront'
    BY <1>1, <1>3, <1>4, <1>6, <1>7, <1>10, <2>1, <2>3 DEF AtFront, Holding
  <2>6. \A u \in Threads : pc[u] # "notify_link"
    BY <1>7, <2>3 DEF ListInv, Linked
  <2>7. Linked'
    <3>1. \A u \in Threads : pc'[u] # "notify_link"
      BY <1>1, <2>2, <2>6 DEF Funs
    <3>2. \A i \in Cur' .. Len(noted') - 1 : FALSE
      BY <1>3, <1>7, <2>3
    <3>3. nxt'[tail'] = NULL
      BY <1>1, <1>11
    <3>4. QED
      BY <1>12, <3>1, <3>2, <3>3 DEF Linked
  <2>8. QED
    BY <1>8, <1>9, <2>4, <2>5, <2>7 DEF ListInv
<1>14. CASE tail # NULL
  <2>1. /\ Cur \in Index /\ tail = noted[Len(noted)] /\ nxt[tail] = NULL
        /\ head # NULL \/ \E u \in Threads : Holding(u)
    BY <1>14 DEF ListInv, ListHeld, Linked
  <2>0. /\ Cur \in Nat /\ Cur > 0 /\ Len(noted) \in Nat /\ Len(noted') = Len(noted) + 1
        /\ Index = 1 .. Len(noted)
    BY <1>3, <1>7, <2>1 DEF Index
  <2>2. pc'[t] = "notify_link" /\ ~Forming(t)' /\ ~Holding(t)' /\ prev'[t] = tail
    BY <1>1, <1>6, <1>14 DEF Funs, Forming, Holding
  <2>3. ListHeld'
    BY <1>1, <1>2, <1>3, <1>6, <1>7, <1>10, <2>1, <2>2 DEF ListInv, ListHeld
  <2>4. AtFront'
    BY <1>1, <1>3, <1>4, <1>7, <1>10, <2>1, <2>2, Zenon DEF ListInv, AtFront, Holding
  <2>5. Linked'
    <3>1. Len(noted) \in Cur .. Len(noted') - 1 /\ Len(noted) \in Index
      BY <1>3, <1>7, <2>1 DEF Index
    <3>2. ASSUME NEW i \in Cur .. Len(noted') - 1 PROVE nxt[noted'[i]] \in {NULL, noted'[i + 1]}
      <4>1. CASE i = Len(noted)
        BY <1>3, <2>1, <3>1, <4>1
      <4>2. CASE i # Len(noted)
        <5>1. i \in Cur .. Len(noted) - 1 /\ i \in Index /\ i + 1 \in Index
          BY ONLY <2>0, <3>2, <4>2
        <5>2. QED
          BY <1>3, <1>14, <5>1 DEF ListInv, Linked
      <4>3. QED
        BY <4>1, <4>2
    <3>3. ASSUME NEW u \in Threads, pc'[u] = "notify_link"
          PROVE  \E i \in Cur .. Len(noted') - 1 :
                   prev'[u] = noted'[i] /\ Note(u)' = noted'[i + 1] /\ nxt[noted'[i]] = NULL
      <4>1. CASE u = t
        BY <1>3, <1>4, <2>1, <2>2, <3>1, <4>1
      <4>2. CASE u # t
        <5>1. pc[u] = "notify_link" /\ prev'[u] = prev[u] /\ Note(u)' = Note(u)
          BY <1>1, <1>4, <3>3, <4>2 DEF Funs
        <5>2. PICK i \in Cur .. Len(noted) - 1 :
                prev[u] = noted[i] /\ Note(u) = noted[i + 1] /\ nxt[noted[i]] = NULL
          BY <5>1 DEF ListInv, Linked
        <5>3. i \in Cur .. Len(noted') - 1 /\ i \in Index /\ i + 1 \in Index
          BY ONLY <2>0, <5>2
        <5>4. QED
          BY <1>3, <5>1, <5>2, <5>3
      <4>3. QED
        BY <4>1, <4>2
    <3>4. QED
      BY <1>1, <1>7, <1>11, <1>12, <3>2, <3>3, Zenon DEF Linked
  <2>6. QED
    BY <1>8, <1>9, <2>3, <2>4, <2>5 DEF ListInv
<1>15. QED
  BY <1>13, <1>14

\* Every step preserves the invariant of the list of notifications.
LEMMA ListInvariant == ConstantsOK /\ IInv /\ Next => ListInv'
<1> SUFFICES ASSUME ConstantsOK, IInv, TypeOK', NEW t \in Threads, Step(t) PROVE ListInv'
  BY TypeInvariant DEF Next
<1> TypeOK /\ ListInv /\ Funs
  BY FunsOf DEF IInv
<1> USE DEF object, refs, client, wake, history
<1>a. /\ pc = [u \in Threads |-> pc[u]] /\ calls \in [Threads -> Nat]
      /\ ret[t] \in {"idle", "block_release"}
      /\ \A u \in Threads :
           /\ list[u] # NULL => pc[u] \in {"wake_waiters", "wake_post", "wake_notify", "wake_next"}
           /\ buffer[u] # NULL => pc[u] \in {"notify_check", "wake", "idle"}
  BY DEF ListInv, LocalsInv, TypeOK
<1> DEFINE Own ==
      /\ UNCHANGED <<head, tail, nxt, list, prev, buffer, noted, fired>>
      /\ calls'[t] >= calls[t]
      /\ Forming(t) \/ pc[t] \in NotifyPC => calls'[t] = calls[t]
      /\ pc'[t] = "notify_link" <=> pc[t] = "notify_link"
      /\ pc'[t] = "wake_next" <=> pc[t] = "wake_next"
      /\ pc'[t] \in {"notify_retain", "notify_head"} <=> pc[t] \in {"notify_retain", "notify_head"}
      /\ pc'[t] = "notify_check" => pc[t] = "notify_check"
      /\ list[t] # NULL => pc'[t] \in {"wake_waiters", "wake_post", "wake_notify", "wake_next"}
      /\ buffer[t] # NULL => pc'[t] \in {"notify_check", "wake", "idle"}
<1>q. ASSUME Own PROVE ListInv'
  <2>1. Aside
    BY <1>a, <1>q, Frame DEF Aside
  <2>2. QED
    BY <2>1, AsideKeeps
<1>1. CASE Call(t) /\ ~dispatch_group_notify_f(t)
  <2>1. CASE dispatch_group_enter(t) \/ dispatch_group_async_f(t) \/ dispatch_release(t)
    <3>1. Own
      BY <1>a, <2>1 DEF Forming, NotifyPC, dispatch_group_enter, dispatch_group_async_f,
         dispatch_release, MayCall, Called, At
    <3>2. QED
      BY <1>q, <3>1, Zenon
  <2>2. ASSUME NEW k \in {"now", "timed", "forever"}, dispatch_group_wait(t, k) PROVE ListInv'
    <3>1. Own
      BY <1>a, <2>2 DEF Forming, NotifyPC, dispatch_group_wait, MayCall, Called, At, Goto
    <3>2. QED
      BY <1>q, <3>1, Zenon
  <2>3. QED
    BY <1>1, <2>1, <2>2 DEF Call
<1>2. CASE Leave(t)
  <2>1. Own
    BY <1>a, <1>2 DEF Forming, NotifyPC, Leave, dispatch_group_leave, LeaveCheck, RunBlock,
       BlockCheck, BlockRelease, WakeIfEmpty,
     CallWake, At, Goto
  <2>2. QED
    BY <1>q, <2>1, Zenon
<1>3. CASE WakeTakeWaiters(t) \/ WakePost(t) \/ (WakeNotify(t) /\ list[t] = NULL) \/ WakeRelease(t)
  <2>1. Own
    BY <1>a, <1>3 DEF Forming, NotifyPC, WakeTakeWaiters, WakePost, WakeNotify, WakeRelease,
       At, Goto
  <2>2. QED
    BY <1>q, <2>1, Zenon
<1>4. CASE Wait(t) \/ WaitTimedOut(t)
  <2>1. Own
    BY <1>a, <1>4 DEF Forming, NotifyPC, Wait, WaitCheck, WaitInc, WaitRecheck, WaitWoken,
       WaitUndo, WaitTimedOut, CallWake, At, Goto
  <2>2. QED
    BY <1>q, <2>1, Zenon
<1>5. CASE NotifyRetain(t) \/ NotifyCheck(t)
  <2>1. Own
    BY <1>a, <1>5 DEF Forming, NotifyPC, NotifyRetain, NotifyCheck, WakeIfEmpty, CallWake, At,
       Goto
  <2>2. QED
    BY <1>q, <2>1, Zenon
<1>6. CASE dispatch_group_notify_f(t) \/ NotifyLink(t) \/ NotifyHead(t) \/ FlushHead(t)
  BY <1>6, NotifyKeeps, NotifyLinkKeeps, NotifyHeadKeeps
<1>7. CASE WakeTakeList(t) \/ (WakeNotify(t) /\ list[t] # NULL) \/ WakeNext(t)
  BY <1>7, WakeTakeListKeeps, WakeNotifyKeeps, WakeNextKeeps
<1>8. QED
  BY <1>1, <1>2, <1>3, <1>4, <1>5, <1>6, <1>7 DEF Step, Wake, Notify
=============================================================================
