---------------------------- MODULE BlocksRuntime ----------------------------
(***************************************************************************)
(* Copying and releasing blocks (libblocksruntime/runtime.c), without      *)
(* garbage collection.  A function's frame contains a block literal that   *)
(* captures another block and a __block variable; its thread copies the    *)
(* literal and hands copies to other threads, which copy and release them. *)
(* A reference count latches at BLOCK_REFCOUNT_MASK and is then never      *)
(* changed again.                                                          *)
(***************************************************************************)
EXTENDS Integers, Sequences, FiniteSets, FiniteSetsExt, SequencesExt

CONSTANTS Threads, Owner,        \* the thread whose frame it is
          Blocks,                \* 1..n: blocks in the heap, in the order of allocation
          Kinds,                 \* where the captured block is at first: {"stack", "heap"}
          BLOCK_REFCOUNT_MASK,
          MaxCopies              \* copies each thread makes

VARIABLES frame,   \* the frame's captured block: 0 on the stack, or in the heap; -1: returned
          forwarding, byref,     \* of the variable on the stack, and its copy in the heap
          heap, held,            \* the copied blocks, and the references each thread owns
          todo,                  \* releases a thread has still to make
          copies, touched        \* touched: something freed was used

vars == <<frame, forwarding, byref, heap, held, todo, copies, touched>>

NoBlock == [st |-> "none", refs |-> 0, inner |-> 0, captures |-> FALSE]
None == [b \in Blocks |-> 0]

Init ==
    /\ frame \in {IF k = "stack" THEN 0 ELSE 1 : k \in Kinds}
    /\ forwarding = "stack" /\ byref = [st |-> "none", refs |-> 0]
    /\ heap = [b \in Blocks |-> IF b = frame THEN [NoBlock EXCEPT !.st = "live", !.refs = 1] ELSE NoBlock]
    /\ held = [t \in Threads |-> None]
    /\ todo = [t \in Threads |-> <<>>]
    /\ copies = [t \in Threads |-> 0]
    /\ touched = FALSE

latching_incr_int(n) == IF n = BLOCK_REFCOUNT_MASK THEN n ELSE n + 1
latching_decr_int(n) == IF n \in {0, BLOCK_REFCOUNT_MASK} THEN n ELSE n - 1

Fresh == {b \in Blocks : heap[b].st = "none"}
Idle(t) == todo[t] = <<>> /\ copies[t] < MaxCopies /\ copies' = [copies EXCEPT ![t] = @ + 1]

\* _Block_copy() of a block in the heap that the thread owns a reference to
CopyHeap(t, b) ==
    /\ Idle(t) /\ held[t][b] > 0
    /\ heap' = [heap EXCEPT ![b].refs = latching_incr_int(@)]
    /\ held' = [held EXCEPT ![t][b] = @ + 1]
    /\ touched' = (touched \/ heap[b].st # "live")
    /\ UNCHANGED <<frame, forwarding, byref, todo>>


\* _Block_byref_assign_copy(): one reference for the block and one for the frame
AssignCopy ==
    IF forwarding = "stack" THEN byref' = [st |-> "live", refs |-> 2] /\ forwarding' = "heap"
    ELSE byref' = [byref EXCEPT !.refs = latching_incr_int(@)] /\ UNCHANGED forwarding

\* _Block_copy() of the literal: its copy helper copies the captured block and
\* then the variable, both through _Block_object_assign()
CopyStack ==
    /\ Idle(Owner) /\ frame >= 0 /\ Cardinality(Fresh) >= 2
    /\ LET b == Min(Fresh)
           c == IF frame = 0 THEN Min(Fresh \ {b}) ELSE frame
       IN /\ heap' = [heap EXCEPT
                        ![b] = [st |-> "live", refs |-> 1, inner |-> c, captures |-> TRUE],
                        ![c] = IF frame = 0 THEN [NoBlock EXCEPT !.st = "live", !.refs = 1]
                               ELSE [@ EXCEPT !.refs = latching_incr_int(@)]]
          /\ held' = [held EXCEPT ![Owner][b] = 1]
    /\ AssignCopy
    /\ touched' = (touched \/ (frame > 0 /\ heap[frame].st # "live") \/ byref.st = "freed")
    /\ UNCHANGED <<frame, todo>>

\* a reference is handed to another thread, as dispatch_async() does
Pass(t, u, b) ==
    /\ t # u /\ todo[t] = <<>> /\ held[t][b] > 0
    /\ held' = [held EXCEPT ![t][b] = @ - 1, ![u][b] = @ + 1]
    /\ UNCHANGED <<frame, forwarding, byref, heap, todo, copies, touched>>
-----------------------------------------------------------------------------
(* Releases: what is left to do is a sequence of steps of one thread.      *)

Release(t, b) ==
    /\ todo[t] = <<>> /\ held[t][b] > 0
    /\ held' = [held EXCEPT ![t][b] = @ - 1]
    /\ todo' = [todo EXCEPT ![t] = <<[op |-> "block", b |-> b]>>]
    /\ UNCHANGED <<frame, forwarding, byref, heap, copies, touched>>

\* The function returns: the compiler releases the captured block, if it was
\* copied, and disposes of the variable
FrameReturn ==
    /\ frame >= 0 /\ todo[Owner] = <<>>
    /\ frame' = -1
    /\ todo' = [todo EXCEPT ![Owner] = (IF frame > 0 THEN <<[op |-> "block", b |-> frame]>> ELSE <<>>)
                                        \o <<[op |-> "read", b |-> 0]>>]
    /\ UNCHANGED <<forwarding, byref, heap, held, copies, touched>>

Doing(t, op) == todo[t] # <<>> /\ Head(todo[t]).op = op

\* _Block_release(): the last one calls the dispose helper and frees the block;
\* the helper releases what was captured through _Block_object_dispose()
BlockRelease(t) ==
    /\ Doing(t, "block")
    /\ LET b == Head(todo[t]).b
           n == latching_decr_int(heap[b].refs)
           dispose == IF heap[b].captures
                      THEN <<[op |-> "block", b |-> heap[b].inner], [op |-> "read", b |-> 0]>> ELSE <<>>
       IN /\ heap' = [heap EXCEPT ![b].refs = n]
          /\ todo' = [todo EXCEPT ![t] = (IF n = 0 THEN dispose \o <<[op |-> "free", b |-> b]>> ELSE <<>>)
                                         \o Tail(@)]
          /\ touched' = (touched \/ heap[b].st # "live")
    /\ UNCHANGED <<frame, forwarding, byref, held, copies>>

Deallocate(t) ==
    /\ Doing(t, "free")
    /\ LET b == Head(todo[t]).b
       IN /\ heap' = [heap EXCEPT ![b].st = "freed"]
          /\ touched' = (touched \/ heap[b].st # "live")
    /\ todo' = [todo EXCEPT ![t] = Tail(@)]
    /\ UNCHANGED <<frame, forwarding, byref, held, copies>>

\* _Block_byref_release(): the flags and the count are read, and then lowered;
\* a variable that is still on the stack only is left alone
ByrefRead(t) ==
    /\ Doing(t, "read")
    /\ todo' = [todo EXCEPT ![t] = IF forwarding = "heap" /\ byref.refs > 0
                                   THEN <<[op |-> "decr", b |-> 0]>> \o Tail(@) ELSE Tail(@)]
    /\ touched' = (touched \/ byref.st = "freed")
    /\ UNCHANGED <<frame, forwarding, byref, heap, held, copies>>
ByrefRelease(t) ==
    /\ Doing(t, "decr")
    /\ LET n == latching_decr_int(byref.refs)
       IN byref' = [st |-> IF n = 0 THEN "freed" ELSE byref.st, refs |-> n]
    /\ todo' = [todo EXCEPT ![t] = Tail(@)]
    /\ touched' = (touched \/ byref.st = "freed")
    /\ UNCHANGED <<frame, forwarding, heap, held, copies>>

Next ==
    \/ CopyStack \/ FrameReturn
    \/ \E t \in Threads :
         \/ \E b \in Blocks : \/ CopyHeap(t, b) \/ Release(t, b)
                              \/ \E u \in Threads : Pass(t, u, b)
         \/ BlockRelease(t) \/ Deallocate(t) \/ ByrefRead(t) \/ ByrefRelease(t)

Spec == Init /\ [][Next]_vars
-----------------------------------------------------------------------------
Tasks(op, b) == SumFunction([t \in Threads |-> Cardinality({i \in DOMAIN todo[t] : todo[t][i] = [op |-> op, b |-> b]})])
One(p) == IF p THEN 1 ELSE 0
Capturing(b) == {x \in Blocks : heap[x].st = "live" /\ heap[x].refs > 0 /\ heap[x].inner = b}

\* A copied block counts its owners: the references threads hold, the blocks
\* that captured it, the frame, and releases under way.  One whose count has
\* latched is never freed; any other is freed by the one release that brings the
\* count to 0, and nothing uses it afterwards.
BlockCounts ==
    /\ ~touched
    /\ \A b \in Blocks :
         LET owners == SumFunction([t \in Threads |-> held[t][b]]) + Tasks("block", b)
                       + Cardinality(Capturing(b)) + One(frame = b)
         IN /\ heap[b].st = "live" => heap[b].refs \in {BLOCK_REFCOUNT_MASK, owners}
            /\ heap[b].st = "freed" => owners = 0
            /\ heap[b].refs = 0 /\ heap[b].st = "live" => Tasks("free", b) = 1

\* A __block variable that has been copied lives until the frame that declared
\* it has returned and every block that captured it is gone, and no longer
\* unless its count has latched.
VariableCounts ==
    LET owners == One(frame >= 0) + Tasks("read", 0) + Tasks("decr", 0)
                  + Cardinality({x \in Blocks : heap[x].st = "live" /\ heap[x].refs > 0 /\ heap[x].captures})
    IN forwarding = "heap" => /\ byref.refs \in {BLOCK_REFCOUNT_MASK, owners}
                              /\ byref.st = "freed" <=> owners = 0 /\ byref.refs = 0
=============================================================================
