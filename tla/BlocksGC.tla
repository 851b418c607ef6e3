------------------------------ MODULE BlocksGC ------------------------------
(***************************************************************************)
(* The three ways the Blocks runtime manages memory                        *)
(* (libblocksruntime/runtime.c): by its own counts, with the objects of a  *)
(* retain/release runtime (_Block_use_RR), or with a garbage collector     *)
(* (_Block_use_GC), which is only told which blocks have a count.  One     *)
(* thread copies and releases a literal that captures an object, another   *)
(* block and a __block variable, each or not; the threads of a process     *)
(* that shares its blocks are in module BlocksRuntime.                     *)
(***************************************************************************)
EXTENDS Integers, FiniteSets, FiniteSetsExt

CONSTANTS Blocks,                \* 1..n: blocks in the heap
          BLOCK_REFCOUNT_MASK,
          MaxCopies

\* The flags of _Block_object_assign() and _Block_object_dispose(), as sets of bits
BLOCK_FIELD_IS_OBJECT == {1, 2}
BLOCK_FIELD_IS_BLOCK == {1, 2, 4}
BLOCK_FIELD_IS_BYREF == {8}
BLOCK_FIELD_IS_WEAK == {16}
BLOCK_BYREF_CALLER == {128}

GLOBAL == -1   \* a block with BLOCK_IS_GLOBAL
LITERAL == 0   \* a block on the stack
NONE == -2

VARIABLES mode,      \* "default", "RR" or "GC"
          fields,    \* what the literal captures
          content,   \* what the __block variable holds
          nested,    \* the block that is captured: GLOBAL or LITERAL
          mem,       \* the heap: blocks, the retain count of the object, the variable
          frame,     \* the function has not returned
          owned,     \* references of each block from _Block_copy()
          roots,     \* blocks in variables that the collector scans
          copies

vars == <<mode, fields, content, nested, mem, frame, owned, roots, copies>>

NoBlock == [st |-> "none", gc |-> FALSE, refs |-> 0, pinned |-> FALSE, fields |-> {}, inner |-> NONE]

Init ==
    /\ mode = "default"
    /\ fields \in SUBSET {BLOCK_FIELD_IS_OBJECT, BLOCK_FIELD_IS_BLOCK, BLOCK_FIELD_IS_BYREF}
    /\ content \in {BLOCK_FIELD_IS_OBJECT, BLOCK_FIELD_IS_BLOCK,
                    BLOCK_FIELD_IS_OBJECT \cup BLOCK_FIELD_IS_WEAK}
    /\ nested \in {GLOBAL, LITERAL}
    /\ mem = [blk |-> [b \in Blocks |-> NoBlock], object |-> 0,
              byref |-> [st |-> "stack", gc |-> FALSE, refs |-> 0]]
    /\ frame = TRUE
    /\ owned = [b \in Blocks |-> 0] /\ roots = {} /\ copies = 0

latching_incr(n) == IF n = BLOCK_REFCOUNT_MASK THEN n ELSE n + 1
latching_decr(n) == IF n \in {0, BLOCK_REFCOUNT_MASK} THEN n ELSE n - 1

-----------------------------------------------------------------------------
(* Start: the Objective-C runtime, if there is one, says what to do.       *)

Setup(how) ==
    /\ mode = "default" /\ copies = 0
    /\ mode' = how
    /\ UNCHANGED <<fields, content, nested, mem, frame, owned, roots, copies>>

_Block_use_GC == Setup("GC")
_Block_use_RR == Setup("RR")
-----------------------------------------------------------------------------
(* Copying.                                                                *)

\* _Block_copy_internal() of a block that is not on the stack
Again(m, b, wantsOne) ==
    IF b = GLOBAL THEN m
    ELSE LET n == latching_incr(m.blk[b].refs) IN
         IF ~m.blk[b].gc THEN [m EXCEPT !.blk[b].refs = n]
         ELSE IF wantsOne THEN [m EXCEPT !.blk[b].refs = n, !.blk[b].pinned = @ \/ n = 1]
         ELSE m

\* ... of a literal: with a collector its copy has a count only if one is wanted
Fresh(m) == Min({b \in Blocks : m.blk[b].st = "none"})
Copied(m, b, wantsOne, captures, inner) ==
    LET one == mode # "GC" \/ wantsOne
    IN [m EXCEPT !.blk[b] = [st |-> "live", gc |-> mode = "GC", refs |-> IF one THEN 1 ELSE 0,
                             pinned |-> mode = "GC" /\ wantsOne, fields |-> captures, inner |-> inner]]

_Block_retain_object(m) == IF mode = "RR" THEN [m EXCEPT !.object = @ + 1] ELSE m
_Block_release_object(m) == IF mode = "RR" THEN [m EXCEPT !.object = @ - 1] ELSE m

\* _Block_object_assign(), for a field of block b or, with BLOCK_BYREF_CALLER, for
\* the content of the variable: "do *not* retain or *copy* __block variables"
AssignField(m, b, flags) ==
    IF BLOCK_BYREF_CALLER \subseteq flags THEN m
    ELSE IF BLOCK_FIELD_IS_BLOCK \subseteq flags
      THEN IF nested = LITERAL
             THEN LET c == Fresh(m) IN [Copied(m, c, FALSE, {}, NONE) EXCEPT !.blk[b].inner = c]
             ELSE [m EXCEPT !.blk[b].inner = nested]
    ELSE IF BLOCK_FIELD_IS_OBJECT \subseteq flags THEN _Block_retain_object(m)
    ELSE m

\* _Block_byref_assign_copy(), with the copy helper of the variable
_Block_byref_assign_copy(m) ==
    IF m.byref.gc THEN m
    ELSE IF m.byref.refs = 0
      THEN AssignField([m EXCEPT !.byref = [st |-> "heap", gc |-> mode = "GC",
                                            refs |-> IF mode = "GC" THEN 0 ELSE 2]],
                       NONE, content \cup BLOCK_BYREF_CALLER)
    ELSE [m EXCEPT !.byref.refs = latching_incr(@)]

_Block_object_assign(m, b, flags) ==
    IF BLOCK_FIELD_IS_BYREF \subseteq flags THEN _Block_byref_assign_copy(m) ELSE AssignField(m, b, flags)

\* A copy or dispose helper of a block handles its fields in order.
Helped(m, b, F(_, _, _)) ==
    LET step(k, flags) == IF flags \in fields THEN F(k, b, flags) ELSE k
    IN step(step(step(m, BLOCK_FIELD_IS_OBJECT), BLOCK_FIELD_IS_BLOCK), BLOCK_FIELD_IS_BYREF)

CopyLiteral(wantsOne) ==
    LET b == Fresh(mem) IN Helped(Copied(mem, b, wantsOne, fields, NONE), b, _Block_object_assign)

Room == copies < MaxCopies /\ Cardinality({b \in Blocks : mem.blk[b].st = "none"}) >= 2

\* _Block_copy() of the literal and of a copy
_Block_copy ==
    /\ frame /\ Room
    /\ mem' = CopyLiteral(TRUE)
    /\ owned' = [owned EXCEPT ![Fresh(mem)] = 1]
    /\ copies' = copies + 1
    /\ UNCHANGED <<mode, fields, content, nested, frame, roots>>

CopyAgain(b) ==
    /\ owned[b] > 0 \/ b \in roots
    /\ copies < MaxCopies /\ copies' = copies + 1
    /\ mem' = Again(mem, b, TRUE)
    /\ owned' = [owned EXCEPT ![b] = @ + 1]
    /\ UNCHANGED <<mode, fields, content, nested, frame, roots>>

\* "Called from NSAutoBlock only under GC"
_Block_copy_collectable ==
    /\ mode = "GC" /\ frame /\ Room
    /\ mem' = CopyLiteral(FALSE)
    /\ roots' = roots \cup {Fresh(mem)}
    /\ copies' = copies + 1
    /\ UNCHANGED <<mode, fields, content, nested, frame, owned>>
CollectableAgain(b) ==
    /\ mode = "GC" /\ owned[b] > 0 /\ b \notin roots
    /\ mem' = Again(mem, b, FALSE)
    /\ roots' = roots \cup {b}
    /\ UNCHANGED <<mode, fields, content, nested, frame, owned, copies>>
-----------------------------------------------------------------------------
(* Releasing.                                                              *)

\* The count of a block is lowered, and the block goes with it or is the collector's.
Lowered(m, b) ==
    LET n == latching_decr(m.blk[b].refs) IN
    IF n > 0 THEN [m EXCEPT !.blk[b].refs = n]
    ELSE IF m.blk[b].gc THEN [m EXCEPT !.blk[b].refs = 0, !.blk[b].pinned = FALSE]
    ELSE [m EXCEPT !.blk[b].refs = 0, !.blk[b].st = "freed"]

\* _Block_destroy() of a captured block, which captures nothing itself
_Block_destroy(m, b) == IF b \in {GLOBAL, NONE} \/ m.blk[b].gc THEN m ELSE Lowered(m, b)

DisposeField(m, b, flags) ==
    IF flags \cap (BLOCK_FIELD_IS_BLOCK \cup BLOCK_BYREF_CALLER) = BLOCK_FIELD_IS_BLOCK
      THEN _Block_destroy(m, m.blk[b].inner)
    ELSE IF flags \cap (BLOCK_FIELD_IS_WEAK \cup BLOCK_FIELD_IS_BLOCK \cup BLOCK_BYREF_CALLER)
            = BLOCK_FIELD_IS_OBJECT
      THEN _Block_release_object(m)
    ELSE m

\* _Block_byref_release(), with the destroy helper of the variable
_Block_byref_release(m) ==
    IF m.byref.st # "heap" \/ m.byref.gc \/ m.byref.refs = 0 THEN m
    ELSE LET n == latching_decr(m.byref.refs)
             k == [m EXCEPT !.byref.refs = n]
         IN IF n > 0 THEN k
            ELSE [DisposeField(k, NONE, content \cup BLOCK_BYREF_CALLER) EXCEPT !.byref.st = "freed"]

_Block_object_dispose(m, b, flags) ==
    IF flags \cap BLOCK_FIELD_IS_BYREF # {} THEN _Block_byref_release(m) ELSE DisposeField(m, b, flags)

_Block_release(b) ==
    /\ owned[b] > 0
    /\ LET m == Lowered(mem, b)
       IN mem' = IF m.blk[b].st = "freed" THEN Helped(m, b, _Block_object_dispose) ELSE m
    /\ owned' = [owned EXCEPT ![b] = @ - 1]
    /\ UNCHANGED <<mode, fields, content, nested, frame, roots, copies>>

\* The function returns: the compiler disposes of the variable.
FrameReturn ==
    /\ frame /\ frame' = FALSE
    /\ mem' = _Block_object_dispose(mem, NONE, BLOCK_FIELD_IS_BYREF)
    /\ UNCHANGED <<mode, fields, content, nested, owned, roots, copies>>

Forget(b) ==
    /\ b \in roots
    /\ roots' = roots \ {b}
    /\ UNCHANGED <<mode, fields, content, nested, mem, frame, owned, copies>>

\* The collector takes a block that has no count and that nothing refers to; the
\* finalizer of a block with C++ code calls the dispose helper.
Reachable ==
    LET live == {b \in Blocks : mem.blk[b].st = "live"}
        top == roots \cup {b \in live : mem.blk[b].pinned}
    IN top \cup {mem.blk[b].inner : b \in top}
Collect(b) ==
    /\ mem.blk[b].st = "live" /\ mem.blk[b].gc /\ b \notin Reachable
    /\ LET m == [mem EXCEPT !.blk[b].st = "collected"]
       IN mem' = IF mem.blk[b].fields = {} THEN m ELSE Helped(m, b, _Block_object_dispose)
    /\ UNCHANGED <<mode, fields, content, nested, frame, owned, roots, copies>>

Next ==
    \/ _Block_use_GC \/ _Block_use_RR
    \/ _Block_copy \/ _Block_copy_collectable \/ FrameReturn
    \/ \E b \in Blocks : CopyAgain(b) \/ CollectableAgain(b) \/ _Block_release(b) \/ Forget(b) \/ Collect(b)

Spec == Init /\ [][Next]_vars
-----------------------------------------------------------------------------
\* The collector holds on to a block exactly while the block has a count, and what
\* a block in use captured is there: the nested block, and the __block variable
\* once the function has returned.  An object is retained once for every block in
\* the heap that captured it and never for a __block variable, so that nothing is
\* left of it when the last block goes, with or without a collector
\* (_Block_copy_internal(), _Block_object_assign(), _Block_object_dispose()).
BlocksManaged ==
    LET live == {b \in Blocks : mem.blk[b].st = "live"}
        capture(flags) == {b \in live : flags \in mem.blk[b].fields}
    IN /\ \A b \in live :
            /\ mem.blk[b].gc => (mem.blk[b].pinned <=> mem.blk[b].refs > 0)
            /\ mem.blk[b].inner \in Blocks /\ (mem.blk[b].gc => b \in Reachable) => mem.blk[b].inner \in live
       /\ \A b \in Blocks :
            /\ owned[b] > 0 \/ b \in roots => b \in live
            /\ b \in live /\ owned[b] = 0 => mem.blk[b].refs \in
                 {BLOCK_REFCOUNT_MASK, IF mem.blk[b].gc THEN 0 ELSE 1}
       /\ mem.object = IF mode = "RR" THEN Cardinality(capture(BLOCK_FIELD_IS_OBJECT)) ELSE 0
       /\ capture(BLOCK_FIELD_IS_BYREF) # {} => mem.byref.st = "heap"
       /\ mem.byref.st = "heap" /\ ~mem.byref.gc /\ mem.byref.refs # BLOCK_REFCOUNT_MASK =>
            mem.byref.refs = Cardinality(capture(BLOCK_FIELD_IS_BYREF)) + (IF frame THEN 1 ELSE 0)
=============================================================================
