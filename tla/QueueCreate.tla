---------------------------- MODULE QueueCreate -----------------------------
(***************************************************************************)
(* Creating queues (libdispatch/src/queue.c): their serial numbers, the    *)
(* root queue they target, their width, which the other models of queues   *)
(* take as a constant, and the attributes that give a queue its priority   *)
(* and its finalizer, a function or a block.                               *)
(***************************************************************************)
EXTENDS Integers, FiniteSets

CONSTANTS Threads,
          MaxQueues, \* bound on the queues that are created
          MaxSets,   \* bound on the changes of an attribute
          W,         \* bits of an int
          Widths     \* what dispatch_queue_set_width() is asked for, once for each queue

VARIABLES numbers, \* _dispatch_queue_serial_numbers
          cpus,    \* _dispatch_hw_config
          queues,  \* the queues created, each a record of its fields
          pc,      \* of each thread: the number it has read, or -1
          attr,    \* the attributes the program has created, and its calls on them
          blocks   \* copies of the finalizer block that were not released

vars == <<numbers, cpus, queues, pc, attr, blocks>>

Priorities == {"low", "default", "high"}

\* _dispatch_get_root_queue(): the index in _dispatch_root_queues, or -1
_dispatch_get_root_queue(priority, overcommit) ==
    CASE priority = "low"     -> IF overcommit THEN 1 ELSE 0
      [] priority = "default" -> IF overcommit THEN 3 ELSE 2
      [] priority = "high"    -> IF overcommit THEN 5 ELSE 4
      [] OTHER -> -1

\* dispatch_get_global_queue(): a null queue for unknown flags
dispatch_get_global_queue(priority, flags) ==
    IF flags \ {"overcommit"} # {} THEN -1
    ELSE _dispatch_get_root_queue(priority, "overcommit" \in flags)

\* _dispatch_rootq2wq_pri(): the priority of the work queue behind a root queue
_dispatch_rootq2wq_pri(idx) ==
    CASE idx \in {0, 1} -> "low"
      [] idx \in {4, 5} -> "high"
      [] OTHER          -> "default"

\* The static queues: main, manager, and the six root queues
StaticNumbers == {1, 2} \cup 4..9

\* A queue attribute; struct dispatch_queue_attr_s
Attribute == [qa_priority |-> "default", overcommit |-> TRUE, finalizer |-> "none"]
NoAttr == [live |-> FALSE, sets |-> 0, a |-> Attribute]

\* _dispatch_queue_set_width_init(): whatever the system says, 1 if it fails
Init == /\ numbers = 10
        /\ cpus \in {IF ret < 0 THEN 1 ELSE ret : ret \in {-1, 1, 3}}
        /\ queues = {}
        /\ pc = [t \in Threads |-> -1]
        /\ attr = NoAttr /\ blocks = 0

\* dispatch_atomic_inc(&_dispatch_queue_serial_numbers) - 1
Number(t) ==
    /\ pc[t] = -1 /\ numbers < 10 + MaxQueues
    /\ numbers' = numbers + 1
    /\ pc' = [pc EXCEPT ![t] = numbers]

TakeNumber(t) == Number(t) /\ UNCHANGED <<cpus, queues, attr, blocks>>

\* dispatch_queue_create() returns the queue that _dispatch_queue_init() set up.
\* With an attribute it has the target of that and a copy of its finalizer.
dispatch_queue_create(t, withAttr) ==
    /\ pc[t] # -1 /\ (withAttr => attr.live)
    /\ LET a == IF withAttr THEN attr.a ELSE Attribute
       IN /\ queues' = queues \cup {[serialnum |-> pc[t], by |-> t, width |-> 1, finalizer |-> a.finalizer,
                                     target |-> _dispatch_get_root_queue(a.qa_priority, a.overcommit)]}
          /\ blocks' = blocks + IF a.finalizer = "block" THEN 1 ELSE 0
    /\ pc' = [pc EXCEPT ![t] = -1]
    /\ UNCHANGED <<numbers, cpus, attr>>

\* _dispatch_queue_dispose() calls the finalizer, which for a block is
\* _dispatch_call_block_and_release2()
_dispatch_queue_dispose(q) ==
    /\ queues' = queues \ {q}
    /\ blocks' = blocks - IF q.finalizer = "block" THEN 1 ELSE 0
    /\ UNCHANGED <<numbers, cpus, pc, attr>>

dispatch_queue_attr_create ==
    /\ ~attr.live
    /\ attr' = [attr EXCEPT !.live = TRUE, !.a = Attribute]
    /\ UNCHANGED <<numbers, cpus, queues, pc, blocks>>

SetAttr == attr.live /\ attr.sets < MaxSets /\ UNCHANGED <<numbers, cpus, queues, pc>>

dispatch_queue_attr_set_flags(flags) ==
    /\ SetAttr
    /\ attr' = [attr EXCEPT !.sets = @ + 1, !.a.overcommit = "overcommit" \in flags]
    /\ UNCHANGED blocks

dispatch_queue_attr_set_priority(priority) ==
    /\ SetAttr
    /\ attr' = [attr EXCEPT !.sets = @ + 1, !.a.qa_priority = IF priority > 0 THEN "high"
                                             ELSE IF priority < 0 THEN "low" ELSE "default"]
    /\ UNCHANGED blocks

\* dispatch_queue_attr_set_finalizer_f() releases a block that was set before.
set_finalizer_f(finalizer, copies) ==
    /\ blocks' = copies - IF attr.a.finalizer = "block" THEN 1 ELSE 0
    /\ attr' = [attr EXCEPT !.sets = @ + 1, !.a.finalizer = finalizer]

dispatch_queue_attr_set_finalizer_f == SetAttr /\ set_finalizer_f("function", blocks)

\* dispatch_queue_attr_set_finalizer() of a block, which it copies first, or of
\* none
dispatch_queue_attr_set_finalizer(block) ==
    /\ SetAttr
    /\ IF block THEN set_finalizer_f("block", blocks + 1) ELSE set_finalizer_f("none", blocks)

dispatch_queue_attr_dispose ==
    /\ attr.live
    /\ blocks' = blocks - IF attr.a.finalizer = "block" THEN 1 ELSE 0
    /\ attr' = [attr EXCEPT !.live = FALSE, !.a = Attribute]
    /\ UNCHANGED <<numbers, cpus, queues, pc>>

\* An int of W bits
ToInt(x) == LET w == x % 2^W IN IF w >= 2^(W - 1) THEN w - 2^W ELSE w

\* dispatch_queue_set_width(): the argument is truncated to an int; a negative
\* one names a number of processors, the logical ones if it is unknown.
Width(width) ==
    LET w == ToInt(width)
    IN IF w \in {0, 1} THEN 1 ELSE (2 * (IF w > 0 THEN w ELSE cpus)) % 2^W

dispatch_queue_set_width(q, width) ==
    /\ queues' = (queues \ {q}) \cup {[q EXCEPT !.width = Width(width)]}
    /\ UNCHANGED <<numbers, cpus, pc, attr, blocks>>

Next == \/ \E t \in Threads : TakeNumber(t) \/ \E withAttr \in BOOLEAN : dispatch_queue_create(t, withAttr)
        \/ \E q \in queues : _dispatch_queue_dispose(q)
        \/ dispatch_queue_attr_create \/ dispatch_queue_attr_set_finalizer_f \/ dispatch_queue_attr_dispose
        \/ \E flags \in SUBSET {"overcommit"} : dispatch_queue_attr_set_flags(flags)
        \/ \E priority \in {-2, 0, 1} : dispatch_queue_attr_set_priority(priority)
        \/ \E block \in BOOLEAN : dispatch_queue_attr_set_finalizer(block)
        \/ \E q \in queues, width \in Widths : q.width = 1 /\ dispatch_queue_set_width(q, width)

Spec == Init /\ [][Next]_vars

-----------------------------------------------------------------------------
(* However many threads create queues at once, no two queues, static ones  *)
(* included, share a serial number.                                        *)
SerialsDistinct ==
    /\ \A q \in queues : q.serialnum \notin StaticNumbers
    /\ \A q, r \in queues : q.serialnum = r.serialnum => q = r
    /\ \A t \in Threads : pc[t] # -1 =>
         /\ \A q \in queues : q.serialnum # pc[t]
         /\ \A u \in Threads : pc[u] = pc[t] => u = t

(* Whatever is asked of dispatch_queue_set_width(), a queue is serial, or  *)
(* has an even width of at least 2: the drain of a queue compares it with  *)
(* a count whose low bit is the barrier and which readers raise by two.    *)
(* And each pair of priority and overcommit has a root queue of its own,   *)
(* behind which is a work queue of the same priority.                      *)
WidthIsEven ==
    /\ \A q \in queues : q.width = 1 \/ (q.width >= 2 /\ q.width % 2 = 0)
    /\ \A p \in Priorities, f \in SUBSET {"overcommit"} :
         /\ _dispatch_rootq2wq_pri(dispatch_get_global_queue(p, f)) = p
         /\ \A p2 \in Priorities, f2 \in SUBSET {"overcommit"} :
              dispatch_get_global_queue(p, f) = dispatch_get_global_queue(p2, f2) =>
                p = p2 /\ f = f2

(* The finalizer block is copied once for each owner, the attribute and    *)
(* every queue made from it, and released by the last: a queue can still   *)
(* call its finalizer after the attribute is gone or has another one.      *)
FinalizerHeld ==
    blocks = Cardinality({q \in queues : q.finalizer = "block"})
             + IF attr.a.finalizer = "block" THEN 1 ELSE 0
=============================================================================
