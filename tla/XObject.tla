------------------------------ MODULE XObject ------------------------------
(***************************************************************************)
(* The C++ and Qt objects of queues as handles (libxdispatch/src/base.cpp, *)
(* queue.cpp, libqtdispatch/src/qdispatchqueue.cpp, qdispatch.cpp): where  *)
(* they come from, suspension and target queues through any of them, and   *)
(* the finalizer.  Queues that target queues are held by two counts, and   *)
(* the queues of the library by none (libdispatch/src/object.c, queue.c).  *)
(* A call of libdispatch is one step: DispatchQueue has its parts.         *)
(***************************************************************************)
EXTENDS Integers, Sequences, FiniteSets, SequencesExt

CONSTANTS Objects,    \* C++ variables
          QtObjects,  \* those of them that are a QDispatchQueue
          Order,      \* memory for queues: a queue targets those before it
          Workers,
          Used,       \* the queues of the library that are used
          MaxCalls,   \* bound on the calls that put an item on a queue
          MaxSuspend,
          NULL

Created == ToSet(Order)

\* the root queues for global_queue() and for new queues, and the main queue
Globals == {"low", "default", "high", "overcommit", "main"}

VARIABLES m_native,  \* the queue of each object
          dq,        \* the queues
          stacks,    \* what each worker drains: <<queue, its target at the start>>
          wanted,    \* the target last asked for
          finalized, \* where the finalizer of a queue was sent
          calls, crashed

vars == <<m_native, dq, stacks, wanted, finalized, calls, crashed>>

Unborn == [st |-> "none", xref |-> 0, ref |-> 0, suspend |-> 0, locked |-> FALSE, target |-> NULL,
           items |-> <<>>, ctxt |-> FALSE]

Init ==
    /\ m_native = [x \in Objects |-> NULL]
    /\ dq = [q \in Created \cup Globals |-> IF q \in Created THEN Unborn ELSE [Unborn EXCEPT !.st = "live"]]
    /\ stacks = [w \in Workers |-> <<>>]
    /\ wanted = [q \in Created |-> NULL] /\ finalized = [q \in Created |-> NULL]
    /\ calls = 0 /\ crashed = FALSE
-----------------------------------------------------------------------------
(* libdispatch.  Each operator maps the queues d to what a call makes of   *)
(* them.                                                                   *)

RECURSIVE Push(_, _, _), Wakeup(_, _), Release(_, _)

\* a queue that is not suspended and has items is locked, retained and pushed to its
\* target
Wakeup(d, q) ==
    IF q \in Globals \/ d[q].suspend > 0 \/ d[q].items = <<>> \/ d[q].locked THEN d
    ELSE Push([d EXCEPT ![q].locked = TRUE, ![q].ref = @ + 1], d[q].target, <<"queue", q>>)

Push(d, q, item) == Wakeup([d EXCEPT ![q].items = Append(@, item)], q)

_dispatch_retain(d, q) == IF q \in Globals THEN d ELSE [d EXCEPT ![q].ref = @ + 1]

\* the finalizer goes to the target, which is released
_dispatch_dispose(d, q) ==
    LET gone == [d EXCEPT ![q].st = "freed"]
    IN Release(IF d[q].ctxt THEN Push(gone, d[q].target, <<"final", q>>) ELSE gone, d[q].target)

\* "Release of a queue while items are enqueued"
_dispatch_queue_dispose(d, q) ==
    IF d[q].items # <<>> THEN [d EXCEPT ![q].st = "crashed"] ELSE _dispatch_dispose(d, q)

Release(d, q) ==
    IF q \in Globals THEN d
    ELSE IF d[q].ref > 1 THEN [d EXCEPT ![q].ref = @ - 1]
    ELSE _dispatch_queue_dispose([d EXCEPT ![q].ref = 0], q)

\* dispatch_set_target_queue(): an item of the queue itself
dispatch_set_target_queue(d, q, t) ==
    IF q \in Globals THEN d ELSE Push(_dispatch_retain(d, t), q, <<"target", t>>)

\* dispatch_set_context() and dispatch_set_finalizer_f()
dispatch_set_context(d, q) == IF q \in Globals THEN d ELSE [d EXCEPT ![q].ctxt = TRUE]

Wants(q, t) == wanted' = IF q \in Globals THEN wanted ELSE [wanted EXCEPT ![q] = t]
Called == calls < MaxCalls /\ calls' = calls + 1
Live(q) == q \in Globals \/ dq[q].st = "live"
Others == <<stacks, finalized>>
-----------------------------------------------------------------------------
(* Handles.                                                                *)

\* queue(const std::string&), with or without a target
New(x, q, t) ==
    /\ m_native[x] = NULL /\ dq[q].st = "none"
    /\ m_native' = [m_native EXCEPT ![x] = q]
    /\ LET made == [dq EXCEPT ![q] = [Unborn EXCEPT !.st = "live", !.xref = 1, !.ref = 1, !.target = "overcommit"]]
       IN dq' = IF t = NULL THEN made ELSE dispatch_set_target_queue(made, q, t)
    /\ Wants(q, IF t = NULL THEN "overcommit" ELSE t) /\ UNCHANGED <<Others, calls, crashed>>

\* queue(dispatch_queue_t) and queue(const queue&), and those of QDispatchQueue
Bind(x, q) ==
    /\ m_native[x] = NULL /\ m_native' = [m_native EXCEPT ![x] = q]
    /\ dq' = IF q \in Globals THEN dq ELSE [dq EXCEPT ![q].xref = @ + 1]
    /\ crashed' = (crashed \/ (q \in Created /\ dq[q].xref = 0))
    /\ UNCHANGED <<Others, wanted, calls>>

main_queue == "main"
global_queue(p) == IF p \in {"low", "high"} THEN p ELSE "default"
\* QDispatch::globalQueue()
globalQueue(p) == global_queue(CASE p = "LOW" -> "low" [] p = "HIGH" -> "high" [] OTHER -> "default")

Library(x) ==
    \E q \in Used \cap ({main_queue} \cup {IF x \in QtObjects THEN globalQueue(p) ELSE global_queue(p) :
                                           p \in {"low", "default", "high", "LOW", "DEFAULT", "HIGH"}}) : Bind(x, q)
Copy(x) == \E y \in Objects : m_native[y] # NULL /\ Bind(x, m_native[y])
\* dispatch_get_current_queue(): the queue that is drained innermost
current_queue(x, w) ==
    /\ stacks[w] # <<>> /\ dq[Last(stacks[w])[1]].xref > 0
    /\ Bind(x, Last(stacks[w])[1])

\* ~queue(), and for Qt ~QDispatchQueue(): a suspended queue must not be released
Destroy(x) ==
    LET q == m_native[x]
    IN /\ q # NULL /\ m_native' = [m_native EXCEPT ![x] = NULL]
       /\ \/ q \in Globals /\ UNCHANGED dq
          \/ /\ q \in Created /\ (dq[q].xref = 1 => dq[q].suspend = 0)
             /\ LET less == [dq EXCEPT ![q].xref = @ - 1]
                IN dq' = IF dq[q].xref = 1 THEN Release(less, q) ELSE less
       /\ finalized' = [c \in Created |-> IF dq[c].st = "live" /\ dq'[c].st = "freed" THEN dq[c].target ELSE finalized[c]]
       /\ UNCHANGED <<stacks, wanted, calls, crashed>>

\* object::suspend() and object::resume(), balanced by the program
suspend(x) ==
    LET q == m_native[x]
    IN /\ q # NULL /\ dq[q].suspend < MaxSuspend
       /\ dq' = IF q \in Globals THEN dq ELSE [dq EXCEPT ![q].suspend = @ + 1]
       /\ UNCHANGED <<m_native, Others, wanted, calls, crashed>>
resume(x) ==
    LET q == m_native[x]
    IN /\ q # NULL /\ (q \in Created => dq[q].suspend > 0)
       /\ dq' = IF q \in Globals THEN dq ELSE Wakeup([dq EXCEPT ![q].suspend = @ - 1], q)
       /\ UNCHANGED <<m_native, Others, wanted, calls, crashed>>

\* no cycles: a program does not build them
MayTarget(q, t) == t \in Globals \/ (q \in Created => \E i, j \in DOMAIN Order : i < j /\ Order[i] = t /\ Order[j] = q)

target_queue(x, y) ==
    LET q == m_native[x]
        t == m_native[y]
    IN /\ q # NULL /\ t # NULL /\ MayTarget(q, t) /\ Called
       /\ dq' = dispatch_set_target_queue(dq, q, t) /\ Wants(q, t)
       /\ UNCHANGED <<m_native, Others, crashed>>

\* finalizer(), and QDispatchQueue::setFinalizer(): the operation also moves the queue
finalizer(x, y) ==
    LET q == m_native[x]
        t == m_native[y]
    IN /\ q # NULL /\ t # NULL /\ MayTarget(q, t) /\ Called
       /\ dq' = dispatch_set_target_queue(dispatch_set_context(dq, q), q, t) /\ Wants(q, t)
       /\ UNCHANGED <<m_native, Others, crashed>>

async(x) ==
    /\ m_native[x] # NULL /\ Called
    /\ dq' = Push(dq, m_native[x], <<"op", 0>>)
    /\ UNCHANGED <<m_native, Others, wanted, crashed>>
-----------------------------------------------------------------------------
(* Workers.  A queue that is popped from its target is invoked.            *)

Top(w) == Last(stacks[w])

\* _dispatch_continuation_pop(), for the queue q that worker w drains; d is without
\* the item
Item(w, d, q, item) ==
    /\ crashed' = (crashed \/ (item[1] = "queue" /\ ~Live(item[2])))
    /\ CASE item[1] = "queue"  -> /\ stacks' = [stacks EXCEPT ![w] = Append(@, <<item[2], d[item[2]].target>>)]
                                  /\ dq' = d
         [] item[1] = "target" -> /\ dq' = Release([d EXCEPT ![q].target = item[2]], d[q].target)
                                  /\ UNCHANGED stacks
         [] OTHER              -> dq' = d /\ UNCHANGED stacks
    /\ finalized' = [c \in Created |-> IF dq[c].st = "live" /\ dq'[c].st = "freed" THEN dq[c].target ELSE finalized[c]]
    /\ UNCHANGED <<m_native, wanted, calls>>

Serve(w, g) ==
    /\ stacks[w] = <<>> /\ dq[g].items # <<>>
    /\ Item(w, [dq EXCEPT ![g].items = Tail(@)], g, Head(dq[g].items))

MayDrain(w) == LET q == Top(w)[1] IN dq[q].items # <<>> /\ dq[q].suspend = 0 /\ dq[q].target = Top(w)[2]

Drain(w) ==
    /\ stacks[w] # <<>> /\ MayDrain(w)
    /\ LET q == Top(w)[1] IN Item(w, [dq EXCEPT ![q].items = Tail(@)], q, Head(dq[q].items))

\* the end of _dispatch_queue_invoke(): to a new target, or unlocked and released
InvokeEnds(w) ==
    /\ stacks[w] # <<>> /\ ~MayDrain(w)
    /\ stacks' = [stacks EXCEPT ![w] = Front(@)]
    /\ LET q == Top(w)[1]
       IN dq' = IF dq[q].target # Top(w)[2] THEN Push(dq, dq[q].target, <<"queue", q>>)
                ELSE Release(Wakeup([dq EXCEPT ![q].locked = FALSE], q), q)
    /\ finalized' = [c \in Created |-> IF dq[c].st = "live" /\ dq'[c].st = "freed" THEN dq[c].target ELSE finalized[c]]
    /\ UNCHANGED <<m_native, wanted, calls, crashed>>

Next ==
    \/ \E x \in Objects :
         \/ \E q \in Created : \E t \in {NULL} \cup {m_native[y] : y \in Objects} :
              (t # NULL => MayTarget(q, t)) /\ New(x, q, t)
         \/ Library(x) \/ Copy(x)
         \/ \E w \in Workers : current_queue(x, w)
         \/ Destroy(x) \/ suspend(x) \/ resume(x) \/ async(x)
         \/ \E y \in Objects : target_queue(x, y) \/ finalizer(x, y)
    \/ \E w \in Workers : Drain(w) \/ InvokeEnds(w) \/ \E g \in Globals : Serve(w, g)

Spec == Init /\ [][Next]_vars
-----------------------------------------------------------------------------
\* A queue is held by its handles, by the worker or the target that has it, by the
\* queues that target it and by the calls that will make a queue target it, and it is
\* freed with the last of them; the queues of the library are held by nobody.
HandlesHold ==
    /\ ~crashed
    /\ \A q \in Created :
         LET handles == Cardinality({x \in Objects : m_native[x] = q})
             asked == {<<r, i>> \in Created \X (1 .. 2 * MaxCalls + 2) :
                         i <= Len(dq[r].items) /\ dq[r].items[i] = <<"target", q>>}
         IN /\ dq[q].xref = handles
            /\ dq[q].ref = (IF handles > 0 THEN 1 ELSE 0) + (IF dq[q].locked THEN 1 ELSE 0)
                             + Cardinality({r \in Created : dq[r].st = "live" /\ dq[r].target = q}) + Cardinality(asked)
            /\ dq[q].st = "live" <=> dq[q].ref > 0
    /\ \A g \in Globals : dq[g].ref = 0 /\ dq[g].xref = 0 /\ dq[g].suspend = 0 /\ dq[g].target = NULL

\* A queue with items that is not suspended is in one place: on its target, or with the
\* worker that drains it; and a finalizer is sent to the target that was last asked
\* for, after everything the queue had to do.
MovesKept ==
    \A q \in Created :
       /\ dq[q].items # <<>> /\ dq[q].suspend = 0 => dq[q].locked
       /\ dq[q].locked =>
            Cardinality({w \in Workers : \E i \in 1 .. Len(stacks[w]) : stacks[w][i][1] = q})
              + Cardinality({<<r, i>> \in (DOMAIN dq) \X (1 .. 2 * MaxCalls + 2) :
                               i <= Len(dq[r].items) /\ dq[r].items[i] = <<"queue", q>>}) = 1
       /\ finalized[q] \in {NULL, wanted[q]}
       /\ dq[q].st # "crashed"
=============================================================================
