------------------------------- MODULE XQueue -------------------------------
(***************************************************************************)
(* xdispatch::queue and QDispatchQueue, the C++ objects around a           *)
(* dispatch_queue_t (libxdispatch/src/queue.cpp, execution.cpp): which     *)
(* object holds a reference of the queue, who deletes an operation and     *)
(* when the finalizer of a queue runs.  The queue itself is the abstract   *)
(* serial queue that DispatchQueue implements: it takes its items in order *)
(* and stays until they have run.                                          *)
(***************************************************************************)
EXTENDS Integers, Sequences, FiniteSets, Functions

CONSTANTS Objects,   \* C++ variables of type queue
          Natives,   \* dispatch_queue_t
          Ops,       \* operations
          Workers,
          Times,     \* how often apply() runs its operation
          Kinds,     \* settings of auto_delete(): sets of operations
          MaxGives,  \* bound on the operations given to queues
          MaxRefs,   \* bound on the references that assignments leave
          NULL

VARIABLES auto_delete, \* the operations that are deleted after they ran
          m_native,  \* the queue each object refers to, or NULL
          xref,      \* do_xref_cnt of each queue
          made,      \* queues that were created, and not disposed of yet
          items,     \* operations on each queue
          timers,    \* <<queue, operation>> pairs of after()
          context,   \* the operation of finalizer()
          final,     \* finalizers on the target queue
          apply,     \* the call of apply() in progress
          busy,      \* what the workers do
          deleted,   \* how often each operation was deleted
          given,     \* how often each operation was given to a queue
          crashed    \* DISPATCH_CLIENT_CRASH

native == <<xref, made>>
work == <<items, timers, context, final, apply, busy>>
vars == <<auto_delete, m_native, native, work, deleted, given, crashed>>

Idle == [q |-> NULL, o |-> NULL, what |-> "idle"]
NoApply == [q |-> NULL, o |-> NULL, left |-> 0]

Init ==
    /\ auto_delete \in Kinds
    /\ m_native = [x \in Objects |-> NULL]
    /\ xref = [q \in Natives |-> 0] /\ made = {}
    /\ items = [q \in Natives |-> <<>>] /\ timers = {}
    /\ context = [q \in Natives |-> NULL] /\ final = {}
    /\ apply = NoApply
    /\ busy = [w \in Workers |-> Idle]
    /\ deleted = [o \in Ops |-> 0] /\ given = [o \in Ops |-> 0]
    /\ crashed = FALSE

-----------------------------------------------------------------------------
(* The objects.                                                            *)

\* queue(const std::string&): the reference of dispatch_queue_create()
New(x, q) ==
    /\ m_native[x] = NULL /\ q \notin made /\ xref[q] = 0 /\ context[q] = NULL
    /\ m_native' = [m_native EXCEPT ![x] = q]
    /\ made' = made \cup {q} /\ xref' = [xref EXCEPT ![q] = 1]
    /\ UNCHANGED <<auto_delete, work, deleted, given, crashed>>

\* dispatch_retain(), which does not take a queue nobody refers to
Retain(q) ==
    IF xref[q] = 0 THEN crashed' = TRUE /\ UNCHANGED xref
    ELSE xref' = [xref EXCEPT ![q] = @ + 1] /\ UNCHANGED crashed

\* queue(const queue&), and queue(dispatch_queue_t) of what native() returned
Copy(x, y) ==
    /\ m_native[x] = NULL /\ m_native[y] # NULL
    /\ m_native' = [m_native EXCEPT ![x] = m_native[y]]
    /\ Retain(m_native[y])
    /\ UNCHANGED <<auto_delete, made, work, deleted, given>>

\* operator =(): the new queue is retained, the old one is not released.
Assign(x, y) ==
    /\ m_native[x] # NULL /\ m_native[y] \notin {NULL, m_native[x]}
    /\ xref[m_native[x]] + xref[m_native[y]] < MaxRefs
    /\ m_native' = [m_native EXCEPT ![x] = m_native[y]]
    /\ Retain(m_native[y])
    /\ UNCHANGED <<auto_delete, made, work, deleted, given>>

\* ~queue()
Destroy(x) ==
    /\ m_native[x] # NULL
    /\ apply.q = m_native[x] => \E y \in Objects \ {x} : m_native[y] = m_native[x]
    /\ xref' = [xref EXCEPT ![m_native[x]] = @ - 1]
    /\ m_native' = [m_native EXCEPT ![x] = NULL]
    /\ UNCHANGED <<auto_delete, made, work, deleted, given, crashed>>

\* current_queue(), called in an operation and bound to an object
current_queue(w, x) ==
    /\ busy[w].what = "op" /\ m_native[x] = NULL
    /\ m_native' = IF xref[busy[w].q] = 0 THEN m_native ELSE [m_native EXCEPT ![x] = busy[w].q]
    /\ Retain(busy[w].q)
    /\ UNCHANGED <<auto_delete, made, work, deleted, given>>

-----------------------------------------------------------------------------
(* Operations.  A client gives an operation that deletes itself away once. *)

Give(x, o) ==
    /\ m_native[x] # NULL
    /\ SumFunction(given) < MaxGives
    /\ o \in auto_delete => given[o] = 0
    /\ given' = [given EXCEPT ![o] = @ + 1]

Given == UNCHANGED <<auto_delete, m_native, native, deleted, crashed>>

\* async(), and sync(), whose caller only waits
async(x, o) ==
    /\ Give(x, o)
    /\ items' = [items EXCEPT ![m_native[x]] = Append(@, o)]
    /\ UNCHANGED <<timers, context, final, apply, busy>> /\ Given

\* after(): the timer of dispatch_after_f() has the queue as its target
after(x, o) ==
    /\ Give(x, o)
    /\ timers' = timers \cup {<<m_native[x], o>>}
    /\ UNCHANGED <<items, context, final, apply, busy>> /\ Given

TimerFires(t) ==
    /\ timers' = timers \ {t}
    /\ items' = [items EXCEPT ![t[1]] = Append(@, t[2])]
    /\ UNCHANGED <<auto_delete, m_native, native, context, final, apply, busy, deleted, given, crashed>>

\* finalizer(): an operation set before is forgotten.
finalizer(x, o) ==
    /\ Give(x, o)
    /\ context' = [context EXCEPT ![m_native[x]] = o]
    /\ UNCHANGED <<items, timers, final, apply, busy>> /\ Given

\* apply(): an iteration_wrap on the stack of the caller
apply_(x, o) ==
    /\ apply = NoApply
    /\ Give(x, o)
    /\ apply' = [q |-> m_native[x], o |-> o, left |-> Times]
    /\ UNCHANGED <<items, timers, context, final, busy>> /\ Given

\* delete of an operation; a RunnableOperation takes its QRunnable with it
Delete(o) == deleted' = [deleted EXCEPT ![o] = @ + 1]

Start(w, t) == busy[w] = Idle /\ busy' = [busy EXCEPT ![w] = t]
Started == UNCHANGED <<auto_delete, m_native, native, deleted, given, crashed>>

\* A worker takes an item: the queue is serial.
Pop(w, q) ==
    /\ items[q] # <<>> /\ \A v \in Workers : busy[v].what = "op" => busy[v].q # q
    /\ Start(w, [q |-> q, o |-> Head(items[q]), what |-> "op"])
    /\ items' = [items EXCEPT ![q] = Tail(@)]
    /\ UNCHANGED <<timers, context, final, apply>> /\ Started

PopFinalizer(w, o) ==
    /\ o \in final
    /\ Start(w, [q |-> NULL, o |-> o, what |-> "final"])
    /\ final' = final \ {o}
    /\ UNCHANGED <<items, timers, context, apply>> /\ Started

PopIteration(w) ==
    /\ apply.left > 0
    /\ Start(w, [q |-> apply.q, o |-> apply.o, what |-> "iter"])
    /\ apply' = [apply EXCEPT !.left = @ - 1]
    /\ UNCHANGED <<items, timers, context, final>> /\ Started

\* _xdispatch_run_operation() after the call
run_operation(w) ==
    /\ busy[w].what \in {"op", "final"}
    /\ IF busy[w].o \in auto_delete THEN Delete(busy[w].o) ELSE UNCHANGED deleted
    /\ busy' = [busy EXCEPT ![w] = Idle]
    /\ UNCHANGED <<auto_delete, m_native, native, items, timers, context, final, apply, given, crashed>>


\* _xdispatch_run_iter_wrap(): deref() is never called
run_iter_wrap(w) ==
    /\ busy[w].what = "iter"
    /\ busy' = [busy EXCEPT ![w] = Idle]
    /\ UNCHANGED <<auto_delete, m_native, native, items, timers, context, final, apply, deleted, given, crashed>>

\* dispatch_apply_f() returns, and ~iteration_wrap()
ApplyReturns ==
    /\ apply # NoApply /\ apply.left = 0
    /\ \A w \in Workers : busy[w].what # "iter"
    /\ IF apply.o \in auto_delete THEN Delete(apply.o) ELSE UNCHANGED deleted
    /\ apply' = NoApply
    /\ UNCHANGED <<auto_delete, m_native, native, items, timers, context, final, busy, given, crashed>>

\* _dispatch_dispose(), when the last reference is gone: the queue holds one for
\* itself while it has items, and a timer one of its target.
Dispose(q) ==
    /\ q \in made /\ xref[q] = 0 /\ items[q] = <<>>
    /\ \A t \in timers : t[1] # q
    /\ \A w \in Workers : busy[w].q # q
    /\ made' = made \ {q}
    /\ final' = IF context[q] = NULL THEN final ELSE final \cup {context[q]}
    /\ UNCHANGED <<auto_delete, m_native, xref, items, timers, context, apply, busy, deleted, given, crashed>>

Object(x) ==
    \/ \E q \in Natives : New(x, q)
    \/ \E y \in Objects : Copy(x, y) \/ Assign(x, y)
    \/ Destroy(x)
    \/ \E o \in Ops : async(x, o) \/ after(x, o) \/ finalizer(x, o) \/ apply_(x, o)

Worker(w) ==
    \/ \E q \in Natives : Pop(w, q)
    \/ \E o \in Ops : PopFinalizer(w, o)
    \/ \E x \in Objects : current_queue(w, x)
    \/ PopIteration(w) \/ run_operation(w) \/ run_iter_wrap(w)

Next ==
    /\ ~crashed
    /\ \/ \E x \in Objects : Object(x)
       \/ \E w \in Workers : Worker(w)
       \/ \E t \in timers : TimerFires(t)
       \/ \E q \in Natives : Dispose(q)
       \/ ApplyReturns

Spec == Init /\ [][Next]_vars
-----------------------------------------------------------------------------
(* Properties.                                                             *)

InUse ==
    UNION {Range(items[q]) : q \in Natives}
    \cup {t[2] : t \in timers} \cup final
    \cup {busy[w].o : w \in Workers} \cup {apply.o}
    \cup {context[q] : q \in made}


\* A queue that is gone is not referred to by an object, and had its items run:
\* its finalizer comes after all of them (queue::queue(), ~queue(), finalizer()).
FinalizerLast ==
    \A q \in Natives \ made :
        /\ \A x \in Objects : m_native[x] # q
        /\ items[q] = <<>> /\ \A t \in timers : t[1] # q
        /\ \A w \in Workers : busy[w].q # q

=============================================================================
