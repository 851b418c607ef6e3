------------------------------ MODULE XOperation ------------------------------
(***************************************************************************)
(* What the operations of xdispatch and QtDispatch are made of             *)
(* (xdispatch/operation.h, once.h, QtDispatch/qblockrunnable.h,            *)
(* qiterationblockrunnable.h, qrunnableoperations.h, the Emitter of        *)
(* qdispatchgroup.cpp, the notifications of qdispatchsource.cpp): functors *)
(* are copied, blocks are copied by Block_copy() and released, and an      *)
(* operation around a QRunnable or around another operation deletes it     *)
(* when it is deleted itself.  A client makes operations, nests them and   *)
(* gives them to a queue, or has them called through once.                 *)
(***************************************************************************)
EXTENDS Integers, FiniteSets

CONSTANTS N,          \* number of objects a client makes
          MaxGives,   \* bound on the operations given away
          Times,      \* iterations of apply()
          NULL

Nodes == 1..N

VARIABLES family,   \* operations, or iteration operations
          made,     \* number of objects made
          obj,      \* the objects on the heap
          refs,     \* references of the heap blocks
          held,     \* objects the client has to delete, or to give away
          queued,   \* how often a queue will still call an operation
          running,  \* how many calls are in progress
          given,    \* operations given to queues
          once,     \* whether the once object was executed
          fault     \* something was used or deleted after it was deleted

vars == <<family, made, obj, refs, held, queued, running, given, once, fault>>

Init ==
    /\ family \in {"operation", "iteration_operation"}
    /\ made = 0 /\ obj = [n \in Nodes |-> NULL] /\ refs = [n \in Nodes |-> 0]
    /\ held = {}
    /\ queued = [n \in Nodes |-> 0] /\ running = [n \in Nodes |-> 0]
    /\ given = 0 /\ once = FALSE /\ fault = FALSE

Live == {n \in Nodes : obj[n] # NULL}

-----------------------------------------------------------------------------
(* The classes.  kind says whether an object is an operation or a          *)
(* QRunnable; their auto_delete() and autoDelete() are TRUE at first.      *)

operation(inner) ==
    [kind |-> "operation", auto |-> TRUE, inner |-> inner, owns |-> TRUE, block |-> NULL]
iteration_operation(inner) == operation(inner)
runnable(inner, owns) ==
    [kind |-> "runnable", auto |-> TRUE, inner |-> inner, owns |-> owns, block |-> NULL]

New(n, o) ==
    /\ n = made + 1 /\ made' = n
    /\ obj' = [obj EXCEPT ![n] = o]
    /\ UNCHANGED <<family, queued, running, given, once, fault>>

\* An object with nothing to delete: a copy of a functor, or pointers to an
\* object of the client's and its member function
Plain(n, o) == New(n, o) /\ held' = held \cup {n} /\ UNCHANGED refs

\* Block_copy() of a block on the stack: a heap block with one reference
Block_copy(n, o) ==
    \E b \in Nodes :
        /\ refs[b] = 0 /\ \A k \in 1..(b - 1) : refs[k] # 0
        /\ New(n, [o EXCEPT !.block = b])
        /\ refs' = [refs EXCEPT ![b] = 1]
        /\ held' = held \cup {n}

\* An object around another one, which is the client's no longer if the wrapper
\* is going to delete it
Wrap(n, m, o) ==
    /\ m \in held /\ queued[m] = 0 /\ running[m] = 0
    /\ \A k \in Live : obj[k].inner = m => ~obj[k].owns /\ ~o.owns
    /\ New(n, o)
    /\ held' = (IF o.owns /\ obj[m].auto THEN held \ {m} ELSE held) \cup {n}
    /\ UNCHANGED refs

function_operation(n) == family = "operation" /\ Plain(n, operation(NULL))
ptr_operation(n) == family = "operation" /\ Plain(n, operation(NULL))
function_operation_block(n) == family = "operation" /\ Block_copy(n, operation(NULL))
QDispatchRunnable(n) == family = "operation" /\ Plain(n, runnable(NULL, TRUE))
QBlockRunnable(n) == family = "operation" /\ Block_copy(n, runnable(NULL, TRUE))

function_iteration_operation(n) ==
    family = "iteration_operation" /\ Plain(n, iteration_operation(NULL))
ptr_iteration_operation(n) ==
    family = "iteration_operation" /\ Plain(n, iteration_operation(NULL))
function_iteration_operation_block(n) ==
    family = "iteration_operation" /\ Block_copy(n, iteration_operation(NULL))
QDispatchIterationRunnable(n) ==
    family = "iteration_operation" /\ Plain(n, runnable(NULL, TRUE))
QIterationBlockRunnable(n) ==
    family = "iteration_operation" /\ Block_copy(n, runnable(NULL, TRUE))

Is(m, kind) == obj[m] # NULL /\ obj[m].kind = kind

RunnableOperation(n, m) ==
    family = "operation" /\ Is(m, "runnable") /\ Wrap(n, m, operation(m))
IterationRunnableOperation(n, m) ==
    family = "iteration_operation" /\ Is(m, "runnable") /\ Wrap(n, m, iteration_operation(m))
\* QDispatchGroup::Emitter, around a QRunnable or an operation
Emitter(n, m) == family = "operation" /\ obj[m] # NULL /\ Wrap(n, m, operation(m))
\* QDispatchNotifySource calls the handler of the source and does not own it
QDispatchNotifySource(n, m) ==
    family = "operation" /\ Is(m, "runnable") /\ Wrap(n, m, runnable(m, FALSE))

\* what make_operation() and make_iteration_operation() choose from
make_operation(n) ==
    \/ function_operation(n) \/ function_operation_block(n)
    \/ \E m \in Nodes : RunnableOperation(n, m)
make_iteration_operation(n) ==
    \/ function_iteration_operation(n) \/ function_iteration_operation_block(n)
    \/ \E m \in Nodes : IterationRunnableOperation(n, m)
QDispatchMakeRunnable(n) == QDispatchRunnable(n) \/ QBlockRunnable(n)
QDispatchMakeIterationRunnable(n) == QDispatchIterationRunnable(n) \/ QIterationBlockRunnable(n)

\* The copy constructor, of the classes that have one
Copy(n, m) ==
    /\ m \in held /\ obj[m].inner = NULL
    /\ New(n, obj[m])
    /\ held' = held \cup {n}
    /\ refs' = IF obj[m].block = NULL THEN refs ELSE [refs EXCEPT ![obj[m].block] = @ + 1]

\* auto_delete( false ), before the operation is given away or wrapped
auto_delete(n) ==
    /\ n \in held /\ obj[n].auto /\ queued[n] = 0
    /\ \A m \in Live : obj[m].inner # n
    /\ obj' = [obj EXCEPT ![n].auto = FALSE]
    /\ UNCHANGED <<family, made, refs, held, queued, running, given, once, fault>>
-----------------------------------------------------------------------------
(* Calls and deletion.                                                     *)

\* The object and what it calls, one inside the other ...
Inside(S) == S \cup {obj[n].inner : n \in {m \in S : obj[m] # NULL /\ obj[m].inner # NULL}}
Called(n) == Inside(Inside({n}))

\* ... and what is deleted with it
Owned(S) ==
    S \cup {obj[n].inner : n \in {m \in S : obj[m] # NULL /\ obj[m].inner # NULL /\ obj[m].owns
                                             /\ obj[obj[m].inner] # NULL /\ obj[obj[m].inner].auto}}
Deleted(n) == Owned(Owned({n}))

Broken(n) == \E m \in Called(n) : obj[m] = NULL \/ (obj[m].block # NULL /\ refs[obj[m].block] <= 0)

\* delete, through the destructors: the blocks are released
Delete(n) ==
    LET blocks == {<<m, obj[m].block>> : m \in {k \in Deleted(n) : obj[k] # NULL /\ obj[k].block # NULL}}
    IN /\ obj' = [m \in Nodes |-> IF m \in Deleted(n) THEN NULL ELSE obj[m]]
       /\ refs' = [b \in Nodes |-> refs[b] - Cardinality({x \in blocks : x[2] = b})]

\* async(), notify() or apply() of a queue or a group; the operation that deletes
\* itself is given away once
Give(n) ==
    /\ n \in held /\ obj[n].kind = "operation" /\ given < MaxGives
    /\ \A m \in Live : obj[m].inner # n
    /\ obj[n].auto => queued[n] = 0
    /\ family = "iteration_operation" => queued[n] + running[n] = 0
    /\ queued' = [queued EXCEPT ![n] = @ + (IF family = "operation" THEN 1 ELSE Times)]
    /\ held' = IF obj[n].auto THEN held \ {n} ELSE held
    /\ given' = given + 1
    /\ UNCHANGED <<family, made, obj, refs, running, once, fault>>

\* operator ()()
Call(n) ==
    /\ queued[n] > 0
    /\ queued' = [queued EXCEPT ![n] = @ - 1] /\ running' = [running EXCEPT ![n] = @ + 1]
    /\ fault' = (fault \/ Broken(n))
    /\ UNCHANGED <<family, made, obj, refs, held, given, once>>

\* It returns: _xdispatch_run_operation() deletes the operation, and so does
\* ~iteration_wrap() after the last iteration.
Return(n) ==
    /\ running[n] > 0
    /\ running' = [running EXCEPT ![n] = @ - 1]
    /\ fault' = (fault \/ Broken(n))
    /\ IF obj[n] # NULL /\ obj[n].auto /\ (family = "operation" \/ queued[n] + running[n] = 1)
         THEN Delete(n) ELSE UNCHANGED <<obj, refs>>
    /\ UNCHANGED <<family, made, held, queued, given, once>>

\* once::operator()( operation& ) calls the operation, and does not take it
once_operation(n) ==
    /\ n \in held /\ obj[n].kind = "operation" /\ family = "operation"
    /\ ~once /\ once' = TRUE
    /\ fault' = (fault \/ Broken(n))
    /\ UNCHANGED <<family, made, obj, refs, held, queued, running, given>>

\* once::operator() of a functor or a block calls it through a once_op on the stack,
\* which refers to it.
once_op ==
    /\ ~once /\ once' = TRUE
    /\ UNCHANGED <<family, made, obj, refs, held, queued, running, given, fault>>

\* The client deletes what it did not give away.
ClientDeletes(n) ==
    /\ n \in held
    /\ \A m \in Nodes : queued[m] + running[m] > 0 => n \notin Called(m)
    /\ \A m \in Live : obj[m].inner # n
    /\ Delete(n)
    /\ held' = held \ {n}
    /\ UNCHANGED <<family, made, queued, running, given, once, fault>>

Next ==
  \/ once_op
  \/ \E n \in Nodes :
      \/ make_operation(n) \/ make_iteration_operation(n)
      \/ QDispatchMakeRunnable(n) \/ QDispatchMakeIterationRunnable(n)
      \/ ptr_operation(n) \/ ptr_iteration_operation(n)
      \/ \E m \in Nodes : Emitter(n, m) \/ QDispatchNotifySource(n, m) \/ Copy(n, m)
      \/ auto_delete(n) \/ Give(n) \/ Call(n) \/ Return(n) \/ once_operation(n) \/ ClientDeletes(n)

Spec == Init /\ [][Next]_vars
-----------------------------------------------------------------------------
(* Properties.                                                             *)

\* Nothing is called after it was deleted, however operations are nested, and a
\* heap block has the references of the objects around it: it is there for every
\* call, and gone with the last of them.
BlocksHeld ==
    /\ ~fault
    /\ \A b \in Nodes : refs[b] = Cardinality({n \in Live : obj[n].block = b})

\* Nothing is leaked: every object is the client's, or about to be called, or will
\* be deleted with the object around it.
NothingLeaked ==
    \A n \in Live :
        \/ n \in held
        \/ queued[n] + running[n] > 0
        \/ \E m \in Live : obj[m].inner = n /\ obj[m].owns /\ obj[n].auto
=============================================================================
