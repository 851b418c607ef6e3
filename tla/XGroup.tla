------------------------------- MODULE XGroup -------------------------------
(***************************************************************************)
(* xdispatch::group and QDispatchGroup, the C++ objects around a           *)
(* dispatch_group_t (libxdispatch/src/group.cpp,                           *)
(* libqtdispatch/src/qdispatchgroup.cpp): their references of the group,   *)
(* the operations they give away, and the signal allFinished() of the Qt   *)
(* object, which an operation around the notification emits.  The group is *)
(* the one of module DispatchGroup in a few larger steps.                  *)
(*                                                                         *)
(* And xdispatch::semaphore and QDispatchSemaphore around a                *)
(* dispatch_semaphore_t (semaphore.cpp, qdispatchsemaphore.cpp), which     *)
(* threads share, copy and assign, and acquire and release: the counter of *)
(* module CountingSemaphore.  A behaviour is about groups (Next) or about  *)
(* semaphores (SemaphoreNext).                                             *)
(***************************************************************************)
EXTENDS Integers, FiniteSets, Functions

CONSTANTS Objects,    \* C++ variables of one of these types
          Natives,    \* dispatch_group_t, dispatch_semaphore_t
          Ops,        \* operations, none of which is given away twice
          MaxRefs,    \* bound on the references that assignments leave
          MaxWaits,   \* bound on the calls of wait()
          Threads,    \* that use a semaphore
          Values,     \* arguments of the constructors of a semaphore
          MaxAcquires,
          NULL

VARIABLES qt,        \* the objects that are of the Qt class; a QDispatchGroup has a Private
          m_native, xref, made,
          members,   \* operations of each group that are not done
          notify_,   \* notifications: <<operation, object or NULL>>
          ready,     \* notifications on their queue
          emitted,   \* how often allFinished() was emitted by each object
          owed,      \* history: how often it has to be
          deleted,   \* operations that were deleted
          waits,     \* calls of wait() that returned
          value, orig,
          want,      \* the semaphore each thread waits for
          holds,     \* the permits each thread has, of each semaphore
          acquires,  \* calls of acquire()
          crashed    \* freed while in use, or used after it was freed

objects == <<qt, m_native, xref, made>>
semaphores == <<value, orig, want, holds, acquires>>
groups == <<members, notify_, ready, emitted, owed, deleted, waits>>
vars == <<objects, groups, semaphores, crashed>>

Init ==
    /\ qt \in SUBSET Objects
    /\ m_native = [x \in Objects |-> NULL]
    /\ xref = [g \in Natives |-> 0] /\ made = {}
    /\ members = [g \in Natives |-> {}] /\ notify_ = [g \in Natives |-> {}] /\ ready = {}
    /\ emitted = [x \in Objects |-> 0] /\ owed = [x \in Objects |-> 0]
    /\ deleted = {}
    /\ waits = 0
    /\ value = [n \in Natives |-> 0] /\ orig = [n \in Natives |-> 0]
    /\ want = [t \in Threads |-> NULL]
    /\ holds = [t \in Threads |-> [n \in Natives |-> 0]]
    /\ acquires = 0
    /\ crashed = FALSE

-----------------------------------------------------------------------------
(* The objects around groups.                                              *)

unused == <<qt, members, notify_, ready, owed, deleted, waits>>

\* the reference of dispatch_group_create()
Create(x, g) ==
    /\ m_native[x] = NULL /\ g \notin made /\ xref[g] = 0
    /\ m_native' = [m_native EXCEPT ![x] = g]
    /\ made' = made \cup {g} /\ xref' = [xref EXCEPT ![g] = 1]
    /\ UNCHANGED <<unused, emitted, crashed>>

group(x, g) == x \notin qt /\ Create(x, g)
\* with a Private of its own, connected to allFinished()
QDispatchGroup(x, g) == x \in qt /\ Create(x, g)

Retain(g) ==
    IF g \notin made THEN crashed' = TRUE /\ UNCHANGED xref
    ELSE xref' = [xref EXCEPT ![g] = @ + 1] /\ UNCHANGED crashed

\* An object for a group that there is: group( const group& ), group( dispatch_group_t )
Refer(x, y) ==
    /\ m_native[x] = NULL /\ m_native[y] # NULL
    /\ m_native' = [m_native EXCEPT ![x] = m_native[y]]
    /\ Retain(m_native[y])
    /\ UNCHANGED <<unused, made, emitted>>

Copy(x, y) == x \notin qt /\ Refer(x, y)
\* the Private is not shared: each QDispatchGroup emits for its own notifications
QCopy(x, y) == x \in qt /\ Refer(x, y)

\* operator =() of group retains the new one and does not release the old one; a
\* QDispatchGroup has none.
Assign(x, y) ==
    /\ m_native[x] # NULL /\ m_native[y] \notin {NULL, m_native[x]} /\ x \notin qt
    /\ xref[m_native[x]] + xref[m_native[y]] < MaxRefs
    /\ m_native' = [m_native EXCEPT ![x] = m_native[y]]
    /\ Retain(m_native[y])
    /\ UNCHANGED <<unused, made, emitted>>

\* What the group holds a reference of itself for
Pending(g) == members[g] # {} \/ notify_[g] # {}

\* ~group(), ~QDispatchGroup(); a program keeps the QDispatchGroup until the
\* notifications it made have run.
Destroy(x) ==
    /\ m_native[x] # NULL
    /\ \A n \in ready \cup UNION Range(notify_) : n[2] # x
    /\ LET g == m_native[x] IN
       /\ xref' = [xref EXCEPT ![g] = @ - 1]
       /\ made' = IF xref[g] = 1 /\ ~Pending(g) THEN made \ {g} ELSE made
    /\ m_native' = [m_native EXCEPT ![x] = NULL]
    /\ UNCHANGED <<unused, emitted, crashed>>
-----------------------------------------------------------------------------
(* Operations.                                                             *)

Used(o) ==
    \/ o \in deleted \/ \E g \in Natives : o \in members[g]
    \/ \E n \in ready \cup UNION Range(notify_) : n[1] = o

\* async()
async(x, o) ==
    /\ m_native[x] # NULL /\ ~Used(o)
    /\ crashed' = (crashed \/ m_native[x] \notin made)
    /\ members' = [members EXCEPT ![m_native[x]] = @ \cup {o}]
    /\ UNCHANGED <<objects, notify_, ready, emitted, owed, deleted, waits>>

\* dispatch_group_notify_f(): the notifications of an empty group go to their
\* queues at once
Notified(g, n) ==
    IF members[g] = {}
      THEN notify_' = [notify_ EXCEPT ![g] = {}] /\ ready' = ready \cup notify_[g] \cup {n}
      ELSE notify_' = [notify_ EXCEPT ![g] = @ \cup {n}] /\ UNCHANGED ready

Notify(x, o, emitter) ==
    /\ m_native[x] # NULL /\ ~Used(o)
    /\ crashed' = (crashed \/ m_native[x] \notin made)
    /\ Notified(m_native[x], <<o, emitter>>)
    /\ UNCHANGED <<objects, members, emitted, deleted, waits>>

notify(x, o) == x \notin qt /\ Notify(x, o, NULL) /\ UNCHANGED owed
\* QDispatchGroup::notify() puts an Emitter around the operation.
QNotify(x, o) == x \in qt /\ Notify(x, o, x) /\ owed' = [owed EXCEPT ![x] = @ + 1]

\* enableAllFinishedSignal(): an Emitter, in the Emitter that notify() makes: the
\* signal comes twice
SIGNAL == "Emitter"
enableAllFinishedSignal(x) ==
    /\ m_native[x] # NULL /\ x \in qt
    /\ <<SIGNAL, x>> \notin ready \cup notify_[m_native[x]] /\ emitted[x] < 2
    /\ crashed' = (crashed \/ m_native[x] \notin made)
    /\ Notified(m_native[x], <<SIGNAL, x>>)
    /\ owed' = [owed EXCEPT ![x] = @ + 2]
    /\ UNCHANGED <<objects, members, emitted, deleted, waits>>

\* An operation of the group ran, is deleted, and leaves the group.
Leave(g, o) ==
    /\ o \in members[g]
    /\ deleted' = deleted \cup {o}
    /\ members' = [members EXCEPT ![g] = @ \ {o}]
    /\ LET empty == members[g] = {o} IN
       /\ ready' = IF empty THEN ready \cup notify_[g] ELSE ready
       /\ notify_' = IF empty THEN [notify_ EXCEPT ![g] = {}] ELSE notify_
       /\ made' = IF empty /\ xref[g] = 0 THEN made \ {g} ELSE made
    /\ UNCHANGED <<qt, m_native, xref, emitted, owed, waits, crashed>>

\* A notification runs: Emitter::operator ()() calls the operation and then the
\* Private of the QDispatchGroup; the Emitter is deleted, and the operation with it
Emit(n) ==
    /\ n \in ready
    /\ ready' = ready \ {n}
    /\ deleted' = IF n[1] = SIGNAL THEN deleted ELSE deleted \cup {n[1]}
    /\ crashed' = (crashed \/ (n[2] # NULL /\ m_native[n[2]] = NULL))
    /\ emitted' = IF n[2] = NULL THEN emitted
                  ELSE [emitted EXCEPT ![n[2]] = @ + (IF n[1] = SIGNAL THEN 2 ELSE 1)]
    /\ UNCHANGED <<objects, members, notify_, owed, waits>>

\* wait(): TRUE when the group is empty, FALSE after the timeout
Wait(x, forever) ==
    /\ m_native[x] # NULL /\ waits < MaxWaits
    /\ crashed' = (crashed \/ m_native[x] \notin made)
    /\ forever => members[m_native[x]] = {}
    /\ waits' = waits + 1
    /\ UNCHANGED <<objects, members, notify_, ready, emitted, owed, deleted>>

wait(x) == \E time \in {"NOW", "FOREVER"} : Wait(x, time = "FOREVER")
\* QDispatchGroup::wait(): a QTime whose msec() is zero waits for ever
QWait(x) == x \in qt /\ \E msec \in {0, 1} : Wait(x, msec = 0)

GroupNext ==
    \/ \E x \in Objects :
         \/ \E g \in Natives : group(x, g) \/ QDispatchGroup(x, g)
         \/ \E y \in Objects : Copy(x, y) \/ QCopy(x, y) \/ Assign(x, y)
         \/ Destroy(x)
         \/ \E o \in Ops : async(x, o) \/ notify(x, o) \/ QNotify(x, o)
         \/ enableAllFinishedSignal(x)
         \/ wait(x) \/ QWait(x)
    \/ \E g \in Natives : \E o \in members[g] : Leave(g, o)
    \/ \E n \in ready : Emit(n)

Next == GroupNext /\ UNCHANGED semaphores
-----------------------------------------------------------------------------
(* Semaphores.                                                             *)

\* semaphore( int ) creates a semaphore of that value, QDispatchSemaphore( int ) one
\* of value 1
semaphore(x, n, v) ==
    /\ m_native[x] = NULL /\ n \notin made /\ xref[n] = 0
    /\ LET val == IF x \in qt THEN 1 ELSE v IN
       /\ value' = [value EXCEPT ![n] = val] /\ orig' = [orig EXCEPT ![n] = val]
    /\ m_native' = [m_native EXCEPT ![x] = n]
    /\ made' = made \cup {n} /\ xref' = [xref EXCEPT ![n] = 1]
    /\ UNCHANGED <<qt, want, holds, acquires, crashed>>

\* semaphore( const semaphore& ), semaphore( dispatch_semaphore_t )
SCopy(x, y) ==
    /\ m_native[x] = NULL /\ m_native[y] # NULL
    /\ m_native' = [m_native EXCEPT ![x] = m_native[y]]
    /\ Retain(m_native[y])
    /\ UNCHANGED <<qt, made, value, orig, want, holds, acquires>>

\* The threads that use the semaphore, which a program lets return what they took
\* before its last object goes
Users(n) == {t \in Threads : want[t] = n \/ holds[t][n] > 0}
Last(x) == \A y \in Objects \ {x} : m_native[y] # m_native[x]

\* operator =(): the new one is retained, the old one is not released.
SAssign(x, y) ==
    /\ m_native[x] # NULL /\ m_native[y] \notin {NULL, m_native[x]}
    /\ xref[m_native[x]] + xref[m_native[y]] < MaxRefs
    /\ Last(x) => Users(m_native[x]) = {}
    /\ m_native' = [m_native EXCEPT ![x] = m_native[y]]
    /\ Retain(m_native[y])
    /\ UNCHANGED <<qt, made, value, orig, want, holds, acquires>>

\* ~semaphore(): _dispatch_semaphore_dispose() crashes when permits are missing
SDestroy(x) ==
    /\ m_native[x] # NULL
    /\ Last(x) => Users(m_native[x]) = {}
    /\ LET n == m_native[x] IN
       /\ xref' = [xref EXCEPT ![n] = @ - 1]
       /\ made' = IF xref[n] = 1 THEN made \ {n} ELSE made
       /\ crashed' = (crashed \/ n \notin made \/ (xref[n] = 1 /\ value[n] < orig[n]))
    /\ m_native' = [m_native EXCEPT ![x] = NULL]
    /\ UNCHANGED <<qt, value, orig, want, holds, acquires>>

\* acquire() and try_acquire(): dispatch_semaphore_wait()
acquire(t, x) ==
    /\ want[t] = NULL /\ m_native[x] # NULL /\ acquires < MaxAcquires
    /\ want' = [want EXCEPT ![t] = m_native[x]]
    /\ acquires' = acquires + 1
    /\ UNCHANGED <<objects, value, orig, holds, crashed>>

Acquired(t) ==
    /\ want[t] # NULL /\ value[want[t]] > 0
    /\ crashed' = (crashed \/ want[t] \notin made)
    /\ value' = [value EXCEPT ![want[t]] = @ - 1]
    /\ holds' = [holds EXCEPT ![t][want[t]] = @ + 1]
    /\ want' = [want EXCEPT ![t] = NULL]
    /\ UNCHANGED <<objects, orig, acquires>>

\* the timeout of try_acquire(), in all its forms
try_acquire(t) ==
    /\ want[t] # NULL /\ value[want[t]] = 0
    /\ crashed' = (crashed \/ want[t] \notin made)
    /\ want' = [want EXCEPT ![t] = NULL]
    /\ UNCHANGED <<objects, value, orig, holds, acquires>>

\* release(), of a permit the thread took, or of one more when the semaphore starts
\* at zero to wait for an event
release(t, x) ==
    /\ m_native[x] # NULL
    /\ LET n == m_native[x] IN
       /\ holds[t][n] > 0 \/ (orig[n] = 0 /\ value[n] = 0)
       /\ crashed' = (crashed \/ n \notin made)
       /\ value' = [value EXCEPT ![n] = @ + 1]
       /\ holds' = [holds EXCEPT ![t][n] = IF @ > 0 THEN @ - 1 ELSE 0]
    /\ UNCHANGED <<objects, orig, want, acquires>>

SStep ==
    \/ \E x \in Objects :
         \/ \E n \in Natives, v \in Values : semaphore(x, n, v)
         \/ \E y \in Objects : SCopy(x, y) \/ SAssign(x, y)
         \/ SDestroy(x)
         \/ \E t \in Threads : acquire(t, x) \/ release(t, x)
    \/ \E t \in Threads : Acquired(t) \/ try_acquire(t)

SemaphoreNext == SStep /\ UNCHANGED groups
-----------------------------------------------------------------------------
(* Properties.                                                             *)

\* No group is used after it was freed, by an object or an operation, and every
\* notification a QDispatchGroup made is followed by its signal: none is lost, and
\* none comes from an object that is gone.
GroupHeld ==
    /\ ~crashed
    /\ \A g \in Natives : Pending(g) \/ (\E x \in Objects : m_native[x] = g) => g \in made
    /\ \A x \in Objects :
         LET mine == {n \in ready \cup UNION Range(notify_) : n[2] = x}
         IN owed[x] = emitted[x] + Cardinality(mine) + Cardinality({n \in mine : n[1] = SIGNAL})

\* A semaphore is there for every object that refers to it and for the threads that
\* wait for it through one of them, a thread that gave up waiting took nothing, and
\* no semaphore whose permits came back is freed as one in use.
SemaphoreHeld ==
    /\ ~crashed
    /\ \A x \in Objects : m_native[x] # NULL => m_native[x] \in made
    /\ \A n \in made :
         /\ xref[n] >= Cardinality({x \in Objects : m_native[x] = n})
         /\ value[n] + SumFunction([t \in Threads |-> holds[t][n]]) >= orig[n]
=============================================================================
