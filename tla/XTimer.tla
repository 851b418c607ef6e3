------------------------------- MODULE XTimer -------------------------------
(***************************************************************************)
(* xdispatch::timer and QDispatchTimer (libxdispatch/src/timer.cpp,        *)
(* libqtdispatch/src/qdispatchtimer.cpp), and how their native_source is   *)
(* tied to a dispatch_source_t (source.cpp, source_internal.h,             *)
(* source_internal.cpp): a registry maps the dispatch_source_t to a        *)
(* wrapper whose event operation calls the native_source, which calls the  *)
(* source object it was created with, whose handler finds that object as   *)
(* the data of the event.  Copies of a timer share all of it.  The timers  *)
(* of libdispatch are the ones of module DispatchSource in larger steps.   *)
(***************************************************************************)
EXTENDS Integers, FiniteSets

CONSTANTS Objects,     \* C++ variables of type timer or QDispatchTimer
          NTypes,      \* number of timer_types, each with a dispatch_source_t of its own
          Intervals, Delays,
          Msecs, NSEC_PER_MSEC,   \* intervals of Qt, and their unit
          MaxNow,      \* bound on the time
          MaxCalls,    \* bound on the calls that set a timer
          NULL

Types == 1..NTypes

VARIABLES now,
          d,         \* the timer_type of each object
          tt,        \* the timer_types
          ds,        \* their dispatch_source_t: start time and suspend count
          wrapper,   \* the registry: whom the event operation calls
          worker,    \* the handler that is being called, and its data
          calls,
          since,     \* history: when the interval was changed last, by its length
          early      \* history: the timer fired before its new interval was over

vars == <<now, d, tt, ds, wrapper, worker, calls, since, early>>

Idle == [type |-> NULL, data |-> NULL]

Init ==
    /\ now = 0
    /\ d = [x \in Objects |-> NULL]
    /\ tt = [t \in Types |-> NULL]
    /\ ds = [t \in Types |-> [fire |-> 0, interval |-> 0, suspend |-> 1, cancelled |-> FALSE]]
    /\ wrapper = [t \in Types |-> NULL]
    /\ worker = Idle
    /\ calls = 0 /\ since = [t \in Types |-> 0] /\ early = FALSE

-----------------------------------------------------------------------------
(* Construction, copies, destruction.                                      *)

\* dispatch_source_set_timer()
SetTimer(t, start, interval) ==
    ds' = [ds EXCEPT ![t].fire = start, ![t].interval = interval]

\* native_source_wrapper::atomic_get() and event_operation(): the wrapper stays in
\* the registry for good
native_source(t) == wrapper' = [wrapper EXCEPT ![t] = t]

\* timer(): a timer_type that has the object as its parent and its callback
timer(x, t, i, first) ==
    /\ d[x] = NULL /\ t = Cardinality({k \in Types : wrapper[k] # NULL}) + 1
    /\ d' = [d EXCEPT ![x] = t]
    /\ tt' = [tt EXCEPT ![t] = [parent |-> x, cb |-> x, interval |-> i, delay |-> 0, suspend_ct |-> 0,
                                cancelled |-> FALSE]]
    /\ SetTimer(t, now + first, i)
    /\ native_source(t)
    /\ UNCHANGED <<now, worker, calls, since, early>>

QDispatchTimer(x, t, msec) == timer(x, t, NSEC_PER_MSEC * msec, 0)

\* timer( const timer& ) and operator =(): the data is shared
Copy(x, y) ==
    /\ d[y] # NULL /\ d[x] # d[y]
    /\ d[x] = NULL
    /\ d' = [d EXCEPT ![x] = d[y]]
    /\ UNCHANGED <<now, tt, ds, wrapper, worker, calls, since, early>>

\* A program keeps the object a timer was created as until the timer is off for good
\* or nobody can resume it, as it is the callback.
Off(t) == worker.type # t /\ (ds[t].suspend > 0 \/ ds[t].cancelled)
Unused(x) == Off(d[x]) /\ (tt[d[x]].cb # x \/ tt[d[x]].cancelled \/ \A y \in Objects : d[y] = d[x] => y = x)

\* Without x, the data is deleted if it was the last object.
Dropped(x) == IF \E y \in Objects \ {x} : d[y] = d[x] THEN tt ELSE [tt EXCEPT ![d[x]] = NULL]

Assign(x, y) ==
    /\ d[x] # NULL /\ d[y] \notin {NULL, d[x]} /\ Unused(x)
    /\ d' = [d EXCEPT ![x] = d[y]]
    /\ tt' = Dropped(x)
    /\ UNCHANGED <<now, ds, wrapper, worker, calls, since, early>>

Destroy(x) ==
    /\ d[x] # NULL /\ Unused(x)
    /\ d' = [d EXCEPT ![x] = NULL]
    /\ tt' = Dropped(x)
    /\ UNCHANGED <<now, ds, wrapper, worker, calls, since, early>>
-----------------------------------------------------------------------------
(* Settings.                                                               *)

Set(x) ==
    /\ d[x] # NULL /\ calls < MaxCalls
    /\ calls' = calls + 1
    /\ UNCHANGED <<now, d, wrapper, worker, early>>

\* update_timeout(): time_now when there is no delay
update_timeout(t, dl, i) == SetTimer(t, now + dl, i)

\* interval(): the delay follows, "so that the timer is not firing prematurely"
interval(x, i) ==
    /\ Set(x)
    /\ tt' = [tt EXCEPT ![d[x]] = [@ EXCEPT !.interval = i, !.delay = i]]
    /\ update_timeout(d[x], i, i)
    /\ since' = [since EXCEPT ![d[x]] = now + i]

setInterval(x, msec) == interval(x, msec * NSEC_PER_MSEC)

\* latency(): the time of the next event is set again from the last delay
latency(x) ==
    /\ Set(x)
    /\ update_timeout(d[x], tt[d[x]].delay, tt[d[x]].interval)
    /\ UNCHANGED <<tt, since>>

\* resume() and suspend() of source, with on_resume() and on_suspend()
Resumed(t) == [ds[t] EXCEPT !.suspend = IF tt[t].suspend_ct = 0 THEN @ - 1 ELSE @]

\* delay()
delay(t, dl) == [tt[t] EXCEPT !.delay = dl]

\* start(): delay(), and resume()
start(x, dl) ==
    /\ Set(x)
    /\ tt' = [tt EXCEPT ![d[x]] = [delay(d[x], dl) EXCEPT !.suspend_ct = @ + 1]]
    /\ ds' = [ds EXCEPT ![d[x]] = [Resumed(d[x]) EXCEPT !.fire = now + dl,
                                                        !.interval = tt[d[x]].interval]]
    /\ since' = [since EXCEPT ![d[x]] = now + dl]

stop(x) ==
    /\ d[x] # NULL /\ tt[d[x]].suspend_ct > 0
    /\ tt' = [tt EXCEPT ![d[x]].suspend_ct = @ - 1]
    /\ ds' = [ds EXCEPT ![d[x]].suspend = IF tt[d[x]].suspend_ct = 1 THEN @ + 1 ELSE @]
    /\ UNCHANGED <<now, d, wrapper, worker, calls, since, early>>

\* cancel(), with on_cancel() of native_source
cancel(x) ==
    /\ d[x] # NULL /\ ~tt[d[x]].cancelled
    /\ tt' = [tt EXCEPT ![d[x]].cancelled = TRUE]
    /\ ds' = [ds EXCEPT ![d[x]].cancelled = TRUE]
    /\ UNCHANGED <<now, d, wrapper, worker, calls, since, early>>
-----------------------------------------------------------------------------
(* Events.                                                                 *)

Tick ==
    /\ now < MaxNow
    /\ now' = now + 1
    /\ UNCHANGED <<d, tt, ds, wrapper, worker, calls, since, early>>

\* The dispatch_source_t calls native_source_wrapper__run_event_operation(), which
\* calls on_source_ready(), ready() and notify(); the handler has the parent as the
\* data of the event.
on_source_ready(t) ==
    /\ worker = Idle
    /\ ds[t].suspend <= 0 /\ ~ds[t].cancelled /\ ds[t].fire <= now
    /\ ds' = [ds EXCEPT ![t].fire = now + ds[t].interval]
    /\ early' = (early \/ now < since[t])
    /\ IF tt[wrapper[t]].suspend_ct <= 0 \/ tt[wrapper[t]].cancelled THEN UNCHANGED worker
       ELSE worker' = [type |-> wrapper[t], data |-> tt[wrapper[t]].parent]
    /\ UNCHANGED <<now, d, tt, wrapper, calls, since>>

\* timer::current(), for the handler
current == worker.data

HandlerDone ==
    /\ worker # Idle
    /\ worker' = Idle
    /\ UNCHANGED <<now, d, tt, ds, wrapper, calls, since, early>>

Next ==
    \/ \E x \in Objects :
         \/ \E t \in Types, i \in Intervals : timer(x, t, i, 0)
         \/ \E t \in Types, msec \in Msecs : QDispatchTimer(x, t, msec)
         \/ \E y \in Objects : Copy(x, y) \/ Assign(x, y)
         \/ Destroy(x)
         \/ \E i \in Intervals : interval(x, i)
         \/ \E msec \in Msecs : setInterval(x, msec)
         \/ latency(x) \/ (\E dl \in Delays : start(x, dl)) \/ stop(x) \/ cancel(x)
    \/ Tick \/ HandlerDone
    \/ \E t \in Types : on_source_ready(t)

Spec == Init /\ [][Next]_vars
-----------------------------------------------------------------------------
\* "changing the interval will also change the delay so that the timer is not firing
\* prematurely": after a call of interval() or start() a timer fires when the
\* interval or the delay is over, and not before, whatever latency() does meanwhile;
\* while its handler runs, the data is there, and current() is the object that the
\* timer was created as, with the copies of the timer that are around.
TimerOnTime ==
    /\ ~early
    /\ worker # Idle => /\ tt[worker.type] # NULL
                        /\ current = tt[worker.type].parent
                        /\ d[current] = worker.type
    /\ \A t \in Types : ds[t].suspend <= 0 /\ ~ds[t].cancelled => tt[t] # NULL
=============================================================================
