------------------------------ MODULE MCSources ------------------------------
(* Dispatch sources, and beside them instances of the sources of Mach ports *)
(* and of the C++ classes source, timer, queue, group, semaphore and        *)
(* operation.  part says which of them a behaviour is about.                *)
EXTENDS DispatchSource

CONSTANTS s1, s2, x1, x2, n1, n2, w1, w2,
          Parts   \* what is checked, see AllInit

VARIABLES part,
          skind, width, suspend_ct, cancelled, cancel_handler, type, spc, call, off, ev, queue, sbusy,
          delivered, sdeleted,
          auto_delete, m_native, xref, made, items, timers, context, final, apply, busy, deleted,
          given, crashed,
          mds, mdk, port, notes, server, sent, names, manswer,
          tnow, d, tt, tds, wrapper, worker, calls, since, early,
          family, omade, obj, orefs, held, oqueued, running, ogiven, once, fault,
          gqt, gm_native, gxref, gmade, members, notify_, gready, emitted, owed, gdeleted, waits, gcrashed,
          xm_native, dq, stacks, wanted, finalized, xcalls, xcrashed,
          value, orig, want, holds, acquires

timerVars == <<tnow, d, tt, tds, wrapper, worker, calls, since, early>>
operationVars == <<family, omade, obj, orefs, held, oqueued, running, ogiven, once, fault>>
groupVars == <<gqt, gm_native, gxref, gmade, members, notify_, gready, emitted, owed, gdeleted, waits,
               value, orig, want, holds, acquires, gcrashed>>
objectVars == <<xm_native, dq, stacks, wanted, finalized, xcalls, xcrashed>>
machVars == <<mds, mdk, port, notes, server, sent, names, manswer>>
wrapperVars == <<skind, width, suspend_ct, cancelled, cancel_handler, type, spc, call, off, ev, queue,
                 sbusy, delivered, sdeleted>>
queueVars == <<auto_delete, m_native, xref, made, items, timers, context, final, apply, busy, deleted,
               given, crashed>>

-----------------------------------------------------------------------------
\* Pairs of sources that share, or do not share, a kevent, and one source by itself.
Source(kind, ident, mask, handlers) ==
    [kind |-> kind, ident |-> ident, mask |-> mask, handlers |-> handlers]
None == Source("absent", 0, {}, <<>>)

\* One client and two sources, or two clients and one source.
Nothing == [op \in {} |-> 0]
Cancel == [cancel |-> 1, release |-> 1]
Pair(a, b, ops) == [src |-> (s1 :> a) @@ (s2 :> b), calls |-> ("c1" :> ops) @@ ("c2" :> Nothing)]
One(a, ops) == [src |-> (s1 :> a) @@ (s2 :> None), calls |-> ("c1" :> Cancel) @@ ("c2" :> ops)]

Both == <<"event", "cancel">>
Event == <<"event">>

Reads == Pair(Source("read", 3, {}, Event), Source("read", 3, {}, Event), [release |-> 1])
Files == Pair(Source("vnode", 4, {"write"}, Both), Source("vnode", 4, {"delete"}, Event),
              [cancel |-> 1])
Timers == Pair(Source("timer", 0, {}, Event), Source("timer", 0, {"oneshot"}, Event),
               [set_timer |-> 1])
Adds == One(Source("data_add", 0, {}, Both), [merge |-> 2, release |-> 1])
Ors == One(Source("data_or", 0, {}, Event), [merge |-> 1, suspend |-> 1])
Exits == One(Source("proc", 5, {"exit"}, Both), [suspend |-> 1])
Zombie == One(Source("proc", 7, {"exit"}, Both), [suspend |-> 1])
Signals == One(Source("signal", 6, {}, Both), [cancel |-> 1, release |-> 1])
Device == One(Source("read", 8, {}, Both), [suspend |-> 1])
Timer == One(Source("timer", 0, {}, Event), [set_timer |-> 1])
AllScenarios == {Reads, Files, Timers, Adds, Ors, Exits, Zombie, Signals, Device, Timer}

\* A timer that one client sets and the other suspends and resumes.
TimerScenario ==
    {[src |-> (s1 :> Source("timer", 0, {}, Event)) @@ (s2 :> None),
      calls |-> ("c1" :> [set_timer |-> 1]) @@ ("c2" :> [suspend |-> 1])]}
-----------------------------------------------------------------------------
Wrapper == INSTANCE XSource WITH
               kind <- skind, pc <- spc, busy <- sbusy, deleted <- sdeleted,
               Clients <- {"c1", "c2"}, Workers <- {w1, w2}, Kinds <- {"custom", "native", "qt"},
               Widths <- {1, 2}, CancelOps <- {"o1", "o2"}, MaxCalls <- 2, MaxEvents <- 2,
               NULL <- "null"

Queue == INSTANCE XQueue WITH
             Objects <- {x1, x2}, Natives <- {n1, n2}, Ops <- {"a", "b"}, Workers <- {w1, w2},
             Times <- 2, Kinds <- {{"a", "b"}, {"b"}}, MaxGives <- 3, MaxRefs <- 3

XTimers == INSTANCE XTimer WITH
             now <- tnow, ds <- tds,
             Objects <- {x1, x2}, NTypes <- 2, Intervals <- {2}, Msecs <- {1}, NSEC_PER_MSEC <- 2, Delays <- {0, 1}, MaxNow <- 2,
             MaxCalls <- 2

Operation == INSTANCE XOperation WITH
                 made <- omade, refs <- orefs, queued <- oqueued, given <- ogiven,
                 N <- 3, MaxGives <- 2, Times <- 2

Group == INSTANCE XGroup WITH
             qt <- gqt, m_native <- gm_native, xref <- gxref, made <- gmade, ready <- gready,
             deleted <- gdeleted, crashed <- gcrashed,
             Objects <- {x1, x2}, Natives <- {n1, n2}, Ops <- {"a", "b"}, MaxRefs <- 4, MaxWaits <- 1,
             Threads <- {w1, w2}, Values <- {0, 2}, MaxAcquires <- 2

Object == INSTANCE XObject WITH
              m_native <- xm_native, calls <- xcalls, crashed <- xcrashed,
              Objects <- {x1, x2}, QtObjects <- {x2}, Order <- <<"r", "s">>, Workers <- {w1}, Used <- {"low"},
              MaxCalls <- 1, MaxSuspend <- 1

MachScenarios ==
    {[p1 |-> [port |-> "p", type |-> t[1]], p2 |-> [port |-> "p", type |-> t[2]]] :
        t \in {<<"send", "send">>, <<"recv", "send">>, <<"recv", "recv">>}}

MachPort == INSTANCE MachSource WITH
            ds <- mds, dk <- mdk, answer <- manswer,
            Sources <- {"p1", "p2"}, Ports <- {"p"}, Scenarios <- MachScenarios,
            Count <- 2, MaxMessages <- 1, MaxSuspends <- 1

cxxVars == <<wrapperVars, queueVars, timerVars, operationVars, groupVars, objectVars>>

AllInit == /\ part \in Parts
           /\ Init /\ MachPort!Init /\ Wrapper!Init /\ Queue!Init /\ XTimers!Init /\ Operation!Init
           /\ Group!Init /\ Object!Init
           /\ part = "source" \/ ds[s1].ident = 8
           /\ part = "mach" \/ \A p \in {"p1", "p2"} : mds[p].type = "send"
           /\ part = "xsource" \/ (skind = "qt" /\ width = 1)
           /\ part = "xqueue" \/ auto_delete = {"b"}
           /\ part = "xoperation" \/ family = "operation"
           /\ part \in {"xgroup", "xsemaphore"} \/ gqt = {}

AllNext == \/ part = "source" /\ Next /\ UNCHANGED <<part, machVars, cxxVars>>
           \/ part = "mach" /\ MachPort!Next /\ UNCHANGED <<part, vars, cxxVars>>
           \/ part = "xsource" /\ Wrapper!Next
              /\ UNCHANGED <<part, vars, machVars, queueVars, timerVars, operationVars, groupVars, objectVars>>
           \/ part = "xqueue" /\ Queue!Next
              /\ UNCHANGED <<part, vars, machVars, wrapperVars, timerVars, operationVars, groupVars, objectVars>>
           \/ part = "xtimer" /\ XTimers!Next
              /\ UNCHANGED <<part, vars, machVars, wrapperVars, queueVars, operationVars, groupVars, objectVars>>
           \/ part = "xoperation" /\ Operation!Next
              /\ UNCHANGED <<part, vars, machVars, wrapperVars, queueVars, timerVars, groupVars, objectVars>>
           \/ /\ \/ part = "xgroup" /\ Group!Next
                 \/ part = "xsemaphore" /\ Group!SemaphoreNext
              /\ UNCHANGED <<part, vars, machVars, wrapperVars, queueVars, timerVars, operationVars, objectVars>>
           \/ part = "xobject" /\ Object!Next
              /\ UNCHANGED <<part, vars, machVars, wrapperVars, queueVars, timerVars, operationVars, groupVars>>

AllSpec == AllInit /\ [][AllNext]_<<part, vars, machVars, cxxVars>>
FairSourceSpec == AllSpec /\ Fairness
-----------------------------------------------------------------------------

\* No data is lost or counted twice on its way from the kernel or a merge to the
\* handler: a source with something to do is about to be woken up, what was merged
\* was delivered or is pending, and when the system comes to rest nothing is.  A
\* Mach port is watched as long as a source waits for its messages, its death is
\* told once, and dispatch_mig_server() owes no reply.
SourceDelivers ==
    /\ part = "source" => NoLostWakeup /\ Conservation /\ NothingLeft
    /\ part = "mach" => /\ MachPort!ArmedIsWatched /\ MachPort!WatchedHasSources
                        /\ MachPort!DeadTold /\ MachPort!RequestsAnswered

\* However source::cancel() and cancel_handler() race, a cancel handler is deleted
\* once and not while it is set, queued or running, and the sourcetype is told
\* once.
CancelOnce == part = "xsource" => Wrapper!CancelOnce


=============================================================================
