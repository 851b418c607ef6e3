--------------------------- MODULE DispatchSource ---------------------------
(***************************************************************************)
(* Dispatch sources (libdispatch/src/source.c, source_kevent.c), their     *)
(* timers, and the manager queue that owns the kernel's event queue        *)
(* (queue_kevent.c).                                                       *)
(*                                                                         *)
(* A source is a queue of its own: while do_suspend_cnt has its lock bit   *)
(* set it is on the list of the manager queue or of its target queue, or   *)
(* is being invoked there.  Only the manager thread touches the table of   *)
(* kevents, the timer lists and the kernel; clients set flags, add pending *)
(* data and wake the source up.  The lists of the manager queue and of the *)
(* target queue are FIFO queues (module DispatchQueue).                    *)
(***************************************************************************)
EXTENDS Integers, Sequences, FiniteSets, SequencesExt

CONSTANTS Sources, Clients,
          Creator,     \* the client that creates the sources
          Scenarios,   \* which sources there are, [kind, ident, mask, handlers],
                       \* and how many calls of which kind each client makes:
                       \* records of functions [src, calls]
          Devices,     \* descriptors the kernel refuses to add (/dev/ nodes)
          Zombies,     \* processes that exist but have exited
          MaxEvents,   \* bound on the events the kernel generates
          MaxNow,      \* bound on the clock
          Starts, Interval, \* arguments of dispatch_source_set_timer()
          TimerEarly,  \* it may be called while the client has the source suspended
          NULL

Threads == Clients \cup {"mgr", "tq"}

VARIABLES ds,     \* the fields of each source
          dk,     \* the kevents: dk_sources and dk_kevent
          kern,   \* what the kernel and select() watch, and pending events
          q,      \* the lists of the manager queue and of the target queue,
                  \* and whether the manager's EVFILT_USER event is triggered
          th,     \* of each thread: where it is, the source it works on, where
                  \* _dispatch_wakeup() returns, and its argument
          mg,     \* the manager's locals: the sources an event is still to be
                  \* merged into, the event, the timer list it runs, the time
                  \* it read, and when its kevent() call times out
          now,    \* the clock
          cl,     \* of each client: calls left, suspensions and references held
          events, \* number of events the kernel has generated
          hist    \* history, of each source: the data merged and delivered, and
                  \* the calls of its handlers

vars == <<ds, dk, kern, q, th, mg, now, cl, events, hist>>

\* The prototypes of _dispatch_source_type_*_ke: EV_DISPATCH makes a level
\* source that must be rearmed, EV_CLEAR one that collects flags.
Level(k) == k \in {"read", "write"}
Clear(k) == k \in {"vnode", "proc", "data_or"}
Adder(k) == ~Level(k) /\ ~Clear(k)
Static(k) == k \in {"timer", "data_add", "data_or"}
Zero(k) == IF Clear(k) THEN {} ELSE 0

\* .mask of the source types
TypeMask(k) == CASE k = "vnode" -> {"delete", "write"}
                 [] k = "proc"  -> {"exit"}
                 [] k = "timer" -> {"oneshot"}
                 [] OTHER       -> {}

\* The clock that timer events are kept by: the index of _dispatch_kevent_timer
Wall == <<"timer", 0>>
Mach == <<"timer", 1>>

Key(x) == <<x.kind, x.ident>>
Keys == {Key(sc.src[s]) : sc \in Scenarios, s \in Sources} \cup {Wall, Mach}

SUSPENDED(s) == ds[s].suspend >= 2
Gone(s) == ds[s].canceled \/ ds[s].xref = 0

Init ==
    /\ \E sc \in Scenarios :
         /\ cl = [c \in Clients |-> [calls |-> sc.calls[c], owns |-> {},
                                     susp |-> [s \in Sources |-> 0]]]
         /\ ds = [s \in Sources |->
                    [kind |-> sc.src[s].kind, ident |-> sc.src[s].ident,
                     mask |-> sc.src[s].mask, plan |-> sc.src[s].handlers,
                     status |-> IF sc.src[s].kind = "absent" THEN "freed" ELSE "none",
                     ref |-> 0, xref |-> 0, suspend |-> 0, listless |-> TRUE,
                     items |-> <<>>, dkev |-> NULL, installed |-> FALSE,
                     canceled |-> FALSE, pending |-> Zero(sc.src[s].kind),
                     rearm |-> FALSE, armed |-> FALSE,
                     event |-> FALSE, cancel |-> FALSE,
                     target |-> 0, clock |-> Wall]]
    /\ dk = [k \in Keys |-> [sources |-> <<>>, fflags |-> {}, add |-> FALSE,
                             oneshot |-> FALSE]]
    /\ kern = [k \in Keys |-> [reg |-> FALSE, sel |-> FALSE, enabled |-> FALSE,
                               fflags |-> {}, data |-> Zero(k[1])]]
    /\ q = [mgr |-> <<>>, tq |-> <<>>, trigger |-> FALSE]
    /\ th = [t \in Threads |-> [pc |-> IF t = "mgr" THEN "timers" ELSE "idle",
                                cur |-> NULL, ret |-> NULL, arg |-> NULL]]
    /\ mg = [todo |-> <<>>, ev |-> NULL, list |-> Wall, time |-> 0,
             deadline |-> MaxNow + 1]
    /\ now = 1
    /\ events = 0
    /\ hist = [s \in Sources |-> [merged |-> 0, delivered |-> 0,
                                  events |-> 0, cancels |-> 0]]

-----------------------------------------------------------------------------
At(t, l) == th[t].pc = l
Cur(t) == th[t].cur

Goto(t, l) == th' = [th EXCEPT ![t].pc = l]
GotoWith(t, l, s, a) == th' = [th EXCEPT ![t] = [@ EXCEPT !.pc = l, !.cur = s, !.arg = a]]

\* Where a thread goes when its call or invocation is over.
Home(t) == IF t = "mgr" THEN "mgrq" ELSE "idle"
GoHome(t) == GotoWith(t, Home(t), NULL, NULL)

\* Call _dispatch_wakeup(s) and go on at l.
CallWakeup(t, s, l) ==
    th' = [th EXCEPT ![t] = [@ EXCEPT !.pc = "wakeup", !.cur = s, !.ret = l]]

Return(t) == th' = [th EXCEPT ![t] = [@ EXCEPT !.pc = th[t].ret, !.ret = NULL]]

\* _dispatch_queue_push(&_dispatch_mgr_q): the first item of an empty queue
\* triggers the manager's event (_dispatch_mgr_wakeup()).
PushMgr(x) == q' = [q EXCEPT !.mgr = Append(@, x), !.trigger = @ \/ q.mgr = <<>>]

_dispatch_source_probe(s) ==
    \/ ~ds[s].installed
    \/ Gone(s) /\ (ds[s].dkev # NULL \/ ds[s].cancel)
    \/ ~Gone(s) /\ \/ ds[s].pending # Zero(ds[s].kind)
                   \/ ds[s].rearm /\ ~ds[s].armed

\* _dispatch_wakeup() of a source: do nothing if it is suspended or idle ...
Wakeup(t) ==
    /\ At(t, "wakeup")
    /\ IF SUSPENDED(Cur(t)) \/ ~(_dispatch_source_probe(Cur(t)) \/ ds[Cur(t)].items # <<>>)
         THEN Return(t)
         ELSE Goto(t, "trylock")
    /\ UNCHANGED <<ds, dk, kern, q, mg, now, cl, events, hist>>

\* ... else take the lock bit and put it on the list of its target queue.
WakeupLock(t) ==
    /\ At(t, "trylock")
    /\ IF ds[Cur(t)].suspend = 0
         THEN /\ ds' = [ds EXCEPT ![Cur(t)] = [@ EXCEPT !.suspend = 1, !.ref = @ + 1,
                                                        !.listless = FALSE]]
              /\ q' = [q EXCEPT !.tq = Append(@, Cur(t))]
         ELSE UNCHANGED <<ds, q>>
    /\ Return(t)
    /\ UNCHANGED <<dk, kern, mg, now, cl, events, hist>>

\* _dispatch_release(): the last reference disposes of the source.
Released(r) ==
    [r EXCEPT !.ref = @ - 1,
              !.status = IF r.ref > 1 THEN @
                         ELSE IF r.ref < 1 THEN "over-release"
                         ELSE IF ~r.listless THEN "release while enqueued"
                         ELSE IF r.xref # 0 THEN "external references exist"
                         ELSE IF r.items # <<>> THEN "items are enqueued"
                         ELSE "freed"]

Release(t) ==
    /\ At(t, "release")
    /\ ds' = [ds EXCEPT ![Cur(t)] = Released(@)]
    /\ GoHome(t)
    /\ UNCHANGED <<dk, kern, q, mg, now, cl, events, hist>>

\* dispatch_release() of an external reference: the last one wakes the source
\* up, so that it is uninstalled, and gives up the internal one.
XRelease(t, s) ==
    IF ds[s].xref > 1
      THEN ds' = [ds EXCEPT ![s].xref = @ - 1] /\ GoHome(t)
    ELSE IF SUSPENDED(s)
      THEN /\ ds' = [ds EXCEPT ![s] = [@ EXCEPT !.xref = 0, !.status = "suspended"]]
           /\ GoHome(t)
    ELSE ds' = [ds EXCEPT ![s].xref = 0] /\ CallWakeup(t, s, "release")

\* dispatch_resume(): the last suspension wakes the source up.
Resume(t, s, l) ==
    /\ ds' = [ds EXCEPT ![s].suspend = @ - 2]
    /\ IF ds[s].suspend = 2 THEN CallWakeup(t, s, l)
       ELSE GotoWith(t, l, s, NULL)

-----------------------------------------------------------------------------
(* The calls of a client.  It uses a source while it holds a reference to  *)
(* it, resumes it as often as it suspended it and before it gives its      *)
(* reference up, and merges no data into a source it has cancelled.  The   *)
(* creator installs the handlers of its sources before it resumes them.    *)

MayCall(c, op, s) == /\ At(c, "idle") /\ op \in DOMAIN cl[c].calls
                     /\ cl[c].calls[op] > 0
                     /\ s \in cl[c].owns /\ ds[s].plan = <<>>
Called(c, op) == cl' = [cl EXCEPT ![c].calls[op] = @ - 1]

\* The source is created suspended, with a reference for the manager queue.
dispatch_source_create(c, s) ==
    /\ At(c, "idle") /\ c = Creator
    /\ ds[s].status = "none"
    /\ ds[s].mask \subseteq TypeMask(ds[s].kind)
    /\ LET k == ds[s].kind IN
         ds' = [ds EXCEPT ![s] =
                 [@ EXCEPT !.status = "alive", !.ref = 2, !.xref = 1, !.suspend = 2,
                           !.dkev = Key(ds[s]), !.rearm = Level(k) \/ k = "timer",
                           !.mask = IF k = "data_or" THEN {"write"} ELSE @]]
    /\ cl' = [cl EXCEPT ![c].owns = @ \cup {s}, ![c].susp[s] = 1]
    /\ UNCHANGED <<dk, kern, q, th, mg, now, events, hist>>

\* dispatch_source_set_event_handler_f() and dispatch_source_set_cancel_handler_f()
\* queue a barrier on the source itself; an empty queue is woken up, under a
\* reference of its own (_dispatch_queue_push_list_slow()).
SetHandler(c, s) ==
    /\ At(c, "idle")
    /\ s \in cl[c].owns /\ ds[s].plan # <<>>
    /\ ds' = [ds EXCEPT ![s] = [@ EXCEPT !.items = Append(@, Head(ds[s].plan)),
                                         !.plan = Tail(@),
                                         !.ref = IF ds[s].items = <<>> THEN @ + 1 ELSE @]]
    /\ IF ds[s].items = <<>> THEN CallWakeup(c, s, "release") ELSE UNCHANGED th
    /\ UNCHANGED <<dk, kern, q, mg, now, cl, events, hist>>

\* dispatch_retain() for another client.
Share(c, d, s) ==
    /\ At(c, "idle")
    /\ s \in cl[c].owns \ cl[d].owns /\ ds[s].plan = <<>> /\ cl[c].susp[s] > 0
    /\ ~ds[s].installed /\ DOMAIN cl[d].calls # {}
    /\ ds' = [ds EXCEPT ![s].xref = @ + 1]
    /\ cl' = [cl EXCEPT ![d].owns = @ \cup {s}]
    /\ UNCHANGED <<dk, kern, q, th, mg, now, events, hist>>

dispatch_suspend(c, s) ==
    /\ MayCall(c, "suspend", s)
    /\ ds' = [ds EXCEPT ![s].suspend = @ + 2]
    /\ cl' = [cl EXCEPT ![c].susp[s] = @ + 1, ![c].calls["suspend"] = @ - 1]
    /\ UNCHANGED <<dk, kern, q, th, mg, now, events, hist>>

dispatch_resume(c, s) ==
    /\ At(c, "idle") /\ cl[c].susp[s] > 0
    /\ \A x \in Sources : ds[x].status # "none" /\ ds[x].plan = <<>>
    /\ cl' = [cl EXCEPT ![c].susp[s] = @ - 1]
    /\ Resume(c, s, "idle")
    /\ UNCHANGED <<dk, kern, q, mg, now, events, hist>>

dispatch_release(c, s) ==
    /\ At(c, "idle") /\ "release" \in DOMAIN cl[c].calls
    /\ s \in cl[c].owns /\ ds[s].plan = <<>> /\ cl[c].susp[s] = 0
    /\ cl' = [cl EXCEPT ![c].owns = @ \ {s}]
    /\ XRelease(c, s)
    /\ UNCHANGED <<dk, kern, q, mg, now, events, hist>>

\* dispatch_source_cancel(): retain, set the flag, wake up, release.
dispatch_source_cancel(c, s) ==
    /\ MayCall(c, "cancel", s)
    /\ ds' = [ds EXCEPT ![s].ref = @ + 1]
    /\ GotoWith(c, "cancel", s, NULL)
    /\ Called(c, "cancel")
    /\ UNCHANGED <<dk, kern, q, mg, now, events, hist>>

CancelFlag(c) ==
    /\ At(c, "cancel")
    /\ ds' = [ds EXCEPT ![Cur(c)].canceled = TRUE]
    /\ CallWakeup(c, Cur(c), "release")
    /\ UNCHANGED <<dk, kern, q, mg, now, cl, events, hist>>

\* dispatch_source_merge_data()
dispatch_source_merge_data(c, s) ==
    /\ MayCall(c, "merge", s) /\ ~ds[s].canceled
    /\ ds[s].kind \in {"data_add", "data_or"}
    /\ GotoWith(c, "merge", s, IF ds[s].kind = "data_or" THEN {"write"} ELSE 1)
    /\ Called(c, "merge")
    /\ UNCHANGED <<ds, dk, kern, q, mg, now, events, hist>>

DISPATCH_TIME_NOW == 0

\* dispatch_source_set_timer(): suspend the source and leave the rest to the
\* manager queue, with an external reference.
dispatch_source_set_timer(c, s, start, clock) ==
    /\ MayCall(c, "set_timer", s) /\ ds[s].kind = "timer"
    /\ start = DISPATCH_TIME_NOW => clock = Mach
    /\ TimerEarly \/ cl[c].susp[s] = 0
    /\ ds' = [ds EXCEPT ![s] = [@ EXCEPT !.xref = @ + 1, !.suspend = @ + 2]]
    /\ PushMgr([s |-> s, clock |-> clock,
                start |-> IF start = DISPATCH_TIME_NOW THEN now ELSE start])
    /\ Called(c, "set_timer")
    /\ UNCHANGED <<dk, kern, th, mg, now, events, hist>>

-----------------------------------------------------------------------------
(* Events.                                                                 *)

\* _dispatch_source_merge_kevent(): nothing for a cancelled source ...
MergeTest(t) ==
    /\ At(t, "merge")
    /\ IF Gone(Cur(t))
         THEN GotoWith(t, IF t = "mgr" THEN "drain_kevent" ELSE "idle", NULL, NULL)
         ELSE Goto(t, "merge_data")
    /\ UNCHANGED <<ds, dk, kern, q, mg, now, cl, events, hist>>

\* ... else add the data to what is pending, and wake the source up.
MergeData(t) ==
    /\ At(t, "merge_data")
    /\ LET s == Cur(t)
           v == th[t].arg
       IN /\ ds' = [ds EXCEPT ![s] =
                     [@ EXCEPT !.pending = CASE Level(ds[s].kind) -> v
                                             [] Adder(ds[s].kind) -> @ + v
                                             [] OTHER -> @ \cup (v \cap ds[s].mask),
                               !.armed = @ /\ ~ds[s].rearm]]
          /\ hist' = [hist EXCEPT ![s].merged = IF Adder(ds[s].kind) THEN @ + v ELSE @]
          /\ CallWakeup(t, s, IF t = "mgr" THEN "drain_kevent" ELSE "idle")
    /\ UNCHANGED <<dk, kern, q, mg, now, cl, events>>

\* _dispatch_source_drain_kevent(): merge an event into every source of its
\* kevent; then go on where it was called.
DrainKevent ==
    /\ At("mgr", "drain_kevent")
    /\ IF mg.todo # <<>>
         THEN /\ GotoWith("mgr", "merge", Head(mg.todo), mg.ev.data)
              /\ mg' = [mg EXCEPT !.todo = Tail(@)]
         ELSE /\ GotoWith("mgr", mg.ev.back, mg.ev.s, NULL)
              /\ mg' = [mg EXCEPT !.ev = NULL]
    /\ UNCHANGED <<ds, dk, kern, q, now, cl, events, hist>>

CallDrain(k, data, back, s) ==
    /\ mg' = [mg EXCEPT !.todo = dk'[k].sources,
                        !.ev = [data |-> data, back |-> back, s |-> s]]
    /\ GotoWith("mgr", "drain_kevent", NULL, NULL)

\* _dispatch_update_kq() with EV_DELETE: the READ case falls through to the
\* WRITE case.
Deleted(k) ==
    LET w == <<"write", k[2]>> IN
    IF k[1] = "read" /\ kern[k].sel THEN [kern EXCEPT ![k].sel = FALSE]
    ELSE IF Level(k[1]) /\ w \in Keys /\ kern[w].sel THEN [kern EXCEPT ![w].sel = FALSE]
    ELSE [kern EXCEPT ![k] = [@ EXCEPT !.reg = FALSE, !.enabled = FALSE, !.fflags = {}]]

\* _dispatch_update_kq() without: descriptors that kevent() refuses to add are
\* left to select(); an EV_ENABLE of what is not registered fails.
Updated(k, d) ==
    IF k[2] \in Devices /\ Level(k[1])
      THEN [kern EXCEPT ![k].sel = @ \/ d.add]
    ELSE IF k[2] \in Zombies \/ ~(d.add \/ kern[k].reg) THEN kern
    ELSE [kern EXCEPT ![k] = [@ EXCEPT !.reg = TRUE, !.enabled = TRUE, !.fflags = d.fflags]]

\* _dispatch_kevent_resume()
Resumes(k) == ~Static(k[1]) /\ ~(k[1] = "proc" /\ dk[k].oneshot)
\* A process that is a zombie is reported at once, as an exit.
IsZombie(k) == Resumes(k) /\ k[1] = "proc" /\ k[2] \in Zombies

_dispatch_kevent_resume(k, d) ==
    /\ kern' = IF Resumes(k) THEN Updated(k, d) ELSE kern
    /\ dk' = [dk EXCEPT ![k] = IF Resumes(k) /\ Level(k[1]) THEN [d EXCEPT !.add = FALSE]
                               ELSE d]

\* _dispatch_kevent_merge(): join the kevent of the same identity, and register
\* it if it is new or has new flags.
_dispatch_kevent_merge(s) ==
    LET k == ds[s].dkev
        new == dk[k].sources = <<>> /\ ~Static(k[1])
        do_resume == new \/ ds[s].mask \ dk[k].fflags # {}
        d == [sources |-> Append(dk[k].sources, s),
              fflags |-> IF new THEN ds[s].mask ELSE dk[k].fflags \cup ds[s].mask,
              add |-> do_resume \/ dk[k].add,
              oneshot |-> dk[k].oneshot /\ ~new]
    IN /\ ds' = [ds EXCEPT ![s] = [@ EXCEPT !.installed = TRUE,
                                            !.armed = @ \/ do_resume]]
       /\ IF do_resume THEN _dispatch_kevent_resume(k, d)
          ELSE dk' = [dk EXCEPT ![k] = d] /\ UNCHANGED kern
       /\ IF do_resume /\ IsZombie(k)
            THEN CallDrain(k, {"exit"}, "unlock", s)
            ELSE Goto("mgr", "unlock") /\ UNCHANGED mg

MaskOf(ss) == UNION {ds[x].mask : x \in ss}


\* _dispatch_kevent_release(): leave the kevent, and delete it
\* (_dispatch_kevent_dispose()) or drop the flags nobody asks for any more.
_dispatch_kevent_release(s) ==
    LET k == ds[s].dkev
        rest == SelectSeq(dk[k].sources, LAMBDA x : x # s)
        fflags == MaskOf(Range(rest))
        d == [dk[k] EXCEPT !.sources = rest]
    IN IF rest = <<>>
         THEN /\ dk' = [dk EXCEPT ![k] = [d EXCEPT !.oneshot = FALSE]]
              /\ kern' = IF Resumes(k) THEN Deleted(k) ELSE kern
       ELSE IF ds[s].mask \ fflags # {}
         THEN _dispatch_kevent_resume(k, [d EXCEPT !.add = TRUE, !.fflags = fflags])
       ELSE dk' = [dk EXCEPT ![k] = d] /\ UNCHANGED kern

-----------------------------------------------------------------------------
(* _dispatch_queue_invoke() of a source, on the manager queue or on its    *)
(* target queue, with the lock bit held.                                   *)

\* The target queue takes the next source from its list.
TqPop ==
    /\ At("tq", "idle") /\ q.tq # <<>>
    /\ q' = [q EXCEPT !.tq = Tail(@)]
    /\ GotoWith("tq", "start", Head(q.tq), NULL)
    /\ UNCHANGED <<ds, dk, kern, mg, now, cl, events, hist>>

\* A suspended source is put aside; else the barriers queued on it run first.
InvokeStart(t) ==
    /\ At(t, "start")
    /\ Goto(t, IF SUSPENDED(Cur(t)) THEN "unlock"
               ELSE IF ds[Cur(t)].items = <<>> THEN "invoke" ELSE "drain")
    /\ UNCHANGED <<ds, dk, kern, q, mg, now, cl, events, hist>>

\* _dispatch_source_set_event_handler_f() and _dispatch_source_set_cancel_handler_f(),
\* from _dispatch_queue_drain().
InvokeDrain(t) ==
    /\ At(t, "drain")
    /\ LET s == Cur(t) IN
         IF ds[s].items = <<>> \/ SUSPENDED(s)
           THEN Goto(t, "invoke") /\ UNCHANGED ds
           ELSE /\ ds' = [ds EXCEPT ![s] =
                           [@ EXCEPT !.items = Tail(@),
                                     !.event = @ \/ Head(ds[s].items) = "event",
                                     !.cancel = @ \/ Head(ds[s].items) = "cancel"]]
                /\ UNCHANGED th
    /\ UNCHANGED <<dk, kern, q, mg, now, cl, events, hist>>

\* _dispatch_source_invoke() returns a queue: push the source to it, keeping
\* the lock bit and the reference of the list.
Push(t, dq, s) ==
    /\ IF dq = "mgr" THEN PushMgr(s) ELSE q' = [q EXCEPT !.tq = Append(@, s)]
    /\ GoHome(t)

\* _dispatch_source_invoke(): install the source, on the manager queue ...
InvokeInstall(t) ==
    /\ At(t, "invoke") /\ ~ds[Cur(t)].installed
    /\ IF t = "mgr" THEN _dispatch_kevent_merge(Cur(t)) /\ UNCHANGED q
       ELSE Push(t, "mgr", Cur(t)) /\ UNCHANGED <<ds, dk, kern, mg>>
    /\ UNCHANGED <<now, cl, events, hist>>

\* Mutant: the cancellation handler is called before the source is uninstalled.
InvokeGoneCallFirst(t) ==
    /\ At(t, "invoke") /\ ds[Cur(t)].installed /\ Gone(Cur(t))
    /\ IF t # "tq" THEN Push(t, "tq", Cur(t)) ELSE Goto(t, "callout") /\ UNCHANGED q
    /\ UNCHANGED <<ds, dk, kern, mg, now, cl, events, hist>>

\* ... once it is cancelled or abandoned, uninstall it there, and go on to the
\* cancellation handler on the target queue ...
InvokeGone(t) ==
    /\ At(t, "invoke") /\ ds[Cur(t)].installed /\ Gone(Cur(t))
    /\ LET s == Cur(t) IN
       CASE ds[s].dkev # NULL /\ t # "mgr" ->
              Push(t, "mgr", s) /\ UNCHANGED <<ds, dk, kern>>
         [] ds[s].dkev # NULL /\ t = "mgr" ->
              /\ _dispatch_kevent_release(s)
              /\ ds' = [ds EXCEPT ![s] = Released([@ EXCEPT !.dkev = NULL, !.armed = FALSE,
                                                            !.rearm = FALSE])]
              /\ Push(t, "tq", s)
         [] ds[s].dkev = NULL /\ ds[s].cancel /\ t # "tq" ->
              Push(t, "tq", s) /\ UNCHANGED <<ds, dk, kern>>
         [] OTHER ->
              /\ ds' = [ds EXCEPT ![s] = [@ EXCEPT !.mask = {}, !.pending = Zero(ds[s].kind)]]
              /\ Goto(t, "callout")
              /\ UNCHANGED <<dk, kern, q>>
    /\ UNCHANGED <<mg, now, cl, events, hist>>

\* ... otherwise see what there is to do.
InvokeLive(t) ==
    /\ At(t, "invoke") /\ ds[Cur(t)].installed /\ ~Gone(Cur(t))
    /\ Goto(t, "invoke_live")
    /\ UNCHANGED <<ds, dk, kern, q, mg, now, cl, events, hist>>

\* Data is pending: deliver it, on the target queue.
InvokePending(t) ==
    /\ At(t, "invoke_live")
    /\ ds[Cur(t)].pending # Zero(ds[Cur(t)].kind)
    /\ IF t = "tq" THEN Goto(t, "latch") /\ UNCHANGED q
       ELSE Push(t, "tq", Cur(t))
    /\ UNCHANGED <<ds, dk, kern, mg, now, cl, events, hist>>

\* It is to be rearmed: on the manager queue.
InvokeRearm(t) ==
    /\ At(t, "invoke_live")
    /\ LET s == Cur(t) IN
       /\ ds[s].pending = Zero(ds[s].kind) /\ ds[s].rearm /\ ~ds[s].armed
       /\ IF t = "mgr"
            THEN /\ _dispatch_kevent_resume(ds[s].dkev, dk[ds[s].dkev])
                 /\ ds' = [ds EXCEPT ![s].armed = TRUE]
                 /\ Goto(t, "unlock") /\ UNCHANGED q
            ELSE Push(t, "mgr", s) /\ UNCHANGED <<ds, dk, kern>>
    /\ UNCHANGED <<mg, now, cl, events, hist>>

InvokeNothing(t) ==
    /\ At(t, "invoke_live")
    /\ LET s == Cur(t) IN
         ds[s].pending = Zero(ds[s].kind) /\ ~(ds[s].rearm /\ ~ds[s].armed)
    /\ Goto(t, "unlock")
    /\ UNCHANGED <<ds, dk, kern, q, mg, now, cl, events, hist>>

\* Mutant: the data is read and then reset, not exchanged.
LatchTwoSteps ==
    /\ At("tq", "latch")
    /\ LET s == Cur("tq") IN
       IF Gone(s) \/ th["tq"].arg # NULL
         THEN /\ ds' = IF Gone(s) THEN ds ELSE [ds EXCEPT ![s].pending = Zero(ds[s].kind)]
              /\ hist' = IF Gone(s) \/ ~Adder(ds[s].kind) THEN hist
                         ELSE [hist EXCEPT ![s].delivered = @ + th["tq"].arg]
              /\ Goto("tq", IF Gone(s) THEN "called" ELSE "event")
         ELSE /\ GotoWith("tq", "latch", s, ds[s].pending) /\ UNCHANGED <<ds, hist>>
    /\ UNCHANGED <<dk, kern, q, mg, now, cl, events>>

\* _dispatch_source_latch_and_call(): test the flags again, take the data ...
Latch ==
    /\ At("tq", "latch")
    /\ LET s == Cur("tq") IN
       IF Gone(s) THEN Goto("tq", "called") /\ UNCHANGED <<ds, hist>>
       ELSE /\ ds' = [ds EXCEPT ![s].pending = Zero(ds[s].kind)]
            /\ hist' = [hist EXCEPT ![s].delivered =
                          IF Adder(ds[s].kind) THEN @ + ds[s].pending ELSE @]
            /\ Goto("tq", IF ds[s].event THEN "event" ELSE "called")
    /\ UNCHANGED <<dk, kern, q, mg, now, cl, events>>

\* ... and call the event handler; it reads what the descriptor has.
EventHandler ==
    /\ At("tq", "event")
    /\ LET s == Cur("tq") IN
       /\ hist' = [hist EXCEPT ![s].events = @ + 1]
       /\ kern' = IF Level(ds[s].kind) THEN [kern EXCEPT ![Key(ds[s])].data = 0] ELSE kern
    /\ Goto("tq", "called")
    /\ UNCHANGED <<ds, dk, q, mg, now, cl, events>>

\* A source that needs rearming goes back to the manager queue.
EventCalled ==
    /\ At("tq", "called")
    /\ IF ds[Cur("tq")].rearm THEN Push("tq", "mgr", Cur("tq"))
       ELSE Goto("tq", "unlock") /\ UNCHANGED q
    /\ UNCHANGED <<ds, dk, kern, mg, now, cl, events, hist>>

\* _dispatch_source_cancel_callout(): the handler is called if the source was
\* cancelled, and forgotten.
CancelHandler(t) ==
    /\ At(t, "callout")
    /\ LET s == Cur(t) IN
       /\ hist' = [hist EXCEPT ![s].cancels = IF ds[s].cancel /\ ds[s].canceled THEN @ + 1 ELSE @]
       /\ ds' = [ds EXCEPT ![s].cancel = FALSE]
    /\ Goto(t, "unlock")
    /\ UNCHANGED <<dk, kern, q, mg, now, cl, events>>

\* Nothing more to do: drop the lock bit, verify that the source is idle, and
\* give up the reference of the list.
Unlock(t) ==
    /\ At(t, "unlock")
    /\ ds' = [ds EXCEPT ![Cur(t)] = [@ EXCEPT !.listless = TRUE, !.suspend = @ - 1]]
    /\ IF ds[Cur(t)].suspend = 1 THEN CallWakeup(t, Cur(t), "release") ELSE Goto(t, "release")
    /\ UNCHANGED <<dk, kern, q, mg, now, cl, events, hist>>

-----------------------------------------------------------------------------
(* The manager thread: _dispatch_mgr_invoke().                             *)

\* _dispatch_timer_list_update(): where a timer belongs in the list of its clock.
Insert(list, s, t) ==
    LET after == {i \in DOMAIN list : ds[list[i]].target = 0 \/ t < ds[list[i]].target}
        i == IF t = 0 \/ after = {} THEN Len(list) + 1 ELSE Min(after)
    IN InsertAt(list, i, s)

Unlisted(k, s) == [dk EXCEPT ![k].sources = SelectSeq(@, LAMBDA x : x # s)]

\* The timer lists once s has the clock and the target given.
_dispatch_timer_list_update(s, clock, target) ==
    LET without == Unlisted(ds[s].dkev, s) IN
    [without EXCEPT ![clock].sources = Insert(@, s, target)]

\* _dispatch_run_timers2(): run the timers of a list that are due at the time
\* read when the list was begun.  (Without timers there is nothing to read.)
RunTimersBegin ==
    /\ At("mgr", "timers")
    /\ IF dk[Wall].sources \o dk[Mach].sources = <<>>
         THEN /\ mg' = [mg EXCEPT !.deadline = MaxNow + 1]
              /\ Goto("mgr", "kevent")
         ELSE /\ mg' = [mg EXCEPT !.list = Wall, !.time = now]
              /\ Goto("mgr", "run_timers")
    /\ UNCHANGED <<ds, dk, kern, q, now, cl, events, hist>>

Due == LET list == dk[mg.list].sources IN
         /\ list # <<>>
         /\ ds[Head(list)].target # 0 /\ ds[Head(list)].target <= mg.time

RunTimer ==
    /\ At("mgr", "run_timers")
    /\ Due
    /\ LET s == Head(dk[mg.list].sources)
           oneshot == "oneshot" \in ds[s].mask
           missed == (mg.time - ds[s].target) \div Interval
           n == IF oneshot THEN 1 ELSE missed + 1
           next == IF oneshot THEN 0 ELSE ds[s].target + n * Interval
       IN /\ ds' = [ds EXCEPT ![s] = [@ EXCEPT !.pending = @ + n, !.target = next]]
          /\ dk' = _dispatch_timer_list_update(s, ds[s].clock, next)
          /\ hist' = [hist EXCEPT ![s].merged = @ + n]
          /\ CallWakeup("mgr", s, "run_timers")
    /\ UNCHANGED <<kern, q, mg, now, cl, events>>

RunTimersEnd ==
    /\ At("mgr", "run_timers")
    /\ ~Due
    /\ IF mg.list = Wall
         THEN mg' = [mg EXCEPT !.list = Mach, !.time = now] /\ UNCHANGED th
         ELSE /\ mg' = [mg EXCEPT !.deadline = MaxNow + 1,
                                  !.todo = dk[Wall].sources \o dk[Mach].sources]
              /\ GotoWith("mgr", "next_fire", NULL, NULL)
    /\ UNCHANGED <<ds, dk, kern, q, now, cl, events, hist>>

\* _dispatch_get_next_timer_fire(): the first timer of each list that is not
\* suspended gives the timeout.  A suspended one is marked as not armed, so
\* that it is woken up, and rearmed, when it is resumed.
NextFire ==
    /\ At("mgr", "next_fire") /\ mg.todo # <<>>
    /\ LET s == Head(mg.todo)
           rest == SelectSeq(Tail(mg.todo), LAMBDA x : ds[x].dkev # ds[s].dkev)
       IN CASE ds[s].target = 0 -> mg' = [mg EXCEPT !.todo = rest] /\ UNCHANGED th
            [] ds[s].target # 0 /\ SUSPENDED(s) ->
                 GotoWith("mgr", "disarm", s, NULL) /\ UNCHANGED mg
            [] OTHER -> /\ mg' = [mg EXCEPT !.todo = rest,
                                            !.deadline = Min({@, ds[s].target})]
                        /\ UNCHANGED th
    /\ UNCHANGED <<ds, dk, kern, q, now, cl, events, hist>>

Disarm ==
    /\ At("mgr", "disarm")
    /\ ds' = [ds EXCEPT ![Cur("mgr")].armed = FALSE]
    /\ mg' = [mg EXCEPT !.todo = Tail(@)]
    /\ GotoWith("mgr", "next_fire", NULL, NULL)
    /\ UNCHANGED <<dk, kern, q, now, cl, events, hist>>

NextFireEnd ==
    /\ At("mgr", "next_fire") /\ mg.todo = <<>>
    /\ Goto("mgr", "kevent")
    /\ UNCHANGED <<ds, dk, kern, q, mg, now, cl, events, hist>>

\* kevent() or select() returns: the timeout passed ...
Timeout ==
    /\ At("mgr", "kevent") /\ mg.deadline <= now
    /\ Goto("mgr", "timers")
    /\ UNCHANGED <<ds, dk, kern, q, mg, now, cl, events, hist>>

\* ... the manager queue has items ...
UserEvent ==
    /\ At("mgr", "kevent") /\ q.trigger
    /\ q' = [q EXCEPT !.trigger = FALSE]
    /\ Goto("mgr", "mgrq")
    /\ UNCHANGED <<ds, dk, kern, mg, now, cl, events, hist>>

\* ... or something a kevent watches happened.  EV_DISPATCH disables the event,
\* the exit of a process deletes it (EV_ONESHOT), select() emulates EV_DISABLE.
KernelEvent(k) ==
    /\ At("mgr", "kevent")
    /\ kern[k].data # Zero(k[1])
    /\ kern[k].sel \/ (kern[k].reg /\ kern[k].enabled)
    /\ kern' = [kern EXCEPT ![k] =
                  [@ EXCEPT !.sel = FALSE,
                            !.enabled = @ /\ ~Level(k[1]) /\ k[1] # "proc",
                            !.reg = @ /\ k[1] # "proc",
                            !.data = IF Level(k[1]) THEN @ ELSE Zero(k[1])]]
    /\ dk' = [dk EXCEPT ![k].oneshot = @ \/ k[1] = "proc"]
    /\ CallDrain(k, kern[k].data, "timers", NULL)
    /\ UNCHANGED <<ds, q, now, cl, events, hist>>

\* _dispatch_queue_serial_drain_till_empty(&_dispatch_mgr_q): invoke a source ...
MgrPop ==
    /\ At("mgr", "mgrq") /\ q.mgr # <<>> /\ Head(q.mgr) \in Sources
    /\ q' = [q EXCEPT !.mgr = Tail(@)]
    /\ GotoWith("mgr", "start", Head(q.mgr), NULL)
    /\ UNCHANGED <<ds, dk, kern, mg, now, cl, events, hist>>

\* ... or _dispatch_source_set_timer2(): put the timer on the list of its clock
\* unless it is uninstalled already, resume the source, and release it.
_dispatch_source_set_timer2 ==
    /\ At("mgr", "mgrq") /\ q.mgr # <<>> /\ Head(q.mgr) \notin Sources
    /\ q' = [q EXCEPT !.mgr = Tail(@)]
    /\ LET p == Head(q.mgr)
           s == p.s
           merge == ds[s].dkev # NULL /\ ~ds[s].installed
       IN /\ dk' = IF ds[s].dkev = NULL THEN dk
                   ELSE [_dispatch_timer_list_update(s, p.clock, p.start) EXCEPT
                          ![Wall].fflags = IF merge THEN @ \cup ds[s].mask ELSE @]
          /\ ds' = [ds EXCEPT ![s] =
                     [@ EXCEPT !.clock = p.clock, !.target = p.start,
                               !.dkev = IF @ = NULL THEN NULL ELSE p.clock,
                               !.installed = @ \/ merge,
                               !.armed = @ \/ (merge /\ ds[s].mask \ dk[Wall].fflags # {})]]
          /\ GotoWith("mgr", "resume", s, NULL)
    /\ UNCHANGED <<kern, mg, now, cl, events, hist>>

MgrResume ==
    /\ At("mgr", "resume")
    /\ Resume("mgr", Cur("mgr"), "xrelease")
    /\ UNCHANGED <<dk, kern, q, mg, now, cl, events, hist>>

MgrXRelease ==
    /\ At("mgr", "xrelease")
    /\ XRelease("mgr", Cur("mgr"))
    /\ UNCHANGED <<dk, kern, q, mg, now, cl, events, hist>>

MgrEmpty ==
    /\ At("mgr", "mgrq") /\ q.mgr = <<>>
    /\ Goto("mgr", "timers")
    /\ UNCHANGED <<ds, dk, kern, q, mg, now, cl, events, hist>>

-----------------------------------------------------------------------------
(* The environment.                                                        *)

Tick == /\ now < MaxNow
        /\ \E s \in Sources : ds[s].kind = "timer"
        /\ now' = now + 1
        /\ UNCHANGED <<ds, dk, kern, q, th, mg, cl, events, hist>>

\* Data arrives, a file is changed, a process exits, a signal is raised: noted
\* by a kernel that watches for it, and in any case for a descriptor.
Occur(k, v) ==
    /\ events < MaxEvents
    /\ ~Static(k[1]) /\ k[2] \notin Zombies /\ \E s \in Sources : Key(ds[s]) = k
    /\ v \in CASE k[1] = "vnode" -> {"delete", "write"}
               [] k[1] = "proc" -> {"exit"}
               [] OTHER -> {"data"}
    /\ Level(k[1]) \/ kern[k].reg
    /\ kern' = [kern EXCEPT ![k].data = CASE Level(k[1]) -> 1
                                          [] Clear(k[1]) -> @ \cup ({v} \cap kern[k].fflags)
                                          [] OTHER -> @ + 1]
    /\ events' = events + 1
    /\ UNCHANGED <<ds, dk, q, th, mg, now, cl, hist>>

Thread(t) == Wakeup(t) \/ WakeupLock(t) \/ Release(t)
Merge(t) == MergeTest(t) \/ MergeData(t)

Invoker(t) == \/ InvokeStart(t) \/ InvokeDrain(t)
              \/ InvokeInstall(t) \/ InvokeGone(t) \/ InvokeLive(t)
              \/ InvokePending(t) \/ InvokeRearm(t) \/ InvokeNothing(t)
              \/ CancelHandler(t) \/ Unlock(t)

TargetQueue == Thread("tq") \/ Invoker("tq") \/ TqPop \/ Latch \/ EventHandler \/ EventCalled

Manager == \/ Thread("mgr") \/ Merge("mgr") \/ Invoker("mgr")
           \/ RunTimersBegin \/ RunTimer \/ RunTimersEnd
           \/ NextFire \/ Disarm \/ NextFireEnd
           \/ Timeout \/ UserEvent \/ (\E k \in Keys : KernelEvent(k)) \/ DrainKevent
           \/ MgrPop \/ _dispatch_source_set_timer2 \/ MgrResume \/ MgrXRelease \/ MgrEmpty

\* What a client has begun, it ends; it resumes what it suspended.
Finish(c) == Thread(c) \/ Merge(c) \/ CancelFlag(c) \/ (\E s \in Sources : dispatch_resume(c, s))

Call(c, s) == \/ dispatch_source_create(c, s) \/ SetHandler(c, s)
              \/ (\E d \in Clients : Share(c, d, s))
              \/ dispatch_suspend(c, s) \/ dispatch_release(c, s)
              \/ dispatch_source_cancel(c, s) \/ dispatch_source_merge_data(c, s)
              \/ (\E start \in Starts, clock \in {Wall, Mach} :
                    dispatch_source_set_timer(c, s, start, clock))

Next == \/ \E c \in Clients : Finish(c) \/ \E s \in Sources : Call(c, s)
        \/ TargetQueue
        \/ Manager
        \/ Tick
        \/ \E k \in Keys, v \in {"data", "delete", "write", "exit"} : Occur(k, v)

Spec == Init /\ [][Next]_vars

\* The scheduler lets the manager thread, the threads that serve the target
\* queue and the clients that are in a call go on.
Fairness == /\ \A c \in Clients : WF_vars(Finish(c))
            /\ WF_vars(TargetQueue)
            /\ WF_vars(Manager)
            /\ WF_vars(Tick)

-----------------------------------------------------------------------------
TypeOK ==
    /\ \A s \in Sources :
         /\ ds[s].status \in {"none", "alive", "freed"}
         /\ ds[s].ref \in Nat /\ ds[s].xref \in Nat /\ ds[s].suspend \in Nat
         /\ ds[s].dkev \in Keys \cup {NULL}
         /\ ds[s].target \in Nat
    /\ \A k \in Keys : dk[k].sources \in Seq(Sources)

\* A source that is resumed, not on a list and has something to do (or barriers
\* to run) is about to be woken up: some thread is on its way to a
\* _dispatch_wakeup() of it that finds out.  (For the rearming of a timer, that
\* the manager may note too late, see EveryTimerFires.)
NoLostWakeup ==
    \A s \in Sources :
      /\ ds[s].status = "alive" /\ ds[s].suspend = 0
      /\ _dispatch_source_probe(s) \/ ds[s].items # <<>>
      /\ ds[s].kind = "timer" => ds[s].pending # 0 \/ Gone(s) \/ ~ds[s].installed
      => \E t \in Threads : /\ Cur(t) = s
                            /\ th[t].pc \in {"wakeup", "trylock"}

\* While a cancellation handler runs, and ever after, the event handler is not
\* called, the source is on no list of the manager, and the kernel no longer
\* watches for it alone (source.h: the handler may close the descriptor).
\* It is called at most once.
CancelSafe ==
    \A s \in Sources :
      /\ hist[s].cancels <= 1
      /\ \/ hist[s].cancels = 1
         \/ \E t \in Threads : At(t, "callout") /\ Cur(t) = s
         => /\ ~(At("tq", "event") /\ Cur("tq") = s)
            /\ \A k \in Keys : s \notin Range(dk[k].sources)
            /\ LET k == Key(ds[s]) IN
                 dk[k].sources = <<>> => ~kern[k].reg

\* The number of a source's references: its creator's, one for the manager queue
\* while it has a kevent, one for the list it is on, and those of the calls in
\* progress.  It is freed when it reaches zero, and used by nobody then.
RefCount ==
    \A s \in Sources :
      ds[s].status # "none" =>
        LET lists == IF ds[s].suspend % 2 = 1 THEN 1 ELSE 0
            holds(t) == Cur(t) = s /\ \/ At(t, "release") \/ At(t, "cancel")
                                      \/ th[t].ret = "release"
        IN /\ ds[s].ref = (IF ds[s].xref > 0 THEN 1 ELSE 0)
                          + (IF ds[s].dkev # NULL THEN 1 ELSE 0)
                          + lists + Cardinality({t \in Threads : holds(t)})
           /\ ds[s].status = "freed" => /\ ds[s].ref = 0
                                        /\ \A t \in Threads : Cur(t) # s

\* An adder loses no data and counts none twice: what was merged was delivered or
\* is pending, until the source is cancelled.
Conservation ==
    \A s \in Sources :
      Adder(ds[s].kind) /\ ~Gone(s) =>
        hist[s].merged = hist[s].delivered + ds[s].pending

\* The timer lists are ordered by target, the timers that are not set last.
TimersOrdered ==
    \A k \in {Wall, Mach} :
      \A i, j \in DOMAIN dk[k].sources :
        i < j => LET a == ds[dk[k].sources[i]].target
                     b == ds[dk[k].sources[j]].target
                 IN b = 0 \/ (a # 0 /\ a <= b)

\* Between two events the kernel watches exactly what the sources ask for: the
\* union of the masks of the sources of a kevent, and nothing without a source.
\* A level source is armed only while its event is enabled.  The timer lists are
\* in order.
KernelAgrees ==
    At("mgr", "kevent") =>
      TimersOrdered /\
      \A k \in {x \in Keys : ~Static(x[1])} :
        /\ kern[k].reg => kern[k].fflags = MaskOf(Range(dk[k].sources))
        /\ dk[k].sources = <<>> => ~kern[k].reg /\ ~kern[k].sel
        /\ \A s \in Range(dk[k].sources) :
             /\ ds[s].dkev = k
             /\ Level(k[1]) /\ k[2] \notin Devices /\ ds[s].armed /\ ~Gone(s)
                  => kern[k].enabled

\* Nobody has anything to do: no thread is in a call, both queues are empty and
\* the manager waits for an event that has not happened.
Quiet ==
    /\ \A t \in Threads \ {"mgr"} : At(t, "idle")
    /\ At("mgr", "kevent") /\ mg.deadline > now
    /\ q = [mgr |-> <<>>, tq |-> <<>>, trigger |-> FALSE]
    /\ \A k \in Keys : ~(kern[k].data # Zero(k[1]) /\ (kern[k].sel \/ kern[k].enabled))

\* When the system comes to rest nothing is left undone for a source that is not
\* suspended: a cancelled one has had its handler called and is uninstalled, an
\* abandoned one is freed, and what is pending was delivered.
NothingLeft ==
    Quiet => \A s \in Sources :
      ds[s].status = "alive" /\ ~SUSPENDED(s) =>
        /\ ds[s].xref > 0
        /\ ds[s].canceled => ~ds[s].cancel /\ ds[s].dkev = NULL
        /\ ~ds[s].canceled => ds[s].pending = Zero(ds[s].kind)

\* A timer that is due is run: a source that stays alive does not stay due.
EveryTimerFires ==
    \A s \in Sources :
      (ds[s].kind = "timer" /\ ds[s].target # 0 /\ ds[s].target <= now) ~>
        (Gone(s) \/ ds[s].target = 0 \/ ds[s].target > now)
=============================================================================
