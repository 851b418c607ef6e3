------------------------------- MODULE XSource -------------------------------
(***************************************************************************)
(* xdispatch::source (libxdispatch/src/source.cpp) over a sourcetype of    *)
(* the client's ("custom") or over a dispatch_source_t ("native"), and     *)
(* QDispatchSource (libqtdispatch/src/qdispatchsource.cpp, "qt"): clients  *)
(* resume, suspend and cancel the source and replace its cancel handler    *)
(* while events arrive in a thread of the sourcetype and the handlers run  *)
(* on a target queue.  The event handler is set before the first resume(). *)
(***************************************************************************)
EXTENDS Integers, Sequences, FiniteSets, SequencesExt

CONSTANTS Clients,
          Workers,
          Kinds,       \* a subset of {"custom", "native", "qt"}
          Widths,      \* how many operations the target queue runs at a time
          CancelOps,   \* operations the clients pass to cancel_handler()
          MaxCalls,    \* bound on the calls of each client
          MaxEvents,   \* bound on the events
          NULL

VARIABLES kind, width,
          suspend_ct, cancelled, cancel_handler,
          type,        \* the sourcetype: suspend count and cancellation
          pc, call,    \* where each client is, and the calls it made
          off,         \* cancel() returned, or suspend() with nobody resuming
          ev,          \* the thread that calls ready(), and its event
          queue, busy, \* the target queue and its workers
          delivered,   \* events given to the handler
          deleted      \* cancel handlers that were deleted, with repetitions

source == <<suspend_ct, cancelled, cancel_handler>>
target == <<queue, busy, delivered>>
vars == <<kind, width, source, type, pc, call, off, ev, target, deleted>>

HANDLER == "handler"
\* A count that is suspended is 0 for xdispatch and at most 0 for Qt, as the
\* clients suspend no more often than they resume.
Suspended == suspend_ct <= 0

\* source(sourcetype*) and pdata: suspended by default
pdata == suspend_ct = 0 /\ cancelled = 0 /\ cancel_handler = NULL

\* QDispatchSource() and its Private: suspended by default, and never cancelled
Private == suspend_ct = 0 /\ cancelled = 0 /\ cancel_handler = NULL

Init ==
    /\ kind \in Kinds /\ width \in Widths
    /\ IF kind = "qt" THEN Private ELSE pdata
    /\ type = [suspend |-> 1, cancelled |-> 0]
    /\ pc = [c \in Clients |-> "idle"] /\ call = [c \in Clients |-> 0]
    /\ off = TRUE
    /\ ev = [pc |-> "idle", silent |-> FALSE, id |-> 0]
    /\ queue = <<>> /\ busy = [w \in Workers |-> NULL] /\ delivered = {}
    /\ deleted = <<>>

-----------------------------------------------------------------------------
(* The clients.                                                            *)

Called(c, l) ==
    /\ pc[c] = "idle" /\ call[c] < MaxCalls
    /\ call' = [call EXCEPT ![c] = @ + 1]
    /\ pc' = [pc EXCEPT ![c] = l]
Return(c) == pc' = [pc EXCEPT ![c] = "idle"] /\ UNCHANGED call

\* The event in ready(), if any, no longer finds the source off all the time.
On == off' = FALSE /\ ev' = [ev EXCEPT !.silent = FALSE]

\* resume(): the sourcetype is told of the change from 0 to 1
Resume(c) ==
    /\ kind # "qt"
    /\ Called(c, IF suspend_ct + 1 = 1 THEN "on_resume" ELSE "idle")
    /\ suspend_ct' = suspend_ct + 1
    /\ IF cancelled = 1 THEN UNCHANGED <<off, ev>> ELSE On
    /\ UNCHANGED <<kind, width, cancelled, cancel_handler, type, target, deleted>>

\* QDispatchSource::resume()
QResume(c) ==
    /\ kind = "qt"
    /\ Called(c, "idle")
    /\ suspend_ct' = suspend_ct + 1
    /\ On
    /\ UNCHANGED <<kind, width, cancelled, cancel_handler, type, target, deleted>>

\* on_resume() and on_suspend() of native_source; those of a custom type are the
\* client's
OnResume(c) ==
    /\ pc[c] = "on_resume"
    /\ type' = [type EXCEPT !.suspend = @ - 1]
    /\ Return(c)
    /\ UNCHANGED <<kind, width, source, off, ev, target, deleted>>

\* suspend() returns at once unless the count reached 0
Suspend(c) ==
    /\ kind # "qt" /\ suspend_ct > 0
    /\ Called(c, IF suspend_ct - 1 = 0 THEN "on_suspend" ELSE "idle")
    /\ suspend_ct' = suspend_ct - 1
    /\ UNCHANGED <<kind, width, cancelled, cancel_handler, type, off, ev, target, deleted>>

\* QDispatchSource::suspend()
QSuspend(c) ==
    /\ kind = "qt" /\ suspend_ct > 0
    /\ Called(c, "idle")
    /\ suspend_ct' = suspend_ct - 1
    /\ off' = (off \/ suspend_ct = 1)
    /\ UNCHANGED <<kind, width, cancelled, cancel_handler, type, ev, target, deleted>>

OnSuspend(c) ==
    /\ pc[c] = "on_suspend"
    /\ type' = [type EXCEPT !.suspend = @ + 1]
    /\ off' = (off \/ Suspended)
    /\ Return(c)
    /\ UNCHANGED <<kind, width, source, ev, target, deleted>>

\* cancel_handler(): the one before is deleted
CancelHandler(c, o) ==
    /\ kind # "qt"
    /\ Called(c, "idle")
    /\ o # cancel_handler /\ ~Contains(deleted, o) /\ ~Contains(queue, o)
    /\ \A w \in Workers : busy[w] # o
    /\ cancel_handler' = o
    /\ deleted' = IF cancel_handler = NULL THEN deleted ELSE Append(deleted, cancel_handler)
    /\ UNCHANGED <<kind, width, suspend_ct, cancelled, type, off, ev, target>>

\* Mutant: the flag is read and not set.
CancelReads(c) ==
    /\ kind # "qt"
    /\ Called(c, IF cancelled = 1 THEN "idle" ELSE "on_cancel")
    /\ UNCHANGED <<kind, width, source, type, off, ev, target, deleted>>

\* cancel(): only once
Cancel(c) ==
    /\ kind # "qt"
    /\ Called(c, IF cancelled = 1 THEN "idle" ELSE "on_cancel")
    /\ cancelled' = 1
    /\ UNCHANGED <<kind, width, suspend_ct, cancel_handler, type, off, ev, target, deleted>>

OnCancel(c) ==
    /\ pc[c] = "on_cancel"
    /\ type' = [type EXCEPT !.cancelled = @ + 1]
    /\ pc' = [pc EXCEPT ![c] = "cancel"]
    /\ UNCHANGED <<kind, width, source, call, off, ev, target, deleted>>

\* the cancel handler is taken, and submitted to the target queue
CancelSubmit(c) ==
    /\ pc[c] = "cancel"
    /\ queue' = IF cancel_handler = NULL THEN queue ELSE Append(queue, cancel_handler)
    /\ cancel_handler' = NULL
    /\ off' = TRUE
    /\ Return(c)
    /\ UNCHANGED <<kind, width, suspend_ct, cancelled, type, ev, busy, delivered, deleted>>

-----------------------------------------------------------------------------
(* Events.                                                                 *)

unevent == <<kind, width, source, type, pc, call, off, deleted>>

Event(slot) ==
    /\ ev.pc = "idle" /\ ev.id < MaxEvents
    /\ ev' = [pc |-> slot, silent |-> off, id |-> ev.id + 1]
    /\ UNCHANGED <<unevent, target>>

\* sourcetype::ready() and notify(), up to the test of suspend_ct; a
\* dispatch_source_t that is suspended or cancelled has no events
Ready ==
    /\ kind # "qt"
    /\ kind = "native" => type.suspend <= 0 /\ type.cancelled = 0
    /\ Event("notify")

\* A signal of Qt, an I/O device or a network manager has an event: each source
\* type of Qt emits ready(), which is connected to signal() directly.
Emit == kind = "qt" /\ Event("signal")

Drop == ev' = [ev EXCEPT !.pc = "idle"] /\ UNCHANGED target


\* notify(): nothing when suspended ...
Notify ==
    /\ ev.pc = "notify"
    /\ IF Suspended THEN Drop
       ELSE ev' = [ev EXCEPT !.pc = "cancelled"] /\ UNCHANGED target
    /\ UNCHANGED unevent

\* ... or cancelled
NotifyCancelled ==
    /\ ev.pc = "cancelled"
    /\ IF cancelled = 1 THEN Drop
       ELSE ev' = [ev EXCEPT !.pc = "submit"] /\ UNCHANGED target
    /\ UNCHANGED unevent

\* QDispatchSource::signal()
Signal ==
    /\ ev.pc = "signal"
    /\ IF Suspended THEN Drop
       ELSE ev' = [ev EXCEPT !.pc = "submit"] /\ UNCHANGED target
    /\ UNCHANGED unevent

\* async() of the handler; the handler of a native source is called right here,
\* on the target queue of the dispatch_source_t
Submit ==
    /\ ev.pc = "submit"
    /\ ev' = [ev EXCEPT !.pc = IF kind = "native" THEN "handler" ELSE "idle"]
    /\ queue' = IF kind = "native" THEN queue ELSE Append(queue, HANDLER)
    /\ delivered' = delivered \cup {ev.silent}
    /\ UNCHANGED <<unevent, busy>>

FastDone ==
    /\ ev.pc = "handler"
    /\ ev' = [ev EXCEPT !.pc = "idle"]
    /\ UNCHANGED <<unevent, target>>

\* the target queue
Run(w) ==
    /\ busy[w] = NULL /\ queue # <<>>
    /\ Cardinality({v \in Workers : busy[v] # NULL}) < width
    /\ busy' = [busy EXCEPT ![w] = Head(queue)] /\ queue' = Tail(queue)
    /\ UNCHANGED <<kind, width, source, type, pc, call, off, ev, delivered, deleted>>

\* _xdispatch_run_operation() deletes the cancel handler, and of an event the
\* src_notify_operation but not the handler
Done(w) ==
    /\ busy[w] # NULL
    /\ deleted' = IF busy[w] = HANDLER THEN deleted ELSE Append(deleted, busy[w])
    /\ busy' = [busy EXCEPT ![w] = NULL]
    /\ UNCHANGED <<kind, width, source, type, pc, call, off, ev, queue, delivered>>

Client(c) ==
    \/ Resume(c) \/ OnResume(c) \/ Suspend(c) \/ OnSuspend(c) \/ QResume(c) \/ QSuspend(c)
    \/ \E o \in CancelOps : CancelHandler(c, o)
    \/ Cancel(c) \/ OnCancel(c) \/ CancelSubmit(c)

Next ==
    \/ \E c \in Clients : Client(c)
    \/ Ready \/ Emit \/ Notify \/ NotifyCancelled \/ Signal \/ Submit \/ FastDone
    \/ \E w \in Workers : Run(w) \/ Done(w)

Spec == Init /\ [][Next]_vars
-----------------------------------------------------------------------------
(* Properties.                                                             *)

\* However often and from wherever a source is cancelled while its cancel handler
\* is replaced, the sourcetype hears of it once, and every handler is deleted once
\* at most and not while it is set, queued or running (source::cancel(),
\* cancel_handler()).
CancelOnce ==
    /\ type.cancelled <= 1
    /\ IsInjective(deleted)
    /\ \A o \in CancelOps :
         Contains(deleted, o) =>
           o # cancel_handler /\ ~Contains(queue, o) /\ \A w \in Workers : busy[w] # o


=============================================================================
