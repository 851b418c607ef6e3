------------------------------ MODULE MachSource ------------------------------
(***************************************************************************)
(* Sources of Mach ports (libdispatch/src/source_kevent.c, HAVE_MACH).     *)
(* The kernel has no EV_DISPATCH for ports: a port is watched while it is  *)
(* a member of the manager's port set, and the manager takes it out when a *)
(* message arrives and puts it back when a source is rearmed.  That a port *)
(* died is told by a message to the manager's event port.  Sources are     *)
(* invoked as in module DispatchSource, here in a few larger steps.        *)
(***************************************************************************)
EXTENDS Integers, Sequences, SequencesExt

CONSTANTS Sources, Ports,
          Scenarios,   \* the sources there are: functions to [port, type]
          Count,       \* messages dispatch_mig_server() stops before (1000)
          MaxMessages, MaxSuspends

RECV == "DISPATCH_MACHPORT_RECV"
DEAD == "DISPATCH_MACHPORT_DEAD"
DELETED == "DISPATCH_MACHPORT_DELETED"

VARIABLES ds,     \* the sources
          dk,     \* dk_sources and the fflags of the kevent of each port
          port,   \* the kernel: messages, membership in the port set, and
                  \* whether a dead-name notification is requested
          notes,  \* the messages in the event port
          server, \* the locals of dispatch_mig_server(), called by the handler
          sent,   \* number of messages sent to each port
          names,  \* dead-name rights the notifications left
          answer  \* history: requests received, and what became of them

vars == <<ds, dk, port, notes, server, sent, names, answer>>

\* The prototypes of _dispatch_source_type_mach_send and _mach_recv
Flag(type) == IF type = "send" THEN DEAD ELSE RECV

Stopped == [running |-> FALSE, cnt |-> 0, rcv |-> FALSE, reply |-> FALSE]

Init ==
    /\ \E sc \in Scenarios :
         ds = [s \in Sources |->
                 [port |-> sc[s].port, type |-> sc[s].type, mask |-> {Flag(sc[s].type)},
                  installed |-> FALSE, canceled |-> FALSE, dkev |-> TRUE, suspended |-> FALSE,
                  suspends |-> 0, pending |-> {}, armed |-> FALSE, told |-> 0]]
    /\ dk = [p \in Ports |-> [sources |-> <<>>, fflags |-> {}]]
    /\ port = [p \in Ports |-> [state |-> "alive", msgs |-> 0, member |-> FALSE, request |-> FALSE]]
    /\ notes = <<>>
    /\ server = [s \in Sources |-> Stopped]
    /\ sent = [p \in Ports |-> 0]
    /\ names = 0
    /\ answer = [received |-> 0, replied |-> 0, dropped |-> 0, none |-> 0]
-----------------------------------------------------------------------------
(* The kernel.                                                             *)

Send(p) ==
    /\ port[p].state = "alive" /\ sent[p] < MaxMessages
    /\ port' = [port EXCEPT ![p].msgs = @ + 1]
    /\ sent' = [sent EXCEPT ![p] = @ + 1]
    /\ UNCHANGED <<ds, dk, notes, server, names, answer>>

Note(what, p) == [what |-> what, port |-> p]

\* The receive right is destroyed, and with it what is in the port ...
Die(p) ==
    /\ port[p].state = "alive"
    /\ port' = [port EXCEPT ![p] = [state |-> "dead", msgs |-> 0, member |-> FALSE, request |-> FALSE]]
    /\ notes' = IF port[p].request THEN Append(notes, Note("dead_name", p)) ELSE notes
    /\ names' = IF port[p].request THEN names + 1 ELSE names
    /\ UNCHANGED <<ds, dk, server, sent, answer>>

\* ... or the program deletes the right that libdispatch watches.
Delete(p) ==
    /\ port[p].state = "alive"
    /\ port' = [port EXCEPT ![p] = [state |-> "deleted", msgs |-> 0, member |-> FALSE,
                                    request |-> FALSE]]
    /\ notes' = IF port[p].request THEN Append(notes, Note("port_deleted", p)) ELSE notes
    /\ UNCHANGED <<ds, dk, server, sent, names, answer>>

\* mach_port_move_member() of a right that is gone fails, which is ignored.
Member(q, b) == IF q.state = "alive" THEN [q EXCEPT !.member = b] ELSE q

_dispatch_kevent_machport_enable(q) == Member(q, TRUE)
_dispatch_kevent_machport_disable(q) == Member(q, FALSE)

\* mach_port_request_notification(): of a name that is dead already the
\* notification is sent at once.
Request(q) == IF q.state = "alive" THEN [q EXCEPT !.request = TRUE] ELSE q
AtOnce(q, new) == DEAD \in new /\ q.state = "dead"

\* The port q once _dispatch_kevent_machport_resume() was called.
_dispatch_kevent_machport_resume(fflags, new, del, q) ==
    LET q1 == IF RECV \in new \/ (new = {} /\ del = {} /\ RECV \in fflags)
                THEN _dispatch_kevent_machport_enable(q) ELSE q
        q2 == IF DEAD \in new THEN Request(q1) ELSE q1
        q3 == IF RECV \in del THEN _dispatch_kevent_machport_disable(q2) ELSE q2
    IN IF DEAD \in del THEN [q3 EXCEPT !.request = FALSE] ELSE q3

Resume(p, fflags, new, del) ==
    /\ port' = [port EXCEPT ![p] = _dispatch_kevent_machport_resume(fflags, new, del, @)]
    /\ notes' = IF AtOnce(port[p], new) THEN Append(notes, Note("dead_name", p)) ELSE notes
    /\ names' = IF AtOnce(port[p], new) THEN names + 1 ELSE names
-----------------------------------------------------------------------------
(* The manager.                                                            *)

\* _dispatch_kevent_merge()
Install(s) ==
    /\ ~ds[s].installed /\ ~ds[s].suspended
    /\ LET p == ds[s].port
           new == ds[s].mask \ dk[p].fflags
           do_resume == dk[p].sources = <<>> \/ new # {}
           all == dk[p].fflags \cup ds[s].mask
       IN /\ ds' = [ds EXCEPT ![s].installed = TRUE, ![s].armed = do_resume]
          /\ dk' = [dk EXCEPT ![p] = [sources |-> Append(@.sources, s), fflags |-> all]]
          /\ IF do_resume THEN Resume(p, all, new, {}) ELSE UNCHANGED <<port, notes, names>>
    /\ UNCHANGED <<server, sent, answer>>

\* _dispatch_kevent_release(), _dispatch_kevent_dispose()
Uninstall(s) ==
    /\ ds[s].installed /\ ds[s].canceled /\ ds[s].dkev /\ ~server[s].running /\ ~ds[s].suspended
    /\ LET p == ds[s].port
           rest == SelectSeq(dk[p].sources, LAMBDA x : x # s)
           fflags == UNION {ds[x].mask : x \in Range(rest)}
           del == IF rest = <<>> THEN dk[p].fflags ELSE ds[s].mask \ fflags
       IN /\ dk' = [dk EXCEPT ![p] = [sources |-> rest,
                                      fflags |-> IF rest = <<>> THEN {}
                                                 ELSE IF del = {} THEN @.fflags ELSE fflags]]
          /\ IF rest = <<>> \/ del # {} THEN Resume(p, fflags, {}, del)
             ELSE UNCHANGED <<port, notes, names>>
    /\ ds' = [ds EXCEPT ![s] = [@ EXCEPT !.dkev = FALSE, !.armed = FALSE, !.pending = {}]]
    /\ UNCHANGED <<server, sent, answer>>

\* _dispatch_source_merge_kevent() for every source of the port
Merged(p, flag) ==
    [s \in Sources |->
       IF s \in Range(dk[p].sources) /\ ~ds[s].canceled
         THEN [ds[s] EXCEPT !.pending = @ \cup (ds[s].mask \cap {flag}), !.armed = FALSE]
         ELSE ds[s]]

\* The kernel reports a port of the set that has a message.
_dispatch_drain_mach_messages(p) ==
    /\ port[p].member /\ port[p].msgs > 0
    /\ dk[p].sources # <<>>
    /\ port' = [port EXCEPT ![p] = _dispatch_kevent_machport_disable(@)]
    /\ ds' = Merged(p, RECV)
    /\ UNCHANGED <<dk, notes, server, sent, names, answer>>

Unmasked(d, p, flag) == [s \in Sources |-> IF s \in Range(dk[p].sources)
                                             THEN [d[s] EXCEPT !.mask = @ \ {flag}] ELSE d[s]]

\* The notification is merged, can never happen again, and its name is freed.
_dispatch_mach_notify_dead_name ==
    /\ notes # <<>> /\ Head(notes).what = "dead_name"
    /\ LET p == Head(notes).port IN
       /\ ds' = Unmasked(Merged(p, DEAD), p, DEAD)
       /\ dk' = [dk EXCEPT ![p].fflags = @ \ {DEAD}]
    /\ notes' = Tail(notes)
    /\ names' = names - 1
    /\ UNCHANGED <<port, server, sent, answer>>

_dispatch_mach_notify_port_deleted ==
    /\ notes # <<>> /\ Head(notes).what = "port_deleted"
    /\ LET p == Head(notes).port IN
       /\ ds' = Unmasked(Merged(p, DELETED), p, DELETED)
       /\ dk' = [dk EXCEPT ![p].fflags = @ \ {DELETED}]
    /\ notes' = Tail(notes)
    /\ UNCHANGED <<port, server, sent, names, answer>>

Live(s) == ds[s].installed /\ ~ds[s].canceled

\* _dispatch_source_invoke() of a source that needs to be rearmed
Rearm(s) ==
    /\ Live(s) /\ ~ds[s].suspended /\ ~server[s].running
    /\ ds[s].pending = {} /\ ~ds[s].armed
    /\ Resume(ds[s].port, dk[ds[s].port].fflags, {}, {})
    /\ ds' = [ds EXCEPT ![s].armed = TRUE]
    /\ UNCHANGED <<dk, server, sent, answer>>
-----------------------------------------------------------------------------
(* The clients and the target queue.                                       *)

\* The handler of a send source learns that the port is dead, the one of a
\* receive source calls dispatch_mig_server().
Handle(s) ==
    /\ Live(s) /\ ~ds[s].suspended /\ ~server[s].running
    /\ ds[s].pending # {}
    /\ ds' = [ds EXCEPT ![s] = [@ EXCEPT !.pending = {},
                                         !.told = IF DEAD \in ds[s].pending THEN @ + 1 ELSE @]]
    /\ server' = [server EXCEPT ![s] =
                    IF RECV \in ds[s].pending
                      THEN [running |-> TRUE, cnt |-> Count, rcv |-> TRUE, reply |-> FALSE] ELSE @]
    /\ UNCHANGED <<dk, port, notes, sent, names, answer>>

dispatch_source_cancel(s) ==
    /\ ~ds[s].canceled
    /\ ds' = [ds EXCEPT ![s].canceled = TRUE]
    /\ UNCHANGED <<dk, port, notes, server, sent, names, answer>>

dispatch_suspend(s) ==
    /\ ~ds[s].suspended /\ ds[s].suspends < MaxSuspends
    /\ ds' = [ds EXCEPT ![s] = [@ EXCEPT !.suspended = TRUE, !.suspends = @ + 1]]
    /\ UNCHANGED <<dk, port, notes, server, sent, names, answer>>

dispatch_resume(s) ==
    /\ ds[s].suspended
    /\ ds' = [ds EXCEPT ![s].suspended = FALSE]
    /\ UNCHANGED <<dk, port, notes, server, sent, names, answer>>

\* The loop of dispatch_mig_server(): stop to receive when the source is
\* suspended or enough messages were taken, and leave unless a reply is to be
\* sent ...
Stop(s) == ds[s].suspended \/ server[s].cnt - 1 = 0

MigStop(s) ==
    /\ server[s].running /\ server[s].rcv /\ Stop(s)
    /\ server' = [server EXCEPT ![s] = IF server[s].reply THEN [@ EXCEPT !.rcv = FALSE] ELSE Stopped]
    /\ UNCHANGED <<ds, dk, port, notes, sent, names, answer>>

Answered(s, how) == IF server[s].reply THEN [answer EXCEPT ![how] = @ + 1] ELSE answer

\* ... mach_msg() sends the reply; its receiver is gone, and the loop ends ...
MigSendFails(s) ==
    /\ server[s].running /\ server[s].reply /\ ~(server[s].rcv /\ Stop(s))
    /\ server' = [server EXCEPT ![s] = Stopped]
    /\ answer' = Answered(s, "dropped")
    /\ UNCHANGED <<ds, dk, port, notes, sent, names>>

\* ... or it is sent, and there is nothing to receive (or nothing is wanted) ...
MigEmpty(s) ==
    /\ server[s].running /\ ~(server[s].rcv /\ Stop(s))
    /\ ~server[s].rcv \/ port[ds[s].port].msgs = 0
    /\ server' = [server EXCEPT ![s] = Stopped]
    /\ answer' = Answered(s, "replied")
    /\ UNCHANGED <<ds, dk, port, notes, sent, names>>

\* ... or a request is received and given to the callback, which makes a reply
\* (that of a request it refuses is an error) or says that there is none.
MigReceive(s, reply) ==
    /\ server[s].running /\ server[s].rcv /\ ~Stop(s)
    /\ port[ds[s].port].msgs > 0
    /\ port' = [port EXCEPT ![ds[s].port].msgs = @ - 1]
    /\ server' = [server EXCEPT ![s] = [@ EXCEPT !.cnt = @ - 1, !.reply = reply]]
    /\ answer' = [Answered(s, "replied") EXCEPT !.received = @ + 1,
                                                !.none = IF reply THEN @ ELSE @ + 1]
    /\ UNCHANGED <<ds, dk, notes, sent, names>>

Next ==
    \/ \E p \in Ports : Send(p) \/ Die(p) \/ Delete(p) \/ _dispatch_drain_mach_messages(p)
    \/ _dispatch_mach_notify_dead_name \/ _dispatch_mach_notify_port_deleted
    \/ \E s \in Sources :
         \/ Install(s) \/ Uninstall(s) \/ Rearm(s) \/ Handle(s)
         \/ dispatch_source_cancel(s) \/ dispatch_suspend(s) \/ dispatch_resume(s)
         \/ MigStop(s) \/ MigSendFails(s) \/ MigEmpty(s)
         \/ \E reply \in BOOLEAN : MigReceive(s, reply)

Spec == Init /\ [][Next]_vars
-----------------------------------------------------------------------------
\* A receive source that waits for a message waits for a port that is in the
\* port set, whatever the other sources of the port do: no message is left there.
ArmedIsWatched ==
    \A s \in Sources :
        ds[s].type = "recv" /\ Live(s) /\ ds[s].armed /\ port[ds[s].port].state = "alive"
          => port[ds[s].port].member

\* The port set holds no port without sources, of which the manager could never
\* make an event.
WatchedHasSources == \A p \in Ports : port[p].member => dk[p].sources # <<>>

\* A send source is told that its port died at most once, and when the port is dead
\* it was told, or is about to be; no name of a dead port is leaked.
DeadTold ==
    /\ \A s \in Sources :
         /\ ds[s].told <= 1 /\ (ds[s].told = 1 => port[ds[s].port].state = "dead")
         /\ ds[s].type = "send" /\ Live(s) /\ port[ds[s].port].state = "dead" =>
              ds[s].told = 1 \/ DEAD \in ds[s].pending \/ Note("dead_name", ds[s].port) \in Range(notes)
    /\ names = Len(SelectSeq(notes, LAMBDA n : n.what = "dead_name"))

\* Every request dispatch_mig_server() received was answered, unless it has no reply
\* or nobody to reply to, or its reply is about to be sent.
RequestsAnswered ==
    LET owing == {s \in Sources : server[s].reply}
    IN answer.received = answer.replied + answer.dropped + answer.none
                           + FoldSet(LAMBDA s, n : n + 1, 0, owing)
=============================================================================
