------------------------------ MODULE WinKQueue ------------------------------
(***************************************************************************)
(* libkqueue on Windows (src/windows/*.c, common/knote.c): events are      *)
(* knotes in the queue of an I/O completion port, put there by threads of  *)
(* the system that run timer and socket callbacks without the lock of the  *)
(* kqueue.  A read and a write knote of one socket share a mux knote that  *)
(* is registered with the system for both.                                 *)
(***************************************************************************)
EXTENDS Integers, Sequences, FiniteSets, FiniteSetsExt, SequencesExt

CONSTANTS Knotes,     \* knotes in the order of allocation, 1..n
          Scenarios,  \* sets of [filter, flags] the program registers
          MaxChanges, MaxEvents

VARIABLES kn, tree, iocp, buf,  \* buf: the thread's iocp_buf, 0 when it is not used
          lock,                 \* what a call with the kqueue locked waits for
          cb,                   \* the callback that runs
          net, wanted, changes, events, bad

vars == <<kn, tree, iocp, buf, lock, cb, net, wanted, changes, events, bad>>

NoKnote == [st |-> "none", filter |-> "none", flags |-> {}, deleted |-> FALSE, disabled |-> FALSE,
            ref |-> 0, armed |-> FALSE, kept |-> 0, mux |-> 0, to |-> [READ |-> 0, WRITE |-> 0], ready |-> {}]
Free == [op |-> "none", kn |-> 0]
Idle == [pc |-> "none", kn |-> 0, to |-> 0]

Init ==
    /\ kn = [n \in Knotes |-> NoKnote] /\ tree = {}
    /\ iocp = <<>> /\ buf = 0 /\ lock = Free /\ cb = Idle
    /\ net = {} /\ wanted \in Scenarios /\ changes = 0 /\ events = 0 /\ bad = {}

RW == {"READ", "WRITE"}
Locked == lock = Free /\ changes < MaxChanges /\ changes' = changes + 1

\* knote_retain() and knote_release(); the last reference of a knote that is
\* released here belongs to one that was deleted
Retain(w, n) == [w EXCEPT ![n].ref = @ + 1]
KnoteRelease(w, n) == [w EXCEPT ![n].ref = @ - 1, ![n].st = IF w[n].ref = 1 THEN "freed" ELSE @]

\* windows_kqueue_post(); PostQueuedCompletionStatus() does not fail
Post(w, n) == kn' = Retain(w, n) /\ iocp' = Append(iocp, n)

Find(filter) == {n \in tree : kn[n].filter = filter}
New(w) == Min({n \in Knotes : w[n].st = "none"})
NewKnote(c) == [NoKnote EXCEPT !.st = "live", !.filter = c.filter, !.flags = c.flags, !.ref = 1]
-----------------------------------------------------------------------------
(* Changes, made with the kqueue locked.                                   *)

\* evfilt_timer_knote_create(): the system has a reference too
TimerCreate(w, n) == [Retain(w, n) EXCEPT ![n].armed = TRUE, ![n].ready = {}]

\* evfilt_mux_knote_create(): the system has a reference too
MuxCreate(w, m) ==
    [w EXCEPT ![m] = [NewKnote([filter |-> "MUX", flags |-> {}]) EXCEPT !.armed = TRUE, !.ref = 2]]


\* evfilt_rw_knote_create(): the mux has a reference of each knote, and refers to
\* them; the reference it was created with is given back
RwCreate(w, n, found) ==
    LET m == IF found = {} THEN New(w) ELSE CHOOSE x \in found : TRUE
        v == IF found = {} THEN MuxCreate(w, m)
             ELSE Retain(w, m)
    IN Retain([v EXCEPT ![n].mux = m, ![m].to[v[n].filter] = n], n)

\* filter_knote_create()
Add(c) ==
    /\ Locked /\ Find(c.filter) = {}
    /\ Cardinality({n \in Knotes : kn[n].st = "none"}) >= 2
    /\ LET n == New(kn)
           v == [kn EXCEPT ![n] = NewKnote(c)]
           w == CASE c.filter = "USER"  -> v
                  [] c.filter = "TIMER" -> TimerCreate(v, n)
                  [] c.filter \in RW    -> RwCreate(v, n, Find("MUX"))
       IN kn' = w /\ tree' = tree \cup {n} \cup (IF c.filter \in RW THEN {w[n].mux} ELSE {})
    /\ net' = IF c.filter \in RW /\ Find("MUX") = {} THEN {"WRITE"} ELSE net
    /\ UNCHANGED <<iocp, buf, lock, cb, wanted, events, bad>>

\* EVFILT_USER with NOTE_TRIGGER: evfilt_user_knote_modify()
Trigger(n) ==
    /\ Locked /\ n \in Find("USER") /\ ~kn[n].disabled
    /\ Post(kn, n)
    /\ UNCHANGED <<tree, buf, lock, cb, net, wanted, events, bad>>

\* evfilt_mux_knote_modify() with NOTE_MUX_READ: recv() makes winsock report data
\* that is still there; the state kept for a write knote is not looked at
MuxModify(n) == net' \in IF kn[n].filter = "READ" THEN {net, net \cup {"READ"}} ELSE {net}

\* EV_ENABLE of a disabled knote; a timer is created anew
Enable(n) ==
    /\ Locked /\ n \in tree /\ kn[n].disabled
    /\ LET v == [kn EXCEPT ![n].disabled = FALSE]
       IN kn' = IF kn[n].filter = "TIMER" THEN TimerCreate(v, n) ELSE v
    /\ MuxModify(n)
    /\ UNCHANGED <<tree, iocp, buf, lock, cb, wanted, events, bad>>

\* ktimer_delete() up to UnregisterWaitEx(), which waits for the callback
TimerStop(w, n, op) == kn' = w /\ lock' = [op |-> op, kn |-> n]

\* ... and after it.  The reference of the system to a timer of EV_ONESHOT is
\* left to its callback, which returns before it gives it back.
TimerStopped ==
    /\ lock.op \in {"stop", "delete"} /\ kn[lock.kn].filter = "TIMER" /\ cb.kn # lock.kn
    /\ LET n == lock.kn
           v == [kn EXCEPT ![n].armed = FALSE]
           w == IF "ONESHOT" \in kn[n].flags THEN [v EXCEPT ![n].kept = @ + 1] ELSE KnoteRelease(v, n)
       IN kn' = IF lock.op = "delete" THEN KnoteRelease(w, n) ELSE w
    /\ lock' = Free
    /\ UNCHANGED <<tree, iocp, buf, cb, net, wanted, changes, events, bad>>

\* evfilt_rw_knote_delete(): the last knote of a socket deletes the mux, in
\* evfilt_mux_knote_delete(), and waits for its callback
RwDelete(w, n) ==
    LET m == w[n].mux
        v == [KnoteRelease(w, n) EXCEPT ![m].to[w[n].filter] = 0]
        last == \A f \in RW : v[m].to[f] = 0
    IN /\ kn' = IF last THEN [v EXCEPT ![m].deleted = TRUE] ELSE KnoteRelease(KnoteRelease(v, m), n)
       /\ lock' = IF last THEN [op |-> "mux", kn |-> n] ELSE Free
       /\ tree' = tree \ (IF last THEN {n, m} ELSE {n})
MuxDeleted ==
    /\ lock.op = "mux" /\ cb.kn # kn[lock.kn].mux
    /\ LET m == kn[lock.kn].mux
           v == [kn EXCEPT ![m].armed = FALSE, ![m].ref = 0, ![m].st = "freed"]
       IN kn' = KnoteRelease(v, lock.kn)
    /\ lock' = Free /\ net' = {}
    /\ UNCHANGED <<tree, iocp, buf, cb, wanted, changes, events, bad>>

\* knote_delete()
KnoteDelete(w, n) ==
    LET v == [w EXCEPT ![n].deleted = TRUE]
    IN CASE v[n].filter \in RW -> RwDelete(v, n)
         [] v[n].filter = "TIMER" /\ v[n].armed -> TimerStop(v, n, "delete") /\ tree' = tree \ {n}
         [] OTHER -> kn' = KnoteRelease(v, n) /\ tree' = tree \ {n} /\ UNCHANGED lock

\* kn_disable(): a timer is stopped; for a socket the mux remembers it
KnDisable(w, n) ==
    /\ IF w[n].filter = "TIMER" /\ w[n].armed THEN TimerStop(w, n, "stop") ELSE kn' = w /\ UNCHANGED lock
    /\ UNCHANGED tree

Delete(n) ==
    /\ Locked /\ n \in tree /\ kn[n].filter # "MUX"
    /\ KnoteDelete(kn, n)
    /\ UNCHANGED <<iocp, buf, cb, net, wanted, events, bad>>
Disable(n) ==
    /\ Locked /\ n \in tree /\ kn[n].filter # "MUX" /\ ~kn[n].disabled
    /\ KnDisable([kn EXCEPT ![n].disabled = TRUE], n)
    /\ UNCHANGED <<iocp, buf, cb, net, wanted, events, bad>>
-----------------------------------------------------------------------------
(* Callbacks of the system.                                                *)

\* a timer of EV_ONESHOT has no period
TimerFires(n) ==
    /\ cb = Idle /\ kn[n].filter = "TIMER" /\ kn[n].armed /\ kn[n].ready = {}
    /\ events < MaxEvents /\ events' = events + 1
    /\ cb' = [pc |-> "timer", kn |-> n, to |-> 0]
    /\ kn' = [kn EXCEPT ![n].ready = kn[n].flags \cap {"ONESHOT"}]
    /\ UNCHANGED <<tree, iocp, buf, lock, net, wanted, changes, bad>>

\* evfilt_timer_callback() returns when the post succeeded
TimerCallback ==
    /\ cb.pc = "timer"
    /\ IF kn[cb.kn].deleted THEN UNCHANGED <<kn, iocp>> ELSE Post(kn, cb.kn)
    /\ bad' = IF kn[cb.kn].st = "freed" THEN bad \cup {"timer"} ELSE bad
    /\ cb' = Idle
    /\ UNCHANGED <<tree, buf, lock, net, wanted, changes, events>>

\* data arrives, or room to write
SocketReady(f) ==
    /\ Find("MUX") # {} /\ f \notin net /\ net' = net \cup {f}
    /\ events < MaxEvents /\ events' = events + 1
    /\ UNCHANGED <<kn, tree, iocp, buf, lock, cb, wanted, changes, bad>>

\* evfilt_mux_callback(): WSAEnumNetworkEvents() clears what it returns
MuxCallback(m) ==
    /\ cb = Idle /\ kn[m].filter = "MUX" /\ kn[m].armed /\ net # {}
    /\ kn' = [kn EXCEPT ![m].ready = @ \cup net] /\ net' = {}
    /\ cb' = [pc |-> "READ", kn |-> m, to |-> 0]
    /\ UNCHANGED <<tree, iocp, buf, lock, wanted, changes, events, bad>>

\* evfilt_mux_demux(): the knote is looked at ...
Demux(f) ==
    /\ cb.pc = f /\ cb.to = 0
    /\ LET n == kn[cb.kn].to[f]
           call == f \in kn[cb.kn].ready /\ n # 0 /\ ~kn[n].deleted
       IN cb' = IF call THEN [cb EXCEPT !.to = n]
                ELSE IF f = "READ" THEN [cb EXCEPT !.pc = "WRITE"] ELSE Idle
    /\ UNCHANGED <<kn, tree, iocp, buf, lock, net, wanted, changes, events, bad>>

\* ... and, read again or not, posted by evfilt_read_callback() or
\* evfilt_write_callback(); nothing keeps it from being deleted in between
Demuxed(f) ==
    /\ cb.pc = f /\ cb.to # 0
    /\ \E n \in {cb.to, kn[cb.kn].to[f]} :
         IF n = 0 \/ (n # 0 /\ kn[n].st = "freed") THEN bad' = bad \cup {"demux"} /\ UNCHANGED <<kn, iocp>>
         ELSE Post([kn EXCEPT ![cb.kn].ready = @ \ {f}], n) /\ UNCHANGED bad
    /\ cb' = IF f = "READ" THEN [cb EXCEPT !.pc = "WRITE", !.to = 0] ELSE Idle
    /\ UNCHANGED <<tree, buf, lock, net, wanted, changes, events>>
-----------------------------------------------------------------------------
(* Waiting.                                                                *)

KeventWait ==
    /\ buf = 0 /\ iocp # <<>>
    /\ buf' = Head(iocp) /\ iocp' = Tail(iocp)
    /\ UNCHANGED <<kn, tree, lock, cb, net, wanted, changes, events, bad>>

\* windows_kevent_copyout(): what was deleted or disabled meanwhile is dropped, and
\* the reference of the queue given back before the knote is disabled or deleted
KeventCopyout ==
    /\ buf # 0 /\ lock = Free
    /\ LET v == KnoteRelease(kn, buf)
           drop == kn[buf].deleted \/ kn[buf].disabled
       IN /\ IF "DISPATCH" \in kn[buf].flags /\ ~drop THEN KnDisable([v EXCEPT ![buf].disabled = TRUE], buf)
             ELSE IF "ONESHOT" \in kn[buf].flags /\ ~drop THEN KnoteDelete(v, buf)
             ELSE kn' = v /\ UNCHANGED <<lock, tree>>
          /\ bad' = IF kn[buf].st = "freed" \/ (~drop /\ v[buf].st = "freed") THEN bad \cup {"copyout"} ELSE bad
    /\ buf' = 0
    /\ UNCHANGED <<iocp, cb, net, wanted, changes, events>>

Next ==
    \/ \E c \in wanted : Add(c)
    \/ \E n \in Knotes : Trigger(n) \/ Enable(n) \/ Delete(n) \/ Disable(n) \/ TimerFires(n) \/ MuxCallback(n)
    \/ TimerStopped \/ MuxDeleted \/ TimerCallback
    \/ \E f \in RW : SocketReady(f) \/ Demux(f) \/ Demuxed(f)
    \/ KeventWait \/ KeventCopyout

Spec == Init /\ [][Next]_vars
-----------------------------------------------------------------------------
\* A knote counts who refers to it: the filter it is registered with (the mux of
\* a socket is counted by its knotes instead), the system, the mux, the queue of
\* the completion port and the thread that took it from there.  It is freed when
\* nobody is left, but for a timer of EV_ONESHOT, whose callback keeps the
\* reference of the system for good.
KnoteCounts ==
    \A n \in Knotes : kn[n].st = "live" =>
      LET registered == IF n \in tree \/ (lock.kn = n /\ lock.op \in {"delete", "mux"}) THEN {n} ELSE {}
          users == {x \in Knotes : kn[x].mux = n /\ kn[x].st = "live" /\ (~kn[x].deleted \/ lock = [op |-> "mux", kn |-> x])}
          muxes == {x \in Knotes : kn[x].st = "live" /\ n \in {kn[x].to[f] : f \in RW}}
      IN kn[n].ref = (IF kn[n].filter = "MUX" THEN Cardinality(users) ELSE Cardinality(registered))
                     + Cardinality(muxes) + (IF kn[n].armed THEN 1 ELSE 0) + kn[n].kept
                     + Cardinality({i \in DOMAIN iocp : iocp[i] = n}) + (IF buf = n THEN 1 ELSE 0)

\* No freed knote is used, with one exception: evfilt_mux_demux() may post a
\* knote of a socket that was deleted after it had looked at it.
NoStalePost == bad \subseteq {"demux"}
=============================================================================
