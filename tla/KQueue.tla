------------------------------- MODULE KQueue -------------------------------
(***************************************************************************)
(* libkqueue on Linux: kevent() over epoll (src/common/kevent.c, knote.c,  *)
(* filter.c, src/linux/*.c).  One kqueue is used the way libdispatch does: *)
(* a thread changes filters and waits for events, the others only trigger  *)
(* an EVFILT_USER event.  What the calls do to the kernel objects is       *)
(* written as operators on a record k of                                   *)
(*   kn    the knotes: state, filter, ident, flags, reference count, the   *)
(*         descriptor created for it (NULL is -1) and NOTE_TRIGGER         *)
(*   tree  the knotes in the trees of the filters (see KnoteTree)          *)
(*   ep    the epoll set: what each descriptor is registered with          *)
(*   src   what each open descriptor of the library reads from             *)
(*   lev   which of these sources are readable                             *)
(***************************************************************************)
EXTENDS Integers, Sequences, FiniteSets, FiniteSetsExt

CONSTANTS Waiter,      \* the thread that waits
          Others,      \* threads that trigger events
          Scenarios,   \* sets of changes the waiter makes
          Sockets, Files, Signals, Names, \* idents of each kind
          Own,         \* descriptors the library can open
          Knotes,      \* knotes it can allocate
          ReEnable,    \* whether EV_ENABLE is sent for an enabled knote
          MaxCalls, MaxTriggers, MaxEvents,
          NULL

VARIABLES k, changes, th, mtx, calls, triggers, occurred, eof, aborted, given

vars == <<k, changes, th, mtx, calls, triggers, occurred, eof, aborted, given>>

Idents == Sockets \cup Files \cup Signals \cup Names
Threads == {Waiter} \cup Others
NoKnote == [st |-> "none", filter |-> NULL, ident |-> NULL, flags |-> {}, deleted |-> FALSE,
            ref |-> 0, fd |-> NULL, trig |-> FALSE]

Init ==
    /\ k = [kn |-> [n \in Knotes |-> NoKnote], tree |-> {},
            ep |-> [d \in Idents \cup Own |-> NULL], src |-> [d \in Own |-> NULL],
            lev |-> [s \in Idents \cup Own |-> FALSE]]
    /\ changes \in Scenarios
    /\ th = [t \in Threads |-> [pc |-> "idle", batch |-> {}]]
    /\ mtx = NULL
    /\ calls = 0 /\ triggers = 0 /\ occurred = 0
    /\ eof = [f \in Files |-> FALSE]
    /\ aborted = FALSE
    /\ given = [n \in Knotes |-> 0]

-----------------------------------------------------------------------------
(* Descriptors and epoll.  A result is a record of the value returned and  *)
(* the kernel objects after the call.                                      *)

Result(rv, w) == [rv |-> rv, k |-> w]

\* epoll_ctl(EPOLL_CTL_ADD) of a descriptor for a knote; it fails with EEXIST
EpAdd(w, d, n, oneshot, edge) ==
    IF w.ep[d] # NULL THEN Result(-1, w)
    ELSE Result(0, [w EXCEPT !.ep[d] = [kn |-> n, oneshot |-> oneshot, edge |-> edge,
                                       armed |-> TRUE]])
\* epoll_ctl(EPOLL_CTL_DEL); it fails with ENOENT or EBADF
EpDel(w, d) == IF d = NULL THEN Result(-1, w)
               ELSE IF w.ep[d] = NULL THEN Result(-1, w)
               ELSE Result(0, [w EXCEPT !.ep[d] = NULL])

\* eventfd(), timerfd_create(), signalfd(), inotify_init() and epoll_ctl()
Open(w, n, source, level, oneshot, edge) ==
    LET d == CHOOSE d \in Own : w.src[d] = NULL
        s == IF source = NULL THEN d ELSE source
    IN EpAdd([w EXCEPT !.src[d] = s, !.lev[s] = level, !.kn[n].fd = d], d, n, oneshot, edge)
Close(w, n) == [w EXCEPT !.src[w.kn[n].fd] = NULL, !.kn[n].fd = NULL]

\* the source a descriptor in the epoll set reads from
SourceOf(w, d) == IF d \in Own THEN w.src[d] ELSE d
-----------------------------------------------------------------------------
(* The filters.                                                            *)

Regular(x) == x.ident \in Files
OneShot(x) == x.flags \cap {"ONESHOT", "DISPATCH"} # {}

\* evfilt_read_knote_create(), evfilt_socket_knote_create(),
\* linux_evfilt_user_knote_create(), evfilt_timer_knote_create(),
\* evfilt_signal_knote_create() and evfilt_vnode_knote_create().  A regular file
\* gets an eventfd that is always readable; a signal pending is discarded.
CreateRead(w, n) ==
    LET x == w.kn[n] IN
    IF Regular(x) THEN Open(w, n, NULL, TRUE, OneShot(x), "CLEAR" \in x.flags)
    ELSE EpAdd(w, x.ident, n, OneShot(x), "CLEAR" \in x.flags)
CreateWrite(w, n) ==
    LET x == w.kn[n] IN
    IF Regular(x) THEN Result(-1, w) ELSE EpAdd(w, x.ident, n, OneShot(x), "CLEAR" \in x.flags)
CreateUser(w, n) == Open(w, n, NULL, FALSE, FALSE, FALSE)
CreateTimer(w, n) == Open([w EXCEPT !.kn[n].flags = @ \cup {"CLEAR"}], n, NULL, FALSE, FALSE, FALSE)
signalfd_reset(w, n) == [w EXCEPT !.lev[w.kn[n].ident] = FALSE]
signalfd_create(w, n) == Open(signalfd_reset(w, n), n, w.kn[n].ident, FALSE, FALSE, FALSE)
CreateSignal(w, n) == signalfd_create([w EXCEPT !.kn[n].flags = @ \cup {"CLEAR"}], n)
add_watch(w, n) == Open(w, n, NULL, FALSE, FALSE, FALSE)
CreateVnode(w, n) == add_watch(w, n)

KnCreate(w, n) ==
    CASE w.kn[n].filter = "READ"   -> CreateRead(w, n)
      [] w.kn[n].filter = "WRITE"  -> CreateWrite(w, n)
      [] w.kn[n].filter = "USER"   -> CreateUser(w, n)
      [] w.kn[n].filter = "TIMER"  -> CreateTimer(w, n)
      [] w.kn[n].filter = "SIGNAL" -> CreateSignal(w, n)
      [] w.kn[n].filter = "VNODE"  -> CreateVnode(w, n)

\* the descriptor is taken out of the epoll set and closed
Unregister(w, n) ==
    LET r == EpDel(w, w.kn[n].fd) IN IF r.rv = 0 THEN Result(0, Close(r.k, n)) ELSE r

DeleteRead(w, n) ==
    LET x == w.kn[n] IN
    IF "DISABLE" \in x.flags THEN Result(0, w)
    ELSE IF Regular(x) /\ x.fd # NULL THEN Result(-1, Unregister(w, n).k)
    ELSE EpDel(w, x.ident)
DeleteWrite(w, n) ==
    LET x == w.kn[n] IN
    IF "DISABLE" \in x.flags THEN Result(0, w) ELSE EpDel(w, x.ident)
DeleteUser(w, n) == Unregister(w, n)
DeleteTimer(w, n) ==   \* goes on when epoll_ctl() fails
    IF w.kn[n].fd = NULL THEN Result(0, w)
    ELSE LET r == EpDel(w, w.kn[n].fd) IN Result(r.rv, Close(r.k, n))
DeleteSignal(w, n) == IF w.kn[n].fd = NULL THEN Result(0, w) ELSE Unregister(w, n)
delete_watch(w, n) == IF w.kn[n].fd = NULL THEN Result(0, w) ELSE Unregister(w, n)
DeleteVnode(w, n) == delete_watch(w, n)

KnDelete(w, n) ==
    CASE w.kn[n].filter = "READ"   -> DeleteRead(w, n)
      [] w.kn[n].filter = "WRITE"  -> DeleteWrite(w, n)
      [] w.kn[n].filter = "USER"   -> DeleteUser(w, n)
      [] w.kn[n].filter = "TIMER"  -> DeleteTimer(w, n)
      [] w.kn[n].filter = "SIGNAL" -> DeleteSignal(w, n)
      [] w.kn[n].filter = "VNODE"  -> DeleteVnode(w, n)

\* evfilt_*_knote_enable(): a regular file has kept its eventfd, the others
\* but sockets get a new descriptor
EnableRead(w, n) ==
    LET x == w.kn[n] IN
    EpAdd(w, IF Regular(x) THEN x.fd ELSE x.ident, n, OneShot(x), "CLEAR" \in x.flags)
EnableWrite(w, n) == LET x == w.kn[n] IN EpAdd(w, x.ident, n, OneShot(x), "CLEAR" \in x.flags)
EnableUser(w, n) == CreateUser(w, n)
EnableTimer(w, n) == CreateTimer(w, n)
EnableSignal(w, n) == CreateSignal(w, n)
EnableVnode(w, n) == add_watch(w, n)

KnEnable(w, n) ==
    CASE w.kn[n].filter = "READ"   -> EnableRead(w, n)
      [] w.kn[n].filter = "WRITE"  -> EnableWrite(w, n)
      [] w.kn[n].filter = "USER"   -> EnableUser(w, n)
      [] w.kn[n].filter = "TIMER"  -> EnableTimer(w, n)
      [] w.kn[n].filter = "SIGNAL" -> EnableSignal(w, n)
      [] w.kn[n].filter = "VNODE"  -> EnableVnode(w, n)

\* evfilt_*_knote_disable()
DisableRead(w, n) == LET x == w.kn[n] IN EpDel(w, IF Regular(x) THEN x.fd ELSE x.ident)
DisableWrite(w, n) == EpDel(w, w.kn[n].ident)
DisableUser(w, n) == DeleteUser(w, n)
DisableTimer(w, n) == DeleteTimer(w, n)
DisableSignal(w, n) == DeleteSignal(w, n)
DisableVnode(w, n) == delete_watch(w, n)

KnDisable(w, n) ==
    CASE w.kn[n].filter = "READ"   -> DisableRead(w, n)
      [] w.kn[n].filter = "WRITE"  -> DisableWrite(w, n)
      [] w.kn[n].filter = "USER"   -> DisableUser(w, n)
      [] w.kn[n].filter = "TIMER"  -> DisableTimer(w, n)
      [] w.kn[n].filter = "SIGNAL" -> DisableSignal(w, n)
      [] w.kn[n].filter = "VNODE"  -> DisableVnode(w, n)

\* eventfd_raise()
Raise(w, d) == [w EXCEPT !.lev[d] = TRUE]

\* evfilt_*_knote_modify(): stubs, but for EVFILT_USER
ModifyRead(w) == Result(-1, w)
ModifyWrite(w) == Result(-1, w)
ModifyVnode(w) == Result(-1, w)
ModifyTimer(w) == Result(0, w)
ModifySignal(w) == Result(0, w)
ModifyUser(w, n, trigger) ==
    Result(0, IF trigger /\ "DISABLE" \notin w.kn[n].flags
              THEN Raise([w EXCEPT !.kn[n].trig = TRUE], w.kn[n].fd) ELSE w)

KnModify(w, n, trigger) ==
    CASE w.kn[n].filter = "READ"   -> ModifyRead(w)
      [] w.kn[n].filter = "WRITE"  -> ModifyWrite(w)
      [] w.kn[n].filter = "USER"   -> ModifyUser(w, n, trigger)
      [] w.kn[n].filter = "TIMER"  -> ModifyTimer(w)
      [] w.kn[n].filter = "SIGNAL" -> ModifySignal(w)
      [] w.kn[n].filter = "VNODE"  -> ModifyVnode(w)

\* eventfd_lower(): clears the level, and blocks while it is not raised
Lower(w, d) == Result(IF w.lev[d] THEN 0 ELSE -1, [w EXCEPT !.lev[d] = FALSE])


\* linux_evfilt_user_copyout()
CopyoutUser(w, n) ==
    LET x == w.kn[n]
        v == IF x.flags \cap {"DISPATCH", "CLEAR"} # {} THEN [w EXCEPT !.kn[n].trig = FALSE] ELSE w
        r == IF x.flags \cap {"DISPATCH", "CLEAR", "ONESHOT"} # {} THEN Lower(v, x.fd) ELSE Result(0, v)
    IN {[rv |-> r.rv, k |-> r.k, flags |-> x.flags, discard |-> FALSE]}

\* evfilt_read_copyout(): at the end of a regular file there is no event and
\* its eventfd leaves the epoll set
CopyoutRead(w, n) ==
    LET x == w.kn[n]
        r == IF Regular(x) /\ eof[x.ident] THEN EpDel(w, x.fd) ELSE Result(0, w)
    IN {[rv |-> r.rv, k |-> r.k, flags |-> x.flags, discard |-> Regular(x) /\ eof[x.ident]]}

\* evfilt_socket_copyout()
CopyoutWrite(w, n) == {[rv |-> 0, k |-> w, flags |-> w.kn[n].flags, discard |-> FALSE]}
\* evfilt_timer_copyout() and evfilt_signal_copyout() read the descriptor
CopyoutTimer(w, n) ==
    LET r == Lower(w, w.kn[n].fd) IN {[rv |-> r.rv, k |-> r.k, flags |-> w.kn[n].flags, discard |-> FALSE]}
CopyoutSignal(w, n) ==
    {[rv |-> 0, k |-> [w EXCEPT !.lev[w.kn[n].ident] = FALSE], flags |-> w.kn[n].flags, discard |-> FALSE]}

\* evfilt_vnode_copyout() reads one inotify event, after which there may be
\* more.  When the event is IN_IGNORED or a close it is discarded with
\* dst->flags not written; the flag set on a close is KNFL_KNOTE_DELETED.
CopyoutVnode(w, n) ==
    LET x == w.kn[n]
        rv == IF w.lev[x.fd] THEN 0 ELSE -1
        Read(more) == [w EXCEPT !.lev[x.fd] = more]
    IN UNION {{[rv |-> rv, k |-> Read(more), flags |-> x.flags, discard |-> FALSE]}
              \cup {[rv |-> rv, k |-> [Read(more) EXCEPT !.kn[n].deleted = @ \/ close],
                     flags |-> stale, discard |-> TRUE]
                      : close \in BOOLEAN, stale \in SUBSET {"DISPATCH", "ONESHOT"}}
              : more \in BOOLEAN}

KfCopyout(w, n) ==
    CASE w.kn[n].filter = "READ"   -> CopyoutRead(w, n)
      [] w.kn[n].filter = "WRITE"  -> CopyoutWrite(w, n)
      [] w.kn[n].filter = "USER"   -> CopyoutUser(w, n)
      [] w.kn[n].filter = "TIMER"  -> CopyoutTimer(w, n)
      [] w.kn[n].filter = "SIGNAL" -> CopyoutSignal(w, n)
      [] w.kn[n].filter = "VNODE"  -> CopyoutVnode(w, n)
-----------------------------------------------------------------------------
(* Knotes.                                                                 *)

\* knote_release() of the last reference
KnoteRelease(w, n) ==
    IF w.kn[n].ref > 1 THEN [w EXCEPT !.kn[n].ref = @ - 1]
    ELSE LET v == IF w.kn[n].deleted THEN w
                  ELSE KnDelete([w EXCEPT !.kn[n].deleted = TRUE], n).k
         IN [v EXCEPT !.kn[n] = [NoKnote EXCEPT !.st = "freed"]]


\* knote_delete(): what kn_delete returns is ignored
KnoteDelete(w, n) ==
    IF w.kn[n].deleted THEN Result(-1, w)
    ELSE LET v == [w EXCEPT !.tree = @ \ {n}, !.kn[n].deleted = TRUE]
         IN Result(0, KnoteRelease(KnDelete(v, n).k, n))

\* knote_disable(): asserts that the knote is not disabled
KnoteDisable(w, n) == [KnDisable(w, n).k EXCEPT !.kn[n].flags = @ \cup {"DISABLE"}]

KnoteLookup(w, filter, ident) == {n \in w.tree : w.kn[n].filter = filter /\ w.kn[n].ident = ident}

\* filter_knote_create(): when kn_create fails, knote_release calls kn_delete
FilterKnoteCreate(w, n, c) ==
    LET v == [w EXCEPT !.kn[n] = [NoKnote EXCEPT !.st = "live", !.filter = c.filter,
                                    !.ident = c.ident, !.ref = 1,
                                    !.flags = (c.flags \ {"ENABLE"}) \cup {"ADD"}]]
        r == KnCreate(v, n)
    IN IF r.rv < 0 THEN Result(-1, KnoteRelease(r.k, n))
       ELSE Result(0, [r.k EXCEPT !.tree = @ \cup {n}])

\* kevent_copyin_one() of a change for which there is no knote
CopyinNew(w, c) ==
    IF "ADD" \notin c.flags THEN Result(-1, w)
    ELSE LET n == CHOOSE n \in Knotes : w.kn[n].st = "none"
             r == FilterKnoteCreate(w, n, c)
         IN IF r.rv = 0 /\ "DISABLE" \in c.flags THEN KnDisable(r.k, n) ELSE r

\* kevent_copyin_one() of a change for a knote
CopyinKnote(w, n, c) ==
    CASE "DELETE" \in c.flags -> KnoteDelete(w, n)
      [] "DELETE" \notin c.flags /\ "DISABLE" \in c.flags ->
           KnDisable([w EXCEPT !.kn[n].flags = @ \cup {"DISABLE"}], n)
      [] c.flags \cap {"DELETE", "DISABLE"} = {} /\ "ENABLE" \in c.flags ->
           KnEnable([w EXCEPT !.kn[n].flags = @ \ {"DISABLE"}], n)
      [] OTHER -> KnModify(w, n, "TRIGGER" \in c.flags)

CopyinOne(w, c) ==
    IF {"DISPATCH", "ONESHOT"} \subseteq c.flags THEN Result(-1, w)
    ELSE LET found == KnoteLookup(w, c.filter, c.ident)
         IN IF found = {} THEN CopyinNew(w, c) ELSE CopyinKnote(w, CHOOSE n \in found : TRUE, c)
-----------------------------------------------------------------------------
(* kevent().  EV_RECEIPT returns the status of the change in the only      *)
(* place of the event list, so that such a call does not wait.             *)

Enabled(n) == k.kn[n].st = "live" /\ "DISABLE" \notin k.kn[n].flags

\* knotes that c enables are counted anew
Recount(c, v) ==
    [n \in Knotes |-> IF k.kn[n].st = "none" \/ ({"ADD", "ENABLE"} \cap c.flags # {}
                                               /\ n \in KnoteLookup(v, c.filter, c.ident))
                      THEN 0 ELSE given[n]]

Change(c) ==
    /\ th[Waiter].pc = "idle" /\ mtx = NULL /\ ~aborted
    /\ calls < MaxCalls /\ calls' = calls + 1
    /\ ReEnable \/ "ENABLE" \notin c.flags
         \/ \A n \in KnoteLookup(k, c.filter, c.ident) : ~Enabled(n)
    /\ k' = CopyinOne(k, c).k
    /\ given' = Recount(c, k')
    /\ UNCHANGED <<changes, th, mtx, triggers, occurred, eof, aborted>>

\* _dispatch_mgr_wakeup(): NOTE_TRIGGER of a user event
Trigger(t, c) ==
    /\ c.filter = "USER"
    /\ mtx = NULL /\ ~aborted
    /\ triggers < MaxTriggers /\ triggers' = triggers + 1
    /\ k' = CopyinOne(k, [c EXCEPT !.flags = {"RECEIPT", "TRIGGER"}]).k
    /\ UNCHANGED <<changes, th, mtx, calls, occurred, eof, aborted, given>>

Ready == {d \in DOMAIN k.ep : /\ k.ep[d] # NULL
                              /\ k.ep[d].armed
                              /\ SourceOf(k, d) # NULL
                              /\ k.lev[SourceOf(k, d)]}

\* epoll_wait() returns at most nevents of the ready descriptors
Wait ==
    /\ th[Waiter].pc = "idle" /\ ~aborted
    /\ \E ds \in SUBSET Ready :
         /\ ds # {} /\ Cardinality(ds) <= MaxEvents
         /\ k' = [k EXCEPT !.ep = [d \in DOMAIN k.ep |->
                    IF d \in ds /\ (k.ep[d].oneshot \/ k.ep[d].edge)
                    THEN [k.ep[d] EXCEPT !.armed = FALSE] ELSE k.ep[d]]]
         /\ th' = [th EXCEPT ![Waiter] = [pc |-> "lock", batch |-> {<<d, k.ep[d].kn>> : d \in ds}]]
    /\ UNCHANGED <<changes, mtx, calls, triggers, occurred, eof, aborted, given>>

Lock ==
    /\ th[Waiter].pc = "lock" /\ mtx = NULL /\ mtx' = Waiter
    /\ th' = [th EXCEPT ![Waiter].pc = "copyout"]
    /\ UNCHANGED <<k, changes, calls, triggers, occurred, eof, aborted, given>>

\* linux_kevent_copyout(): one ready descriptor
Copyout ==
    /\ th[Waiter].pc = "copyout" /\ ~aborted
    /\ \E b \in th[Waiter].batch : \E r \in KfCopyout(k, b[2]) :
         LET n == b[2]
             dis == "DISPATCH" \in r.flags
             v == IF dis THEN KnoteDisable(r.k, n) ELSE r.k
             u == IF "ONESHOT" \in r.flags THEN KnoteDelete(v, n).k ELSE v
         IN /\ th' = [th EXCEPT ![Waiter].batch = @ \ {b}]
            /\ k' = u
            /\ aborted' = (r.rv < 0 \/ (dis /\ "DISABLE" \in r.k.kn[n].flags))
            /\ given' = IF r.discard THEN given ELSE [given EXCEPT ![n] = IF @ < 2 THEN @ + 1 ELSE @]
    /\ UNCHANGED <<changes, mtx, calls, triggers, occurred, eof>>

Unlock ==
    /\ th[Waiter].pc = "copyout" /\ th[Waiter].batch = {}
    /\ mtx' = NULL
    /\ th' = [th EXCEPT ![Waiter].pc = "idle"]
    /\ UNCHANGED <<k, changes, calls, triggers, occurred, eof, aborted, given>>

\* the descriptors and signals the changes are about
Used == {c.ident : c \in changes}

\* Data, a signal, a timer or a file event: a descriptor becomes readable, and
\* an edge triggered registration of it reports that once
Occur(s) ==
    /\ s \in Used \cap (Sockets \cup Signals) \/ (s \in Own /\ k.src[s] = s /\ k.ep[s] # NULL /\
                                        k.kn[k.ep[s].kn].filter \in {"TIMER", "VNODE"})
    /\ ~k.lev[s]
    /\ occurred < MaxTriggers /\ occurred' = occurred + 1
    /\ k' = [k EXCEPT !.lev[s] = TRUE,
                      !.ep = [d \in DOMAIN k.ep |->
                        IF k.ep[d] # NULL /\ SourceOf(k, d) = s /\ k.ep[d].edge
                        THEN [k.ep[d] EXCEPT !.armed = ~k.ep[d].oneshot \/ @] ELSE k.ep[d]]]
    /\ UNCHANGED <<changes, th, mtx, calls, triggers, eof, aborted, given>>

\* the program reads all of a socket, or a file up to its end
Drain(s) ==
    /\ s \in Used
    /\ \/ s \in Sockets /\ k.lev[s] /\ k' = [k EXCEPT !.lev[s] = FALSE] /\ UNCHANGED eof
       \/ s \in Files /\ ~eof[s] /\ eof' = [eof EXCEPT ![s] = TRUE] /\ UNCHANGED k
    /\ UNCHANGED <<changes, th, mtx, calls, triggers, occurred, aborted, given>>

Next ==
    \/ \E c \in changes : Change(c)
    \/ \E t \in Others, c \in changes : Trigger(t, c)
    \/ Wait \/ Lock \/ Copyout \/ Unlock
    \/ \E s \in Idents \cup Own : Occur(s) \/ Drain(s)

Spec == Init /\ [][Next]_vars
-----------------------------------------------------------------------------
\* The kernel never holds a pointer to a freed knote: each descriptor in the
\* epoll set is registered with a live knote that knows the descriptor, so that
\* linux_kevent_copyout() follows no stale pointer, does not abort, and does not
\* block in a read with the kqueue locked.
NoStaleKnote ==
    /\ ~aborted
    /\ \A d \in DOMAIN k.ep : k.ep[d] # NULL =>
         LET x == k.kn[k.ep[d].kn] IN x.st = "live" /\ d = IF x.fd = NULL THEN x.ident ELSE x.fd
    /\ \A b \in th[Waiter].batch : k.kn[b[2]].st = "live"

\* An event is not lost for good: a knote that is enabled has its descriptor in
\* the epoll set, whatever was done to other knotes.  (A regular file read to its
\* end is taken out, and is never watched again.)
EnabledIsWatched ==
    \A n \in k.tree : Enabled(n) /\ ~(k.kn[n].filter = "READ" /\ Regular(k.kn[n])) =>
      LET d == IF k.kn[n].fd = NULL THEN k.kn[n].ident ELSE k.kn[n].fd
      IN k.ep[d] # NULL /\ k.ep[d].kn = n

\* NOTE_TRIGGER of an enabled user event stays pending until kevent() returns it:
\* while the knote is triggered its eventfd is raised and in the epoll set.  This
\* is what _dispatch_mgr_wakeup() relies on.
TriggerPending ==
    \A n \in k.tree : k.kn[n].filter = "USER" /\ Enabled(n) /\ k.kn[n].trig =>
      k.kn[n].fd # NULL /\ k.kn[n].fd \in Ready

\* An EV_DISPATCH event is returned at most once until it is enabled again, and
\* an EV_ONESHOT event once.
DispatchOnce ==
    \A n \in Knotes : OneShot(k.kn[n]) => given[n] <= 1
=============================================================================
