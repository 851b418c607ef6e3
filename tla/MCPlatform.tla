----------------------------- MODULE MCPlatform ------------------------------
(***************************************************************************)
(* What libdispatch stands on, checked side by side: libpthread_workqueue  *)
(* and its work items; the kqueue emulation of libkqueue on Linux and on   *)
(* Windows, its trees, lists and table of kqueues; the work queues on      *)
(* Windows.  They share no state, and part says which of them a behaviour  *)
(* is about.                                                               *)
(***************************************************************************)
EXTENDS WorkQueue

CONSTANTS t1, t2,
          Parts   \* what is checked, see AllInit

VARIABLES part,
          cached, attr, workq, heap, func, cache, ilist, adds, ended,
          k, changes, th, kmtx, calls, triggers, occurred, eof, aborted, given,
          tree, kept, splay, members, answer, kind, mem, content,
          windows, initialised, kqmap, fds, tpc, id, kq, returned, made, filt, taborted,
          kn, wtree, iocp, buf, lock, cb, net, wanted, wchanges, events, bad,
          legacy_xp, item_listhead, caller, submitted, worker, todo, ran, lost

itemVars == <<cached, attr, workq, heap, func, cache, ilist, adds, ended>>
kqueueVars == <<k, changes, th, kmtx, calls, triggers, occurred, eof, aborted, given>>
treeVars == <<tree, kept>>
splayVars == <<splay, members, answer>>
listVars == <<kind, mem, content>>
tableVars == <<windows, initialised, kqmap, fds, tpc, id, kq, returned, made, filt, taborted>>
iocpVars == <<kn, wtree, iocp, buf, lock, cb, net, wanted, wchanges, events, bad>>
callbackVars == <<legacy_xp, item_listhead, caller, submitted, worker, todo, ran, lost>>

treesVars == <<treeVars, splayVars, listVars>>
posixVars == <<itemVars, kqueueVars, treesVars, tableVars>>
-----------------------------------------------------------------------------
Call(op, o, p) == [op |-> op, oc |-> o, prio |-> p]
Two == <<Call("create", FALSE, 0), Call("create", FALSE, 1)>>

\* two queues, and items of both; a suspended manager; overcommit queues
Ordinary == [c \in {1, 2} |->
    IF c = 1 THEN Two \o <<Call("add", FALSE, 1)>>
             ELSE <<Call("add", FALSE, 0)>>]
Suspended == [c \in {1, 2} |->
    IF c = 1 THEN <<Call("create", FALSE, 0), Call("add", FALSE, 0), Call("add", FALSE, 0)>>
             ELSE <<Call("suspend", FALSE, 0), Call("resume", FALSE, 0)>>]
Overcommit == [c \in {1, 2} |->
    IF c = 1 THEN <<Call("create", TRUE, 0), Call("add", TRUE, 0), Call("add", TRUE, 0),
                    Call("add", TRUE, 0)>>
             ELSE <<Call("create", TRUE, 1), Call("add", TRUE, 1), Call("add", TRUE, 1)>>]

AllPrograms == {Ordinary, Suspended, Overcommit}
MCClients == {1, 2}
MCPrios == {0, 1}
MCSpin == {0, 1}
MCNoSpin == {0}
MCOrdinary == {Ordinary}

Cache == INSTANCE WorkItems WITH list <- ilist, Threads <- {t1, t2}, Items <- 1 .. 3, Functions <- {"f"},
            Prios <- {0, 1, 3, 4}, MaxAdds <- 3

\* Changes to a knote of a filter: it is added in some way, enabled and deleted.
Change(f, i, fl) == [filter |-> f, ident |-> i, flags |-> fl]
Uses(f, i, how) ==
    {Change(f, i, {"ADD", "ENABLE"} \cup how), Change(f, i, {"ENABLE"}), Change(f, i, {"DELETE"})}
Changes ==
    {Uses("USER", "u1", {"CLEAR"}) \cup Uses("READ", "s1", {"DISPATCH"}),
     Uses("USER", "u1", {"DISPATCH"}) \cup Uses("READ", "f1", {"DISPATCH"}),
     Uses("READ", "s1", {"CLEAR"}) \cup Uses("WRITE", "s2", {"DISPATCH"})
       \cup {Change("WRITE", "s2", {"DISABLE"})},
     Uses("TIMER", "t1", {"ONESHOT"}) \cup Uses("SIGNAL", "g1", {"CLEAR"})
       \cup {Change("SIGNAL", "g1", {"DISABLE"})},
     Uses("VNODE", "v1", {"CLEAR"}) \cup Uses("USER", "u1", {"CLEAR"})
       \cup {Change("WRITE", "f1", {"ADD"}), Change("USER", "t1", {"ADD", "DISPATCH", "ONESHOT"})}}
Kq == INSTANCE KQueue WITH mtx <- kmtx, Waiter <- "w", Others <- {"o1"}, Scenarios <- Changes,
          Sockets <- {"s1", "s2"}, Files <- {"f1"}, Signals <- {"g1"}, Names <- {"v1", "u1", "t1"},
          Own <- {"d1", "d2", "d3", "d4", "d5", "d6"}, Knotes <- 1 .. 5, ReEnable <- FALSE, MaxCalls <- 4,
          MaxTriggers <- 2, MaxEvents <- 2
Tree == INSTANCE KnoteTree WITH Nodes <- 1 .. 8, SplayNodes <- 1 .. 6
Lists == INSTANCE BsdLists WITH Heads <- {"h1", "h2"}, Elements <- {"e1", "e2", "e3", "e4"}, NULL <- "null"
Table == INSTANCE KQueueTable WITH pc <- tpc, aborted <- taborted, Threads <- {t1, t2}, rlim_max <- 6,
             MaxKqueues <- 4

Filter(f, fl) == [filter |-> f, flags |-> fl]
Filters == {{Filter("USER", {"ONESHOT"})}, {Filter("USER", {}), Filter("TIMER", {"DISPATCH"})},
            {Filter("TIMER", {"ONESHOT"})}, {Filter("READ", {"DISPATCH"}), Filter("WRITE", {})}}
Iocp == INSTANCE WinKQueue WITH tree <- wtree, changes <- wchanges, Knotes <- 1 .. 5, Scenarios <- Filters,
            MaxChanges <- 5, MaxEvents <- 3
-----------------------------------------------------------------------------
Callback == INSTANCE WinWorkQueue WITH Queues <- {1, 2, 3}, Callers <- {t1, t2}, Workers <- {t1, t2},
                Items <- {11, 12, 13}
-----------------------------------------------------------------------------
AllInit ==
    /\ part \in Parts
    /\ Init /\ Cache!Init /\ Kq!Init /\ Tree!Init /\ Tree!SplayInit /\ Lists!Init /\ Table!Init /\ Iocp!Init /\ Callback!Init
    /\ part = "workqueue" \/ (prog = Ordinary /\ spin.max = 0)
    /\ part = "items" \/ cached
    /\ part = "kqueue" \/ Change("USER", "t1", {"ADD", "DISPATCH", "ONESHOT"}) \in changes
    /\ part = "lists" \/ kind = "LIST"
    /\ part = "table" \/ windows
    /\ part = "iocp" \/ wanted = {Filter("TIMER", {"ONESHOT"})}
    /\ part = "callback" \/ legacy_xp

PosixNext ==
    \/ part = "items" /\ Cache!Next /\ UNCHANGED <<kqueueVars, treesVars, tableVars>>
    \/ part = "kqueue" /\ Kq!Next /\ UNCHANGED <<itemVars, treesVars, tableVars>>
    \/ part = "tree" /\ Tree!Next /\ UNCHANGED <<itemVars, kqueueVars, splayVars, listVars, tableVars>>
    \/ part = "splay" /\ Tree!SplayNext /\ UNCHANGED <<itemVars, kqueueVars, treeVars, listVars, tableVars>>
    \/ part = "lists" /\ Lists!Next /\ UNCHANGED <<itemVars, kqueueVars, treeVars, splayVars, tableVars>>
    \/ part = "table" /\ Table!Next /\ UNCHANGED <<itemVars, kqueueVars, treesVars>>

AllNext ==
    /\ part' = part
    /\ \/ part = "workqueue" /\ Next /\ UNCHANGED <<posixVars, iocpVars, callbackVars>>
       \/ PosixNext /\ UNCHANGED <<vars, iocpVars, callbackVars>>
       \/ part = "iocp" /\ Iocp!Next /\ UNCHANGED <<vars, posixVars, callbackVars>>
       \/ part = "callback" /\ Callback!Next /\ UNCHANGED <<vars, posixVars, iocpVars>>

AllSpec == AllInit /\ [][AllNext]_<<part, vars, posixVars, iocpVars, callbackVars>>
-----------------------------------------------------------------------------
\* Items of one queue are taken in the order in which they were added, each once,
\* and every overcommit item that waits has a thread that is to take it.
ItemsServed == InOrder /\ OvercommitHasThread




\* The tree of knotes stays a balanced search tree with the knotes inserted and
\* not removed, as does a splay tree, and a descriptor is looked up to its kqueue.
KnotesFound ==
    /\ part = "tree" => Tree!IsOrderedSet /\ Tree!Balanced
    /\ part = "splay" => Tree!SplayOrdered
    /\ part = "table" => Table!LookupFinds

\* The elements of a list of queue.h are found in their order, forwards and
\* backwards, and its tail is where the next element is appended.
ListsAgree == part = "lists" => Lists!ListsAgree

=============================================================================
