# A TLA+ model of xdispatch

xdispatch is a port of Grand Central Dispatch: queues of blocks drained by
threads, semaphores, groups, event sources and timers, together with the two
libraries it needs outside Mac OS X (`libpthread_workqueue`, `libkqueue`), the
blocks runtime, and C++ and Qt wrappers. Almost everything in it is lock-free:
a few words changed by atomic instructions stand for locks, counters and lists.
This directory models those algorithms in TLA+, checks them with TLC on small
instances, and proves the most important properties with TLAPS for every value
of the constants.

## The system and its parts

| Part | State | Operations | Hard behaviours |
|---|---|---|---|
| Semaphores (`semaphore.c`) | `dsema_value`, `dsema_sent_ksignals`, kernel semaphore, reference counts | wait, timed wait, signal, release | timeouts racing signals; barging; waiter frees the semaphore under the signaller |
| Queues (`queue.c`, `object.c`) | list `dq_items_head/tail`, `do_next`; `dq_running`; `do_suspend_cnt`; references; `do_targetq` | async, sync, barriers, suspend, resume, retarget, release; wakeup, invoke, drain, redirect | many producers against one drain; two lock words changed independently; incomplete drains; the last block frees the queue |
| Root queues (`queue.c`) | list with a mediator, `dgq_pending`, pool size | push, concurrent drain, wakeup | hand-over between workers; workers that retire after 65 s |
| Groups (`semaphore.c`) | value, waiters, notify list | enter, leave, wait, notify | wake racing notify, wait and enter |
| Once, apply, time | predicate; index and counters; 64-bit time | `dispatch_once_f`, `dispatch_apply_f`, `dispatch_time` | racing initialisers; wrap-around |
| Sources, timers, manager queue (`source*.c`, `queue_kevent.c`) | source state words, kevent lists, ordered timer lists, manager queue | create, resume, merge, cancel, release, set timer; the manager loop | cancellation against events in flight; exactly one cancel handler |
| `libpthread_workqueue` | work queues by priority, pool counters, condition variables | add item, scan, worker, manager, overcommit | lost signals; idle workers against new items; counters that drift |
| `libkqueue` | knotes and their references, descriptor map, filters | kevent changes and delivery | one-shot, disabled and deleted knotes still in the ready list |
| Blocks runtime | reference counts of blocks and `__block` variables | copy, release | saturating counts |
| C++ and Qt wrappers | wrapper objects | forwarders to the C interface | lifetime of operations |

`PROJECT.json` lists all of them, with the sources, and the hazards met in them.

## Modules

### Semaphores: `DispatchSemaphore`, `CountingSemaphore`, `DispatchSemaphoreProofs`

`DispatchSemaphore` has one step per atomic instruction of
`dispatch_semaphore_wait()`, `dispatch_semaphore_signal()` and their slow paths,
and of `dispatch_release()`. `value`, `ksignals`, `ref` and `xref` are the fields
of the structure, `sem` the tokens of the POSIX semaphore, `signalled` and
`acquired` count completed signals and successful waits. A wait chooses one of
the three kinds of timeout; a timed sleep may end at any moment. Clients call the
semaphore only while they hold a reference.

`CountingSemaphore` is what the documentation promises: a counter of permits. The
refinement maps its permits to those nobody has taken yet; a signal takes effect
at its atomic increment, a wait when it returns 0.

### Queues: `DispatchQueue`

One private queue, its clients and the workers of its target queues. Every
atomic instruction, and every access to a field that another thread may be
writing, is a step. `head`, `tail`, `nxt` are the list, `running` and `suspend`
the two lock words, `ref`/`xref` the counts, `targetq` the target and `onq[q]`
says whether the queue is on the list of `q`. `pc` says where each thread is,
`ret` where a nested `_dispatch_wakeup()` returns. The thread semaphore of a
blocked client is the counter of permits that `CountingSemaphore` describes, and
the target queue is a list whose workers invoke what they find. The history
variables `pushed` and `popped` record the order of both ends.

Atomicity that is coarser than the code: `dispatch_release()` decrements the
external count and, if that was the last, the internal count in one step. The
external count is only read again by the disposal, which the internal reference
still held excludes; suspensions need a client that owns a reference.

The clients follow the documented rules: they call while they own a reference,
balance suspend and resume, and do not wait for a queue they have suspended.

### Root queues: `RootQueue`

A global queue, its producers and its worker threads. The list is the one of
`DispatchQueue`, but many workers take it apart at once: a worker exchanges
`dq_items_head` with a mediator, which is a lock for the others. Threads come
from `pthread_workqueue_additem_np()`, with `dgq_pending` limiting it to one
request at a time, or from a pool of `PoolSize` threads that sleep on a semaphore
and retire when it times out. Which of the two (`kworkqueue`) is decided by
`_dispatch_root_queues_init()`, under a `dispatch_once_f()` that is an instance of
`DispatchOnce`. A root queue on its own never has two threads in that call, since
nobody but the first producer wakes it up before it has a worker: the contention
comes from the other root queues, whose wakeups are the threads `Others`. The semaphore is
taken at the level of its value (`mvalue`) and of the wakeups promised to its
sleepers (`promised`), which is what `DispatchSemaphore` provides. Retaining and
releasing a global object changes nothing, and its suspend count is constant, so
waking up a root queue is `_dispatch_queue_wakeup_global()` alone.

### Groups: `DispatchGroup`

A group is a semaphore whose value starts at its maximum `Orig`. `waiters` is
`dsema_group_waiters`, `sem` the tokens of its POSIX semaphore, `head`, `tail`
and `nxt` the list of notifications; `owed`, `list` and `took` are the locals of
`_dispatch_group_wake()`. A block of `dispatch_group_async_f()` is a unit of
`blocks`, run by any thread that is idle, with the leave and the release that
`_dispatch_continuation_pop()` adds. `dispatch_group_notify_f()` stores the head
and loads the value with plain accesses: with `StoreBuffer` the store may become
visible after the load, as the x86 memory model allows; every atomic instruction
waits for it. `noted`, `fired` and `sawEmpty` are history variables.

The threads balance enter and leave and use the group only while they own a
reference.

### Once: `DispatchOnce`

The test in the macro, the compare and swap, the function, the publication of
`~0l` and the spin of the losers. Threads call as often as they like. The module
contains its proof; TLC runs it as a part of `RootQueue`.

### Apply: `DispatchApply`, `DispatchApplyProofs`

One call of `dispatch_apply_f()`: the queue and the number of iterations are
chosen in `Init`, so one run covers the early return, the serial fallback, a
concurrent queue and a root queue, on which the caller runs the first unit
itself. `index` is `da_index`, a machine word: it wraps round at `WordSize`. The
queue is reduced to starting each unit once, at any time.

## Runs

See `PROJECT.json` for the list. Passing runs:

- `semaphore`: three threads, initial value 1, at most three signals. Three threads
  are a waiter that times out, one that takes its wakeup and a signaller; three
  signals let the value cross zero repeatedly. Weak fairness of the steps inside a
  call (threads are scheduled preemptively, and a blocked `sem_wait()` with a token
  available returns); none is assumed for starting a call. Also checks the
  refinement of `CountingSemaphore`.
- `queue_serial`: width 1; two clients with two calls each among asynchronous,
  synchronous and suspending ones, two workers. Two producers and a drain that is
  interrupted are needed for every race of the list.
- `queue_concurrent`: width 4, barriers, readers and redirected blocks.
- `queue_life`: two targets, retargeting, suspension, and blocks that drop the last
  reference; a client that releases does so besides its counted calls. Weak
  fairness for threads inside the library and for the worker of the target, and
  clients that resume what they suspended.
- `root`: three producers with one item each, two workers, a pool of one, and one
  thread that initialises the queues on behalf of another one. One worker can hold
  the mediator while the other meets it or finds the queue empty, and a producer
  finds the pool full while its only thread retires. Weak fairness of threads inside
  a call and of threads that were asked for; sleepers need not time out.
- `group`: two threads that wait or register notifications and one that submits
  a block, all of which may drop their references, with stores delayed. The list
  has up to three notifications, and a second wait can meet the tokens left over
  from the first.
- `group_live`: waits and notifications against two calls of a third thread. Weak
  fairness of every thread: what was entered is left, blocks are run.
- `apply`: up to four iterations, three processors, three kinds of queue. Fewer
  iterations than processors, as many and more all occur.

Violation runs, each the subject of a finding:

- `queue_overlap`: two `dispatch_sync()` blocks of one serial queue overlap,
  because the suspend count is tested before the lock is taken.
- `queue_redirect`: a redirected block is written through a null continuation
  when the worker's cache is not empty.
- `group_early`: a notification registered after the group was entered again is
  submitted by a wake that still walks the list.
- `group_lost`: a notification is not submitted when its store is delayed past the
  load of the value. With stores that are visible at once the same property holds
  (`group_live`).

Three more divergences were met while modelling, and no run is kept for them: a
waiter that arrives later may take the wakeup promised to one that sleeps
(`semaphore.c:215`; `semaphore.h` says that waits are served in FIFO order);
synchronous readers are not held back by the width of a queue (`queue.c:952`); and
a group wait that took a stale token counts itself twice and withdraws once after a
timeout (`semaphore.c:537`, `597`; `group.h` says that the group is restored).

`queue_serial` checks the weaker `OnlyStaleSyncOverlaps`, which says exactly
which blocks may overlap; `queue_concurrent` allows one client only to call
synchronously, and there `OneBlockAtATime` holds.

## Proofs

`DispatchSemaphoreProofs` proves, for any finite set of threads, any initial value
and any number of signals, that `Spec` implies the invariants `TypeOK`,
`NoLostWakeup`, `WaitersAccounted`, `Conservation`, `NoUseAfterFree` and
`DisposeDetectsUse`, and that it implements `CountingSemaphore`. None of them is
inductive alone. The inductive invariant `Inv` is their conjunction with the
reference account and the fact that a waiter owns a reference: the number of
waiters is needed to see that a promise is always matched by a waiter, the tokens
to see that the waiter is not left asleep. All accounts count the threads at a set
of labels; `CountMove` says how such a count changes when one thread moves, and
`Accounts` collects the counts the invariant uses, so that every action reduces to
linear arithmetic.

`DispatchOnce` proves, for any set of threads, that the function runs at most once
and before any call returns. `Inv` ties the value of the predicate to the position
of the one winner: at 1 there is exactly one thread between the compare and swap
and the publication, and nobody has returned.

`DispatchApplyProofs` proves, for any number of iterations and processors and any
queue, that each index is done exactly once (`IndexOnce`) and that no unit is
running when the call returns (`FrameSafe`). `Accounts` says that `da_thr_cnt` is the
number of units that have not left, that the signal is given once and by the last
one, that `da_index` exceeds the iterations by no more than the units that have seen
it do so, and that an index is taken, by one unit or one completed call, exactly
when it is below the counter. The bound on `da_index` needs `WordAssumption`: the
iterations plus the number of units do not reach the size of a word.

Liveness under fairness, and the properties of the queues and groups, are
model-checked only.

## Not modelled

Mach and Win32 variants, debugging output, benchmarks and the loading of
`/proc` statistics have no shared state of interest. `PROJECT.json` gives the
status of each component.

## Plan

1. `DispatchQueue`: prove the accounts of both lock words and the reference count;
   `RootQueue`: prove `OneOwner` and `FIFO`; `DispatchGroup`: prove `SleepersCovered`.
2. The workqueue manager of `libpthread_workqueue`, with and without overcommit.
3. Time arithmetic, `dispatch_after`, the main queue.
4. Sources, timers and the manager queue; `libkqueue` knotes underneath them.
5. The blocks runtime and the reference counting of the wrappers.
6. An abstract executor (blocks of a serial queue one after the other, in order)
   implemented by `DispatchQueue` over `RootQueue`.
