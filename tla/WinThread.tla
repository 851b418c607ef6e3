------------------------------ MODULE WinThread ------------------------------
(***************************************************************************)
(* pthread_create(), join, detach, cancellation and pthread_once() on      *)
(* Windows (platform/windows/pthread_create.h).  Each thread has a creator *)
(* that joins, detaches or cancels it.  tv is the struct _pthread_v of a   *)
(* thread: its handle h is "init" for -1, "null" for 0.                    *)
(*                                                                         *)
(* And thread-specific data (pthread_tls.h): the table _pthread_key_dest   *)
(* of destructors, indexed by key from 0, with "free" for NULL and "none"  *)
(* for a key without a destructor, and the values of each thread.  Keys    *)
(* are created and deleted under _pthread_key_lock.  A behaviour is about  *)
(* threads (Next) or about keys (KeysNext).                                *)
(***************************************************************************)
EXTENDS Integers, Sequences, FiniteSets, FiniteSetsExt

CONSTANTS Threads,       \* threads that are created
          Requests,      \* what is asked of pthread_attr_setdetachstate() and pthread_setcanceltype()
          MaxFailures,   \* _beginthreadex() calls that fail
          MaxCancels,    \* pthread_cancel() calls for a thread
          KeyThreads, Values, Destructors, \* threads that use keys, and what they use
          PTHREAD_KEYS_MAX, PTHREAD_DESTRUCTOR_ITERATIONS, MaxCreates, NULL

VARIABLES tv, main, run, _pthread_cancelling, cancels, failures, once, inits, uaf, tls,
          dest, key_max, key_sch, keyval, live, creates, exiting, round, called

threads == <<tv, main, run, _pthread_cancelling, cancels, failures, once, inits, uaf, tls>>
keys == <<dest, key_max, key_sch, keyval, live, creates, exiting, round, called>>
vars == <<threads, keys>>

\* p_state is a set of flags
ENABLE == {"PTHREAD_CANCEL_ENABLE"}
ASYNCHRONOUS == {"PTHREAD_CANCEL_ASYNCHRONOUS"}
DETACHED == {"PTHREAD_CREATE_DETACHED"}
PTHREAD_DEFAULT_ATTR == ENABLE

\* a value outside of the flag is refused with EINVAL
_pthread_set_state(p, flag, val) == IF val \subseteq flag THEN (p \ flag) \cup val ELSE p

\* pthread_attr_init(), then pthread_attr_setdetachstate(); the thread's cancel
\* type is set by the same rule
Attr(req) ==
    _pthread_set_state(_pthread_set_state(PTHREAD_DEFAULT_ATTR, DETACHED, req.detach),
                       ASYNCHRONOUS, req.type)

NoThread == [st |-> "none", h |-> "init", p_state |-> {}, cancelled |-> FALSE,
             clean |-> FALSE, ret |-> "arg"]

Init ==
    /\ tv = [t \in Threads |-> NoThread]
    /\ main = [t \in Threads |-> "none"]
    /\ run = [t \in Threads |-> "off"]
    /\ _pthread_cancelling = 0
    /\ cancels = [t \in Threads |-> 0] /\ failures = 0
    /\ once = 0 /\ inits = 0
    /\ uaf = FALSE
    /\ tls = [once |-> 0, allocs |-> 0]
    /\ dest = <<>> /\ key_max = 0 /\ key_sch = 0
    /\ keyval = [t \in KeyThreads |-> <<>>]
    /\ live = {}
    /\ creates = 0
    /\ exiting = [t \in KeyThreads |-> "no"]
    /\ round = [t \in KeyThreads |-> 0]
    /\ called = FALSE

\* an access to the struct of t
Touch(t) == uaf' = (uaf \/ tv[t].st = "freed")
Has(t, flag) == flag \subseteq tv[t].p_state
-----------------------------------------------------------------------------
(* The creating thread.                                                    *)

Create(t, req) ==
    /\ main[t] = "none" /\ main' = [main EXCEPT ![t] = "begin"]
    /\ tv' = [tv EXCEPT ![t] = [NoThread EXCEPT !.st = "live", !.p_state = Attr(req)]]
    /\ UNCHANGED <<run, _pthread_cancelling, cancels, failures, once, inits, uaf, tls>>

\* _beginthreadex(): the thread runs before its handle is stored
BeginThread(t) ==
    /\ main[t] = "begin"
    /\ \/ /\ main' = [main EXCEPT ![t] = "store"] /\ run' = [run EXCEPT ![t] = "start"]
          /\ UNCHANGED <<tv, failures>>
       \/ /\ failures < MaxFailures /\ failures' = failures + 1
          /\ main' = [main EXCEPT ![t] = "failed"] /\ tv' = [tv EXCEPT ![t].h = "null"]
          /\ UNCHANGED run
    /\ UNCHANGED <<_pthread_cancelling, cancels, once, inits, uaf, tls>>

StoreHandle(t) ==
    /\ main[t] = "store" /\ Touch(t)
    /\ tv' = [tv EXCEPT ![t].h = "handle"]
    /\ main' = [main EXCEPT ![t] = IF Has(t, DETACHED) THEN "close" ELSE "joinable"]
    /\ UNCHANGED <<run, _pthread_cancelling, cancels, failures, once, inits, tls>>

\* pthread_detach(), which "can't race with thread exit", and the end of
\* pthread_create() of a detached thread: the handle is closed, then cleared
Detach(t) ==
    /\ main[t] = "joinable" /\ run[t] # "end" /\ Touch(t)
    /\ main' = [main EXCEPT ![t] = "close"]
    /\ UNCHANGED <<tv, run, _pthread_cancelling, cancels, failures, once, inits, tls>>
ClearHandle(t) ==
    /\ main[t] = "close" /\ Touch(t)
    /\ tv' = [tv EXCEPT ![t].h = "null"]
    /\ main' = [main EXCEPT ![t] = "detached"]
    /\ UNCHANGED <<run, _pthread_cancelling, cancels, failures, once, inits, tls>>

\* pthread_join(): WaitForSingleObject() returns when the thread has ended
Join(t) ==
    /\ main[t] = "joinable" /\ run[t] = "end" /\ Touch(t)
    /\ tv' = [tv EXCEPT ![t].st = "freed"]
    /\ main' = [main EXCEPT ![t] = "joined"]
    /\ UNCHANGED <<run, _pthread_cancelling, cancels, failures, once, inits, tls>>

\* pthread_cancel(), deferred: the flag, then the count everyone looks at
Cancel(t) ==
    /\ main[t] = "joinable" /\ ~Has(t, ASYNCHRONOUS)
    /\ cancels[t] < MaxCancels /\ cancels' = [cancels EXCEPT ![t] = @ + 1]
    /\ tv' = [tv EXCEPT ![t].cancelled = TRUE] /\ Touch(t)
    /\ main' = [main EXCEPT ![t] = "notify"]
    /\ UNCHANGED <<run, _pthread_cancelling, failures, once, inits, tls>>
CancelNotify(t) ==
    /\ main[t] = "notify" /\ main' = [main EXCEPT ![t] = "joinable"]
    /\ _pthread_cancelling' = _pthread_cancelling + 1
    /\ UNCHANGED <<tv, run, cancels, failures, once, inits, uaf, tls>>

\* pthread_cancel(), asynchronous: the suspended thread goes on in
\* _pthread_invoke_cancel(); a thread that has ended has no context to set
AsyncCancel(t) ==
    /\ main[t] = "joinable" /\ Has(t, ASYNCHRONOUS) /\ ~tv[t].cancelled /\ Touch(t)
    /\ cancels[t] < MaxCancels /\ cancels' = [cancels EXCEPT ![t] = @ + 1]
    /\ tv' = [tv EXCEPT ![t].cancelled = TRUE]
    /\ _pthread_cancelling' = _pthread_cancelling + 1
    /\ run' = [run EXCEPT ![t] = IF @ = "end" THEN @ ELSE "cancel"]
    /\ UNCHANGED <<main, failures, once, inits, tls>>
-----------------------------------------------------------------------------
(* The threads: func() calls pthread_once() and tests for cancellation.    *)

\* _pthread_once_raw(&_pthread_tls_once, pthread_tls_init): the first thread
\* allocates the index that pthread_self() uses, the others spin
TlsEnter(t) ==
    /\ run[t] = "start" /\ tls.once = 0
    /\ tls' = [once |-> 2, allocs |-> tls.allocs + 1]
    /\ run' = [run EXCEPT ![t] = "tls"]
    /\ UNCHANGED <<tv, main, _pthread_cancelling, cancels, failures, once, inits, uaf>>
TlsMark(t) ==
    /\ run[t] = "tls" /\ tls' = [tls EXCEPT !.once = 1]
    /\ run' = [run EXCEPT ![t] = "body"]
    /\ UNCHANGED <<tv, main, _pthread_cancelling, cancels, failures, once, inits, uaf>>
TlsSeen(t) ==
    /\ run[t] = "start" /\ tls.once = 1
    /\ run' = [run EXCEPT ![t] = "body"]
    /\ UNCHANGED <<tv, main, _pthread_cancelling, cancels, failures, once, inits, uaf, tls>>

\* pthread_testcancel() looks at the thread only while something is cancelled
Seen(t) == _pthread_cancelling # 0 /\ tv[t].cancelled /\ Has(t, ENABLE)

TestCancel(t) ==
    /\ run[t] \in {"body", "init"} /\ Seen(t) /\ Touch(t)
    /\ run' = [run EXCEPT ![t] = "cancel"]
    /\ UNCHANGED <<tv, main, _pthread_cancelling, cancels, failures, once, inits, tls>>

\* pthread_setcancelstate()
SetCancelState(t) ==
    /\ run[t] = "body" /\ cancels[t] = 0
    /\ \E state \in SUBSET ENABLE :
         tv' = [tv EXCEPT ![t].p_state = _pthread_set_state(@, ENABLE, state)]
    /\ Touch(t)
    /\ UNCHANGED <<main, run, _pthread_cancelling, cancels, failures, once, inits, tls>>

\* pthread_once(): the thread that changes 0 to 2 pushes the cleanup and calls
\* func; the others spin until they see 1
OnceEnter(t) ==
    /\ run[t] = "body" /\ once = 0 /\ once' = 2
    /\ tv' = [tv EXCEPT ![t].clean = TRUE]
    /\ run' = [run EXCEPT ![t] = "init"]
    /\ UNCHANGED <<main, _pthread_cancelling, cancels, failures, inits, uaf, tls>>
OncePop(t) ==
    /\ run[t] = "init" /\ inits' = inits + 1
    /\ tv' = [tv EXCEPT ![t].clean = FALSE]
    /\ run' = [run EXCEPT ![t] = "mark"]
    /\ UNCHANGED <<main, _pthread_cancelling, cancels, failures, once, uaf, tls>>
OnceMark(t) ==
    /\ run[t] = "mark" /\ once' = 1
    /\ run' = [run EXCEPT ![t] = "work"]
    /\ UNCHANGED <<tv, main, _pthread_cancelling, cancels, failures, inits, uaf, tls>>
OnceSeen(t) ==
    /\ run[t] = "body" /\ once = 1
    /\ run' = [run EXCEPT ![t] = "work"]
    /\ UNCHANGED <<tv, main, _pthread_cancelling, cancels, failures, once, inits, uaf, tls>>

\* _pthread_invoke_cancel() asks pthread_self(); _pthread_once_cleanup() sets the control back to 0
InvokeCancel(t) ==
    /\ run[t] = "cancel" /\ tls.once = 1 /\ Touch(t)
    /\ _pthread_cancelling' = _pthread_cancelling - 1
    /\ once' = IF tv[t].clean THEN 0 ELSE once
    /\ tv' = [tv EXCEPT ![t].ret = "PTHREAD_CANCELED"]
    /\ run' = [run EXCEPT ![t] = "exit"]
    /\ UNCHANGED <<main, cancels, failures, inits, tls>>

\* func() returns, or calls pthread_exit()
Return(t) ==
    /\ run[t] = "work" /\ Touch(t)
    /\ tv' = [tv EXCEPT ![t].ret = "result"]
    /\ run' = [run EXCEPT ![t] = "exit"]
    /\ UNCHANGED <<main, _pthread_cancelling, cancels, failures, once, inits, tls>>


\* the end of pthread_create_wrapper()
WrapperEnd(t) ==
    /\ run[t] = "exit" /\ tv[t].h # "init" /\ Touch(t)
    /\ tv' = IF tv[t].h = "null" THEN [tv EXCEPT ![t].st = "freed"] ELSE tv
    /\ run' = [run EXCEPT ![t] = "end"]
    /\ UNCHANGED <<main, _pthread_cancelling, cancels, failures, once, inits, tls>>

Step(t) ==
    \/ TlsEnter(t) \/ TlsMark(t) \/ TlsSeen(t) \/ TestCancel(t) \/ OnceEnter(t) \/ OncePop(t) \/ OnceMark(t) \/ OnceSeen(t)
    \/ InvokeCancel(t) \/ Return(t) \/ WrapperEnd(t)

ThreadNext ==
    \E t \in Threads :
       \/ \E req \in Requests : Create(t, req)
       \/ BeginThread(t) \/ StoreHandle(t) \/ Detach(t) \/ ClearHandle(t) \/ Join(t)
       \/ Cancel(t) \/ CancelNotify(t) \/ AsyncCancel(t) \/ SetCancelState(t) \/ Step(t)

Next == ThreadNext /\ UNCHANGED keys
-----------------------------------------------------------------------------
(* Keys.                                                                   *)

\* keys are indices from 0, sequences begin at 1
Slot(i) == dest[i + 1]
FreeSlots(from, to) == {i \in from..(to - 1) : Slot(i) = "free"}
First(S) == CHOOSE i \in S : \A j \in S : i <= j

\* the slot that is found: from key_sch on, and else from the beginning
Found ==
    IF FreeSlots(key_sch, key_max) # {} THEN {First(FreeSlots(key_sch, key_max))}
    ELSE IF FreeSlots(0, key_sch) # {} THEN {First(FreeSlots(0, key_sch))} ELSE {}

\* the table doubled; when it was empty its first slot is left uninitialized
Grown(garbage) ==
    LET max == IF key_max = 0 THEN 1 ELSE key_max
        nmax == IF max * 2 > PTHREAD_KEYS_MAX THEN PTHREAD_KEYS_MAX ELSE max * 2
    IN (IF key_max = 0 THEN <<garbage>> ELSE dest) \o [i \in 1..(nmax - max) |-> "free"]

KeyCreate(t, d) ==
    /\ exiting[t] = "no" /\ creates < MaxCreates /\ creates' = creates + 1
    /\ \/ /\ Found # {}
          /\ LET key == CHOOSE i \in Found : TRUE
             IN /\ dest' = [dest EXCEPT ![key + 1] = d]
                /\ live' = live \cup {key}
                /\ called' = (called \/ key \in live)
          /\ UNCHANGED <<key_max, key_sch>>
       \/ /\ Found = {} /\ key_max < PTHREAD_KEYS_MAX
          /\ \E garbage \in {"free", "none"} :
               LET key == IF key_max = 0 THEN 1 ELSE key_max
               IN /\ dest' = [Grown(garbage) EXCEPT ![key + 1] = d]
                  /\ key_max' = Len(Grown(garbage))
                  /\ key_sch' = key + 1
                  /\ live' = live \cup {key}
                  /\ called' = (called \/ key \in live)
    /\ UNCHANGED <<keyval, exiting, round>>

KeyDelete(t, key) ==
    /\ exiting[t] = "no" /\ key \in live
    /\ dest' = [dest EXCEPT ![key + 1] = "free"]
    /\ key_sch' = IF key_sch > key THEN key ELSE key_sch
    /\ live' = live \ {key}
    /\ UNCHANGED <<key_max, keyval, creates, exiting, round, called>>

\* the values grow to twice what the key needs
SetSpecific(t, key, v) ==
    /\ exiting[t] = "no" /\ key \in live
    /\ LET old == keyval[t]
           new == IF key >= Len(old) THEN old \o [i \in 1..((key + 1) * 2 - Len(old)) |-> NULL] ELSE old
       IN keyval' = [keyval EXCEPT ![t] = [new EXCEPT ![key + 1] = v]]
    /\ UNCHANGED <<dest, key_max, key_sch, live, creates, exiting, round, called>>

GetSpecific(t, key) == IF key >= Len(keyval[t]) THEN NULL ELSE keyval[t][key + 1]

\* _pthread_cleanup_dest(): one pass over the values of a thread that exits; the
\* destructor "again" sets its value once more
HasDestructor(i) == i <= Len(dest) /\ dest[i] \in Destructors

Pass(t) ==
    LET due == {i \in DOMAIN keyval[t] : keyval[t][i] # NULL /\ HasDestructor(i)}
    IN /\ exiting[t] # "done" /\ round[t] < PTHREAD_DESTRUCTOR_ITERATIONS
       /\ keyval' = [keyval EXCEPT ![t] =
                       [i \in DOMAIN @ |-> IF i \in due /\ dest[i] # "again" THEN NULL ELSE @[i]]]
       /\ round' = [round EXCEPT ![t] = @ + 1]
       /\ exiting' = [exiting EXCEPT ![t] =
                        IF due = {} \/ round[t] + 1 = PTHREAD_DESTRUCTOR_ITERATIONS THEN "done" ELSE "pass"]
       /\ UNCHANGED <<dest, key_max, key_sch, live, creates, called>>

KeyStep ==
    \E t \in KeyThreads :
      \/ \E d \in Destructors \cup {"none"} : KeyCreate(t, d)
      \/ \E key \in live : KeyDelete(t, key) \/ \E v \in Values \cup {NULL} : SetSpecific(t, key, v)
      \/ Pass(t)

KeysNext == KeyStep /\ UNCHANGED threads
-----------------------------------------------------------------------------
\* The struct of a thread is freed by pthread_join() or by the end of a detached
\* thread, and neither thread reads or writes it afterwards: the two agree through
\* the handle alone, which the wrapper waits for.
ThreadStructAlive == ~uaf

\* A thread with a cancellation request is found by pthread_testcancel(): the
\* count that every test reads first stays at least the number of requests that
\* are waiting, less those pthread_cancel() is about to count.
CancelNoticed ==
    Cardinality({t \in Threads : tv[t].cancelled /\ run[t] \in {"body", "init", "mark", "work", "cancel"}})
      <= _pthread_cancelling + Cardinality({t \in Threads : main[t] = "notify"})

\* pthread_once(), and _pthread_once_raw() for the index of the thread structs,
\* runs the routine to its end once, by one thread, and a
\* cancelled routine is not left claimed: the control is 2 only while a
\* thread is inside.  (Asynchronous cancellation between the pop of the cleanup
\* and the store of 1 leaves it claimed for ever, as the code notes.)
OnceClaimed ==
    /\ inits <= 1 /\ (once = 1 => inits = 1) /\ tls.allocs <= 1
    /\ once = 2 =>
         \E t \in Threads : \/ run[t] \in {"init", "mark"}
                            \/ run[t] = "cancel" /\ tv[t].clean
                            \/ Has(t, ASYNCHRONOUS) /\ tv[t].cancelled /\ inits = 1

\* pthread_key_create() never returns a key that is in use, whatever keys were
\* deleted before and whatever the table contained when it was allocated, and each
\* key in use has its slot in the table.
KeysDistinct ==
    /\ ~called
    /\ Len(dest) = key_max
    /\ \A key \in live : key < key_max /\ Slot(key) # "free"

\* When a thread has exited no value with a destructor is left, unless the
\* destructors set values again in every pass.
DestructorsRan ==
    [][\A t \in KeyThreads : exiting[t] # "done" /\ exiting'[t] = "done"
                           /\ round'[t] < PTHREAD_DESTRUCTOR_ITERATIONS =>
         \A key \in live : Slot(key) \in Destructors => GetSpecific(t, key)' = NULL]_keys
=============================================================================
