---------------------------- MODULE XSynchronized ----------------------------
(***************************************************************************)
(* The synchronized {} areas of xdispatch (synchronized.h,                 *)
(* synchronized.cpp): a static semaphore object whose native semaphore is  *)
(* replaced by the first thread through once::simple(), and a scope_lock   *)
(* that is left at the end of the area, by break, return or an exception,  *)
(* or released by hand.                                                    *)
(***************************************************************************)
EXTENDS Integers, FiniteSetTheorems, TLAPS

CONSTANTS AreaThreads,
          MaxEntries   \* bound on how often each thread enters

VARIABLES m_native,    \* the native semaphore of the static object: 0 none, 1, 2
          value, refs, \* of the native semaphores 1 (static) and 2 (by once)
          simple_once, \* the thread that runs the once function, 0 or ~0
          xpc, entries,
          sem,         \* the native semaphore that a thread waits for or holds
          active       \* _lock_active of its scope_lock

areaVars == <<m_native, value, refs, simple_once, xpc, entries, sem, active>>

Go(t, l) == xpc' = [xpc EXCEPT ![t] = l]

AreaInit ==
    /\ m_native = 0
    /\ value = <<0, 0>> /\ refs = <<0, 0>>
    /\ simple_once = "0"
    /\ xpc = [t \in AreaThreads |-> "outside"] /\ entries = [t \in AreaThreads |-> 0]
    /\ sem = [t \in AreaThreads |-> 0] /\ active = [t \in AreaThreads |-> FALSE]

\* The static semaphore is constructed with its default value of 1 by the thread
\* that comes first.
Enter(t) ==
    /\ xpc[t] = "outside" /\ entries[t] < MaxEntries
    /\ entries' = [entries EXCEPT ![t] = @ + 1]
    /\ IF m_native = 0
       THEN /\ m_native' = 1
            /\ value' = [value EXCEPT ![1] = 1] /\ refs' = [refs EXCEPT ![1] = 1]
       ELSE UNCHANGED <<m_native, value, refs>>
    /\ Go(t, "once")
    /\ UNCHANGED <<simple_once, sem, active>>

unmoved == <<m_native, value, refs, entries, sem, active>>

\* once::simple(): dispatch_once_f()
RunOnce(t) ==
    /\ xpc[t] = "once"
    /\ \/ simple_once = "0" /\ simple_once' = "running" /\ Go(t, "init")
       \/ simple_once = "done" /\ UNCHANGED simple_once /\ Go(t, "construct")
    /\ UNCHANGED unmoved

\* init_semaphore_for_scope_lock(): a new native semaphore is assigned, which
\* retains it, and the temporary releases it; the one before stays behind
InitSemaphore(t) ==
    /\ xpc[t] = "init"
    /\ m_native' = 2
    /\ value' = [value EXCEPT ![2] = 1] /\ refs' = [refs EXCEPT ![2] = 1]
    /\ simple_once' = "done"
    /\ Go(t, "construct")
    /\ UNCHANGED <<entries, sem, active>>

\* scope_lock(semaphore const&): acquire()
Construct(t) ==
    /\ xpc[t] = "construct"
    /\ sem' = [sem EXCEPT ![t] = m_native] /\ active' = [active EXCEPT ![t] = TRUE]
    /\ Go(t, "acquire")
    /\ UNCHANGED <<m_native, value, refs, simple_once, entries>>

Acquire(t) ==
    /\ xpc[t] = "acquire"
    /\ value[sem[t]] > 0
    /\ value' = [value EXCEPT ![sem[t]] = @ - 1]
    /\ Go(t, "inside")
    /\ UNCHANGED <<m_native, refs, simple_once, entries, sem, active>>

\* release(), at the end of the area or by hand: nothing when already released
Release(t) ==
    /\ xpc[t] = "inside"
    /\ IF active[t]
       THEN value' = [value EXCEPT ![sem[t]] = @ + 1] /\ active' = [active EXCEPT ![t] = FALSE]
       ELSE UNCHANGED <<value, active>>
    /\ xpc' \in {[xpc EXCEPT ![t] = l] : l \in {"inside", "destroy"}}
    /\ UNCHANGED <<m_native, refs, simple_once, entries, sem>>

\* break, return or an exception
Abandon(t) ==
    /\ xpc[t] = "inside"
    /\ Go(t, "destroy")
    /\ UNCHANGED <<simple_once, unmoved>>

\* Mutant: the destructor releases whatever _lock_active says.
DestroyAlways(t) ==
    /\ xpc[t] = "destroy"
    /\ value' = [value EXCEPT ![sem[t]] = @ + 1]
    /\ active' = [active EXCEPT ![t] = FALSE] /\ sem' = [sem EXCEPT ![t] = 0]
    /\ Go(t, "outside")
    /\ UNCHANGED <<m_native, refs, simple_once, entries>>

\* ~scope_lock()
Destroy(t) ==
    /\ xpc[t] = "destroy"
    /\ value' = IF active[t] THEN [value EXCEPT ![sem[t]] = @ + 1] ELSE value
    /\ active' = [active EXCEPT ![t] = FALSE] /\ sem' = [sem EXCEPT ![t] = 0]
    /\ Go(t, "outside")
    /\ UNCHANGED <<m_native, refs, simple_once, entries>>

AreaNext ==
    \E t \in AreaThreads :
      \/ Enter(t) \/ RunOnce(t) \/ InitSemaphore(t) \/ Construct(t) \/ Acquire(t)
      \/ Release(t) \/ Abandon(t) \/ Destroy(t)

AreaSpec == AreaInit /\ [][AreaNext]_areaVars
-----------------------------------------------------------------------------
(* Properties.                                                             *)

\* Those that are in the area and have its permit.
Holders == {t \in AreaThreads : xpc[t] \in {"inside", "destroy"} /\ active[t]}

\* One thread at most is inside a synchronized area and has not released it, they
\* all use the semaphore that is there to stay, and its one permit comes back
\* however the area is left (~scope_lock(), scope_lock::release()).
AreaExclusive ==
    /\ Cardinality(Holders) <= 1
    /\ simple_once = "done" => value[m_native] + Cardinality(Holders) = 1 /\ refs[m_native] = 1
    /\ \A t \in AreaThreads : sem[t] # 0 => sem[t] = m_native
-----------------------------------------------------------------------------
(* Proofs, for any set of threads and any number of entries.               *)

\* Where a thread has a scope_lock.
Locked == {"acquire", "inside", "destroy"}

\* The types.
AreaTypeOK ==
    /\ m_native \in {0, 1, 2}
    /\ value \in [{1, 2} -> Nat] /\ refs \in [{1, 2} -> Nat]
    /\ simple_once \in {"0", "running", "done"}
    /\ xpc \in [AreaThreads -> {"outside", "once", "init", "construct"} \cup Locked]
    /\ sem \in [AreaThreads -> {0, 1, 2}] /\ active \in [AreaThreads -> BOOLEAN]

\* The inductive invariant: the once function runs in one thread, and before it has
\* ended nobody has looked at the semaphore; from then on there is the second one
\* only, whose permit is there unless a thread holds it.
IInv ==
    /\ AreaTypeOK
    /\ \A t \in AreaThreads :
         /\ xpc[t] = "init" => simple_once = "running"
         /\ xpc[t] \in {"construct"} \cup Locked => simple_once = "done"
         /\ sem[t] = IF xpc[t] \in Locked THEN 2 ELSE 0
         /\ active[t] => xpc[t] \in Locked
         /\ xpc[t] = "acquire" => active[t]
    /\ \A t, u \in AreaThreads : xpc[t] = "init" /\ xpc[u] = "init" => t = u
    /\ simple_once = "done" => m_native = 2 /\ refs[2] = 1
    /\ \A t, u \in Holders : t = u
    /\ simple_once = "done" => value[2] = IF Holders = {} THEN 1 ELSE 0

\* Before any thread has come to the area the invariant holds.
LEMMA InitInvariant == AreaInit => IInv
BY DEF AreaInit, IInv, AreaTypeOK, Holders, Locked

\* Every step of a thread into, in or out of the area preserves it.
LEMMA NextInvariant == IInv /\ [AreaNext]_areaVars => IInv'
<1> SUFFICES ASSUME IInv, [AreaNext]_areaVars PROVE IInv'
  OBVIOUS
<1> USE DEF IInv, AreaTypeOK, Locked
<1>1. ASSUME NEW t \in AreaThreads, Enter(t) PROVE IInv'
  BY <1>1 DEF Enter, Go, Holders
<1>2. ASSUME NEW t \in AreaThreads, RunOnce(t) PROVE IInv'
  BY <1>2 DEF RunOnce, Go, unmoved, Holders
<1>3. ASSUME NEW t \in AreaThreads, InitSemaphore(t) PROVE IInv'
  BY <1>3 DEF InitSemaphore, Go, Holders
<1>4. ASSUME NEW t \in AreaThreads, Construct(t) PROVE IInv'
  BY <1>4 DEF Construct, Go, Holders
<1>5. ASSUME NEW t \in AreaThreads, Acquire(t) PROVE IInv'
  BY <1>5 DEF Acquire, Go, Holders
<1>6. ASSUME NEW t \in AreaThreads, Release(t) PROVE IInv'
  <2>1. PICK l \in {"inside", "destroy"} : xpc' = [xpc EXCEPT ![t] = l]
    BY <1>6 DEF Release
  <2>2. CASE active[t]
    <3>1. Holders = {t} /\ Holders' = {}
      BY <1>6, <2>1, <2>2 DEF Release, Holders
    <3>2. sem[t] = 2 /\ simple_once = "done" /\ value[2] = 0
      BY <1>6, <3>1 DEF Release
    <3>3. value' = [value EXCEPT ![2] = 1]
      BY <1>6, <2>2, <3>2 DEF Release
    <3>4. QED
      BY <1>6, <2>1, <2>2, <3>1, <3>2, <3>3 DEF Release
  <2>3. CASE ~active[t]
    BY <1>6, <2>1, <2>3 DEF Release, Holders
  <2>4. QED
    BY <2>2, <2>3
<1>7. ASSUME NEW t \in AreaThreads, Abandon(t) PROVE IInv'
  BY <1>7 DEF Abandon, Go, unmoved, Holders
<1>8. ASSUME NEW t \in AreaThreads, Destroy(t) PROVE IInv'
  BY <1>8 DEF Destroy, Go, Holders
<1>9. CASE UNCHANGED areaVars
  BY <1>9 DEF areaVars, Holders
<1>10. QED
  BY <1>1, <1>2, <1>3, <1>4, <1>5, <1>6, <1>7, <1>8, <1>9 DEF AreaNext

\* It says that one thread at most is in the area.
LEMMA HoldersCounted == IInv => AreaExclusive
<1> SUFFICES ASSUME IInv PROVE AreaExclusive
  OBVIOUS
<1>1. Cardinality(Holders) = IF Holders = {} THEN 0 ELSE 1
  <2>1. CASE Holders = {}
    BY <2>1, FS_EmptySet
  <2>2. CASE Holders # {}
    <3>1. PICK t \in Holders : Holders = {t}
      BY <2>2 DEF IInv
    <3>2. QED
      BY <3>1, FS_Singleton
  <2>3. QED
    BY <2>1, <2>2
<1>2. \A t \in AreaThreads : sem[t] # 0 => sem[t] = m_native
  BY DEF IInv
<1>3. QED
  BY <1>1, <1>2 DEF IInv, AreaTypeOK, AreaExclusive

\* The synchronized areas of synchronized.h exclude each other for any set of threads
\* and any number of entries: at most one thread is inside and has not called
\* scope_lock::release(), all of them use the semaphore that the once function made, and
\* ~scope_lock() gives its permit back once, also after a release by hand.
THEOREM Exclusion == AreaSpec => []AreaExclusive
<1>1. AreaSpec => []IInv
  BY InitInvariant, NextInvariant, PTL DEF AreaSpec
<1>2. QED
  BY <1>1, HoldersCounted, PTL
=============================================================================
