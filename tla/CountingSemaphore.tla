------------------------- MODULE CountingSemaphore -------------------------
(***************************************************************************)
(* What a dispatch semaphore promises its clients: a counter of permits.   *)
(* A signal adds a permit, a successful wait takes one, and nothing else   *)
(* changes the number of permits.  DispatchSemaphore implements it.        *)
(***************************************************************************)
EXTENDS Integers

CONSTANT Orig           \* the value given to dispatch_semaphore_create()

VARIABLES permits,      \* permits nobody has taken yet
          signalled,    \* signals sent so far
          acquired      \* waits that returned 0 so far

vars == <<permits, signalled, acquired>>

Init == /\ permits = Orig
        /\ signalled = 0
        /\ acquired = 0

Signal == /\ permits' = permits + 1
          /\ signalled' = signalled + 1
          /\ UNCHANGED acquired

Acquire == /\ permits > 0
           /\ permits' = permits - 1
           /\ acquired' = acquired + 1
           /\ UNCHANGED signalled

Next == Signal \/ Acquire

Spec == Init /\ [][Next]_vars
=============================================================================
