---------------------------- MODULE DispatchTime ----------------------------
(***************************************************************************)
(* The time type of libdispatch (src/time.c, src/shims/time.h) and what    *)
(* uses it to wait: the timeout of a wait, the absolute deadline of        *)
(* sem_timedwait(), and dispatch_after_f() (src/queue.c) on a timer source *)
(* (src/source.c).                                                         *)
(*                                                                         *)
(* A dispatch_time_t is an unsigned word of W bits: 0 is "now", a positive *)
(* signed value a reading of the monotonic clock, a negative one minus a   *)
(* reading of the wall clock, and -1 "never".  Ticks of the monotonic      *)
(* clock are nanoseconds, as in every build that is not one for Mach.      *)
(***************************************************************************)
EXTENDS Integers, FiniteSetsExt

CONSTANTS W,         \* bits of a word
          MaxNow,    \* bound on the clocks
          Wall0,     \* the wall clock, when the monotonic one is 1
          MaxFires   \* bound on the times one timer fires

VARIABLES mono, real, \* the two clocks
          when,       \* the client's dispatch_time_t
          exact,      \* history: the instant it stands for, of which clock
          after       \* the call of dispatch_after_f(): see Idle

vars == <<mono, real, when, exact, after>>

DISPATCH_TIME_NOW == 0
DISPATCH_TIME_FOREVER == 2^W - 1
INT_MAX == 2^(W - 1) - 1
Word(x) == x % 2^W
Signed(w) == IF w > INT_MAX THEN w - 2^W ELSE w
Deltas == (-INT_MAX - 1)..INT_MAX

-----------------------------------------------------------------------------
(* Making times.                                                           *)


dispatch_time(inval, delta) ==
    IF inval = DISPATCH_TIME_FOREVER THEN DISPATCH_TIME_FOREVER
    ELSE IF Signed(inval) < 0
      THEN LET t == Word(inval - delta)
           IN IF delta >= 0 THEN IF Signed(t) >= 0 THEN DISPATCH_TIME_FOREVER ELSE t
              ELSE IF Signed(t) >= -1 THEN Word(-2) ELSE t
    ELSE LET t == Word((IF inval = 0 THEN mono ELSE inval) + delta)
         IN IF delta >= 0 THEN IF Signed(t) <= 0 THEN DISPATCH_TIME_FOREVER ELSE t
            ELSE IF Signed(t) < 1 THEN 1 ELSE t

\* nsec is the caller's timespec, or the wall clock for a null pointer.
dispatch_walltime(nsec, delta) ==
    LET t == Word(nsec + delta)
    IN IF Signed(t) <= 1
         THEN IF delta >= 0 THEN DISPATCH_TIME_FOREVER ELSE Word(-2)
         ELSE Word(-t)

-----------------------------------------------------------------------------
(* Waiting for them.                                                       *)

\* _dispatch_timeout(): the nanoseconds from now.
_dispatch_timeout(w) ==
    IF w = DISPATCH_TIME_FOREVER THEN DISPATCH_TIME_FOREVER
    ELSE IF w = 0 THEN 0
    ELSE IF Signed(w) < 0 THEN IF real >= Word(-w) THEN 0 ELSE Word(-w) - real
    ELSE IF mono >= w THEN 0 ELSE w - mono

\* _dispatch_timeout_ts(): the reading of the wall clock to wait for, of a time
\* that is not forever.
_dispatch_timeout_ts(w) ==
    IF w = 0 THEN real
    ELSE IF Signed(w) < 0 THEN Word(Word(-w) + real)
    ELSE Word(real + (w - mono))

-----------------------------------------------------------------------------
(* dispatch_after_f().                                                     *)

\* The timer source of the call: its clock, the next target of the timer, the
\* events it has pending, and whether it is cancelled.  datc is the context
\* block that its handlers share, due the instant that was asked for.
Idle == [pc |-> "idle", due |-> 0, clock |-> "mach", target |-> 0, pending |-> 0,
         fires |-> 0, canceled |-> FALSE, datc |-> "none", calls |-> 0, early |-> FALSE]

\* dispatch_source_set_timer(): which clock, and its reading
TimerClock(start) == IF Signed(start) < 0 THEN "wall" ELSE "mach"
TimerStart(start) == IF Signed(start) < 0 THEN Word(-start) ELSE start

Now(clock) == IF clock = "wall" THEN real ELSE mono

\* Nothing for "never"; an ordinary asynchronous call when the moment has come;
\* else a timer source with an interval of one nanosecond, the least there is.
dispatch_after_f ==
    /\ after.pc = "idle" /\ when # DISPATCH_TIME_NOW
    /\ after' = IF when = DISPATCH_TIME_FOREVER THEN [after EXCEPT !.pc = "done"]
                ELSE IF _dispatch_timeout(when) = 0
                  THEN [after EXCEPT !.pc = "async", !.due = exact.at, !.clock = exact.clock]
                ELSE [after EXCEPT !.pc = "armed", !.due = exact.at,
                                   !.clock = TimerClock(when),
                                   !.target = TimerStart(when), !.datc = "live"]
    /\ UNCHANGED <<mono, real, when, exact>>

\* The target queue runs the function of the asynchronous call.
Async ==
    /\ after.pc = "async"
    /\ after' = [after EXCEPT !.pc = "done", !.calls = @ + 1,
                              !.early = Now(after.clock) < after.due]
    /\ UNCHANGED <<mono, real, when, exact>>

\* The manager finds that the target of the timer has passed, and sets the next
\* one (module DispatchSource); it may do so again while the handler runs.
Fire ==
    /\ after.pc \in {"armed", "callback", "called"} /\ ~after.canceled
    /\ Now(after.clock) >= after.target /\ after.fires < MaxFires
    /\ after' = [after EXCEPT !.target = @ + 1, !.pending = @ + 1, !.fires = @ + 1,
                              !.early = @ \/ (IF exact.clock = "wall" THEN real ELSE mono) < after.due]
    /\ UNCHANGED <<mono, real, when, exact>>

\* The cancellation handler frees the context block and releases the source.
_dispatch_after_timer_cancel == after' = [after EXCEPT !.pc = "done", !.datc = "freed"]

\* _dispatch_source_invoke() on the target queue: the event handler for what is
\* pending; of a cancelled source the cancellation handler alone.
Callout ==
    /\ after.pc = "armed"
    /\ \/ /\ ~after.canceled /\ after.pending > 0
          /\ after' = [after EXCEPT !.pc = "callback", !.pending = 0]
       \/ /\ after.canceled
          /\ _dispatch_after_timer_cancel
    /\ UNCHANGED <<mono, real, when, exact>>

\* _dispatch_after_timer_callback() calls the function ...
Callback ==
    /\ after.pc = "callback"
    /\ after' = [after EXCEPT !.pc = "called", !.calls = @ + 1]
    /\ UNCHANGED <<mono, real, when, exact>>

\* ... and cancels the source.
CallbackCancel ==
    /\ after.pc = "called"
    /\ after' = [after EXCEPT !.pc = "armed", !.canceled = TRUE]
    /\ UNCHANGED <<mono, real, when, exact>>

-----------------------------------------------------------------------------
(* The client and the clocks.  A client makes all of its times before it   *)
(* hands one to dispatch_after_f().                                        *)

\* The instant of a clock that a time was asked for, kept within its range.
Instant(clock, at) ==
    IF clock = "mach"
      THEN IF at > INT_MAX THEN [clock |-> "forever", at |-> 0]
           ELSE [clock |-> "mach", at |-> Max({at, 1})]
      ELSE IF at > INT_MAX + 1 THEN [clock |-> "forever", at |-> 0]
           ELSE [clock |-> "wall", at |-> Max({at, 2})]

\* dispatch_time() of now, or of a time made before
Time(delta) ==
    /\ after.pc = "idle"
    /\ when' = dispatch_time(when, delta)
    /\ exact' = IF exact.clock = "forever" THEN exact
                ELSE Instant(exact.clock,
                             (IF when = DISPATCH_TIME_NOW THEN mono ELSE exact.at) + delta)
    /\ UNCHANGED <<mono, real, after>>

\* dispatch_walltime() of now, or of a timespec.  A sum that lies at or before
\* the clock's first nanosecond is taken for an overflow unless delta is negative.
Walltime(nsec, delta) ==
    /\ after.pc = "idle"
    /\ when' = dispatch_walltime(nsec, delta)
    /\ exact' = IF nsec + delta > INT_MAX \/ (nsec + delta <= 1 /\ delta >= 0)
                  THEN [clock |-> "forever", at |-> 0]
                  ELSE Instant("wall", nsec + delta)
    /\ UNCHANGED <<mono, real, after>>

Tick == /\ mono < MaxNow
        /\ mono' = mono + 1 /\ real' = real + 1
        /\ UNCHANGED <<when, exact, after>>

\* The wall clock is set forward.
SetClock == /\ real < mono + 2 * Wall0
            /\ real' = real + 2
            /\ UNCHANGED <<mono, when, exact, after>>

Init == /\ mono = 1 /\ real = Wall0
        /\ when = DISPATCH_TIME_NOW
        /\ exact = [clock |-> "mach", at |-> 0]
        /\ after = Idle

Next ==
    \/ \E delta \in Deltas : Time(delta) \/ Walltime(real, delta)
    \/ \E nsec \in {0, 1, 2, Wall0, INT_MAX} : \E delta \in {-INT_MAX - 1, -1, 0, 1, INT_MAX} :
         Walltime(nsec, delta)
    \/ dispatch_after_f \/ Async \/ Fire \/ Callout \/ Callback \/ CallbackCancel
    \/ Tick \/ SetClock

Spec == Init /\ [][Next]_vars

-----------------------------------------------------------------------------
(* A dispatch_time_t always stands for the instant its calls of            *)
(* dispatch_time() and dispatch_walltime() add up to, kept within the      *)
(* range of its clock: what overflows is "never" and stays it, what        *)
(* underflows is the first instant of the same clock, and no sum changes   *)
(* the clock or turns a moment into "never" or "now".  And a wait for it,  *)
(* in nanoseconds or as the deadline of sem_timedwait(), takes as long as  *)
(* that instant is away.                                                   *)
TimeAgrees ==
    /\ exact.clock = "forever" <=> when = DISPATCH_TIME_FOREVER
    /\ exact.clock = "mach" /\ when # DISPATCH_TIME_NOW =>
         /\ when = exact.at
         /\ _dispatch_timeout(when) = Max({0, exact.at - mono})
         /\ _dispatch_timeout_ts(when) = real + (exact.at - mono)
    /\ exact.clock = "wall" =>
         /\ TimerClock(when) = "wall" /\ TimerStart(when) = exact.at
         /\ _dispatch_timeout(when) = Max({0, exact.at - real})

(* The function handed to dispatch_after_f() is called at most once, not   *)
(* before its moment on the clock the time was made with, and the context  *)
(* block of the timer source is not used once the cancellation handler has *)
(* freed it - however often the timer fires before its cancellation is     *)
(* seen.                                                                   *)
AfterOnce ==
    /\ after.calls <= 1 /\ ~after.early
    /\ after.pc \in {"callback", "called"} => after.datc = "live"
    /\ after.pc = "done" => after.datc # "live"

(* The comment before _dispatch_timeout_ts(): a time of the wall clock is  *)
(* converted to the absolute, real time at which the wait is to end.       *)

=============================================================================
