----------------------------- MODULE FrameClock -----------------------------
(***************************************************************************)
(* Time in the main loop: src/src/posix/time.c, and its uses in editor.c.  *)
(* A frame notes the time it starts at, lets the cursor blink, and sleeps  *)
(* for what is left of its target duration.  Time is CLOCK_MONOTONIC,      *)
(* which passes between any two steps, and is kept as seconds and          *)
(* nanoseconds.                                                            *)
(***************************************************************************)
EXTENDS Naturals

CONSTANTS
    NsPerSec,   \* NS_PER_SEC
    NsPerUsec,  \* NS_PER_USEC
    Target,     \* target_frame_ms in nanoseconds
    Delay,      \* toggle_cursor_visibility_delay
    MaxNow      \* bound: when the model stops the clock

Times == [s : Nat, ns : 0..(NsPerSec - 1)]

ASSUME ClockAssumption ==
    /\ NsPerSec \in Nat \ {0}
    /\ NsPerUsec \in Nat \ {0}
    /\ Target \in Nat
    /\ Delay \in Times
    /\ MaxNow \in Nat

VARIABLES
    now,      \* the clock
    tick,     \* last_tick, read from it when the frame starts
    toggle,   \* last_is_visible_toggle
    visible,  \* cursor.is_visible
    wake,     \* no sleep ends before this time
    step      \* where the main loop is

vars == <<now, tick, toggle, visible, wake, step>>

Steps == {"init", "start", "simulate", "end", "sleep"}

TypeOK ==
    /\ {now, tick, toggle} \subseteq Times
    /\ visible \in BOOLEAN
    /\ wake \in Nat
    /\ step \in Steps

-----------------------------------------------------------------------------
(* time.c *)

\* What a time stands for, in nanoseconds.
Ns(t) == t.s * NsPerSec + t.ns

\* A mistake: no second is borrowed.
DeltaWithoutBorrow(start, end) ==
    [s  |-> end.s - start.s,
     ns |-> IF end.ns >= start.ns THEN end.ns - start.ns
                                  ELSE (end.ns + NsPerSec) - start.ns]

time_get_delta(start, end) ==
    IF end.ns >= start.ns
    THEN [s |-> end.s - start.s, ns |-> end.ns - start.ns]
    ELSE [s |-> end.s - start.s - 1, ns |-> (end.ns + NsPerSec) - start.ns]

\* A mistake: equal times are not let through.
GreaterThan(t1, t2) ==
    \/ t1.s > t2.s
    \/ t1.s = t2.s /\ t1.ns > t2.ns

time_greater_than_or_equal_to(t1, t2) ==
    \/ t1.s > t2.s
    \/ t1.s = t2.s /\ t1.ns >= t2.ns

-----------------------------------------------------------------------------

Zero == [s |-> 0, ns |-> 0]

\* The machine has been up for some time when editor_init notes it first.
Init ==
    /\ now \in [s : 0..MaxNow, ns : 0..(NsPerSec - 1)]
    /\ Ns(now) <= MaxNow
    /\ tick = now
    /\ toggle = Zero
    /\ visible = TRUE
    /\ wake = 0
    /\ step = "init"

\* Time passes: a nanosecond, any number of times between two steps.
Pass ==
    /\ Ns(now) < MaxNow
    /\ now' = IF now.ns + 1 = NsPerSec THEN [s |-> now.s + 1, ns |-> 0]
                                       ELSE [now EXCEPT !.ns = @ + 1]
    /\ UNCHANGED <<tick, toggle, visible, wake, step>>

editor_frame_start ==
    /\ step \in {"init", "start"}
    /\ tick' = now
    /\ step' = "simulate"
    /\ UNCHANGED <<now, toggle, visible, wake>>

\* editor_blink_cursor, behind the commands of the frame: one that sets the
\* cursor also shows it.
Blink(moved) ==
    LET due == time_greater_than_or_equal_to(time_get_delta(toggle, tick),
                                             Delay)
        shown == visible \/ moved
    IN  /\ step = "simulate"
        /\ toggle' = IF due THEN tick ELSE toggle
        /\ visible' = IF due THEN ~shown ELSE shown
        /\ step' = "end"
        /\ UNCHANGED <<now, tick, wake>>

\* The rest of the target time is rounded down to microseconds.
editor_frame_end ==
    LET elapsed == (now.s - tick.s) * NsPerSec + now.ns - tick.ns
        remaining == Target - elapsed
    IN  /\ step = "end"
        /\ \/ /\ elapsed < Target
              /\ wake' = Ns(now) + (remaining \div NsPerUsec) * NsPerUsec
              /\ step' = "sleep"
           \/ /\ elapsed >= Target
              /\ step' = "start"
              /\ UNCHANGED wake
        /\ UNCHANGED <<now, tick, toggle, visible>>

\* A mistake: a sleep that may end at any time.
SleepInterrupted ==
    /\ step = "sleep"
    /\ step' = "start"
    /\ UNCHANGED <<now, tick, toggle, visible, wake>>

\* A sleep is never shorter than asked.
time_sleep_us ==
    /\ step = "sleep"
    /\ Ns(now) >= wake
    /\ step' = "start"
    /\ UNCHANGED <<now, tick, toggle, visible, wake>>

Next ==
    \/ Pass
    \/ editor_frame_start
    \/ \E moved \in BOOLEAN : Blink(moved)
    \/ editor_frame_end
    \/ time_sleep_us

Spec == Init /\ [][Next]_vars

-----------------------------------------------------------------------------
(* What the clock promises *)

\* A frame that is over has taken its target time, but for less than a
\* microsecond that the sleep is rounded down by, also where the seconds
\* change in between (editor.c:218-234).
FramesArePaced == step = "start" => Ns(now) + NsPerUsec > Ns(tick) + Target

\* The cursor is toggled at most once in toggle_cursor_visibility_delay,
TogglesApart == [][toggle' # toggle => Ns(toggle') >= Ns(toggle) + Ns(Delay)]_vars

\* and in the first frame that starts that much later (editor.c:8-22).
TogglesInTime ==
    step \in {"end", "sleep", "start"} => Ns(tick) < Ns(toggle) + Ns(Delay)

=============================================================================
