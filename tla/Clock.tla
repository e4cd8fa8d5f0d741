------------------------------- MODULE Clock --------------------------------
(***************************************************************************)
(* The wall clock the request guards read (Date.now), in ticks.  It may be *)
(* set back: the guards do not use a monotonic clock.                      *)
(***************************************************************************)
EXTENDS Integers

CONSTANTS TicksPerSec,   \* readings the clock distinguishes in a second
          MaxClock       \* bound on the clock

ASSUME ClockAssumption ==
  /\ TicksPerSec \in Nat \ {0}
  /\ MaxClock \in Nat

VARIABLES clock,
          setBack        \* whether the clock has been set back

ClockInit == clock = TicksPerSec /\ setBack = FALSE

Elapse ==
  /\ clock < MaxClock
  /\ clock' = clock + 1
  /\ UNCHANGED setBack

\* Once is enough to show what a clock that goes back does to a guard.
SetBack ==
  /\ ~setBack
  /\ clock' \in 0 .. clock - 1
  /\ setBack' = TRUE

ClockType == clock \in Nat /\ setBack \in BOOLEAN
=============================================================================
