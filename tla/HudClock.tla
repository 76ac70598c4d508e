------------------------------- MODULE HudClock -------------------------------
(***************************************************************************)
(* Times of the HUD relative to its clock, gHUD.m_flTime: what is left at  *)
(* the last frame.  A new level may set the clock back.                    *)
(***************************************************************************)
EXTENDS Integers

CONSTANT MaxBack   \* bound: how far the clock goes back in all

ASSUME HudClockAssumption == MaxBack \in Nat

\* A time so far past that the clock can never be before it again is as good as any
\* other such time.
LongPast == -(MaxBack + 1)

\* What is left of t when the clock goes on by dt, or back by -dt.
Later(t, dt) == IF t - dt < LongPast THEN LongPast ELSE t - dt
Least(a, b) == IF a <= b THEN a ELSE b
=============================================================================
