---------------------------- MODULE MCTimerSync ----------------------------
(***************************************************************************)
(* TimerSync on two handles, two response ids and short intervals: their   *)
(* order is the code's, 1 < 1.5 < 3 < 5 < 10 < 60 seconds, up to ties.     *)
(***************************************************************************)
EXTENDS TimerSync

Reply(kind, total, valid) == [kind |-> kind, total |-> total, valid |-> valid]

\* Whatever a server may send: also what the timer cannot use.
AllShapes ==
  {Reply("challenge", 0, FALSE), Reply("answer", 0, TRUE), Reply("part", 2, TRUE),
   Reply("part", 3, FALSE), Reply("other", 0, FALSE), Reply("short", 0, FALSE)}

\* Rules that fit the buffer, in one datagram or in two parts.
FittingShapes ==
  {Reply("challenge", 0, FALSE), Reply("answer", 0, TRUE), Reply("part", 2, TRUE)}
=============================================================================
