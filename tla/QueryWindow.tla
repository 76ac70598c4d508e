------------------------------ MODULE QueryWindow ------------------------------
(***************************************************************************)
(* What the server browser promises of the servers a master lists          *)
(* (cl_dll/hud_servers.cpp): each is asked once, in the order they wait,   *)
(* and as many as the window has room for are asked at a time.  A list     *)
(* comes only when nobody waits and nobody is being asked; all may be      *)
(* dropped at any time, and nothing else happens to them.                  *)
(***************************************************************************)
EXTENDS Integers, Sequences, FiniteSets

CONSTANTS
  Window,      \* MAX_QUERIES + 1
  Lists        \* the lists that may come, in the order they are asked

VARIABLES
  waiting,     \* servers still to be asked
  flying,      \* questions on their way: their numbers, and whom they ask
  next         \* the number of the next question

vars == <<waiting, flying, next>>

Init == waiting = <<>> /\ flying = {} /\ next = 0

List ==
  /\ waiting = <<>> /\ flying = {}
  /\ waiting' \in Lists
  /\ UNCHANGED <<flying, next>>

\* As many as wait, or as there is room for.
Launch ==
  LET room == Window - Cardinality(flying)
      n == IF Len(waiting) <= room THEN Len(waiting) ELSE room
  IN /\ n > 0
     /\ waiting' = SubSeq(waiting, n + 1, Len(waiting))
     /\ flying' = flying \cup {[ctx |-> next + i - 1, adr |-> waiting[i]] : i \in 1..n}
     /\ next' = next + n

\* A question is answered, or given up.
Land ==
  /\ \E q \in flying : flying' = flying \ {q}
  /\ UNCHANGED <<waiting, next>>

\* All are dropped.  The numbers are shared with questions of other kinds, and go on.
Clear == waiting' = <<>> /\ flying' = {} /\ next' >= next
Skip == next' > next /\ UNCHANGED <<waiting, flying>>

Next == List \/ Launch \/ Land \/ Clear \/ Skip

Spec == Init /\ [][Next]_vars
=============================================================================
