------------------------------ MODULE NoticeBoard ------------------------------
(***************************************************************************)
(* What the list of death notices promises (cl_dll/death.cpp): a board of  *)
(* at most Size notices in the order they came, each as its message said   *)
(* it.  A new one displaces the oldest of a full board and nothing else;   *)
(* otherwise notices go when their time is over, in any order, or all at   *)
(* once.                                                                   *)
(***************************************************************************)
EXTENDS Naturals, Sequences

CONSTANTS
  Size,        \* MAX_DEATHNOTICES
  Text         \* what a notice can say

VARIABLES
  board,       \* the notices: which message each is of, and what it says
  posted       \* how many messages there have been

Init == board = <<>> /\ posted = 0

Post ==
  /\ posted' = posted + 1
  /\ \E text \in Text :
       board' = Append(IF Len(board) = Size THEN Tail(board) ELSE board,
                       [of |-> posted', text |-> text])

\* The n notices at the places keep are left.
Expire ==
  /\ \E n \in 0..Len(board) : \E keep \in [1..n -> 1..Len(board)] :
       /\ \A i, k \in 1..n : i < k => keep[i] < keep[k]
       /\ board' = [i \in 1..n |-> board[keep[i]]]
  /\ UNCHANGED posted

Next == Post \/ Expire

Spec == Init /\ [][Next]_<<board, posted>>
=============================================================================
