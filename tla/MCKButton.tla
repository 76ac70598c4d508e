----------------------------- MODULE MCKButton -----------------------------
(***************************************************************************)
(* KButton on three keys: one more than a button has slots for.            *)
(***************************************************************************)
EXTENDS KButton

MCKeys == {1, 2, 3}
=============================================================================
