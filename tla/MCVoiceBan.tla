----------------------------- MODULE MCVoiceBan -----------------------------
(***************************************************************************)
(* VoiceBan with two players who follow each other in a slot.              *)
(***************************************************************************)
EXTENDS VoiceBan
=============================================================================
