------------------------------- MODULE MCNotices -------------------------------
(* The lists and the panels of the HUD on a small screen. *)
EXTENDS Notices, TLC

TwoPanels == "vote" :> {2} @@ "playerid" :> {1}
=============================================================================
