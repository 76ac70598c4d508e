----------------------------- MODULE MCWeaponMenu -----------------------------
(* Three weapons in two slots, one that needs no ammunition and two that share it. *)
EXTENDS WeaponMenu, TLC

TwoSlots == 1 :> 0 @@ 3 :> 1 @@ 4 :> 1
TwoPlaces == 1 :> 0 @@ 3 :> 0 @@ 4 :> 1
SharedAmmo == 1 :> {} @@ 3 :> {"9mm"} @@ 4 :> {"9mm"}
=============================================================================
