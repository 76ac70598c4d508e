SPECIFICATION Spec
CONSTANTS
  MaxWeapons = 6
  Weapons = {1, 3, 4}
  MaxSlots = 2
  MaxPlaces = 2
  SlotOf <- TwoSlots
  PlaceOf <- TwoPlaces
  Always = {1}
  Ammo = {"9mm"}
  AmmoOf <- SharedAmmo
INVARIANTS
  TypeOK
  SlotsFollowBits
  ClosedWhileHidden
  NextVisitsAll
  PrevGoesBack
PROPERTY NothingStaleStays
