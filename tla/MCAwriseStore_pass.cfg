SPECIFICATION FairSpec
CONSTANTS
  MaxAdds = 2
  MaxDamage = 1
  MaxStops = 1
  OldStores <- OneOrder
  MaxOld = 2
  Edits <- ParkEdits
  Absent = Absent
  Seconds = {s1, s2}
  s1 = s1
  s2 = s2
INVARIANTS
  NothingIsLost
  SavedStoreLoads
  AddedJobHasBackup
PROPERTIES
  IsARegister
  StoreComesBack
CHECK_DEADLOCK FALSE
