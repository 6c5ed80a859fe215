SPECIFICATION FairSpec
CONSTANTS
  Wakes = {w1, w2}
  w1 = w1
  w2 = w2
  Casts <- Pairs
  Theirs = Theirs
  Peer = Peer
  Nobody = Nobody
INVARIANTS
  WithdrawnIsNeverServed
  FailedWakeRunsNothing
  UnitStaysUpForItsWork
  DrainIsItsOwn
  NothingIsLeftBehind
PROPERTIES
  EveryWakeCloses
CHECK_DEADLOCK FALSE
