CONSTANTS
  t1 = t1
  t2 = t2
  l1 = l1
  l2 = l2
  Turn = {t1, t2}
  Line = {l1, l2}
  None = None
  Late = Late
  MaxEpoch = 1
  MaxBoard = 2
  Scenes <- MCScenes
SPECIFICATION FairSpec
CHECK_DEADLOCK FALSE
INVARIANTS
  BusyExact
  StaleIsBounded
  OneVoice
PROPERTIES
  BusyReleased
