CONSTANTS
  t1 = t1
  t2 = t2
  nautilus = nautilus
  triton = triton
  Stream = {t1, t2}
  Supervisor = {nautilus, triton}
  None = None
  QMax = 2
  RMax = 2
  MaxSeq = 3
SPECIFICATION FairSpec
INVARIANTS
  NoGap
  ConnectedIsOpen
PROPERTY
  SupersededEnds
CHECK_DEADLOCK FALSE
