CONSTANTS
  x = x
  y = y
  u1 = u1
  u2 = u2
  Text = {x, y}
  Width <- MCWidth
  Turn = {u1}
  Apply = {a1}
  Sid = {s1, s2}
  Sync = {m1, m2}
  None = None
  Window = 2
  MaxRows = 3
  MaxAdmit = 1
  Scenes <- MCScenes
SPECIFICATION FairSpec
CHECK_DEADLOCK FALSE
INVARIANTS
  FramesFaithful
  StampFindsRow
PROPERTIES
  ReaderEnds
