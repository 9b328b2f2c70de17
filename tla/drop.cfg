CONSTANTS
  k1 = k1
  k2 = k2
  c1 = c1
  c2 = c2
  s1 = s1
  s2 = s2
  s3 = s3
  Key = {k1, k2}
  Curated = {k1}
  Pdf = {k2}
  Caller = {c1, c2}
  Slot = {s1, s2, s3}
  None = None
  MaxFailures = 1
  Scenes <- MCScenes
SPECIFICATION Spec
SYMMETRY MCSymmetry
INVARIANTS
  OneExtract
  NotesOnce
  ApprovedFirst
  HicksEnds
  RunningOwned
