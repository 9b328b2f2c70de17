CONSTANTS
  c1 = c1
  c2 = c2
  c3 = c3
  j1 = j1
  j2 = j2
  Card = {c1, c2, c3}
  Job = {j1, j2}
  Title = {t1}
  Err = {e1}
  None = None
  Scenes <- MCScenes
SPECIFICATION Spec
SYMMETRY MCSymmetry
CHECK_DEADLOCK FALSE
INVARIANTS
  OneOpenCard
  
  ParentsFirst
