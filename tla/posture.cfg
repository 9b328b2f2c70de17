CONSTANTS
  s1 = s1
  s2 = s2
  s3 = s3
  a1 = a1
  a2 = a2
  a3 = a3
  Session = {s1, s2, s3}
  Act = {a1, a2, a3}
  Main = Main
  None = None
  Scenes <- MCScenes
  MaxCount = 2
SPECIFICATION Spec
SYMMETRY Symmetry
INVARIANTS
  RefcountExact
  LeaseOwnedOnce
  FollowsHolders
  HeartbeatsOwned
