CONSTANTS
  r1 = r1
  r2 = r2
  p1 = p1
  p2 = p2
  Req = {r1, r2}
  Proc = {p1, p2}
  N = 2
  None = None
  Scenes <- MCScenes
SPECIFICATION FairSpec
INVARIANTS
  GpuNotShared
  OffLeavesNothing
  WorkerLeased
PROPERTY
  RequestsReturn
