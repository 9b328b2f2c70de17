CONSTANTS
  s1 = s1
  s2 = s2
  f1 = f1
  f2 = f2
  Session = {s1}
  Anon = Anon
  Cam = {c1, c2, c3}
  Show = {t1, t2}
  Figure = {f1, f2}
  Kanban = Kanban
  None = None
  MaxShow = 3
  Scenes <- MCScenes
SPECIFICATION FairSpec
CHECK_DEADLOCK FALSE
INVARIANTS
  ChromiumOwned
  TitleMatches
PROPERTIES
  PictureCatchesUp
