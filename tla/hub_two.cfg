CONSTANTS
  s1 = s1
  s2 = s2
  a1 = a1
  a2 = a2
  Session = {s1, s2}
  Act = {a1, a2}
  Main = Main
  None = None
  Scenes <- MCTwoScenes
  MaxCount = 1
  MaxUp = 2
SPECIFICATION HubSpec
INVARIANT
  LastHangupLeaves
CHECK_DEADLOCK FALSE
