CONSTANTS
  Hermes = Hermes
  gaius = gaius
  zettel = zettel
  Peer = {Hermes, gaius, zettel}
  Me = Hermes
  MaxFail = 1
SPECIFICATION HandoverFairSpec
INVARIANTS
  HandoverYields
  RestoreOnlyIfServing
  MoshiRestored
PROPERTY
  HandoverFollows
