\* Any call may fail, monitors and signals come and go.
CONSTANTS
  c1 = c1
  c2 = c2
  k1 = k1
  k2 = k2
  Crtc = {c1, c2}
  Conn = {k1, k2}
  MaxModes = 2
  CrtcIds <- TwoCrtcs
  ConnectorIds <- TwoConnectors
  MayFail <- Anything
SPECIFICATION FairSpec
INVARIANTS OneOwner NothingLeaked ImageBacked ReleasedOnceUnlessHalfway FailureLeavesDisplay RestoresOwnPair
PROPERTIES SignalOutsideWindow
