CONSTANTS
  Depth <- MCDepth
  Kinds <- MCKinds
  Reports = 1
  MaxFrames <- MCMaxFramesStandby
  None = None
SPECIFICATION FairSpec
PROPERTIES
  HostIsHeard
