CONSTANTS
  Depth <- MCDepth
  Kinds <- MCKinds
  Reports = 1
  MaxFrames <- MCMaxFrames
  None = None
SPECIFICATION FairSpec
INVARIANTS
  TypeOK
  NothingQueuedFromBefore
PROPERTIES
  ReadsWhatArrived
  NoInversion
  LocksServed
