CONSTANTS
  TempEvery = 3
  Depths <- MCDepths
  DepthTargets <- MCDepthTargets
  MinTarget = 20
  MaxDepth = 1000
  MaxMissed = 4
SPECIFICATION Spec
INVARIANTS
  TurnsToTarget
