CONSTANTS
  Fault = {leak, los}
  Measurable = {leak}
  Commands <- MCCommands
  MaxDepth = 1
  MinDepth = 1
SPECIFICATION GuidanceFairSpec
INVARIANTS
  TypeOK
  PowerFollowsControl
  PausedExactlyInStandby
  MixerOnlyWhenArmed
  DebugHandover
  GuidanceTypeOK
  MemoryOfThisFlight
PROPERTIES
  StopsInFailsafe
  
