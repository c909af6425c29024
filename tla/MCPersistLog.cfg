CONSTANTS
  BankSize = 4
  Sizes = {2}
  ReplayMax = 2
  MaxRecords = 5
  MaxFaults = 1
SPECIFICATION Spec
INVARIANTS
  TypeOK
  KeptUnlessBroken
PROPERTIES
  ReplayInOrder
  ImplementsRecordLog
