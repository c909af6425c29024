CONSTANTS
  BankSize = 6
  Sizes = {3}
  ReplayMax = 1
  MaxRecords = 3
  MaxFaults = 0
SPECIFICATION Spec
INVARIANTS
  AckedIsReadable
