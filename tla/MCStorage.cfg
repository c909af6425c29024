CONSTANTS
  MaxCommands = 2
  MaxUpsets = 2
  Names = {"control"}
  None = "none"
SPECIFICATION FairSpec
INVARIANTS
  TypeOK
  WholeSetsOnly
  StoredIsFound
PROPERTIES
  StartsUp
