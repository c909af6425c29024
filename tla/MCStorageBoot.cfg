CONSTANTS
  MaxCommands = 1
  MaxUpsets = 1
  Names = {"control"}
  None = "none"
SPECIFICATION Spec
PROPERTIES
  BootloaderOnlyIfAsked
