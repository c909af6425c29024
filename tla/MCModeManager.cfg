CONSTANTS
  Clients = {nrt, shell}
  Shell = shell
  FailLimit = 1
SPECIFICATION FairSpec
INVARIANTS
  TypeOK
  FlagsOnlyInFailsafe
  SnapshotsFresh
PROPERTIES
  ArmsOnlyWhenHealthy
  RecoversOnlyWhenHealthy
  ImplementsAutomaton
  LeakSettlesInFailsafe
