CONSTANTS
  Sensors = {"ms5837"}
  Suspendable = {"ms5837"}
  Outranked = {}
  Period <- MCPeriod
  Busy <- MCBusy
  Threshold <- MCThreshold
  ActivePeriod = 1
  StandbyPeriod = 2
  ArmSettle = 8
  MonitorPeriod = 4
  Grace = 3
  GuardMax = 12
  Watchdog = 20
  TickWrap = 100
  Horizon = 14
  MaxBacklog = 4
  MaxStall = 1
  MaxTroubles = 1
  MayHang = {"monitor", "control", "ms5837"}
SPECIFICATION FairSpec
INVARIANTS
  TypeOK
  LateOnlyIfHung
  OnSchedule
  NoNeedlessReset
  HangNoticedInTime
PROPERTIES
  HungMonitorIsReset
