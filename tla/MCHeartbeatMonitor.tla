-------------------------- MODULE MCHeartbeatMonitor -------------------------
(***************************************************************************)
(* A tick stands for 250 ms, so that the constants have the ratios of the  *)
(* code: standby period 500, grace 800 (rounded down to 3 ticks), Monitor  *)
(* period 1000, window 3000, watchdog 5000, entry of ARMED 2000, MS5837    *)
(* threshold 1000, Monitor threshold 2000.  Periods and thresholds of less *)
(* than a tick become one tick, and a pass of the MS5837 task takes none.  *)
(***************************************************************************)
EXTENDS HeartbeatMonitor

MCPeriod    == [t \in Sensors |-> 1]
MCBusy      == [t \in Sensors |-> 0]
MCThreshold == [t \in Tasks |-> CASE t = "control" -> 1
                                  [] t = "ms5837"  -> 4
                                  [] t = "monitor" -> 8]

(* The instances meet what the theorems suppose. *)
ASSUME TimingOfTheInstance == Timing
=============================================================================
