------------------------------ MODULE DepthSensor -----------------------------
(***************************************************************************)
(* The MS5837 task of Task/task_sensor.c over Driver/driver_ms5837.c: the  *)
(* sensor converts pressure and, once in TempEvery readings, temperature;  *)
(* the task starts a conversion in one pass, reads it in the next, 10 ms   *)
(* later, and pushes the depth the controllers steer by.                   *)
(*                                                                         *)
(* The control task suspends it in STANDBY wherever it is.  Resumed, it    *)
(* makes up the passes it has missed without any sleep between them, so a  *)
(* conversion may then be read before it has ended.  That 10 ms of sleep   *)
(* are long enough for it, as the code says, is assumed.                   *)
(* The bus may fail at any access; the task never looks at what the driver *)
(* answers.  Pressures are given as the depth they belong to, in cm.       *)
(***************************************************************************)
EXTENDS Integers

CONSTANTS
  TempEvery,     \* readings of the pressure for one of the temperature
  Depths,        \* where the vehicle may be, in cm
  DepthTargets,  \* of the host, in m
  MinTarget,     \* DEPTH_CONTROL_MIN_TARGET
  MaxDepth,      \* failsafe_max_depth
  MaxMissed      \* bound: passes missed in STANDBY

ASSUME DepthSensorAssumption ==
  /\ TempEvery \in Nat \ {0} /\ MaxMissed \in Nat \ {0}
  /\ Depths \subseteq Int /\ DepthTargets \subseteq Int
  /\ MinTarget \in Nat /\ MaxDepth \in Nat

VARIABLES
  vehicle,      \* where it is
  calibrated,   \* Driver_Ms5837_Init could read the PROM
  adc,          \* the last conversion: of what, how far, and where it was made
  comp,         \* ms5837_OFF and ms5837_SENS come from a complete conversion
  base,         \* atmosphere_pressure, once is_first_read is FALSE
  depth_val,    \* the local variable
  pool,         \* depth_m
  pc,           \* of the task
  depth_state, temp_state, temp_count,
  suspended,
  late,         \* wake-ups of vTaskDelayUntil that lie in the past
  disturbed,    \* history: a pause or a bus error before the first pressure was read
  calm          \* history: depths pushed since the last pause, late pass or bus error

taskVars == <<depth_state, temp_state, temp_count>>
world    == <<vehicle, calibrated>>
vars     == <<world, adc, comp, base, depth_val, pool, pc, taskVars, suspended, late,
              disturbed, calm>>

\* A depth that was computed, in the driver's unit, where the sensor was at the
\* time, and whether it comes from a complete conversion and compensation.
Readings == [right : BOOLEAN, depth : Int, at : Depths]

Places == {"firstStart", "firstWait", "firstRead", "top", "startPressure",
           "readPressure", "push", "startTemp", "delay", "sleep"}

TypeOK ==
  /\ vehicle \in Depths /\ calibrated \in BOOLEAN
  /\ adc \in [of : {"D1", "D2"}, state : {"converting", "done", "stale", "wrong"}, at : Depths]
  /\ comp \in BOOLEAN
  /\ base \in [taken : BOOLEAN, right : BOOLEAN, at : Depths]
  /\ depth_val \in Readings /\ pool \in Readings
  /\ pc \in Places
  /\ depth_state \in {0, 1} /\ temp_state \in {0, 2} /\ temp_count \in 0..TempEvery - 1
  /\ suspended \in BOOLEAN /\ late \in 0..MaxMissed
  /\ disturbed \in BOOLEAN /\ calm \in 0..TempEvery + 2

\* The control task has suspended the task before it ran.
Init ==
  /\ vehicle \in Depths /\ calibrated \in BOOLEAN
  /\ adc = [of |-> "D1", state |-> "wrong", at |-> vehicle]
  /\ comp = FALSE
  /\ base = [taken |-> FALSE, right |-> FALSE, at |-> vehicle]
  /\ depth_val = [right |-> FALSE, depth |-> 0, at |-> vehicle] /\ pool = depth_val
  /\ pc = "firstStart"
  /\ depth_state = 0 /\ temp_state = 0 /\ temp_count = 0
  /\ suspended = TRUE /\ late = 0
  /\ disturbed = FALSE /\ calm = 0

-------------------------------------------------------------------------------
\* A command on the bus; the sensor acknowledges it, or does not.
BusFails ==
  /\ calm' = 0
  /\ disturbed' = (disturbed \/ ~base.taken)

BusWorks == UNCHANGED <<calm, disturbed>>

\* Start_Temp_Conversion (D2), Start_Pressure_Conversion (D1).  What comes of a
\* conversion that is started while another one runs nobody can say.
Convert(of) ==
  \/ /\ BusWorks
     /\ adc' \in {[of |-> of, state |-> s, at |-> vehicle] :
                    s \in IF adc.state = "converting" THEN {"converting", "wrong"}
                          ELSE {"converting"}}
  \/ BusFails /\ UNCHANGED adc

\* ADC_READ: complete is whether the result is one of that conversion.  A result is
\* there once, and reading it too early spoils it.
Read(of, complete) ==
  /\ complete = (adc.of = of /\ adc.state = "done")
  /\ adc' = [adc EXCEPT !.state = "wrong"]
  /\ BusWorks

\* The sensor is done: at the latest when the task has slept.
ConversionEnds ==
  /\ adc.state = "converting"
  /\ adc' = [adc EXCEPT !.state = "done"]
  /\ UNCHANGED <<world, comp, base, depth_val, pool, pc, taskVars, suspended, late,
                 disturbed, calm>>

-------------------------------------------------------------------------------
\* Driver_Ms5837_Read_Temp
ReadTempAndCompensate ==
  \/ \E complete \in BOOLEAN : Read("D2", complete) /\ comp' = (calibrated /\ complete)
  \/ BusFails /\ UNCHANGED <<adc, comp>>

\* Before the loop: start, wait 10 ms, read.
FirstStart ==
  /\ ~suspended /\ pc = "firstStart"
  /\ Convert("D2")
  /\ pc' = "firstWait"
  /\ UNCHANGED <<world, comp, base, depth_val, pool, taskVars, suspended, late>>

FirstWait ==
  /\ ~suspended /\ pc = "firstWait" /\ adc.state # "converting"
  /\ pc' = "firstRead"
  /\ UNCHANGED <<world, adc, comp, base, depth_val, pool, taskVars, suspended, late,
                 disturbed, calm>>

\* xLastWakeTime is taken afterwards.
FirstRead ==
  /\ ~suspended /\ pc = "firstRead"
  /\ ReadTempAndCompensate
  /\ pc' = "top" /\ late' = 0
  /\ UNCHANGED <<world, base, depth_val, pool, taskVars, suspended>>

\* Mutant of Top: the temperature is read in the pass after the pressure.
TopSwapped ==
  /\ ~suspended /\ pc = "top"
  /\ IF depth_state = 1 /\ temp_state = 2
       THEN ReadTempAndCompensate /\ temp_state' = 0
       ELSE UNCHANGED <<adc, comp, temp_state, disturbed, calm>>
  /\ pc' = IF depth_state = 0 THEN "startPressure" ELSE "readPressure"
  /\ UNCHANGED <<world, base, depth_val, pool, depth_state, temp_count, suspended, late>>

\* The temperature is read before the conversion of the pressure is started.
Top ==
  /\ ~suspended /\ pc = "top"
  /\ IF depth_state = 0 /\ temp_state = 2
       THEN ReadTempAndCompensate /\ temp_state' = 0
       ELSE UNCHANGED <<adc, comp, temp_state, disturbed, calm>>
  /\ pc' = IF depth_state = 0 THEN "startPressure" ELSE "readPressure"
  /\ UNCHANGED <<world, base, depth_val, pool, depth_state, temp_count, suspended, late>>

StartPressure ==
  /\ ~suspended /\ pc = "startPressure"
  /\ Convert("D1")
  /\ depth_state' = 1 /\ pc' = "delay"
  /\ UNCHANGED <<world, comp, base, depth_val, pool, temp_state, temp_count, suspended, late>>

\* Mutant of Based: every reading is taken for the first.
BasedAlways(right, at) == [taken |-> TRUE, right |-> right, at |-> at]

\* The first pressure is that of the air.
Based(right, at) == IF base.taken THEN base ELSE [taken |-> TRUE, right |-> right, at |-> at]

\* Driver_Ms5837_Read_Pressure_Depth
ReadPressure ==
  /\ ~suspended /\ pc = "readPressure"
  /\ \/ \E complete \in BOOLEAN :
          LET right == complete /\ comp
          IN  /\ Read("D1", complete)
              /\ base' = Based(right, adc.at)
              /\ depth_val' = [right |-> right, depth |-> adc.at - base'.at, at |-> adc.at]
     \/ BusFails /\ UNCHANGED <<adc, base>> /\ depth_val' = [depth_val EXCEPT !.right = FALSE]
  /\ pc' = "push"
  /\ UNCHANGED <<world, comp, pool, taskVars, suspended, late>>

\* Mutant of PushDepth: the counter is not reset.
PushDepthUnreset ==
  /\ ~suspended /\ pc = "push"
  /\ pool' = depth_val
  /\ calm' = IF calm > TempEvery + 1 THEN calm ELSE calm + 1
  /\ depth_state' = 0
  /\ temp_count' = (temp_count + 1) % 256
  /\ IF temp_count + 1 >= TempEvery THEN temp_state' = 2 /\ pc' = "startTemp"
     ELSE pc' = "delay" /\ UNCHANGED temp_state
  /\ UNCHANGED <<world, adc, comp, base, depth_val, suspended, late, disturbed>>

\* Bot_State_Push_DepthTemp, and the counter of readings.
PushDepth ==
  /\ ~suspended /\ pc = "push"
  /\ pool' = depth_val
  /\ calm' = IF calm > TempEvery + 1 THEN calm ELSE calm + 1
  /\ depth_state' = 0
  /\ IF temp_count + 1 >= TempEvery
       THEN temp_count' = 0 /\ temp_state' = 2 /\ pc' = "startTemp"
       ELSE temp_count' = temp_count + 1 /\ pc' = "delay" /\ UNCHANGED temp_state
  /\ UNCHANGED <<world, adc, comp, base, depth_val, suspended, late, disturbed>>

StartTemp ==
  /\ ~suspended /\ pc = "startTemp"
  /\ Convert("D2")
  /\ pc' = "delay"
  /\ UNCHANGED <<world, comp, base, depth_val, pool, taskVars, suspended, late>>

\* vTaskDelayUntil: until the next wake-up, when that is still to come; the task is
\* not starved for a whole period otherwise.
Delay ==
  /\ ~suspended /\ pc = "delay"
  /\ IF late > 0 THEN pc' = "top" /\ late' = late - 1 /\ calm' = 0
     ELSE pc' = "sleep" /\ UNCHANGED <<late, calm>>
  /\ UNCHANGED <<world, adc, comp, base, depth_val, pool, taskVars, suspended, disturbed>>

Wake ==
  /\ ~suspended /\ pc = "sleep" /\ adc.state # "converting"
  /\ pc' = "top"
  /\ UNCHANGED <<world, adc, comp, base, depth_val, pool, taskVars, suspended, late,
                 disturbed, calm>>

-------------------------------------------------------------------------------
\* prv_pause_standby_tasks
Suspend ==
  /\ ~suspended
  /\ suspended' = TRUE
  /\ calm' = 0
  /\ disturbed' = (disturbed \/ ~base.taken)
  /\ UNCHANGED <<world, adc, comp, base, depth_val, pool, pc, taskVars, late>>

\* prv_resume_standby_tasks, after 500 ms or more: a task that slept is ready at
\* once, and whatever was converted or computed is old.
Resume ==
  /\ suspended
  /\ suspended' = FALSE
  /\ pc' = IF pc = "sleep" THEN "top" ELSE pc
  /\ late' \in late..MaxMissed \ {0}
  /\ adc' = [adc EXCEPT !.state = IF @ = "wrong" THEN @ ELSE "stale"]
  /\ depth_val' = [depth_val EXCEPT !.right = FALSE]
  /\ UNCHANGED <<world, comp, base, pool, taskVars, disturbed, calm>>

Move ==
  /\ vehicle' \in Depths
  /\ UNCHANGED <<calibrated, adc, comp, base, depth_val, pool, pc, taskVars, suspended, late,
                 disturbed, calm>>

TaskStep == FirstStart \/ FirstWait \/ FirstRead \/ Top \/ StartPressure \/ ReadPressure
            \/ PushDepth \/ StartTemp \/ Delay \/ Wake

Next == TaskStep \/ ConversionEnds \/ Suspend \/ Resume \/ Move

Spec == Init /\ [][Next]_vars

-------------------------------------------------------------------------------
\* Once the passes missed in STANDBY are made up, and after a bus error, the pressure
\* behind the depth in the pool is right again after TempEvery + 1 more readings at most,
\* in whatever step the pause or the error found the task.
RecoversInTime == calibrated /\ calm > TempEvery + 1 => pool.right

\* The reference all later depths are measured from was read properly, unless a
\* pause or a bus error came before it: nothing that happens later spoils it.
ReferenceKept == base.taken /\ calibrated /\ ~disturbed => base.right

\* Depth_Control_Update works with a target within the limit, and not at all with
\* one that is too high.
Limited(tgt)  == IF tgt < 0 THEN 0 ELSE IF tgt > MaxDepth THEN MaxDepth ELSE tgt
Controls(tgt) == Limited(tgt) >= MinTarget

\* The error of the depth, whose sign is the direction it drives the vehicle in.
Error(tgt) == Limited(tgt) - pool.depth

\* sys_data_pool.h and the docs of the protocol: the depth in the pool is in metres, as
\* the targets are, so while the controller works it sees its target below the vehicle
\* if, and only if, it lies there.
TurnsToTarget ==
  pool.right /\ base.right =>
    \A tgt \in DepthTargets :
      Controls(tgt) => (Error(tgt) > 0 <=> 100 * Limited(tgt) > pool.at - base.at)
===============================================================================
