------------------------ MODULE HeartbeatMonitorProofs ------------------------
(* The types of HeartbeatMonitor for all constants and, when the periods fit   *)
(* the thresholds (Timing), that only a task that has hung is found late or    *)
(* has the processor reset, and that a hang is noticed in time.                *)
EXTENDS HeartbeatMonitor, TLAPS

-------------------------------------------------------------------------------
(* The Monitor only begins a round when its period is over. *)
Begun == snap >= 0 => wake["monitor"] <= 0

LEMMA Named ==
  /\ "control" \in Tasks /\ "monitor" \in Tasks /\ Sensors \subseteq Tasks
  /\ \A t \in Sensors : t # "control" /\ t # "monitor"
  /\ \A t \in Tasks : t = "control" \/ t = "monitor" \/ t \in Sensors
BY SensorAssumption DEF Tasks

LEMMA Numbers ==
  /\ \A t \in Sensors : Period[t] \in Nat /\ Period[t] > 0 /\ Busy[t] \in Nat
  /\ \A t \in Tasks : Threshold[t] \in Nat /\ Threshold[t] < Horizon
  /\ ActivePeriod \in Nat /\ StandbyPeriod \in Nat /\ MonitorPeriod \in Nat
  /\ Grace \in Nat /\ GuardMax \in Nat /\ Watchdog \in Nat
  /\ ActivePeriod > 0 /\ StandbyPeriod > 0 /\ MonitorPeriod > 0
  /\ Grace > 0 /\ GuardMax > 0 /\ Watchdog > 0
  /\ ActivePeriod <= StandbyPeriod
  /\ ArmSettle \in Nat /\ MaxBacklog \in Nat /\ MaxStall \in Nat
  /\ Horizon \in Nat /\ Brief \in Nat /\ Brief + StandbyPeriod = MonitorPeriod
BY SensorAssumption, TimeAssumption DEF Brief

(* A whole number of rounds that does not fall short of the protection window. *)
LEMMA RoundUp ==
  ASSUME NEW g \in Nat, NEW m \in Nat \ {0}, NEW q, q = (g + m - 1) \div m
  PROVE  q \in Nat /\ g <= q * m
<1>1. q \in Int /\ g + m - 1 < (q + 1) * m
  BY SMTT(30)
<1>2. (q + 1) * m = q * m + m
  BY <1>1
<1>3. q >= 0
  <2> SUFFICES ASSUME q + 1 <= 0 PROVE FALSE
    BY <1>1
  <2> QED  BY <1>1, SMTT(30)
<1> QED  BY <1>1, <1>2, <1>3

LEMMA WindowEnds ==
  /\ \E q \in Nat : WindowEnd = q * MonitorPeriod
  /\ WindowEnd \in Nat /\ GuardMax <= WindowEnd /\ WindowEnd < Horizon
<1> DEFINE q == (GuardMax + MonitorPeriod - 1) \div MonitorPeriod
<1>1. q \in Nat /\ GuardMax <= q * MonitorPeriod
  BY RoundUp, Numbers
<1>2. WindowEnd = q * MonitorPeriod
  BY DEF WindowEnd
<1> HIDE DEF q
<1> QED  BY <1>1, <1>2, Numbers, TimeAssumption

(* TypeOK in parts: the clocks of the tasks, the numbers, the sets, the flags. *)
Clocks ==
  /\ age \in [Tasks -> 0..Horizon]
  /\ wake \in [Tasks -> Int] /\ \A t \in Tasks : wake[t] >= -MaxBacklog
  /\ wake["control"] <= StandbyPeriod /\ wake["monitor"] <= MonitorPeriod
  /\ run \in [Sensors -> Nat] /\ \A t \in Sensors : run[t] <= Busy[t]
Scalars ==
  /\ mode \in SysModes /\ ctlMode \in SysModes /\ settle \in 0..ArmSettle
  /\ pulsed \in 0..Brief + 1 /\ changes \in 0..2
  /\ snap \in -1..Horizon /\ stall \in 0..MaxStall
  /\ last_sys_mode \in SysModes \cup {"NONE"}
  /\ guardAge \in 0..Horizon /\ wdt \in 0..Watchdog
  /\ exposed \in 0..2 * Horizon
Sets  == early \in SUBSET Suspendable /\ hung \in SUBSET MayHang /\ blamed \in SUBSET Tasks
Flags ==
  spin \in BOOLEAN /\ guard \in BOOLEAN /\ flipped \in BOOLEAN /\ starved \in BOOLEAN

TInv == Clocks /\ Scalars /\ Sets /\ Flags /\ Begun

LEMMA Parts == TInv => TypeOK
BY DEF TInv, TypeOK, Clocks, Scalars, Sets, Flags

LEMMA TInvInit == Init => TInv
<1> SUFFICES ASSUME Init PROVE TInv
  OBVIOUS
<1>1. age \in [Tasks -> 0..Horizon] /\ run \in [Sensors -> {0}]
  BY Numbers DEF Init
<1>2. /\ wake \in [Tasks -> Int]
      /\ wake["control"] = StandbyPeriod /\ wake["monitor"] = 0
      /\ \A t \in Sensors : wake[t] = Period[t]
  BY Named, Numbers DEF Init
<1>3. Clocks
  BY <1>1, <1>2, Named, Numbers DEF Clocks
<1>4. Scalars
  BY Numbers DEF Init, SysModes, Scalars
<1>5. Sets /\ Flags
  BY DEF Init, Sets, Flags
<1>6. Begun
  BY DEF Init, Begun
<1> QED  BY <1>3, <1>4, <1>5, <1>6 DEF TInv

LEMMA TInvTick == TInv /\ Tick => TInv'
<1> SUFFICES ASSUME TInv, Tick PROVE TInv'
  OBVIOUS
<1>0. Clocks /\ Scalars /\ Sets /\ Flags /\ Begun
  BY DEF TInv
<1>1. \A n \in 0..Horizon : Older(n) \in 0..Horizon
  BY Numbers DEF Older
<1>2. age' \in [Tasks -> 0..Horizon]
  BY <1>0, <1>1, Numbers DEF Tick, Clocks
<1>3. /\ wake' \in [Tasks -> Int]
      /\ \A t \in Tasks : wake'[t] >= -MaxBacklog /\ wake'[t] <= wake[t]
  BY <1>0, Numbers DEF Tick, Clocks
<1>4. run' \in [Sensors -> Nat] /\ \A t \in Sensors : run'[t] <= Busy[t]
  BY <1>0, Numbers DEF Tick, Clocks
<1>5. Clocks'
  BY <1>0, <1>2, <1>3, <1>4, Named, Numbers DEF Clocks
<1>6. Scalars'
  <2>1. settle' \in 0..ArmSettle
    BY <1>0, Numbers DEF Tick, Scalars
  <2>2. snap' \in -1..Horizon /\ guardAge' \in 0..Horizon
    BY <1>0, <1>1, Numbers DEF Tick, Scalars
  <2>3. stall' \in 0..MaxStall
    BY <1>0, Numbers DEF Tick, Scalars
  <2>4. wdt' \in 0..Watchdog
    BY <1>0, Numbers DEF Tick, Scalars, WatchdogCount
  <2>5. exposed' \in 0..2 * Horizon
    BY <1>0, Numbers DEF Tick, Scalars
  <2> QED  BY <1>0, <2>1, <2>2, <2>3, <2>4, <2>5 DEF Tick, Scalars
<1>7. Sets' /\ Flags'
  <2>1. Sets'
    BY <1>0 DEF Tick, Sets
  <2>2. Flags'
    BY <1>0, Zenon DEF Tick, Flags
  <2> QED  BY <2>1, <2>2
<1>8. Begun'
  <2>1. snap' >= 0 => snap >= 0
    BY <1>0 DEF Tick, Scalars
  <2> QED  BY <2>1, <1>0, <1>3, Named, Numbers DEF Begun, Clocks
<1> QED  BY <1>5, <1>6, <1>7, <1>8 DEF TInv

LEMMA TInvTasks ==
  ASSUME TInv, ControlPass \/ \E t \in Sensors : SensorPass(t)
  PROVE  TInv'
<1>0. Clocks /\ Scalars /\ Sets /\ Flags /\ Begun
  BY DEF TInv
<1>1. ASSUME ControlPass PROVE TInv'
  <2>1. age' \in [Tasks -> 0..Horizon]
    BY <1>0, <1>1, Numbers DEF ControlPass, Clocks
  <2>2. wake' = wake \/ wake' = [wake EXCEPT !["control"] = @ + ControlDelay(mode)]
    BY <1>1 DEF ControlPass
  <2>3. ControlDelay(mode) \in 0..StandbyPeriod /\ wake["control"] <= 0
    BY <1>1, Numbers DEF ControlDelay, ControlPass, ControlDue
  <2>4. /\ wake' \in [Tasks -> Int] /\ wake'["control"] <= StandbyPeriod
        /\ \A t \in Tasks : wake'[t] >= wake[t]
        /\ \A t \in Tasks : t # "control" => wake'[t] = wake[t]
    BY <1>0, <2>2, <2>3, Named, Numbers DEF Clocks
  <2>5. run' = run
    BY <1>1 DEF ControlPass
  <2>6. Clocks'
    <3>1. wake'["monitor"] = wake["monitor"]
      BY <2>4, Named
    <3>2. \A t \in Tasks : wake'[t] >= -MaxBacklog
      BY <1>0, <2>4, Numbers DEF Clocks
    <3> QED  BY <1>0, <2>1, <2>4, <2>5, <3>1, <3>2 DEF Clocks
  <2>7. settle' \in 0..ArmSettle
    BY <1>1, Numbers DEF ControlPass
  <2>8. Scalars'
    BY <1>0, <1>1, <2>7 DEF ControlPass, Scalars, monVars
  <2>9. Sets' /\ Flags'
    <3>1. Resumed(mode) \subseteq Suspendable
      BY DEF Resumed
    <3> QED  BY <1>0, <1>1, <3>1 DEF ControlPass, Sets, Flags, monVars, excuses
  <2>10. Begun'
    BY <1>0, <1>1, <2>4, Named DEF Begun, ControlPass, monVars
  <2> QED  BY <2>6, <2>8, <2>9, <2>10 DEF TInv
<1>2. ASSUME NEW t \in Sensors, SensorPass(t) PROVE TInv'
  <2>0. /\ age' = [age EXCEPT ![t] = 0]
        /\ wake' = [wake EXCEPT ![t] = @ + Period[t]]
        /\ run' = [run EXCEPT ![t] = 0]
    BY <1>2 DEF SensorPass
  <2>1. age' \in [Tasks -> 0..Horizon]
    <3>1. age \in [Tasks -> 0..Horizon] /\ 0 \in 0..Horizon
      BY <1>0, Numbers DEF Clocks
    <3> QED  BY <2>0, <3>1
  <2>2. /\ wake' \in [Tasks -> Int]
        /\ \A s \in Tasks : wake'[s] >= wake[s]
        /\ wake'["control"] = wake["control"] /\ wake'["monitor"] = wake["monitor"]
    BY <1>0, <2>0, Named, Numbers DEF Clocks
  <2>3. Clocks'
    <3>1. \A s \in Tasks : wake'[s] >= -MaxBacklog
      BY <1>0, <2>2, Numbers DEF Clocks
    <3>2. run' \in [Sensors -> Nat] /\ \A s \in Sensors : run'[s] <= Busy[s]
      BY <1>0, <2>0, Numbers DEF Clocks
    <3> QED  BY <1>0, <2>1, <2>2, <3>1, <3>2 DEF Clocks
  <2>4. Scalars'
    BY <1>0, <1>2 DEF SensorPass, Scalars, monVars, ctlVars
  <2>5. Sets' /\ Flags'
    BY <1>0, <1>2 DEF SensorPass, Sets, Flags, monVars, excuses
  <2>6. Begun'
    BY <1>0, <1>2, <2>2 DEF Begun, SensorPass, monVars
  <2> QED  BY <2>3, <2>4, <2>5, <2>6 DEF TInv
<1> QED  BY <1>1, <1>2

(* Steps that move no clock. *)
LEMMA ClocksKept ==
  ASSUME Clocks, UNCHANGED <<age, wake, run>> PROVE Clocks'
BY DEF Clocks

LEMMA TInvModes ==
  ASSUME TInv, ChangeMode \/ Pulse \/ Hang \/ MonitorBegin
  PROVE  TInv'
<1>0. Clocks /\ Scalars /\ Sets /\ Flags /\ Begun
  BY DEF TInv
<1>1. Clocks' /\ wake' = wake
  <2>1. UNCHANGED <<age, wake, run>>
    BY DEF ChangeMode, Pulse, Hang, MonitorBegin, runVars
  <2> QED  BY <1>0, <2>1, ClocksKept
<1>2. ASSUME ChangeMode PROVE Scalars' /\ Sets' /\ Flags' /\ Begun'
  <2>1. Scalars'
    BY <1>0, <1>2, Numbers DEF ChangeMode, Scalars, ctlVars
  <2>2. Sets'
    BY <1>0, <1>2 DEF ChangeMode, Sets, runVars
  <2>3. Flags'
    BY <1>0, <1>2, Zenon DEF ChangeMode, Flags, runVars
  <2> QED  BY <1>0, <1>1, <1>2, <2>1, <2>2, <2>3 DEF Begun, ChangeMode
<1>3. ASSUME Pulse PROVE Scalars' /\ Sets' /\ Flags' /\ Begun'
  <2>1. Scalars'
    BY <1>0, <1>3, Numbers DEF Pulse, Scalars, ctlVars
  <2>2. Sets'
    BY <1>0, <1>3 DEF Pulse, Sets
  <2>3. Flags'
    BY <1>0, <1>3, Zenon DEF Pulse, Flags
  <2> QED  BY <1>0, <1>1, <1>3, <2>1, <2>2, <2>3 DEF Begun, Pulse
<1>4. ASSUME Hang PROVE Scalars' /\ Sets' /\ Flags' /\ Begun'
  <2>1. Scalars' /\ Begun'
    BY <1>0, <1>1, <1>4 DEF Hang, Scalars, Begun, ctlVars, monVars, runVars
  <2>2. Sets'
    BY <1>0, <1>4 DEF Hang, Sets, runVars, monVars
  <2>3. Flags'
    BY <1>0, <1>4, Zenon DEF Hang, Flags, runVars, monVars
  <2> QED  BY <2>1, <2>2, <2>3
<1>5. ASSUME MonitorBegin PROVE Scalars' /\ Sets' /\ Flags' /\ Begun'
  <2>1. Scalars'
    BY <1>0, <1>5, Numbers DEF MonitorBegin, Scalars, ctlVars
  <2>2. Sets' /\ Flags'
    BY <1>0, <1>5 DEF MonitorBegin, Sets, Flags, runVars, excuses
  <2>3. Begun'
    BY <1>1, <1>5 DEF MonitorBegin, Begun
  <2> QED  BY <2>1, <2>2, <2>3
<1> QED  BY <1>1, <1>2, <1>3, <1>4, <1>5 DEF TInv

(* The Monitor's verdict: what MonitorJudge finds, as a function of the state. *)
LEMMA TInvJudge == TInv /\ MonitorJudge => TInv'
<1> SUFFICES ASSUME TInv, MonitorJudge PROVE TInv'
  OBVIOUS
<1>0. Clocks /\ Scalars /\ Sets /\ Flags /\ Begun
  BY DEF TInv
<1>1. /\ age' = [age EXCEPT !["monitor"] = 0]
      /\ wake' = [wake EXCEPT !["monitor"] = @ + MonitorPeriod]
      /\ snap >= 0 /\ snap' = -1 /\ stall' = 0 /\ changes' = 0 /\ pulsed' = 0
      /\ last_sys_mode' = mode /\ UNCHANGED <<ctlVars, runVars, hung>>
      /\ mode' \in {mode, "FAILSAFE"} /\ wdt' \in {wdt, 0} /\ exposed' \in {exposed, 0}
      /\ guard' \in BOOLEAN /\ guardAge' \in {0, snap, guardAge}
      /\ blamed' \subseteq Tasks
  BY <1>0 DEF MonitorJudge, Fed, WatchedIn, Tasks
<1>2. Clocks'
  <2>1. wake["monitor"] <= 0
    BY <1>0, <1>1 DEF Begun
  <2>2. /\ wake' \in [Tasks -> Int] /\ wake'["monitor"] <= MonitorPeriod
        /\ \A t \in Tasks : wake'[t] >= wake[t]
        /\ wake'["control"] = wake["control"]
    BY <1>0, <1>1, <2>1, Named, Numbers DEF Clocks
  <2>3. \A t \in Tasks : wake'[t] >= -MaxBacklog
    BY <1>0, <2>2, Numbers DEF Clocks
  <2> QED  BY <1>0, <1>1, <2>2, <2>3, Numbers DEF Clocks, runVars
<1>3. Scalars'
  BY <1>0, <1>1, Numbers DEF Scalars, ctlVars, SysModes
<1>4. Sets' /\ Flags'
  <2>1. flipped' \in BOOLEAN /\ starved' \in BOOLEAN
    BY Zenon DEF MonitorJudge
  <2> QED  BY <1>0, <1>1, <2>1 DEF Sets, Flags, runVars
<1>5. Begun'
  BY <1>1 DEF Begun
<1> QED  BY <1>2, <1>3, <1>4, <1>5 DEF TInv

LEMMA ResetIsInit == Reset => Init'
BY DEF Reset, Init

LEMMA TInvNext == TInv /\ [Next]_vars => TInv'
<1> SUFFICES ASSUME TInv, [Next]_vars PROVE TInv'
  OBVIOUS
<1>1. CASE Reset
  <2>1. Init' => TInv'
    BY TInvInit, PTL
  <2> QED  BY <1>1, <2>1, ResetIsInit
<1>2. CASE UNCHANGED vars
  BY <1>2 DEF TInv, Clocks, Scalars, Sets, Flags, Begun, vars, ctlVars, runVars, monVars, excuses
<1> QED  BY <1>1, <1>2, TInvTick, TInvTasks, TInvModes, TInvJudge DEF Next

(* The variables keep their types, whatever the constants. *)
THEOREM TypeCorrect == Spec => []TypeOK
<1>1. TInv => TypeOK
  BY Parts
<1> QED  BY <1>1, TInvInit, TInvNext, PTL DEF Spec

-------------------------------------------------------------------------------
MaxOf(a, b) == IF a >= b THEN a ELSE b

(* Neither a round of the Monitor nor a pass of a sensor task takes a tick. *)
NoTimeLost ==
  /\ snap \in {-1, 0} /\ stall = 0
  /\ \A t \in Sensors : run[t] = 0

(* Only pulses keep the Monitor from its round, and no longer than they last. *)
OfMonitor ==
  /\ pulsed <= Brief /\ wake["monitor"] + pulsed >= 0
  /\ spin => snap = -1 /\ pulsed >= 1 /\ wake["monitor"] + pulsed >= 1
  /\ age["monitor"] + wake["monitor"] <= MonitorPeriod

(* The Monitor has found no task late and has fed the watchdog in every round. *)
Blameless == blamed = {} /\ wdt + wake["monitor"] <= MonitorPeriod

(* The control task checks in once per delay, and while it arms. *)
OfControl ==
  /\ settle > 0 => wake["control"] <= 0 /\ age["control"] = 0 /\ ctlMode = "ARMED"
  /\ age["control"] <= ControlDelay(ctlMode)
  /\ wake["control"] > 0 => age["control"] + wake["control"] <= ControlDelay(ctlMode)

(* The mode the Monitor saw last is the mode, but for one change since. *)
Seen ==
  /\ last_sys_mode = "NONE" =>
       wake["monitor"] = 0 /\ pulsed = 0 /\ \A t \in Tasks : age[t] = 0
  /\ changes = 0 /\ last_sys_mode # "NONE" => last_sys_mode = mode

(* When the mode has left STANDBY and the control task has not followed, the
   Monitor has not seen it either, or the control task will be first. *)
Chased ==
  ctlMode = "STANDBY" /\ mode # "STANDBY" =>
    \/ last_sys_mode = "STANDBY" /\ changes = 1 /\ mode # "ARMED"
    \/ last_sys_mode = "NONE"
    \/ wake["control"] <= wake["monitor"]

(* A control task that is behind and in STANDBY will not leave it for ARMED. *)
Behind ==
  ctlMode = "STANDBY" /\ wake["control"] < 0 =>
    mode = "STANDBY" \/ (changes = 1 /\ mode # "ARMED")

(* A sensor task that is never suspended keeps its period. *)
Steady == \A t \in Sensors \ Suspendable : wake[t] > 0 => age[t] + wake[t] <= Period[t]

(* The control task is behind, and the mode cannot change before it is not. *)
CatchesUp ==
  changes = 1 /\ settle = 0 /\ mode = ctlMode /\ mode # "ARMED" /\ wake["control"] <= 0

(* How far a sensor task of period p can be ahead after it has been resumed, when
   the control task is w ticks early: by less, the more it is behind. *)
Slack(p, w) == MaxOf(0, p - MaxOf(0, -w))

AheadOf(t) ==
  /\ t \in early => wake[t] <= Period[t]
  /\ ctlMode = "STANDBY" => wake[t] <= Period[t] + MaxOf(0, wake["control"])
  /\ ctlMode # "STANDBY" =>
       /\ wake[t] <= 2 * Period[t]
       /\ \/ /\ wake[t] <= Period[t] + Slack(Period[t], wake["control"])
             /\ t \in early => wake[t] <= Slack(Period[t], wake["control"])
          \/ CatchesUp

Ahead == \A t \in Suspendable : AheadOf(t)

(* A sensor task that is not suspended is stamped within two periods. *)
StampedOf(t) ==
  /\ wake[t] > 0 => age[t] + wake[t] <= 2 * Period[t]
  /\ t \in Outranked => age[t] <= 2 * Period[t] + pulsed
  /\ t \in Outranked /\ spin => age[t] + 1 <= 2 * Period[t] + pulsed
  /\ t \notin Outranked => age[t] <= 2 * Period[t]

Stamped == \A t \in Sensors : ~Suspended(t) => StampedOf(t)

(* While no task has hung, however the modes change and time is lost. *)
Calm == OfControl /\ Steady /\ exposed = 0

(* ... and the Monitor is not deceived. *)
Healthy == Blameless /\ Seen /\ Chased /\ Behind /\ Ahead /\ Stamped

Sound == Calm /\ OfMonitor /\ Healthy

(* What a tick finds that does not starve the Monitor: every pass that is due has run. *)
LEMMA TickFacts ==
  ASSUME TInv, NoTimeLost, "monitor" \notin hung, Tick, ~starved'
  PROVE  /\ snap = -1 /\ ~ControlDue
         /\ wake["monitor"] > 0 \/ spin
         /\ \A t \in Sensors : ~Executes(t)
         /\ ~(MonitorReady /\ ~Preempted)
<1>0. ~LosesTime
  BY Zenon DEF Tick
<1>1. \A t \in Sensors : ~Executes(t)
  BY <1>0 DEF LosesTime
<1>2. ~ControlDue
  BY DEF Tick
<1>3. Preempted => spin
  BY <1>1, <1>2 DEF Preempted, Executes
<1>4. ~(MonitorReady /\ (snap >= 0 \/ ~Preempted))
  BY <1>0 DEF LosesTime
<1>5. snap = -1
  BY <1>4 DEF MonitorReady, NoTimeLost
<1>6. ~MonitorReady \/ spin
  BY <1>3, <1>4
<1>7. wake["monitor"] > 0 \/ spin
  BY <1>6, Named DEF MonitorReady, TInv, Clocks
<1> QED  BY <1>1, <1>2, <1>4, <1>5, <1>7

LEMMA NoTimeLostKept ==
  ASSUME TInv, NoTimeLost, Next, "monitor" \notin hung, ~starved'
  PROVE  NoTimeLost'
<1>1. CASE Tick
  <2>1. snap = -1 /\ (\A t \in Sensors : ~Executes(t)) /\ ~(MonitorReady /\ ~Preempted)
    BY <1>1, TickFacts
  <2>2. \A t \in Sensors : run'[t] = 0
    BY <1>1, <2>1 DEF Tick, NoTimeLost
  <2>3. snap' = -1 /\ stall' = 0
    BY <1>1, <2>1 DEF Tick, NoTimeLost
  <2> QED  BY <2>2, <2>3 DEF NoTimeLost
<1>2. CASE ControlPass
  BY <1>2 DEF ControlPass, NoTimeLost, monVars
<1>3. CASE \E t \in Sensors : SensorPass(t)
  BY <1>3, Numbers DEF SensorPass, NoTimeLost, monVars, TInv, Clocks
<1>4. CASE MonitorBegin \/ MonitorJudge
  BY <1>4 DEF MonitorBegin, MonitorJudge, NoTimeLost, runVars
<1>5. CASE ChangeMode \/ Hang
  BY <1>5 DEF ChangeMode, Hang, NoTimeLost, runVars, monVars
<1>6. CASE Pulse
  <2>1. ~(snap >= 0)
    BY <1>6, Zenon DEF Pulse
  <2> QED  BY <1>6, <2>1 DEF Pulse, NoTimeLost
<1>7. CASE Reset
  BY <1>7 DEF Reset, NoTimeLost
<1> QED  BY <1>1, <1>2, <1>3, <1>4, <1>5, <1>6, <1>7 DEF Next

LEMMA SoundInit == ASSUME Timing, Init PROVE Sound /\ NoTimeLost
<1>1. /\ \A t \in Tasks : age[t] = 0
      /\ wake["control"] = StandbyPeriod /\ wake["monitor"] = 0
      /\ \A t \in Sensors : wake[t] = Period[t]
  BY Named DEF Init
<1>2. OfMonitor /\ OfControl /\ Blameless /\ exposed = 0
  BY <1>1, Named, Numbers DEF Init, OfMonitor, OfControl, Blameless, ControlDelay
<1>3. Seen /\ Chased /\ Behind
  BY <1>1, Numbers DEF Init, Seen, Chased, Behind
<1>4. Steady /\ Stamped
  BY <1>1, Named, Numbers DEF Init, Steady, Stamped, StampedOf
<1>5. Ahead
  BY <1>1, SensorAssumption, Numbers DEF Init, Ahead, AheadOf, MaxOf
<1>6. NoTimeLost
  BY DEF Init, NoTimeLost
<1> QED  BY <1>2, <1>3, <1>4, <1>5, <1>6 DEF Sound, Calm, Healthy

LEMMA CalmTick ==
  ASSUME TInv, hung = {}, Calm, Tick
  PROVE  Calm'
<1>0. Clocks /\ Scalars /\ OfControl /\ Steady /\ exposed = 0
  BY DEF TInv, Calm
<1>1. ~ControlDue
  BY DEF Tick
<1>2. \A t \in Tasks : /\ age[t] \in Nat /\ wake[t] \in Int /\ wake[t] >= -MaxBacklog
                       /\ age'[t] \in Nat /\ age'[t] <= age[t] + 1
                       /\ wake'[t] = IF wake[t] > -MaxBacklog THEN wake[t] - 1 ELSE wake[t]
  BY <1>0, Numbers DEF Clocks, Tick, Older
<1>3. /\ settle > 0 => age'["control"] = 0
      /\ settle \in Nat /\ settle' \in Nat /\ (settle' > 0 => settle > 0)
      /\ settle = 0 => settle' = 0 /\ wake["control"] > 0
  <2>1. settle \in Nat /\ wake["control"] \in Int
    BY <1>0, <1>2, Named, Numbers DEF Scalars
  <2>2. settle = 0 => wake["control"] > 0
    BY <1>1, <2>1 DEF ControlDue
  <2>3. settle' = IF settle > 0 THEN settle - 1 ELSE settle
    BY DEF Tick
  <2>4. settle > 0 => age'["control"] = 0
    BY Named DEF Tick
  <2> QED  BY <2>1, <2>2, <2>3, <2>4
<1>4. ctlMode' = ctlMode /\ exposed' = 0
  BY DEF Tick
<1>5. OfControl'
  BY <1>0, <1>2, <1>3, <1>4, Named, Numbers DEF OfControl, ControlDelay
<1>6. Steady'
  BY <1>0, <1>2, Named, Numbers DEF Steady
<1> QED  BY <1>4, <1>5, <1>6 DEF Calm

LEMMA CalmSensorPass ==
  ASSUME TInv, hung = {}, Calm, NEW s \in Sensors, SensorPass(s)
  PROVE  Calm'
<1>0. Clocks /\ Sets /\ OfControl /\ Steady /\ exposed = 0
  BY DEF TInv, Calm
<1>1. /\ \A t \in Tasks : t # s => age'[t] = age[t] /\ wake'[t] = wake[t]
      /\ age'[s] = 0 /\ wake'[s] = wake[s] + Period[s]
      /\ s \in Tasks /\ s # "control" /\ s # "monitor"
  BY <1>0, Named DEF Clocks, SensorPass
<1>2. age'["control"] = age["control"] /\ wake'["control"] = wake["control"]
  BY <1>1, Named
<1>3. UNCHANGED <<ctlMode, settle, exposed>>
  BY DEF SensorPass, ctlVars
<1>4. wake[s] <= 0 \/ s \in early
  BY DEF SensorPass, Executes, Active
<1>5. wake[s] \in Int /\ Period[s] \in Nat /\ Period[s] > 0
  BY <1>0, Named, Numbers DEF Clocks
<1>6. OfControl'
  BY <1>0, <1>2, <1>3 DEF OfControl
<1>7. Steady'
  <2> SUFFICES ASSUME NEW t \in Sensors \ Suspendable, wake'[t] > 0
               PROVE  age'[t] + wake'[t] <= Period[t]
    BY DEF Steady
  <2>1. CASE t # s
    BY <1>0, <1>1, <2>1, Named DEF Steady
  <2>2. CASE t = s
    <3>1. wake[s] <= 0
      BY <1>0, <1>4, <2>2 DEF Sets
    <3> QED  BY <1>1, <1>5, <2>2, <3>1
  <2> QED  BY <2>1, <2>2
<1> QED  BY <1>0, <1>3, <1>6, <1>7 DEF Calm

LEMMA CalmControlPass ==
  ASSUME TInv, hung = {}, Calm, ControlPass
  PROVE  Calm'
<1> DEFINE arms == ctlMode # "ARMED" /\ mode = "ARMED"
<1>0. Clocks /\ Scalars /\ OfControl /\ Steady /\ exposed = 0
  BY DEF TInv, Calm
<1>1. /\ settle = 0 /\ wake["control"] <= 0 /\ wake["control"] \in Int
      /\ ControlDelay(mode) \in Nat /\ ControlDelay(mode) > 0
  BY <1>0, Named, Numbers DEF ControlPass, ControlDue, Clocks, ControlDelay
<1>2. ctlMode' = mode /\ exposed' = exposed /\ settle' = IF arms THEN ArmSettle ELSE 0
  BY DEF ControlPass, monVars
<1>3. /\ \A t \in Tasks : t # "control" => wake'[t] = wake[t]
      /\ arms => wake'["control"] = wake["control"]
      /\ ~arms => wake'["control"] = wake["control"] + ControlDelay(mode)
  BY <1>0, Named DEF ControlPass, Clocks
<1>4. /\ age'["control"] = 0
      /\ \A t \in Tasks \ Suspendable : t # "control" => age'[t] = age[t]
  BY Named, SensorAssumption DEF ControlPass, Resumed
<1>5. OfControl'
  BY <1>1, <1>2, <1>3, <1>4, Numbers DEF OfControl
<1>6. Steady'
  BY <1>0, <1>3, <1>4, Named DEF Steady
<1> QED  BY <1>0, <1>2, <1>5, <1>6 DEF Calm

LEMMA CalmElse ==
  ASSUME TInv, hung = {}, Calm, ChangeMode \/ Pulse \/ MonitorBegin \/ MonitorJudge
  PROVE  Calm'
<1>0. Clocks /\ OfControl /\ Steady /\ exposed = 0
  BY DEF TInv, Calm
<1>1. ctlMode' = ctlMode /\ settle' = settle
  BY DEF ChangeMode, Pulse, MonitorBegin, MonitorJudge, ctlVars
<1>2. \A t \in Tasks : t # "monitor" => age'[t] = age[t] /\ wake'[t] = wake[t]
  BY <1>0 DEF ChangeMode, Pulse, MonitorBegin, MonitorJudge, Clocks
<1>3. exposed' = 0
  BY <1>0 DEF ChangeMode, Pulse, MonitorBegin, MonitorJudge
<1>4. OfControl'
  BY <1>0, <1>1, <1>2, Named DEF OfControl
<1>5. Steady'
  BY <1>0, <1>2, Named DEF Steady
<1> QED  BY <1>3, <1>4, <1>5 DEF Calm

LEMMA OnTimeTick ==
  ASSUME Timing, TInv, NoTimeLost, hung = {}, OfMonitor, Tick, ~starved'
  PROVE  OfMonitor'
<1>0. Clocks /\ Scalars
  BY DEF TInv
<1>1. wake["monitor"] > 0 \/ spin
  BY TickFacts
<1>2. /\ age["monitor"] \in Nat /\ wake["monitor"] \in Int /\ age'["monitor"] \in Nat
      /\ age'["monitor"] <= age["monitor"] + 1
      /\ wake["monitor"] > -MaxBacklog => wake'["monitor"] = wake["monitor"] - 1
  BY <1>0, Named, Numbers DEF Clocks, Tick, Older
<1>3. pulsed' = pulsed /\ spin' = FALSE /\ pulsed \in Nat
  BY <1>0 DEF Tick, Scalars
<1>4. wake["monitor"] + pulsed >= 1
  BY <1>1, <1>2, <1>3 DEF OfMonitor
<1>5. pulsed <= Brief /\ Brief <= MaxBacklog
  BY DEF OfMonitor, Timing
<1>6. wake["monitor"] > -MaxBacklog
  BY <1>2, <1>3, <1>4, <1>5, Numbers
<1>7. /\ wake'["monitor"] + pulsed >= 0
      /\ age'["monitor"] + wake'["monitor"] <= MonitorPeriod
  BY <1>2, <1>3, <1>4, <1>6, Numbers DEF OfMonitor
<1> QED  BY <1>3, <1>5, <1>7 DEF OfMonitor

LEMMA OnTimeElse ==
  ASSUME TInv, NoTimeLost, hung = {}, OfMonitor, ~starved',
         \/ ControlPass \/ \E s \in Sensors : SensorPass(s)
         \/ ChangeMode \/ Pulse \/ MonitorBegin \/ MonitorJudge
  PROVE  OfMonitor'
<1>0. Clocks /\ Scalars /\ Begun
  BY DEF TInv
<1>1. /\ wake["monitor"] \in Int /\ age["monitor"] \in Nat
      /\ pulsed \in Nat /\ MonitorPeriod \in Nat /\ MonitorPeriod > 0 /\ Brief \in Nat
  BY <1>0, Named, Numbers DEF Clocks, Scalars
<1>2. CASE ControlPass \/ (\E s \in Sensors : SensorPass(s)) \/ ChangeMode
  <2>1. UNCHANGED <<spin, snap, pulsed>>
    BY <1>2 DEF ControlPass, SensorPass, ChangeMode, monVars, runVars
  <2>2. wake'["monitor"] = wake["monitor"] /\ age'["monitor"] = age["monitor"]
    BY <1>0, <1>2, Named, SensorAssumption DEF ControlPass, SensorPass, ChangeMode, Clocks, Resumed
  <2> QED  BY <2>1, <2>2 DEF OfMonitor
<1>3. CASE Pulse
  <2>1. spin' = TRUE /\ ~spin /\ wake' = wake /\ age' = age /\ snap' = snap
    BY <1>3 DEF Pulse
  <2>2. ~(pulsed' > Brief) /\ ~(snap >= 0)
    BY <1>3, Zenon DEF Pulse
  <2>3. snap = -1
    BY <2>2 DEF NoTimeLost
  <2>4. pulsed' = pulsed + 1
    BY <1>3 DEF Pulse, OfMonitor
  <2> QED  BY <1>1, <2>1, <2>2, <2>3, <2>4 DEF OfMonitor
<1>4. CASE MonitorBegin
  <2>1. ~spin /\ spin' = spin /\ wake' = wake /\ age' = age /\ pulsed' = pulsed
    BY <1>4 DEF MonitorBegin, Preempted, runVars
  <2> QED  BY <2>1 DEF OfMonitor
<1>5. CASE MonitorJudge
  <2>1. /\ ~spin /\ spin' = spin /\ pulsed' = 0
        /\ age'["monitor"] = 0 /\ wake'["monitor"] = wake["monitor"] + MonitorPeriod
    BY <1>0, <1>5, Named DEF MonitorJudge, Preempted, runVars, Clocks
  <2>2. wake["monitor"] <= 0
    BY <1>0, <1>5 DEF MonitorJudge, Begun
  <2>3. wake'["monitor"] >= 0
    BY <1>1, <2>1, Numbers DEF OfMonitor
  <2> QED  BY <1>1, <2>1, <2>2, <2>3 DEF OfMonitor
<1> QED  BY <1>2, <1>3, <1>4, <1>5

LEMMA HealthyTick ==
  ASSUME Timing, TInv, NoTimeLost, hung = {}, Sound, Tick, ~starved'
  PROVE  Healthy'
<1>0. /\ Clocks /\ Scalars /\ OfMonitor /\ OfControl /\ Seen /\ Chased /\ Behind
      /\ Blameless /\ Ahead /\ Stamped
  BY DEF TInv, Sound, Calm, Healthy
<1>1. /\ ~ControlDue /\ (wake["monitor"] > 0 \/ spin)
      /\ \A t \in Sensors : ~Executes(t)
  BY TickFacts
<1>2. \A t \in Tasks : /\ age[t] \in Nat /\ wake[t] \in Int /\ wake[t] >= -MaxBacklog
                       /\ age'[t] \in Nat /\ age'[t] <= age[t] + 1
                       /\ wake'[t] = IF wake[t] > -MaxBacklog THEN wake[t] - 1 ELSE wake[t]
  BY <1>0, Numbers DEF Clocks, Tick, Older
<1>3. settle = 0 => wake["control"] > 0
  BY <1>0, <1>1, <1>2, Named DEF ControlDue
<1>4. /\ UNCHANGED <<mode, ctlMode, early, hung, last_sys_mode, blamed, changes, pulsed>>
      /\ spin' = FALSE /\ wdt' = wdt + 1 /\ settle \in Nat
      /\ wdt \in Nat /\ pulsed \in Nat
  BY <1>0, Numbers DEF Tick, WatchdogCount, Scalars
<1>5. Blameless'
  <2>1. wake["monitor"] + pulsed >= 1
    BY <1>0, <1>1, <1>2, <1>4, Named DEF OfMonitor
  <2>2. pulsed <= Brief /\ Brief <= MaxBacklog
    BY <1>0 DEF OfMonitor, Timing
  <2>3. wake'["monitor"] = wake["monitor"] - 1
    BY <1>2, <1>4, <2>1, <2>2, Named, Numbers
  <2> QED  BY <1>0, <1>2, <1>4, <2>3, Named, Numbers DEF Blameless
<1>7. Seen' /\ Chased' /\ Behind'
  <2>1. Seen'
    BY <1>0, <1>1, <1>4 DEF Seen, OfMonitor
  <2>2. Chased'
    BY <1>0, <1>2, <1>4, Named, Numbers DEF Chased
  <2>3. ctlMode = "STANDBY" => settle = 0
    BY <1>0, <1>4 DEF OfControl
  <2>4. Behind'
    BY <1>2, <1>3, <1>4, <2>3, Named, Numbers DEF Behind
  <2> QED  BY <2>1, <2>2, <2>4
<1>9. Ahead'
  <2> SUFFICES ASSUME NEW t \in Suspendable PROVE AheadOf(t)'
    BY DEF Ahead
  <2>1. /\ t \in Tasks /\ t \in Sensors /\ wake'[t] <= wake[t] /\ wake[t] \in Int /\ wake'[t] \in Int
        /\ Period[t] \in Nat /\ Period[t] > 0
        /\ wake'[t] = IF wake[t] > -MaxBacklog THEN wake[t] - 1 ELSE wake[t]
    BY <1>2, SensorAssumption, Named, Numbers
  <2>2. /\ wake["control"] \in Int /\ wake["control"] >= -MaxBacklog
        /\ wake'["control"] = IF wake["control"] > -MaxBacklog THEN wake["control"] - 1
                                                             ELSE wake["control"]
    BY <1>2, Named
  <2>3. t \in early => wake'[t] <= Period[t]
    BY <1>0, <2>1 DEF Ahead, AheadOf
  <2>4. ASSUME ctlMode = "STANDBY" PROVE wake'[t] <= Period[t] + MaxOf(0, wake'["control"])
    <3>1. wake["control"] > 0 /\ wake[t] <= Period[t] + wake["control"]
      BY <1>0, <1>3, <1>4, <2>2, <2>4 DEF Ahead, AheadOf, MaxOf, OfControl
    <3> QED  BY <2>1, <2>2, <3>1, Numbers DEF MaxOf
  <2>5. ASSUME ctlMode # "STANDBY"
        PROVE  /\ wake'[t] <= 2 * Period[t]
               /\ wake'[t] <= Period[t] + Slack(Period[t], wake'["control"])
               /\ t \in early => wake'[t] <= Slack(Period[t], wake'["control"])
    <3>1. ~CatchesUp
      BY <1>3, <2>2 DEF CatchesUp
    <3>2. /\ wake[t] <= Period[t] + Slack(Period[t], wake["control"])
          /\ t \in early => wake[t] <= Slack(Period[t], wake["control"])
      BY <1>0, <2>5, <3>1 DEF Ahead, AheadOf
    <3>3. wake[t] <= 2 * Period[t]
      BY <1>0, <2>5 DEF Ahead, AheadOf
    <3>4. wake'[t] <= Period[t] + Slack(Period[t], wake'["control"])
      BY <2>1, <2>2, <3>2, Numbers DEF Slack, MaxOf
    <3>5. t \in early => wake'[t] <= Slack(Period[t], wake'["control"])
      BY <2>1, <2>2, <3>2, Numbers DEF Slack, MaxOf
    <3> QED  BY <2>1, <3>3, <3>4, <3>5
  <2>6. ctlMode' = ctlMode /\ early' = early
    BY <1>4
  <2> QED  BY <2>3, <2>4, <2>5, <2>6 DEF AheadOf, MaxOf, Slack
<1>10. Stamped'
  <2> SUFFICES ASSUME NEW t \in Sensors, ~Suspended(t) PROVE StampedOf(t)'
    BY <1>4 DEF Stamped, Suspended
  <2>1. /\ wake[t] \in Int /\ Period[t] \in Nat /\ Period[t] > 0 /\ age[t] \in Nat /\ age'[t] \in Nat
        /\ wake'[t] = IF wake[t] > -MaxBacklog THEN wake[t] - 1 ELSE wake[t]
        /\ age'[t] <= age[t] + 1
    BY <1>2, Named, Numbers
  <2>2. wake[t] > 0 \/ (t \in Outranked /\ spin)
    BY <1>1, <2>1 DEF Executes, Active, Runs
  <2>3. CASE wake[t] > 0
    <3>1. age[t] + wake[t] <= 2 * Period[t]
      BY <1>0, <2>3 DEF Stamped, StampedOf
    <3>2. age'[t] + wake'[t] <= 2 * Period[t] /\ age'[t] <= 2 * Period[t]
      BY <2>1, <2>3, <3>1, Numbers
    <3> QED  BY <1>4, <2>1, <3>2 DEF StampedOf
  <2>4. CASE ~(wake[t] > 0)
    <3>1. t \in Outranked /\ spin
      BY <2>2, <2>4
    <3>2. age[t] + 1 <= 2 * Period[t] + pulsed
      BY <1>0, <3>1 DEF Stamped, StampedOf
    <3>3. ~(wake'[t] > 0)
      BY <2>1, <2>4, Numbers
    <3> QED  BY <1>4, <2>1, <3>1, <3>2, <3>3 DEF StampedOf
  <2> QED  BY <2>3, <2>4
<1> QED  BY <1>5, <1>7, <1>9, <1>10 DEF Healthy

LEMMA HealthySensorPass ==
  ASSUME Timing, TInv, hung = {}, Sound, NEW s \in Sensors, SensorPass(s)
  PROVE  Healthy'
<1>0. /\ Clocks /\ Scalars /\ Sets /\ Seen /\ Chased /\ Behind
      /\ Blameless /\ Ahead /\ Stamped
  BY DEF TInv, Sound, Healthy
<1>1. /\ \A t \in Tasks : t # s => age'[t] = age[t] /\ wake'[t] = wake[t]
      /\ age'[s] = 0 /\ wake'[s] = wake[s] + Period[s]
      /\ s \in Tasks /\ s # "control" /\ s # "monitor"
  BY <1>0, Named DEF Clocks, SensorPass
<1>2. /\ age'["control"] = age["control"] /\ wake'["control"] = wake["control"]
      /\ age'["monitor"] = age["monitor"] /\ wake'["monitor"] = wake["monitor"]
  BY <1>1, Named
<1>3. /\ UNCHANGED <<mode, ctlMode, settle, spin, hung, snap, last_sys_mode, blamed, wdt>>
      /\ UNCHANGED <<changes, pulsed, exposed>>
      /\ early' = early \ {s}
  BY DEF SensorPass, ctlVars, monVars
<1>4. ~Suspended(s) /\ (wake[s] <= 0 \/ s \in early)
  BY DEF SensorPass, Executes, Active, Runs
<1>5. Blameless'
  BY <1>0, <1>2, <1>3 DEF Blameless
<1>6. Seen' /\ Chased' /\ Behind'
  BY <1>0, <1>1, <1>2, <1>3 DEF Seen, Chased, Behind
<1>7. wake[s] \in Int /\ Period[s] \in Nat /\ Period[s] > 0
  BY <1>0, Named, Numbers DEF Clocks
<1>9. Ahead'
  <2> SUFFICES ASSUME NEW t \in Suspendable PROVE AheadOf(t)'
    BY DEF Ahead
  <2>0. AheadOf(t) /\ t \in Tasks
    BY <1>0, SensorAssumption, Named DEF Ahead
  <2>1. CatchesUp => CatchesUp'
    BY <1>2, <1>3 DEF CatchesUp
  <2>2. UNCHANGED <<ctlMode>> /\ early' = early \ {s}
    BY <1>3
  <2>3. CASE t # s
    <3>1. wake'[t] = wake[t] /\ (t \in early' => t \in early)
      BY <1>1, <2>0, <2>2, <2>3
    <3> QED  BY <1>2, <2>0, <2>1, <2>2, <3>1 DEF AheadOf
  <2>4. CASE t = s
    <3>1. ctlMode # "STANDBY" /\ t \notin early'
      BY <1>4, <2>2, <2>4 DEF Suspended
    <3>2. Slack(Period[t], wake["control"]) \in Nat
      BY <1>0, <1>7, <2>4, Named DEF Slack, MaxOf, Clocks
    <3>3. wake'[t] <= 2 * Period[t]
      BY <1>1, <1>4, <1>7, <2>0, <2>4 DEF AheadOf
    <3>4. wake'[t] <= Period[t] + Slack(Period[t], wake["control"]) \/ CatchesUp
      BY <1>1, <1>4, <1>7, <2>0, <2>4, <3>1, <3>2 DEF AheadOf
    <3> QED  BY <1>2, <2>1, <2>2, <3>1, <3>3, <3>4 DEF AheadOf
  <2> QED  BY <2>3, <2>4
<1>10. Stamped'
  <2> SUFFICES ASSUME NEW t \in Sensors, ~Suspended(t) PROVE StampedOf(t)'
    BY <1>3 DEF Stamped, Suspended
  <2>0. StampedOf(t) /\ t \in Tasks
    BY <1>0, Named DEF Stamped
  <2>1. CASE t # s
    BY <1>1, <1>3, <2>0, <2>1 DEF StampedOf
  <2>2. CASE t = s
    <3>1. age'[t] = 0 /\ wake'[t] = wake[t] + Period[t] /\ pulsed \in Nat
      BY <1>0, <1>1, <2>2 DEF Scalars
    <3>2. wake'[t] <= 2 * Period[t]
      BY <1>0, <1>1, <1>4, <1>7, <2>2 DEF Ahead, AheadOf, Sets
    <3>3. /\ age'[t] + wake'[t] <= 2 * Period[t]
          /\ age'[t] <= 2 * Period[t] /\ age'[t] + 1 <= 2 * Period[t] + pulsed
          /\ age'[t] <= 2 * Period[t] + pulsed
      BY <1>7, <2>2, <3>1, <3>2
    <3> QED  BY <1>3, <3>3 DEF StampedOf
  <2> QED  BY <2>1, <2>2
<1> QED  BY <1>5, <1>6, <1>9, <1>10 DEF Healthy

LEMMA HealthyControlPass ==
  ASSUME Timing, TInv, hung = {}, Sound, ControlPass
  PROVE  Healthy'
<1> DEFINE arms == ctlMode # "ARMED" /\ mode = "ARMED"
<1>0. /\ Clocks /\ Scalars /\ Sets /\ OfMonitor /\ Seen /\ Chased /\ Behind
      /\ Blameless /\ Ahead /\ Stamped
  BY DEF TInv, Sound, Healthy
<1>1. /\ settle = 0 /\ wake["control"] <= 0 /\ wake["control"] \in Int
      /\ ControlDelay(mode) \in Nat /\ ControlDelay(mode) > 0
  BY <1>0, Named, Numbers DEF ControlPass, ControlDue, Clocks, ControlDelay
<1>2. /\ ctlMode' = mode
      /\ early' = early \cup {t \in Resumed(mode) : wake[t] > 0}
      /\ settle' = IF arms THEN ArmSettle ELSE 0
      /\ UNCHANGED <<mode, spin, hung, snap, last_sys_mode, blamed, wdt>>
      /\ UNCHANGED <<changes, pulsed, exposed>>
  BY DEF ControlPass, monVars
<1>3. /\ \A t \in Tasks : t # "control" => wake'[t] = wake[t]
      /\ arms => wake'["control"] = wake["control"]
      /\ ~arms => wake'["control"] = wake["control"] + ControlDelay(mode)
  BY <1>0, Named DEF ControlPass, Clocks
<1>4. /\ age'["control"] = 0
      /\ \A t \in Tasks : age'[t] \in {age[t], 0}
      /\ \A t \in Tasks \ Suspendable : t # "control" => age'[t] = age[t]
      /\ ctlMode = "STANDBY" /\ mode # "STANDBY" => \A t \in Suspendable : age'[t] = 0
  BY Named, SensorAssumption DEF ControlPass, Resumed
<1>5. "monitor" \in Tasks \ Suspendable /\ Suspendable \subseteq Sensors
  BY SensorAssumption, Named
<1>6. Blameless'
  BY <1>0, <1>2, <1>3, <1>5 DEF Blameless
<1>8. Seen' /\ Chased' /\ Behind'
  BY <1>0, <1>2, <1>3, <1>4, <1>5 DEF Seen, Chased, Behind
<1>10. ASSUME NEW t \in Suspendable
       PROVE  /\ wake'[t] = wake[t] /\ wake[t] \in Int
              /\ Period[t] \in Nat /\ Period[t] > 0 /\ Period[t] <= StandbyPeriod
              /\ AheadOf(t)
  BY <1>0, <1>3, <1>5, Named, Numbers DEF Timing, Ahead, Clocks
<1>11. Ahead'
  <2> SUFFICES ASSUME NEW t \in Suspendable PROVE AheadOf(t)'
    BY DEF Ahead
  <2>0. /\ wake'[t] = wake[t] /\ wake[t] \in Int
        /\ Period[t] \in Nat /\ Period[t] > 0 /\ Period[t] <= StandbyPeriod
        /\ AheadOf(t)
    BY <1>10
  <2>1. CASE mode = "STANDBY"
    <3>1. early' = early /\ wake'["control"] = wake["control"] + StandbyPeriod
      BY <1>2, <1>3, <2>1 DEF Resumed, ControlDelay
    <3>2. ctlMode # "STANDBY" => ~CatchesUp
      BY <2>1 DEF CatchesUp
    <3>3. wake[t] <= Period[t] + MaxOf(0, wake["control"] + StandbyPeriod)
      BY <1>1, <2>0, <3>2, Numbers DEF AheadOf, MaxOf, Slack
    <3> QED  BY <1>2, <2>0, <2>1, <3>1, <3>3 DEF AheadOf, MaxOf
  <2>2. CASE mode # "STANDBY" /\ ctlMode = "STANDBY"
    <3>1. wake[t] <= Period[t]
      BY <1>1, <2>0, <2>2 DEF AheadOf, MaxOf
    <3>2. CASE wake["control"] = 0
      <4>1. wake'["control"] >= 0 /\ wake'["control"] \in Int
        BY <1>1, <1>3, <3>2
      <4>2. Slack(Period[t], wake'["control"]) = Period[t]
        BY <2>0, <4>1 DEF Slack, MaxOf
      <4> QED  BY <1>2, <2>0, <2>2, <3>1, <4>2 DEF AheadOf, MaxOf, Slack
    <3>3. CASE wake["control"] # 0
      <4>1. changes = 1 /\ mode # "ARMED" /\ ~arms
        BY <1>0, <1>1, <2>2, <3>3 DEF Behind
      <4>2. wake'["control"] \in Int
        BY <1>1, <1>3, <4>1
      <4>3. CASE wake'["control"] <= 0
        <5>1. CatchesUp'
          BY <1>2, <4>1, <4>3 DEF CatchesUp
        <5> QED  BY <1>2, <2>0, <2>2, <3>1, <5>1 DEF AheadOf
      <4>4. CASE wake'["control"] > 0
        <5>1. Slack(Period[t], wake'["control"]) = Period[t]
          BY <2>0, <4>2, <4>4 DEF Slack, MaxOf
        <5> QED  BY <1>2, <2>0, <2>2, <3>1, <5>1 DEF AheadOf, MaxOf, Slack
      <4> QED  BY <4>2, <4>3, <4>4
    <3> QED  BY <3>2, <3>3
  <2>3. CASE mode # "STANDBY" /\ ctlMode # "STANDBY"
    <3>1. early' = early
      BY <1>2, <2>3 DEF Resumed
    <3>2. wake'["control"] \in Int /\ wake'["control"] >= wake["control"]
      BY <1>1, <1>3
    <3>3. wake[t] <= 2 * Period[t] /\ (t \in early => wake[t] <= Period[t])
      BY <2>0, <2>3 DEF AheadOf
    <3>4. CASE CatchesUp
      <4>1. ~arms
        BY <3>4 DEF CatchesUp
      <4>2. CASE wake'["control"] <= 0
        <5>1. CatchesUp'
          BY <1>2, <3>4, <4>1, <4>2 DEF CatchesUp
        <5> QED  BY <1>2, <2>0, <2>3, <3>1, <3>3, <5>1 DEF AheadOf
      <4>3. CASE wake'["control"] > 0
        <5>1. Slack(Period[t], wake'["control"]) = Period[t]
          BY <2>0, <3>2, <4>3 DEF Slack, MaxOf
        <5> QED  BY <1>2, <2>0, <2>3, <3>1, <3>3, <5>1 DEF AheadOf, MaxOf, Slack
      <4> QED  BY <3>2, <4>2, <4>3
    <3>5. CASE ~CatchesUp
      <4>1. /\ wake[t] <= Period[t] + Slack(Period[t], wake["control"])
            /\ t \in early => wake[t] <= Slack(Period[t], wake["control"])
        BY <2>0, <2>3, <3>5 DEF AheadOf
      <4>2. /\ wake[t] <= Period[t] + Slack(Period[t], wake'["control"])
            /\ t \in early => wake[t] <= Slack(Period[t], wake'["control"])
        BY <1>1, <2>0, <3>2, <4>1 DEF Slack, MaxOf
      <4> QED  BY <1>2, <2>0, <2>3, <3>1, <3>3, <4>2 DEF AheadOf, Slack, MaxOf
    <3> QED  BY <3>4, <3>5
  <2> QED  BY <2>1, <2>2, <2>3
<1>12. Stamped'
  <2> SUFFICES ASSUME NEW t \in Sensors, ~Suspended(t)' PROVE StampedOf(t)'
    BY DEF Stamped
  <2>0. /\ t \in Tasks /\ t # "control" /\ wake'[t] = wake[t] /\ wake[t] \in Int
        /\ Period[t] \in Nat /\ Period[t] > 0 /\ pulsed \in Nat
    BY <1>0, <1>3, Named, Numbers DEF Clocks, Scalars
  <2>1. CASE Suspended(t)
    <3>1. age'[t] = 0 /\ wake[t] <= Period[t]
      <4>1. t \in Suspendable /\ ctlMode = "STANDBY" /\ mode # "STANDBY"
        BY <1>2, <2>1 DEF Suspended
      <4>2. AheadOf(t)
        BY <1>10, <4>1
      <4> QED  BY <1>1, <1>4, <2>0, <4>1, <4>2 DEF AheadOf, MaxOf
    <3>2. /\ age'[t] + wake'[t] <= 2 * Period[t]
          /\ age'[t] <= 2 * Period[t] /\ age'[t] <= 2 * Period[t] + pulsed
          /\ pulsed >= 1 => age'[t] + 1 <= 2 * Period[t] + pulsed
      BY <2>0, <3>1
    <3>3. spin => pulsed >= 1
      BY <1>0 DEF OfMonitor
    <3> QED  BY <1>2, <3>2, <3>3 DEF StampedOf
  <2>2. CASE ~Suspended(t)
    <3>1. StampedOf(t) /\ age'[t] \in {age[t], 0} /\ age[t] \in Nat
      BY <1>0, <1>4, <2>0, <2>2, Numbers DEF Stamped, Clocks
    <3>2. age'[t] <= age[t] /\ age'[t] \in Nat
      BY <3>1
    <3>3. /\ wake'[t] > 0 => age'[t] + wake'[t] <= 2 * Period[t]
          /\ t \in Outranked => age'[t] <= 2 * Period[t] + pulsed
          /\ t \notin Outranked => age'[t] <= 2 * Period[t]
      BY <2>0, <3>1, <3>2 DEF StampedOf
    <3>4. t \in Outranked /\ spin => age'[t] + 1 <= 2 * Period[t] + pulsed
      BY <2>0, <3>1, <3>2 DEF StampedOf
    <3> QED  BY <1>2, <3>3, <3>4 DEF StampedOf
  <2> QED  BY <2>1, <2>2
<1> QED  BY <1>6, <1>8, <1>11, <1>12 DEF Healthy

(* A difference of two stamps that does not wrap around is the age. *)
LEMMA TicksOfAge ==
  ASSUME NEW n \in 0..Horizon PROVE TicksBetween(n, 0) = n
<1>1. n \in Nat /\ TickWrap \in Nat /\ n < TickWrap
  BY TimeAssumption
<1>2. n % TickWrap = n
  BY <1>1
<1> QED  BY <1>1, <1>2 DEF TicksBetween

LEMMA HealthyModes ==
  ASSUME TInv, hung = {}, Sound, ~starved', ~flipped',
         ChangeMode \/ Pulse \/ MonitorBegin
  PROVE  Healthy'
<1>0. /\ Clocks /\ Scalars /\ Sets /\ OfMonitor /\ Seen /\ Chased /\ Behind
      /\ Blameless /\ Ahead /\ Stamped
  BY DEF TInv, Sound, Healthy
<1>1. UNCHANGED <<age, wake, early, ctlMode, settle, last_sys_mode, blamed, wdt>>
  BY DEF ChangeMode, Pulse, MonitorBegin, ctlVars, runVars
<1>2. CASE ChangeMode
  <2>0. ~(changes > 0)
    BY <1>2, Zenon DEF ChangeMode
  <2>1. changes = 0 /\ changes' = 1 /\ UNCHANGED <<spin, snap, pulsed>>
    BY <1>0, <1>2, <2>0 DEF ChangeMode, Scalars, runVars
  <2>2. mode = "STANDBY" => mode' # "ARMED"
    BY <1>2 DEF ChangeMode
  <2>3. Blameless'
    BY <1>0, <1>1, <2>1 DEF Blameless
  <2>4. Seen' /\ Chased'
    BY <1>0, <1>1, <2>1, <2>2 DEF Seen, Chased
  <2>5. Behind'
    BY <1>0, <1>1, <2>1, <2>2 DEF Behind
  <2>6. Ahead'
    <3> SUFFICES ASSUME NEW t \in Suspendable PROVE AheadOf(t)'
      BY DEF Ahead
    <3>1. AheadOf(t) /\ ~CatchesUp
      BY <1>0, <2>1 DEF Ahead, CatchesUp
    <3> QED  BY <1>1, <3>1 DEF AheadOf, Slack, MaxOf
  <2>7. Stamped'
    BY <1>0, <1>1, <2>1 DEF Stamped, StampedOf, Suspended
  <2> QED  BY <2>3, <2>4, <2>5, <2>6, <2>7 DEF Healthy
<1>3. CASE Pulse \/ MonitorBegin
  <2>0. Pulse => last_sys_mode # "NONE"
    BY Zenon DEF Pulse
  <2>1. /\ UNCHANGED <<mode, changes>>
        /\ Pulse => spin' = TRUE /\ pulsed' = pulsed + 1 /\ ~spin
        /\ MonitorBegin => spin' = spin /\ pulsed' = pulsed /\ ~spin
        /\ pulsed \in Nat /\ pulsed' \in Nat /\ pulsed' >= pulsed
    BY <1>0, <1>3, Numbers DEF Pulse, MonitorBegin, Preempted, Scalars, runVars, OfMonitor
  <2>3. Blameless'
    BY <1>0, <1>1 DEF Blameless
  <2>5. Seen' /\ Chased' /\ Behind'
    BY <1>0, <1>1, <1>3, <2>0, <2>1 DEF Seen, Chased, Behind
  <2>6. Ahead'
    BY <1>0, <1>1, <2>1 DEF Ahead, AheadOf, CatchesUp, Slack, MaxOf
  <2>7. Stamped'
    <3> SUFFICES ASSUME NEW t \in Sensors, ~Suspended(t) PROVE StampedOf(t)'
      BY <1>1 DEF Stamped, Suspended
    <3>1. StampedOf(t) /\ age[t] \in Nat /\ Period[t] \in Nat
      BY <1>0, Named, Numbers DEF Stamped, Clocks
    <3>2. /\ t \in Outranked => age[t] <= 2 * Period[t] + pulsed'
          /\ t \in Outranked /\ spin' => age[t] + 1 <= 2 * Period[t] + pulsed'
      BY <1>3, <2>1, <3>1 DEF StampedOf
    <3> QED  BY <1>1, <3>1, <3>2 DEF StampedOf
  <2> QED  BY <2>3, <2>5, <2>6, <2>7 DEF Healthy
<1> QED  BY <1>2, <1>3

(* While no task has hung the Monitor finds none late. *)
LEMMA Verdict ==
  ASSUME Timing, TInv, NoTimeLost, hung = {}, Sound, MonitorJudge
  PROVE  blamed' = {} /\ mode' = mode /\ wdt' = 0 /\ exposed' = exposed
<1> DEFINE edge   == last_sys_mode \notin {"NONE", mode}
           opens  == Opens(last_sys_mode, mode)
           active == IF edge THEN opens ELSE guard
           since  == IF edge /\ opens THEN snap ELSE guardAge
           grace_elapsed  == TicksBetween(since, snap) >= Grace
           guard_timeout  == TicksBetween(since, snap) >= GuardMax
           control_synced == TicksBetween(since, age["control"]) >= 1
           monitor_only   == active /\ ~guard_timeout /\ ~(grace_elapsed /\ control_synced)
           watched == IF monitor_only THEN {"monitor"} ELSE WatchedIn(mode)
           late == {t \in watched : TicksBetween(age[t], snap) > Threshold[t]}
<1>0. /\ Clocks /\ Scalars /\ OfMonitor /\ OfControl /\ Seen /\ Chased /\ Begun
      /\ Steady /\ Stamped
  BY DEF TInv, Sound, Calm, Healthy
<1>1. /\ blamed' = late /\ mode' = (IF late # {} THEN "FAILSAFE" ELSE mode) /\ wdt' = Fed(late)
      /\ exposed' = (IF late # {} THEN 0 ELSE exposed)
  BY DEF MonitorJudge
<1>2. snap = 0 /\ ~Preempted /\ wake["monitor"] <= 0
  BY <1>0 DEF MonitorJudge, NoTimeLost, Begun
<1>3. \A t \in Tasks : /\ age[t] \in Nat /\ wake[t] \in Int
                       /\ TicksBetween(age[t], snap) = age[t]
                       /\ Threshold[t] \in Nat
  BY <1>0, <1>2, TicksOfAge, Numbers DEF Clocks
<1>4. age["monitor"] <= Threshold["monitor"]
  <2>1. wake["monitor"] + pulsed >= 0 /\ pulsed <= Brief /\ pulsed \in Nat
    BY <1>0 DEF OfMonitor, Scalars
  <2>2. age["monitor"] + wake["monitor"] <= MonitorPeriod
    BY <1>0 DEF OfMonitor
  <2> QED  BY <1>3, <2>1, <2>2, Named, Numbers DEF Timing
<1>5. ASSUME mode \notin Unwatched, ~monitor_only, NEW t \in Tasks, t # "monitor"
      PROVE  age[t] <= Threshold[t]
  <2>1. CASE ctlMode = "STANDBY"
    <3>1. settle = 0
      BY <1>0, <2>1 DEF OfControl, Scalars
    <3>2. wake["control"] > 0
      BY <1>2, <1>3, <3>1, Named DEF Preempted, ControlDue
    <3>3. ~(wake["control"] <= wake["monitor"])
      BY <1>2, <1>3, <3>2, Named
    <3>4. mode # "STANDBY"
      BY <1>5 DEF Unwatched
    <3>5. ASSUME last_sys_mode = "STANDBY", mode # "ARMED" PROVE FALSE
      <4>1. mode = "DISARMED"
        BY <1>0, <1>5, <3>5 DEF Unwatched, Scalars, SysModes
      <4>2. edge /\ opens
        BY <3>5, <4>1 DEF Opens
      <4>3. since = 0
        BY <1>2, <4>2
      <4>4. TicksBetween(since, snap) = 0
        BY <1>2, <4>3, TicksOfAge, Numbers
      <4>5. ~guard_timeout /\ ~grace_elapsed
        BY <4>4, Numbers
      <4> QED  BY <1>5, <4>2, <4>5
    <3>6. last_sys_mode = "NONE"
      BY <1>0, <2>1, <3>3, <3>4, <3>5 DEF Chased
    <3> QED  BY <1>0, <1>3, <3>6 DEF Seen
  <2>2. CASE ctlMode # "STANDBY"
    <3>1. CASE t = "control"
      BY <1>0, <1>3, <2>2, <3>1, Named, Numbers DEF OfControl, ControlDelay, Timing
    <3>2. CASE t # "control"
      <4>1. t \in Sensors /\ ~Suspended(t) /\ t \notin hung
        BY <1>5, <2>2, <3>2, Named DEF Suspended
      <4>2. wake[t] > 0 /\ Period[t] \in Nat
        BY <1>2, <1>3, <4>1, Numbers DEF Preempted, Active, Runs
      <4>3. CASE t \in Suspendable
        <5>1. age[t] + wake[t] <= 2 * Period[t] /\ 2 * Period[t] <= Threshold[t] + 1
          BY <1>0, <4>1, <4>2, <4>3 DEF Stamped, StampedOf, Timing
        <5> QED  BY <1>3, <4>2, <5>1
      <4>4. CASE t \notin Suspendable
        <5>1. age[t] + wake[t] <= Period[t] /\ Period[t] <= Threshold[t] + 1
          BY <1>0, <4>1, <4>2, <4>4 DEF Steady, Timing
        <5> QED  BY <1>3, <4>2, <5>1
      <4> QED  BY <4>3, <4>4
    <3> QED  BY <3>1, <3>2
  <2> QED  BY <2>1, <2>2
<1>6. watched \subseteq Tasks /\ \A t \in watched : age[t] <= Threshold[t]
  <2>1. CASE monitor_only
    BY <1>4, <2>1, Named
  <2>2. CASE ~monitor_only /\ mode \in Unwatched
    BY <1>4, <2>2, Named DEF WatchedIn
  <2>3. CASE ~monitor_only /\ mode \notin Unwatched
    BY <1>4, <1>5, <2>3 DEF WatchedIn
  <2> QED  BY <2>1, <2>2, <2>3
<1>7. late = {}
  <2> HIDE DEF watched
  <2> QED  BY <1>3, <1>6
<1> HIDE DEF late
<1> QED  BY <1>1, <1>7 DEF Fed

LEMMA HealthyJudge ==
  ASSUME Timing, TInv, NoTimeLost, hung = {}, Sound, MonitorJudge
  PROVE  Healthy'
<1>0. /\ Clocks /\ Scalars /\ OfMonitor /\ OfControl /\ Chased /\ Behind /\ Begun
      /\ Ahead /\ Stamped
  BY DEF TInv, Sound, Calm, Healthy
<1>1. blamed' = {} /\ mode' = mode /\ wdt' = 0
  BY Verdict
<1>2. /\ age' = [age EXCEPT !["monitor"] = 0]
      /\ wake' = [wake EXCEPT !["monitor"] = @ + MonitorPeriod]
      /\ snap >= 0 /\ snap' = -1 /\ changes' = 0 /\ pulsed' = 0 /\ last_sys_mode' = mode
      /\ UNCHANGED <<ctlMode, settle, early, run, spin, hung>>
      /\ ~Preempted
  BY DEF MonitorJudge, ctlVars, runVars
<1>3. /\ \A t \in Tasks : t # "monitor" => age'[t] = age[t] /\ wake'[t] = wake[t]
      /\ age'["monitor"] = 0 /\ wake'["monitor"] = wake["monitor"] + MonitorPeriod
      /\ \A t \in Tasks : age[t] \in Nat /\ wake[t] \in Int
  BY <1>0, <1>2, Named DEF Clocks
<1>4. wake["monitor"] <= 0 /\ wake'["monitor"] >= StandbyPeriod
  <2>1. wake["monitor"] + pulsed >= 0 /\ pulsed <= Brief /\ pulsed \in Nat
    BY <1>0 DEF OfMonitor, Scalars
  <2> QED  BY <1>0, <1>2, <1>3, <2>1, Named, Numbers DEF Begun
<1>5. ~spin /\ ~ControlDue
  BY <1>2 DEF Preempted
<1>6. Blameless'
  BY <1>1, <1>3, <1>4, Named, Numbers DEF Blameless
<1>8. Seen'
  BY <1>0, <1>1, <1>2 DEF Seen, Scalars, SysModes
<1>9. ctlMode = "STANDBY" => wake["control"] > 0 /\ wake["control"] <= StandbyPeriod
  BY <1>0, <1>3, <1>5, Named DEF OfControl, ControlDue, Clocks, Scalars
<1>10. Chased'
  BY <1>2, <1>3, <1>4, <1>9, Named, Numbers DEF Chased
<1>11. Behind'
  BY <1>2, <1>3, <1>9, Named DEF Behind
<1>13. Ahead'
  <2> SUFFICES ASSUME NEW t \in Suspendable PROVE AheadOf(t)'
    BY DEF Ahead
  <2>1. AheadOf(t) /\ t \in Tasks /\ t # "monitor"
    BY <1>0, SensorAssumption, Named DEF Ahead
  <2>2. ~CatchesUp
    BY <1>5 DEF CatchesUp, ControlDue
  <2>3. wake'[t] = wake[t] /\ wake'["control"] = wake["control"]
    BY <1>3, <2>1, Named
  <2> QED  BY <1>2, <2>1, <2>2, <2>3 DEF AheadOf, Slack, MaxOf
<1>14. Stamped'
  <2> SUFFICES ASSUME NEW t \in Sensors, ~Suspended(t) PROVE StampedOf(t)'
    BY <1>2 DEF Stamped, Suspended
  <2>1. /\ StampedOf(t) /\ age'[t] = age[t] /\ wake'[t] = wake[t]
        /\ age[t] \in Nat /\ wake[t] \in Int /\ Period[t] \in Nat
    BY <1>0, <1>3, Named, Numbers DEF Stamped
  <2>2. wake[t] > 0
    BY <1>2, <2>1 DEF Preempted, Active, Runs
  <2>3. age[t] + 1 <= 2 * Period[t] /\ age[t] <= 2 * Period[t] + 0
    BY <2>1, <2>2 DEF StampedOf
  <2> QED  BY <1>2, <2>1, <2>3 DEF StampedOf
<1> QED  BY <1>6, <1>8, <1>10, <1>11, <1>13, <1>14 DEF Healthy

(* A disturbance is over. *)
Recovers == (starved /\ ~starved') \/ (flipped /\ ~flipped')

(* When all has settled, whatever went before, the Monitor starts afresh. *)
LEMMA SettledJudge ==
  ASSUME TInv, MonitorJudge, Recovers
  PROVE  hung = {} /\ OfMonitor' /\ Healthy' /\ NoTimeLost'
<1>0. Clocks /\ Scalars /\ Sets
  BY DEF TInv
<1>1. Settled(blamed')
  BY Zenon DEF MonitorJudge, Recovers
<1>2. /\ hung = {} /\ blamed' = {} /\ wake["monitor"] = 0 /\ ctlMode = mode /\ early = {}
      /\ \A t \in Sensors : /\ run[t] = 0 /\ wake[t] <= Period[t]
                            /\ ~Suspended(t) => age[t] + wake[t] <= Period[t]
  BY <1>1 DEF Settled
<1>3. mode' = mode /\ wdt' = 0
  BY <1>2 DEF MonitorJudge, Fed
<1>4. /\ snap' = -1 /\ stall' = 0 /\ changes' = 0 /\ pulsed' = 0 /\ last_sys_mode' = mode
      /\ UNCHANGED <<ctlMode, settle, early, run, spin, hung>>
      /\ ~Preempted /\ ~spin
  BY DEF MonitorJudge, ctlVars, runVars, Preempted
<1>5. /\ \A t \in Tasks : t # "monitor" => age'[t] = age[t] /\ wake'[t] = wake[t]
      /\ age'["monitor"] = 0 /\ wake'["monitor"] = MonitorPeriod
      /\ \A t \in Tasks : age[t] \in Nat /\ wake[t] \in Int
  BY <1>0, <1>2, Named, Numbers DEF MonitorJudge, Clocks
<1>6. OfMonitor' /\ Blameless'
  BY <1>2, <1>3, <1>4, <1>5, Numbers DEF OfMonitor, Blameless
<1>7. NoTimeLost'
  BY <1>2, <1>4 DEF NoTimeLost
<1>8. Seen' /\ Chased' /\ Behind'
  BY <1>0, <1>2, <1>3, <1>4 DEF Seen, Chased, Behind, Scalars, SysModes
<1>9. Ahead'
  <2> SUFFICES ASSUME NEW t \in Suspendable PROVE AheadOf(t)'
    BY DEF Ahead
  <2>1. /\ wake'[t] = wake[t] /\ wake[t] \in Int /\ wake[t] <= Period[t]
        /\ wake'["control"] = wake["control"] /\ wake["control"] \in Int
        /\ Period[t] \in Nat
    BY <1>2, <1>5, SensorAssumption, Named, Numbers
  <2>2. Slack(Period[t], wake["control"]) >= 0 /\ Slack(Period[t], wake["control"]) \in Int
    BY <2>1 DEF Slack, MaxOf
  <2>3. /\ wake[t] <= Period[t] + MaxOf(0, wake["control"]) /\ wake[t] <= 2 * Period[t]
        /\ wake[t] <= Period[t] + Slack(Period[t], wake["control"])
    BY <2>1, <2>2 DEF MaxOf
  <2> QED  BY <1>2, <1>4, <2>1, <2>3 DEF AheadOf, Slack, MaxOf
<1>10. Stamped'
  <2> SUFFICES ASSUME NEW t \in Sensors, ~Suspended(t) PROVE StampedOf(t)'
    BY <1>4 DEF Stamped, Suspended
  <2>1. /\ age'[t] = age[t] /\ wake'[t] = wake[t]
        /\ age[t] \in Nat /\ wake[t] \in Int /\ Period[t] \in Nat
        /\ age[t] + wake[t] <= Period[t]
    BY <1>2, <1>5, Named, Numbers
  <2>2. wake[t] > 0
    BY <1>2, <1>4, <2>1 DEF Preempted, Active, Runs
  <2>3. age[t] + wake[t] <= 2 * Period[t] /\ age[t] <= 2 * Period[t] /\ age[t] <= 2 * Period[t] + 0
    BY <2>1, <2>2
  <2> QED  BY <1>4, <2>1, <2>3 DEF StampedOf
<1> QED  BY <1>2, <1>6, <1>7, <1>8, <1>9, <1>10 DEF Healthy

(* Only then is a disturbance over. *)
LEMMA Disturbed ==
  ASSUME Flags, Next, ~Reset, Recovers
  PROVE  MonitorJudge
<1>1. Tick => (starved => starved') /\ flipped' = flipped
  BY Zenon DEF Tick
<1>2. ChangeMode => (flipped => flipped') /\ starved' = starved
  BY Zenon DEF ChangeMode
<1>3. Pulse \/ Hang => (starved => starved') /\ flipped' = flipped
  BY Zenon DEF Pulse, Hang
<1>4. ControlPass \/ MonitorBegin \/ (\E t \in Sensors : SensorPass(t)) =>
        starved' = starved /\ flipped' = flipped
  BY DEF ControlPass, SensorPass, MonitorBegin, excuses
<1> QED  BY <1>1, <1>2, <1>3, <1>4, Zenon DEF Next, Recovers

HInv ==
  /\ TInv
  /\ "monitor" \notin hung /\ ~starved => NoTimeLost
  /\ hung = {} => Calm
  /\ hung = {} /\ ~starved => OfMonitor
  /\ hung = {} /\ ~starved /\ ~flipped => Healthy

LEMMA HInvInit == ASSUME Timing PROVE Init => HInv
BY TInvInit, SoundInit DEF HInv, Sound

LEMMA HInvStutter == HInv /\ UNCHANGED vars => HInv'
<1> SUFFICES ASSUME HInv, UNCHANGED vars PROVE HInv'
  OBVIOUS
<1>1. /\ UNCHANGED <<mode, ctlMode, settle, age, wake, early, run, spin, hung, snap, stall>>
      /\ UNCHANGED <<last_sys_mode, blamed, wdt, changes, pulsed, flipped, starved, exposed>>
  BY DEF vars, ctlVars, runVars, monVars, excuses
<1>2. TInv'
  BY TInvNext DEF HInv
<1>3. (NoTimeLost => NoTimeLost') /\ (OfMonitor => OfMonitor')
  BY <1>1 DEF NoTimeLost, OfMonitor
<1>4. Calm => Calm'
  BY <1>1 DEF Calm, OfControl, Steady
<1>5. Healthy => Healthy'
  <2>1. Blameless /\ Seen /\ Chased /\ Behind => Blameless' /\ Seen' /\ Chased' /\ Behind'
    BY <1>1 DEF Blameless, Seen, Chased, Behind
  <2>2. Ahead /\ Stamped => Ahead' /\ Stamped'
    BY <1>1 DEF Ahead, AheadOf, CatchesUp, Slack, MaxOf, Stamped, StampedOf, Suspended
  <2> QED  BY <2>1, <2>2 DEF Healthy
<1> QED  BY <1>1, <1>2, <1>3, <1>4, <1>5 DEF HInv

LEMMA CalmNext ==
  ASSUME TInv, Calm, Next, hung = {}, ~Reset, ~Hang
  PROVE  Calm'
BY CalmTick, CalmControlPass, CalmSensorPass, CalmElse DEF Next

LEMMA OnTimeNext ==
  ASSUME Timing, TInv, NoTimeLost, OfMonitor, Next, hung = {}, ~starved', ~Reset, ~Hang
  PROVE  OfMonitor'
BY OnTimeTick, OnTimeElse DEF Next

LEMMA HealthyNext ==
  ASSUME Timing, TInv, NoTimeLost, Sound, Next, hung = {}, ~starved', ~flipped', ~Reset, ~Hang
  PROVE  Healthy'
BY HealthyTick, HealthyControlPass, HealthySensorPass, HealthyModes, HealthyJudge DEF Next

LEMMA HInvNext == ASSUME Timing PROVE HInv /\ [Next]_vars => HInv'
<1> SUFFICES ASSUME HInv, [Next]_vars PROVE HInv'
  OBVIOUS
<1>1. TInv /\ TInv' /\ Flags
  BY TInvNext DEF HInv, TInv
<1>2. CASE Reset
  <2>1. Init' => HInv'
    BY HInvInit, PTL
  <2> QED  BY <1>2, <2>1, ResetIsInit
<1>3. CASE UNCHANGED vars
  BY <1>3, HInvStutter
<1>4. ASSUME Next, ~Reset PROVE HInv'
  <2>1. hung' = {} => hung = {} /\ ~Hang
    BY <1>4 DEF Next, Tick, ControlPass, SensorPass, MonitorBegin, MonitorJudge, ChangeMode, Pulse, Hang
  <2>2. "monitor" \notin hung' => "monitor" \notin hung
    BY <1>4 DEF Next, Tick, ControlPass, SensorPass, MonitorBegin, MonitorJudge, ChangeMode, Pulse, Hang
  <2>3. hung' = {} => Calm'
    BY <1>1, <1>4, <2>1, CalmNext DEF HInv
  <2>4. CASE Recovers
    <3>1. OfMonitor' /\ Healthy' /\ NoTimeLost'
      BY <1>1, <1>4, <2>4, Disturbed, SettledJudge
    <3> QED  BY <1>1, <2>3, <3>1 DEF HInv
  <2>5. CASE ~Recovers
    <3>0. (~starved' => ~starved) /\ (~flipped' => ~flipped)
      BY <2>5 DEF Recovers
    <3>1. ASSUME "monitor" \notin hung', ~starved' PROVE NoTimeLost'
      BY <1>1, <1>4, <2>2, <3>0, <3>1, NoTimeLostKept DEF HInv
    <3>2. ASSUME hung' = {}, ~starved' PROVE OfMonitor'
      <4>1. hung = {} /\ ~Hang /\ "monitor" \notin hung /\ ~starved
        BY <2>1, <3>0, <3>2
      <4>2. NoTimeLost /\ OfMonitor
        BY <4>1 DEF HInv
      <4> QED  BY <1>1, <1>4, <3>2, <4>1, <4>2, OnTimeNext
    <3>3. ASSUME hung' = {}, ~starved', ~flipped' PROVE Healthy'
      <4>1. hung = {} /\ ~Hang /\ "monitor" \notin hung /\ ~starved /\ ~flipped
        BY <2>1, <3>0, <3>3
      <4>2. NoTimeLost /\ Sound
        BY <4>1 DEF HInv, Sound
      <4> QED  BY <1>1, <1>4, <3>3, <4>1, <4>2, HealthyNext
    <3> QED  BY <1>1, <2>3, <3>1, <3>2, <3>3 DEF HInv
  <2> QED  BY <2>4, <2>5
<1> QED  BY <1>2, <1>3, <1>4

(* A task is only found late when some task has hung, whatever the modes go
   through and whatever time others take from the Monitor, but for the two
   disturbances LateOnlyIfHung names and until they are over; if the periods and
   thresholds fit each other as those of the code do. *)
THEOREM TimeoutTheorem == ASSUME Timing PROVE Spec => []LateOnlyIfHung
<1>1. HInv => LateOnlyIfHung
  BY DEF HInv, Healthy, Blameless, LateOnlyIfHung
<1> QED  BY <1>1, HInvInit, HInvNext, PTL DEF Spec

(* ... and only then does the watchdog reset the processor. *)
THEOREM ResetTheorem == ASSUME Timing PROVE Spec => []NoNeedlessReset
<1>1. HInv => NoNeedlessReset
  <2> SUFFICES ASSUME HInv, hung = {}, ~flipped, ~starved PROVE wdt # Watchdog
    BY DEF NoNeedlessReset
  <2>1. OfMonitor /\ Blameless /\ Scalars /\ Clocks
    BY DEF HInv, Healthy, TInv
  <2>2. /\ wdt + wake["monitor"] <= MonitorPeriod
        /\ wake["monitor"] + pulsed >= 0 /\ pulsed <= Brief
    BY <2>1 DEF OfMonitor, Blameless
  <2>3. wake["monitor"] \in Int /\ pulsed \in Nat /\ wdt \in Int
    BY <2>1, Named, Numbers DEF Clocks, Scalars
  <2> QED  BY <2>2, <2>3, Numbers DEF Timing
<1> QED  BY <1>1, HInvInit, HInvNext, PTL DEF Spec

(* A sensor task that runs is stamped within two of its periods, but for the same
   disturbances. *)
THEOREM ScheduleTheorem == ASSUME Timing PROVE Spec => []OnSchedule
<1>1. HInv => OnSchedule
  <2> SUFFICES ASSUME HInv, hung = {}, ~flipped, ~starved, NEW t \in Sensors, ~Suspended(t)
               PROVE  age[t] <= 2 * Period[t] + (IF t \in Outranked THEN Brief ELSE 0)
    BY DEF OnSchedule
  <2>1. StampedOf(t) /\ pulsed <= Brief /\ pulsed \in Nat
    BY DEF HInv, Healthy, OfMonitor, Stamped, TInv, Scalars
  <2>2. age[t] \in Int /\ Period[t] \in Nat
    BY Named, Numbers DEF HInv, TInv, Clocks
  <2> QED  BY <2>1, <2>2, Numbers DEF StampedOf
<1> QED  BY <1>1, HInvInit, HInvNext, PTL DEF Spec

-------------------------------------------------------------------------------
LEMMA Below ==
  ASSUME NEW a \in Nat, NEW b \in Nat, b <= a, NEW c \in Int, NEW d \in Int, a + c <= d
  PROVE  b + c <= d
OBVIOUS

LEMMA Shift ==
  ASSUME NEW a \in Nat, NEW b \in Nat, NEW c \in Nat, b <= a
  PROVE  b + c <= a + c
OBVIOUS

(* After a hang, while the Monitor still runs: it is on time ... *)
Punctual == ~spin /\ wake["monitor"] >= 0 /\ (settle > 0 => ctlMode = "ARMED")

(* ... a hang counts from when the mode is one that is watched ... *)
Exposing ==
  /\ mode \in Unwatched => exposed = 0
  /\ last_sys_mode \in Unwatched => exposed + wake["monitor"] <= MonitorPeriod

(* ... the control task resumes the sensors within its standby period ... *)
Resuming ==
  ctlMode = "STANDBY" /\ "control" \notin hung =>
    exposed + MaxOf(0, wake["control"]) <= StandbyPeriod

(* ... so that the stamp of the task that hangs is soon as old as the hang ... *)
Aged == \A t \in hung : exposed <= StandbyPeriod + age[t] \/ age[t] = Horizon

(* ... which the Monitor sees, outside the protection window, at its next round;  *)
Unguarded ==
  ~guard => \A t \in hung :
    exposed + wake["monitor"] <= StandbyPeriod + Threshold[t] + MonitorPeriod

(* a window opened since the hang ends on a round of the Monitor, and one opened
   before is at least as old as the hang. *)
Guarded ==
  guard =>
    \/ /\ \E n \in Nat : guardAge + wake["monitor"] = n * MonitorPeriod
       /\ guardAge + wake["monitor"] <= WindowEnd
       /\ exposed <= guardAge + MonitorPeriod
    \/ /\ exposed + wake["monitor"] <= GuardMax + MonitorPeriod
       /\ exposed <= guardAge \/ guardAge = Horizon

Unnoticed == Punctual /\ Exposing /\ Resuming /\ Aged /\ Unguarded /\ Guarded

Watching == hung # {} /\ "monitor" \notin hung

LEMMA UnnoticedHang ==
  ASSUME TInv, hung = {}, Calm, OfMonitor, Hang, ~starved'
  PROVE  Unnoticed'
<1>0. Clocks /\ Scalars /\ OfMonitor /\ OfControl /\ exposed = 0
  BY DEF TInv, Calm
<1>1. /\ UNCHANGED <<mode, ctlMode, settle, age, wake, spin, last_sys_mode, guard, guardAge, exposed>>
      /\ pulsed = 0
  <2>1. ~(pulsed > 0)
    BY Zenon DEF Hang
  <2> QED  BY <1>0, <2>1 DEF Hang, ctlVars, runVars, monVars, Scalars
<1>2. hung' \subseteq Tasks
  BY SensorAssumption DEF Hang
<1>3. /\ exposed = 0 /\ wake["monitor"] >= 0 /\ wake["monitor"] <= MonitorPeriod
      /\ wake["monitor"] \in Int /\ wake["control"] \in Int /\ wake["control"] <= StandbyPeriod
  BY <1>0, <1>1, Named DEF OfMonitor, Clocks
<1>4. ~spin
  BY <1>0, <1>1 DEF OfMonitor
<1>5. Punctual' /\ Exposing'
  BY <1>0, <1>1, <1>3, <1>4 DEF Punctual, Exposing, OfControl
<1>6. Resuming'
  BY <1>1, <1>3, Numbers DEF Resuming, MaxOf
<1>7. Aged'
  <2>1. \A t \in Tasks : 0 <= StandbyPeriod + age[t]
    BY <1>0, Numbers DEF Clocks
  <2> QED  BY <1>1, <1>2, <1>3, <2>1 DEF Aged
<1>8. Unguarded'
  <2>1. \A t \in Tasks : 0 + wake["monitor"] <= StandbyPeriod + Threshold[t] + MonitorPeriod
    BY <1>3, Numbers
  <2> QED  BY <1>1, <1>2, <1>3, <2>1 DEF Unguarded
<1>9. Guarded'
  <2>1. 0 + wake["monitor"] <= GuardMax + MonitorPeriod /\ 0 <= guardAge
    BY <1>0, <1>3, Numbers DEF Scalars
  <2> QED  BY <1>1, <1>3, <2>1 DEF Guarded
<1> QED  BY <1>5, <1>6, <1>7, <1>8, <1>9 DEF Unnoticed

LEMMA UnnoticedTick ==
  ASSUME TInv, NoTimeLost, Watching, Unnoticed, Tick, ~starved'
  PROVE  Unnoticed'
<1>0. /\ Clocks /\ Scalars /\ Sets /\ Punctual /\ Exposing /\ Resuming /\ Aged /\ Unguarded /\ Guarded
  BY DEF TInv, Unnoticed
<1>1. wake["monitor"] > 0 /\ ~ControlDue
  BY <1>0, TickFacts DEF Watching, Punctual
<1>2. /\ UNCHANGED <<mode, ctlMode, hung, last_sys_mode, guard>>
      /\ spin' = FALSE /\ settle' = IF settle > 0 /\ "control" \notin hung THEN settle - 1 ELSE settle
      /\ guardAge' = IF guard THEN Older(guardAge) ELSE guardAge
  BY DEF Tick
<1>3. hung \subseteq Tasks
  BY <1>0, SensorAssumption DEF Sets
<1>4. /\ wake["monitor"] \in Int /\ wake'["monitor"] = wake["monitor"] - 1
      /\ "control" \notin hung /\ wake["control"] > 0 => wake'["control"] = wake["control"] - 1
      /\ wake["control"] \in Int /\ wake'["control"] <= wake["control"] /\ wake'["control"] \in Int
  BY <1>0, <1>1, Named, Numbers DEF Clocks, Tick, Watching
<1>5. /\ exposed \in Nat /\ exposed' \in Nat /\ exposed' <= exposed + 1
      /\ mode \in Unwatched => exposed' = 0
  BY <1>0, Numbers DEF Tick, Scalars
<1>6. \A t \in hung : age'[t] = Older(age[t]) /\ age[t] \in 0..Horizon
  BY <1>0, <1>3 DEF Tick, Clocks
<1>7. Punctual'
  BY <1>0, <1>1, <1>2, <1>4 DEF Punctual, Scalars
<1>8. Exposing'
  BY <1>0, <1>1, <1>2, <1>4, <1>5, Numbers DEF Exposing
<1>9. Resuming'
  <2> SUFFICES ASSUME ctlMode = "STANDBY", "control" \notin hung
               PROVE  exposed' + MaxOf(0, wake'["control"]) <= StandbyPeriod
    BY <1>2 DEF Resuming, MaxOf
  <2>1. settle = 0
    BY <1>0 DEF Punctual, Scalars
  <2>2. wake["control"] > 0
    BY <1>1, <1>4, <2>1 DEF ControlDue
  <2>3. exposed + wake["control"] <= StandbyPeriod
    BY <1>0, <1>4, <2>2 DEF Resuming, MaxOf
  <2> QED  BY <1>4, <1>5, <2>2, <2>3, Numbers DEF MaxOf
<1>10. Aged'
  <2>1. \A t \in hung : exposed' <= StandbyPeriod + age'[t] \/ age'[t] = Horizon
    BY <1>0, <1>5, <1>6, Numbers DEF Aged, Older
  <2> QED  BY <1>2, <2>1 DEF Aged
<1>11. Unguarded'
  <2>1. ~guard => \A t \in hung :
          exposed' + wake'["monitor"] <= StandbyPeriod + Threshold[t] + MonitorPeriod
    BY <1>0, <1>3, <1>4, <1>5, Numbers DEF Unguarded
  <2> QED  BY <1>2, <2>1 DEF Unguarded
<1>12. Guarded'
  <2> SUFFICES ASSUME guard PROVE Guarded'
    BY <1>2 DEF Guarded
  <2>1. guardAge \in 0..Horizon /\ guardAge' = Older(guardAge)
    BY <1>0, <1>2 DEF Scalars
  <2>2. CASE /\ \E n \in Nat : guardAge + wake["monitor"] = n * MonitorPeriod
             /\ guardAge + wake["monitor"] <= WindowEnd
             /\ exposed <= guardAge + MonitorPeriod
    <3>1. guardAge' = guardAge + 1
      <4>1. wake["monitor"] > 0 /\ wake["monitor"] \in Int /\ WindowEnd < Horizon
            /\ WindowEnd \in Nat /\ Horizon \in Nat
        BY <1>1, <1>4, Numbers, WindowEnds
      <4>2. guardAge < Horizon
        BY <2>1, <2>2, <4>1
      <4> QED  BY <2>1, <4>2 DEF Older
    <3>2. guardAge' + wake'["monitor"] = guardAge + wake["monitor"]
      BY <1>4, <2>1, <3>1, Numbers
    <3>3. exposed' <= guardAge' + MonitorPeriod
      BY <1>5, <2>1, <2>2, <3>1, Numbers
    <3> QED  BY <2>2, <3>2, <3>3 DEF Guarded
  <2>3. CASE /\ exposed + wake["monitor"] <= GuardMax + MonitorPeriod
             /\ exposed <= guardAge \/ guardAge = Horizon
    <3>1. exposed' + wake'["monitor"] <= GuardMax + MonitorPeriod
      BY <1>4, <1>5, <2>3, Numbers
    <3>2. exposed' <= guardAge' \/ guardAge' = Horizon
      BY <1>5, <2>1, <2>3, Numbers DEF Older
    <3> QED  BY <3>1, <3>2 DEF Guarded
  <2> QED  BY <1>0, <2>2, <2>3 DEF Guarded
<1> QED  BY <1>7, <1>8, <1>9, <1>10, <1>11, <1>12 DEF Unnoticed

LEMMA UnnoticedControlPass ==
  ASSUME TInv, Watching, Unnoticed, ControlPass
  PROVE  Unnoticed'
<1>0. /\ Clocks /\ Scalars /\ Sets /\ Punctual /\ Exposing /\ Resuming /\ Aged /\ Unguarded /\ Guarded
  BY DEF TInv, Unnoticed
<1>1. /\ ctlMode' = mode /\ "control" \notin hung /\ settle = 0 /\ wake["control"] <= 0
      /\ settle' = IF ctlMode # "ARMED" /\ mode = "ARMED" THEN ArmSettle ELSE 0
      /\ UNCHANGED <<mode, spin, hung, last_sys_mode, guard, guardAge, exposed>>
  BY DEF ControlPass, ControlDue, monVars
<1>2. /\ wake["control"] \in Int /\ wake["monitor"] \in Int /\ wake'["monitor"] = wake["monitor"]
      /\ mode = "STANDBY" => wake'["control"] = wake["control"] + StandbyPeriod
  BY <1>0, Named DEF ControlPass, Clocks, ControlDelay
<1>3. exposed \in Nat
  BY <1>0, Numbers DEF Scalars
<1>4. Punctual'
  BY <1>0, <1>1, <1>2 DEF Punctual
<1>5. Exposing' /\ Unguarded' /\ Guarded'
  BY <1>0, <1>1, <1>2 DEF Exposing, Unguarded, Guarded
<1>6. Resuming'
  <2>1. mode = "STANDBY" => exposed = 0
    BY <1>0 DEF Exposing, Unwatched
  <2> QED  BY <1>1, <1>2, <2>1, Numbers DEF Resuming, MaxOf
<1>7. Aged'
  <2> SUFFICES ASSUME NEW t \in hung
               PROVE  exposed <= StandbyPeriod + age'[t] \/ age'[t] = Horizon
    BY <1>1 DEF Aged
  <2>1. t \in Tasks /\ t # "control"
    BY <1>0, <1>1, SensorAssumption DEF Sets
  <2>2. CASE t \in Resumed(mode)
    <3>1. age'[t] = 0 /\ ctlMode = "STANDBY"
      BY <2>1, <2>2 DEF ControlPass, Resumed
    <3>2. exposed <= StandbyPeriod
      BY <1>0, <1>1, <1>2, <1>3, <3>1, Numbers DEF Resuming, MaxOf
    <3> QED  BY <3>1, <3>2, Numbers
  <2>3. CASE t \notin Resumed(mode)
    <3>1. age'[t] = age[t]
      BY <2>1, <2>3 DEF ControlPass
    <3> QED  BY <1>0, <3>1 DEF Aged
  <2> QED  BY <2>2, <2>3
<1> QED  BY <1>4, <1>5, <1>6, <1>7 DEF Unnoticed

LEMMA UnnoticedElse ==
  ASSUME TInv, Watching, Unnoticed,
         ChangeMode \/ MonitorBegin \/ \E s \in Sensors : SensorPass(s)
  PROVE  Unnoticed'
<1>0. /\ Clocks /\ Scalars /\ Sets /\ Punctual /\ Exposing /\ Resuming /\ Aged /\ Unguarded /\ Guarded
  BY DEF TInv, Unnoticed
<1>1. /\ UNCHANGED <<ctlMode, settle, spin, hung, last_sys_mode, guard, guardAge>>
      /\ \A t \in hung : age'[t] = age[t]
      /\ wake'["control"] = wake["control"] /\ wake'["monitor"] = wake["monitor"]
  <2>1. CASE ChangeMode \/ MonitorBegin
    BY <2>1 DEF ChangeMode, MonitorBegin, ctlVars, runVars
  <2>2. ASSUME NEW s \in Sensors, SensorPass(s)
        PROVE  /\ UNCHANGED <<ctlMode, settle, spin, hung, last_sys_mode, guard, guardAge>>
               /\ \A t \in hung : age'[t] = age[t]
               /\ wake'["control"] = wake["control"] /\ wake'["monitor"] = wake["monitor"]
    <3>1. s \notin hung /\ s # "control" /\ s # "monitor"
      BY <2>2, Named DEF SensorPass, Executes, Active, Runs
    <3>2. hung \subseteq Tasks
      BY <1>0, SensorAssumption DEF Sets
    <3> QED  BY <1>0, <2>2, <3>1, <3>2, Named DEF SensorPass, Clocks, ctlVars, monVars
  <2> QED  BY <2>1, <2>2
<1>2. (exposed' = exposed /\ mode' = mode) \/ ChangeMode
  BY DEF SensorPass, MonitorBegin, monVars
<1>3. exposed \in Nat /\ exposed' \in {0, exposed} /\ (mode' \in Unwatched => exposed' = 0)
  BY <1>0, <1>2, Numbers DEF ChangeMode, Scalars, Exposing
<1>4. exposed' \in Nat /\ exposed' <= exposed
  BY <1>3
<1>5. /\ wake["monitor"] \in Int /\ wake["control"] \in Int /\ guardAge \in Nat
      /\ \A t \in hung : age[t] \in Int /\ Threshold[t] \in Int
  BY <1>0, Named, Numbers, SensorAssumption DEF Clocks, Scalars, Sets
<1>6. Punctual' /\ Exposing'
  BY <1>0, <1>1, <1>3, <1>4, <1>5, Numbers DEF Punctual, Exposing
<1>7. Resuming' /\ Aged'
  <2>1. Resuming'
    <3>1. MaxOf(0, wake["control"]) \in Int
      BY <1>5 DEF MaxOf
    <3>2. exposed + MaxOf(0, wake["control"]) <= StandbyPeriod =>
            exposed' + MaxOf(0, wake["control"]) <= StandbyPeriod
      BY <1>3, <1>4, <3>1, Numbers, Below
    <3> QED  BY <1>0, <1>1, <3>2 DEF Resuming, MaxOf
  <2>2. \A t \in hung : exposed' <= StandbyPeriod + age[t] \/ age[t] = Horizon
    BY <1>0, <1>3, <1>4, <1>5, Numbers DEF Aged
  <2> QED  BY <1>1, <2>1, <2>2 DEF Aged
<1>8. Unguarded'
  <2>1. ~guard => \A t \in hung :
          exposed' + wake["monitor"] <= StandbyPeriod + Threshold[t] + MonitorPeriod
    BY <1>0, <1>3, <1>4, <1>5, Numbers DEF Unguarded
  <2> QED  BY <1>1, <2>1 DEF Unguarded
<1>9. Guarded'
  <2> SUFFICES ASSUME guard PROVE Guarded'
    BY <1>1 DEF Guarded
  <2>1. CASE /\ \E n \in Nat : guardAge + wake["monitor"] = n * MonitorPeriod
             /\ guardAge + wake["monitor"] <= WindowEnd
             /\ exposed <= guardAge + MonitorPeriod
    <3>1. exposed' <= guardAge + MonitorPeriod
      BY <1>4, <1>5, <1>3, <2>1, Numbers
    <3> QED  BY <1>1, <2>1, <3>1 DEF Guarded
  <2>2. CASE /\ exposed + wake["monitor"] <= GuardMax + MonitorPeriod
             /\ exposed <= guardAge \/ guardAge = Horizon
    <3>1. exposed' + wake["monitor"] <= GuardMax + MonitorPeriod
      BY <1>4, <1>5, <1>3, <2>2, Numbers
    <3>2. exposed' <= guardAge \/ guardAge = Horizon
      BY <1>4, <1>5, <1>3, <2>2, Numbers
    <3> QED  BY <1>1, <3>1, <3>2 DEF Guarded
  <2> QED  BY <1>0, <2>1, <2>2 DEF Guarded
<1> QED  BY <1>6, <1>7, <1>8, <1>9 DEF Unnoticed

(* A window that has not timed out lasts for another period at most. *)
LEMMA WholePeriods ==
  ASSUME NEW n \in Nat, n * MonitorPeriod < GuardMax
  PROVE  n * MonitorPeriod + MonitorPeriod = (n + 1) * MonitorPeriod
         /\ (n + 1) * MonitorPeriod <= WindowEnd
<1>1. PICK q \in Nat : WindowEnd = q * MonitorPeriod
  BY WindowEnds
<1>2. n * MonitorPeriod < q * MonitorPeriod
  BY <1>1, WindowEnds, Numbers
<1>3. n < q
  BY <1>2, Numbers
<1>4. (n + 1) * MonitorPeriod <= q * MonitorPeriod
  BY <1>3, Numbers
<1>5. n * MonitorPeriod + MonitorPeriod = (n + 1) * MonitorPeriod
  BY Numbers
<1> QED  BY <1>1, <1>4, <1>5

LEMMA UnnoticedJudge ==
  ASSUME TInv, NoTimeLost, Watching, Unnoticed, MonitorJudge
  PROVE  Unnoticed'
<1> DEFINE edge   == last_sys_mode \notin {"NONE", mode}
           opens  == Opens(last_sys_mode, mode)
           active == IF edge THEN opens ELSE guard
           since  == IF edge /\ opens THEN snap ELSE guardAge
           grace_elapsed  == TicksBetween(since, snap) >= Grace
           guard_timeout  == TicksBetween(since, snap) >= GuardMax
           control_synced == TicksBetween(since, age["control"]) >= 1
           monitor_only   == active /\ ~guard_timeout /\ ~(grace_elapsed /\ control_synced)
           watched == IF monitor_only THEN {"monitor"} ELSE WatchedIn(mode)
           late == {t \in watched : TicksBetween(age[t], snap) > Threshold[t]}
<1>0. /\ Clocks /\ Scalars /\ Sets /\ Begun /\ Punctual /\ Exposing /\ Resuming /\ Aged
      /\ Unguarded /\ Guarded
  BY DEF TInv, Unnoticed
<1>1. /\ mode' = (IF late # {} THEN "FAILSAFE" ELSE mode) /\ last_sys_mode' = mode
      /\ exposed' = (IF late # {} THEN 0 ELSE exposed)
      /\ guard' = monitor_only /\ guardAge' = (IF monitor_only THEN since ELSE 0)
  BY DEF MonitorJudge
<1>2. /\ UNCHANGED <<ctlMode, settle, spin, hung>>
      /\ age' = [age EXCEPT !["monitor"] = 0]
      /\ wake' = [wake EXCEPT !["monitor"] = @ + MonitorPeriod]
      /\ snap >= 0
  BY DEF MonitorJudge, ctlVars, runVars
<1>3. hung \subseteq Tasks /\ "monitor" \notin hung
  BY <1>0, SensorAssumption DEF Sets, Watching
<1>4. /\ wake["monitor"] = 0 /\ wake'["monitor"] = MonitorPeriod /\ snap = 0
      /\ wake'["control"] = wake["control"]
      /\ \A t \in hung : age'[t] = age[t]
  BY <1>0, <1>2, <1>3, Named, Numbers DEF Begun, Punctual, Clocks, NoTimeLost
<1>5. /\ exposed \in Nat /\ exposed' \in {0, exposed} /\ guardAge \in 0..Horizon
      /\ \A t \in Tasks : age[t] \in 0..Horizon /\ Threshold[t] \in Nat /\ Threshold[t] < Horizon
      /\ wake["control"] \in Int /\ wake["control"] <= StandbyPeriod
  BY <1>0, <1>1, Named, Numbers DEF Clocks, Scalars
<1>6. exposed' \in Nat /\ exposed' <= exposed
  BY <1>5
<1>7. Punctual'
  BY <1>0, <1>2, <1>4, Numbers DEF Punctual
<1>8. Exposing'
  <2>1. mode \in Unwatched => exposed' = 0
    BY <1>0, <1>5 DEF Exposing
  <2>2. mode' \in Unwatched => exposed' = 0
    BY <1>1, <2>1
  <2> QED  BY <1>1, <1>4, <2>1, <2>2, Numbers DEF Exposing
<1>9. Resuming'
  <2>1. MaxOf(0, wake["control"]) \in Int
    BY <1>5 DEF MaxOf
  <2>2. exposed + MaxOf(0, wake["control"]) <= StandbyPeriod =>
          exposed' + MaxOf(0, wake["control"]) <= StandbyPeriod
    BY <1>5, <1>6, <2>1, Numbers, Below
  <2> QED  BY <1>0, <1>2, <1>4, <2>2 DEF Resuming, MaxOf
<1>10. Aged'
  <2>1. \A t \in hung : exposed' <= StandbyPeriod + age[t] \/ age[t] = Horizon
    BY <1>0, <1>3, <1>5, <1>6, Numbers DEF Aged
  <2> QED  BY <1>2, <1>4, <2>1 DEF Aged
<1>11. Unguarded'
  <2> SUFFICES ASSUME ~monitor_only, NEW t \in hung
               PROVE  exposed' + MonitorPeriod <= StandbyPeriod + Threshold[t] + MonitorPeriod
    BY <1>1, <1>2, <1>4 DEF Unguarded
  <2>0. t \in Tasks /\ Threshold[t] \in Nat /\ age[t] \in 0..Horizon
    BY <1>3, <1>5
  <2>1. CASE exposed' = 0
    BY <2>0, <2>1, Numbers
  <2>2. CASE exposed' # 0
    <3>1. late = {} /\ exposed' = exposed
      BY <1>1, <2>2
    <3>2. mode \notin Unwatched
      BY <1>0, <2>2, <3>1 DEF Exposing
    <3>3. watched = Tasks
      BY <3>2 DEF WatchedIn
    <3>4. TicksBetween(age[t], snap) = age[t]
      BY <1>4, <2>0, TicksOfAge
    <3>5. ~(age[t] > Threshold[t])
      BY <2>0, <3>1, <3>3, <3>4
    <3>6. exposed <= StandbyPeriod + age[t]
      BY <1>0, <1>5, <2>0, <3>5 DEF Aged
    <3> QED  BY <1>5, <2>0, <3>1, <3>5, <3>6, Numbers
  <2> QED  BY <2>1, <2>2
<1>12. exposed' <= GuardMax => exposed' + MonitorPeriod <= GuardMax + MonitorPeriod
  <2>1. exposed' \in Nat /\ GuardMax \in Nat /\ MonitorPeriod \in Nat
    BY <1>6, Numbers
  <2> QED  BY <2>1, Shift
<1>13. Guarded'
  <2> SUFFICES ASSUME monitor_only
               PROVE  \/ /\ \E n \in Nat : since + MonitorPeriod = n * MonitorPeriod
                         /\ since + MonitorPeriod <= WindowEnd
                         /\ exposed' <= since + MonitorPeriod
                      \/ /\ exposed' + MonitorPeriod <= GuardMax + MonitorPeriod
                         /\ exposed' <= since \/ since = Horizon
    BY <1>1, <1>4 DEF Guarded
  <2>1. CASE edge
    <3>1. opens /\ since = 0
      BY <1>4, <2>1
    <3>2. last_sys_mode \in Unwatched
      BY <3>1 DEF Opens, Unwatched
    <3>3. exposed' <= MonitorPeriod
      BY <1>0, <1>4, <1>5, <1>6, <3>2, Numbers DEF Exposing
    <3>4. 0 * MonitorPeriod = 0 /\ 0 + MonitorPeriod = MonitorPeriod
      BY Numbers
    <3>5. MonitorPeriod = (0 + 1) * MonitorPeriod /\ (0 + 1) * MonitorPeriod <= WindowEnd
      BY <3>4, WholePeriods, Numbers
    <3>6. 0 + 1 \in Nat
      OBVIOUS
    <3> HIDE DEF since
    <3> QED  BY <3>1, <3>3, <3>4, <3>5, <3>6
  <2>2. CASE ~edge
    <3>1. guard /\ since = guardAge
      BY <2>2
    <3>2. TicksBetween(since, snap) = guardAge
      BY <1>4, <1>5, <3>1, TicksOfAge
    <3>3. guardAge < GuardMax /\ guardAge \in Nat
      BY <1>5, <3>2, Numbers
    <3>4. CASE /\ \E n \in Nat : guardAge + wake["monitor"] = n * MonitorPeriod
               /\ guardAge + wake["monitor"] <= WindowEnd
               /\ exposed <= guardAge + MonitorPeriod
      <4>1. PICK n \in Nat : guardAge = n * MonitorPeriod
        BY <1>4, <3>3, <3>4
      <4>2. /\ guardAge + MonitorPeriod = (n + 1) * MonitorPeriod
            /\ (n + 1) * MonitorPeriod <= WindowEnd /\ n + 1 \in Nat
        BY <3>3, <4>1, WholePeriods
      <4>3. exposed' <= guardAge + MonitorPeriod
        BY <1>5, <1>6, <3>3, <3>4, Numbers
      <4> HIDE DEF since
      <4> QED  BY <3>1, <4>2, <4>3
    <3>5. CASE /\ exposed + wake["monitor"] <= GuardMax + MonitorPeriod
               /\ exposed <= guardAge \/ guardAge = Horizon
      <4>1. exposed' <= guardAge
        BY <1>5, <1>6, <3>3, <3>5, TimeAssumption
      <4>2. exposed' + MonitorPeriod <= GuardMax + MonitorPeriod
        <5>1. exposed' <= GuardMax /\ GuardMax \in Nat /\ MonitorPeriod \in Nat
          BY <1>6, <3>3, <4>1, Numbers
        <5> QED  BY <1>12, <5>1
      <4> QED  BY <3>1, <4>1, <4>2
    <3> QED  BY <1>0, <3>1, <3>4, <3>5 DEF Guarded
  <2> QED  BY <2>1, <2>2
<1> QED  BY <1>7, <1>8, <1>9, <1>10, <1>11, <1>13 DEF Unnoticed

FInv == HInv /\ (Watching /\ ~starved => Unnoticed)

LEMMA FInvInit == ASSUME Timing PROVE Init => FInv
BY HInvInit DEF FInv, Init, Watching

LEMMA FInvNext == ASSUME Timing PROVE FInv /\ [Next]_vars => FInv'
<1> SUFFICES ASSUME FInv, [Next]_vars PROVE FInv'
  OBVIOUS
<1>1. HInv' /\ TInv /\ Flags
  BY HInvNext DEF FInv, HInv, TInv
<1> SUFFICES ASSUME Watching', ~starved' PROVE Unnoticed'
  BY <1>1 DEF FInv
<1>2. CASE Reset
  BY <1>2 DEF Reset, Watching
<1>3. CASE Hang
  <2>1. hung = {} /\ ~starved
    <3>1. hung = {}
      BY <1>3 DEF Hang
    <3>2. ~starved
      BY <1>3, Zenon DEF Hang
    <3> QED  BY <3>1, <3>2
  <2>2. Calm /\ OfMonitor
    BY <2>1 DEF FInv, HInv
  <2> QED  BY <1>1, <1>3, <2>1, <2>2, UnnoticedHang
<1>4. CASE Pulse
  <2>1. hung' = hung /\ hung # {}
    BY <1>4 DEF Pulse, Watching
  <2>2. ~(hung # {})
    BY <1>4, Zenon DEF Pulse
  <2> QED  BY <2>1, <2>2
<1>5. CASE UNCHANGED vars
  <2>1. /\ UNCHANGED <<mode, ctlMode, settle, age, wake, spin, hung, last_sys_mode, guard>>
        /\ UNCHANGED <<guardAge, starved, exposed>>
    BY <1>5 DEF vars, ctlVars, runVars, monVars, excuses
  <2>2. Unnoticed
    BY <2>1 DEF FInv, Watching
  <2> QED  BY <2>1, <2>2 DEF Unnoticed, Punctual, Exposing, Resuming, Aged, Unguarded, Guarded, MaxOf
<1>6. ASSUME Next, ~Reset, ~Pulse, ~Hang PROVE Unnoticed'
  <2>1. hung' = hung
    BY <1>6 DEF Next, Tick, ControlPass, SensorPass, MonitorBegin, MonitorJudge, ChangeMode
  <2>2. Watching
    BY <2>1 DEF Watching
  <2>3. ~starved
    <3> SUFFICES ASSUME starved PROVE FALSE
      OBVIOUS
    <3>1. hung = {}
      BY <1>1, <1>6, Disturbed, SettledJudge DEF Recovers
    <3> QED  BY <2>2, <3>1 DEF Watching
  <2>4. NoTimeLost /\ Unnoticed
    BY <2>2, <2>3 DEF FInv, HInv, Watching
  <2> QED  BY <1>1, <1>6, <2>2, <2>4, UnnoticedTick, UnnoticedControlPass, UnnoticedElse,
              UnnoticedJudge DEF Next
<1> QED  BY <1>2, <1>3, <1>4, <1>5, <1>6

(* A task other than the Monitor that hangs while it is watched is noticed within
   its threshold, a standby period and a period of the Monitor, or when the
   protection window has closed at the latest, which takes a round of the Monitor
   behind its end, however often the modes change; unless the Monitor is starved. *)
THEOREM NoticedTheorem == ASSUME Timing PROVE Spec => []HangNoticedInTime
<1>1. FInv => HangNoticedInTime
  <2> SUFFICES ASSUME FInv, "monitor" \notin hung, ~starved
               PROVE  \/ \E t \in Tasks : exposed <= Threshold[t] + StandbyPeriod + MonitorPeriod
                      \/ exposed <= WindowEnd + MonitorPeriod
    BY DEF HangNoticedInTime
  <2>0. /\ Clocks /\ Scalars /\ Sets
        /\ hung = {} => exposed = 0
        /\ hung # {} => Unnoticed
    BY DEF FInv, HInv, TInv, Calm, Watching
  <2>1. /\ exposed \in Nat /\ wake["monitor"] \in Int /\ guardAge \in Nat
        /\ hung \subseteq Tasks
    BY <2>0, Named, Numbers, SensorAssumption DEF Clocks, Scalars, Sets
  <2>2. CASE hung = {}
    BY <2>0, <2>2, Numbers, WindowEnds
  <2>3. CASE hung # {} /\ ~guard
    <3>1. PICK t \in hung : TRUE
      BY <2>3
    <3>2. exposed + wake["monitor"] <= StandbyPeriod + Threshold[t] + MonitorPeriod
      BY <2>0, <2>3 DEF Unnoticed, Unguarded
    <3>3. t \in Tasks /\ wake["monitor"] >= 0
      BY <2>0, <2>1, <2>3 DEF Unnoticed, Punctual
    <3>4. exposed <= Threshold[t] + StandbyPeriod + MonitorPeriod
      BY <2>0, <2>1, <3>2, <3>3, Numbers
    <3> QED  BY <3>3, <3>4
  <2>4. CASE hung # {} /\ guard
    <3>1. wake["monitor"] >= 0 /\ Guarded
      BY <2>0, <2>4 DEF Unnoticed, Punctual
    <3> QED  BY <2>1, <2>4, <3>1, Numbers, WindowEnds DEF Guarded
  <2> QED  BY <2>2, <2>3, <2>4
<1> QED  BY <1>1, FInvInit, FInvNext, PTL DEF Spec
===============================================================================
