--------------------------- MODULE HeartbeatMonitor --------------------------
(***************************************************************************)
(* Task/task_monitor.c over the heartbeats of System/sys_monitor.c: every  *)
(* task stamps the tick of its last pass, and the Monitor, the task of the *)
(* lowest priority, judges the stamps once per period by the mode it sees, *)
(* enters FAILSAFE when a watched task is late and feeds the hardware      *)
(* watchdog when none is.  The control task suspends the sensor tasks in   *)
(* STANDBY and resumes them, and a task may hang for good.                 *)
(*                                                                         *)
(* Time is discrete and kept as ages: age[t] is the tick count minus the   *)
(* stamp of t.  A tick is a unit of time of any length; the differences    *)
(* the code computes of two uint32_t stamps are taken modulo TickWrap.     *)
(***************************************************************************)
EXTENDS Integers, FiniteSets

CONSTANTS
  Sensors,        \* the periodic tasks other than control and the Monitor
  Suspendable,    \* those of them the control task suspends in STANDBY
  Outranked,      \* those of them of a lower priority than the shell
  Period,         \* of each sensor task
  Busy,           \* how long one pass of a sensor task may take
  Threshold,      \* TASK_TIMEOUT_THERSHOLDS
  ActivePeriod, StandbyPeriod,   \* of the control task
  ArmSettle,      \* how long the entry of ARMED takes
  MonitorPeriod,
  Grace, GuardMax,               \* MODE_SWITCH_GRACE_MS, MODE_SWITCH_GUARD_MAX_MS
  Watchdog,       \* of bsp_wdg_init
  TickWrap,       \* 2^32 in the code
  Horizon,        \* bound: ages are not told apart beyond it
  MaxBacklog,     \* bound: how far a suspended task can fall behind
  MaxStall,       \* bound: ticks the Monitor may lose in one round
  MaxTroubles,    \* bound: of the three Troubles, how many may have begun
  MayHang         \* the tasks that may hang; bound: one until the next reset

Tasks    == {"control", "monitor"} \cup Sensors
SysModes == {"STANDBY", "DISARMED", "ARMED", "FAILSAFE"}
Unwatched == {"STANDBY", "FAILSAFE"}

(* How late a round of the Monitor may begin for the control task, which follows the
   mode within its standby period, still to be ahead of the round after it. *)
Brief == MonitorPeriod - StandbyPeriod

(* The end of the longest protection window: a round of the Monitor ends it. *)
WindowEnd == ((GuardMax + MonitorPeriod - 1) \div MonitorPeriod) * MonitorPeriod

ASSUME SensorAssumption ==
  /\ Suspendable \subseteq Sensors /\ Outranked \subseteq Sensors
  /\ Sensors \cap {"control", "monitor"} = {}
  /\ MayHang \subseteq Tasks
  /\ \A t \in Sensors : Period[t] \in Nat \ {0} /\ Busy[t] \in Nat
ASSUME TimeAssumption ==
  /\ {ActivePeriod, StandbyPeriod, MonitorPeriod, Grace, GuardMax, Watchdog} \subseteq Nat \ {0}
  /\ \A t \in Tasks : Threshold[t] \in Nat /\ Threshold[t] < Horizon
  /\ ActivePeriod <= StandbyPeriod /\ StandbyPeriod <= MonitorPeriod
  /\ GuardMax < Horizon /\ WindowEnd < Horizon /\ Horizon + MaxStall < TickWrap
  /\ ArmSettle \in Nat /\ MaxBacklog \in Nat /\ MaxStall \in Nat /\ MaxTroubles \in Nat
  /\ Horizon \in Nat /\ TickWrap \in Nat

VARIABLES
  mode,                   \* of the mode manager
  ctlMode, settle,        \* the mode the control task is in; ticks left of arming
  age,                    \* ticks since the last check-in
  wake,                   \* xLastWakeTime minus the tick count: when vTaskDelayUntil
                          \* returns; not above 0 while a pass is due or running
  early,                  \* sensors that vTaskResume has taken out of that delay
  run,                    \* ticks a sensor's pass has used so far
  spin,                   \* the shell waits out this tick, without yielding, in a pulse
  hung,                   \* the tasks that have hung
  snap,                   \* ticks since current_tick was read; -1: no round in progress
  stall,                  \* ticks lost in this round
  last_sys_mode,          \* the mode the Monitor saw last; "NONE" at first
  guard, guardAge,        \* mode_switch_guard_active, ticks since mode_switch_tick
  blamed,                 \* the tasks found late in the last round
  wdt,                    \* ticks since the watchdog was fed
  changes, pulsed,        \* mode changes and ticks of pulses since the Monitor looked,
                          \* not told apart beyond 2 and Brief + 1
  flipped,                \* history: two mode changes between two looks of the Monitor ...
  starved,                \* ... and: a tick it lost to a pass or amid a round, or to more
                          \* pulses than Brief; both since all was settled last
  exposed                 \* history: ticks a hung task has gone unnoticed while
                          \* the mode was one in which it is watched

ctlVars == <<ctlMode, settle>>
runVars == <<early, run, spin>>
monVars == <<snap, stall, last_sys_mode, guard, guardAge, blamed, wdt, changes, pulsed>>
excuses == <<flipped, starved>>
vars    == <<mode, ctlVars, age, wake, runVars, hung, monVars, excuses, exposed>>

TypeOK ==
  /\ mode \in SysModes /\ ctlMode \in SysModes /\ settle \in 0..ArmSettle
  /\ age \in [Tasks -> 0..Horizon]
  /\ wake \in [Tasks -> Int] /\ \A t \in Tasks : wake[t] >= -MaxBacklog
  /\ wake["control"] <= StandbyPeriod /\ wake["monitor"] <= MonitorPeriod
  /\ early \in SUBSET Suspendable
  /\ run \in [Sensors -> Nat] /\ \A t \in Sensors : run[t] <= Busy[t]
  /\ spin \in BOOLEAN /\ pulsed \in 0..Brief + 1
  /\ hung \in SUBSET MayHang
  /\ snap \in -1..Horizon /\ stall \in 0..MaxStall
  /\ last_sys_mode \in SysModes \cup {"NONE"}
  /\ guard \in BOOLEAN /\ guardAge \in 0..Horizon
  /\ blamed \in SUBSET Tasks
  /\ wdt \in 0..Watchdog /\ changes \in 0..2
  /\ flipped \in BOOLEAN /\ starved \in BOOLEAN
  /\ exposed \in 0..2 * Horizon

(* The control task has made its first pass, which suspended the sensors. *)
Init ==
  /\ mode = "STANDBY" /\ ctlMode = "STANDBY" /\ settle = 0
  /\ age = [t \in Tasks |-> 0]
  /\ wake = [t \in Tasks |-> CASE t = "control" -> StandbyPeriod
                               [] t = "monitor" -> 0
                               [] OTHER -> Period[t]]
  /\ early = {} /\ run = [t \in Sensors |-> 0] /\ spin = FALSE
  /\ hung = {}
  /\ snap = -1 /\ stall = 0 /\ last_sys_mode = "NONE"
  /\ guard = FALSE /\ guardAge = 0
  /\ blamed = {} /\ wdt = 0 /\ changes = 0 /\ pulsed = 0 /\ exposed = 0
  /\ flipped = FALSE /\ starved = FALSE

-----------------------------------------------------------------------------
Suspended(t) == t \in Suspendable /\ ctlMode = "STANDBY"
Runs(t)      == t \notin hung /\ ~Suspended(t)

(* A pass of a sensor task is due or under way. *)
Active(t) == Runs(t) /\ (wake[t] <= 0 \/ t \in early)

ControlDue == "control" \notin hung /\ settle = 0 /\ wake["control"] <= 0

(* ... and the shell does not keep the processor from it. *)
Executes(t) == Active(t) /\ (t \in Outranked => ~spin)

(* Some task of higher priority than the Monitor has the processor. *)
Preempted == ControlDue \/ spin \/ \E t \in Sensors : Active(t)

MonitorReady == "monitor" \notin hung /\ (wake["monitor"] <= 0 \/ snap >= 0)

Older(n) == IF n < Horizon THEN n + 1 ELSE Horizon

(* A watchdog that is fed from the tick interrupt. *)
WatchdogCountFed == 0

(* The watchdog counts, whatever the tasks do. *)
WatchdogCount == wdt + 1

(* What keeps the Monitor from its work: a task that has hung, modes that change
   behind its back, time that it loses. *)
Troubles == (IF hung # {} THEN {"hang"} ELSE {}) \cup (IF flipped THEN {"flip"} ELSE {})
              \cup (IF starved THEN {"starve"} ELSE {})

(* Another of the Troubles only begins while there are fewer than MaxTroubles. *)
WithinBound == Troubles' # Troubles => Cardinality(Troubles') <= MaxTroubles

(* The coming tick falls into a round of the Monitor, or into a pass. *)
LosesTime ==
  (MonitorReady /\ (snap >= 0 \/ ~Preempted)) \/ \E t \in Sensors : Executes(t)

(* One tick.  The control task runs at its tick, a pass of a sensor task uses
   the processor for at most Busy ticks, and the Monitor loses at most MaxStall.
   The slices in which the control task checks in while it enters ARMED are shorter
   than a tick. *)
Tick ==
  /\ wdt < Watchdog
  /\ ~ControlDue
  /\ \A t \in Sensors : Executes(t) => run[t] < Busy[t]
  /\ (MonitorReady /\ ~Preempted) => stall < MaxStall
  /\ LET arming == settle > 0 /\ "control" \notin hung
     IN /\ age' = [t \in Tasks |-> IF t = "control" /\ arming THEN 0 ELSE Older(age[t])]
        /\ settle' = IF arming THEN settle - 1 ELSE settle
  /\ wake' = [t \in Tasks |-> IF t \notin hung /\ wake[t] > -MaxBacklog
                              THEN wake[t] - 1 ELSE wake[t]]
  /\ run' = [t \in Sensors |-> IF Executes(t) THEN run[t] + 1 ELSE run[t]]
  /\ spin' = FALSE
  /\ snap' = IF snap >= 0 THEN Older(snap) ELSE snap
  /\ stall' = IF MonitorReady /\ ~Preempted THEN stall + 1 ELSE stall
  /\ guardAge' = IF guard THEN Older(guardAge) ELSE guardAge
  /\ wdt' = WatchdogCount
  /\ starved' = (starved \/ LosesTime)
  /\ exposed' = IF hung \ {"monitor"} = {} \/ mode \in Unwatched THEN 0
                ELSE IF exposed < 2 * Horizon THEN exposed + 1 ELSE exposed
  /\ UNCHANGED <<mode, ctlMode, early, hung, last_sys_mode, guard, blamed, changes, pulsed, flipped>>
  /\ WithinBound

(* The end of a pass of a sensor task: its check-in and vTaskDelayUntil, which
   returns at once as long as the task is behind its period. *)
SensorPass(t) ==
  /\ Executes(t)
  /\ age' = [age EXCEPT ![t] = 0]
  /\ wake' = [wake EXCEPT ![t] = @ + Period[t]]
  /\ early' = early \ {t}
  /\ run' = [run EXCEPT ![t] = 0]
  /\ UNCHANGED <<mode, ctlVars, spin, hung, monVars, excuses, exposed>>

(* A control task that adds its two periods up. *)
ControlDelayBoth(m) == StandbyPeriod + ActivePeriod

ControlDelay(m) == IF m = "STANDBY" THEN StandbyPeriod ELSE ActivePeriod

(* A resumption that stamps no task. *)
NoneStamped(m) == {}

(* The tasks that prv_resume_standby_tasks resumes and stamps. *)
Resumed(m) == IF ctlMode = "STANDBY" /\ m # "STANDBY" THEN Suspendable ELSE {}

(* One pass of the control task, which enters the mode it sees.  Leaving STANDBY
   resumes the sensor tasks and stamps them; the entry of ARMED takes a while,
   and the rest of the pass follows then. *)
ControlPass ==
  /\ ControlDue
  /\ ctlMode' = mode
  /\ LET resumed == Resumed(mode)
         arms    == ctlMode # "ARMED" /\ mode = "ARMED"
     IN /\ early' = early \cup {t \in resumed : wake[t] > 0}
        /\ age' = [t \in Tasks |-> IF t \in {"control"} \cup resumed THEN 0 ELSE age[t]]
        /\ settle' = IF arms THEN ArmSettle ELSE 0
        /\ wake' = IF arms THEN wake
                   ELSE [wake EXCEPT !["control"] = @ + ControlDelay(mode)]
  /\ UNCHANGED <<mode, run, spin, hung, monVars, excuses, exposed>>

-----------------------------------------------------------------------------
(* A mode request is granted, or a fault other than a late task is reported: any
   number of times between two looks of the Monitor. *)
ChangeMode ==
  /\ mode' \in SysModes \ {mode}
  /\ mode = "FAILSAFE" => mode' = "DISARMED"
  /\ mode = "STANDBY"  => mode' # "ARMED"
  /\ changes' = IF changes = 0 THEN 1 ELSE 2
  /\ flipped' = (flipped \/ changes > 0)
  /\ exposed' = IF mode' \in Unwatched THEN 0 ELSE exposed
  /\ UNCHANGED <<ctlVars, age, wake, runVars, hung, snap, stall, last_sys_mode,
                 guard, guardAge, blamed, wdt, pulsed, starved>>
  /\ WithinBound

(* One more tick that the shell command "thruster pulse" waits in a busy loop, for
   as many as it was told to; only the beginning of the command looks at the mode.
   In the middle of a round of the Monitor it is one of the ticks the Monitor
   loses. *)
Pulse ==
  /\ ~spin
  /\ pulsed = 0 => mode # "FAILSAFE"
  /\ snap >= 0 => stall < MaxStall
  /\ spin' = TRUE
  /\ pulsed' = IF pulsed <= Brief THEN pulsed + 1 ELSE pulsed
  /\ stall' = IF snap >= 0 THEN stall + 1 ELSE stall
  /\ starved' = (starved \/ pulsed' > Brief \/ snap >= 0 \/ last_sys_mode = "NONE" \/ hung # {})
  /\ UNCHANGED <<mode, ctlVars, age, wake, early, run, hung, snap, last_sys_mode,
                 guard, guardAge, blamed, wdt, changes, flipped, exposed>>
  /\ WithinBound

(* A task blocks for ever.  One that spins instead starves the Monitor, which
   is the case of the Monitor itself hanging. *)
Hang ==
  /\ hung = {}
  /\ \E t \in MayHang : hung' = {t}
  /\ starved' = (starved \/ pulsed > 0)
  /\ UNCHANGED <<mode, ctlVars, age, wake, runVars, monVars, flipped, exposed>>
  /\ WithinBound

(* The Monitor reads current_tick ... *)
MonitorBegin ==
  /\ "monitor" \notin hung /\ ~Preempted
  /\ wake["monitor"] <= 0 /\ snap = -1
  /\ snap' = 0
  /\ UNCHANGED <<mode, ctlVars, age, wake, runVars, hung, stall, last_sys_mode,
                 guard, guardAge, blamed, wdt, changes, pulsed, excuses, exposed>>

(* The difference of two stamps, given their ages. *)
TicksBetween(earlier, later) == (earlier - later) % TickWrap

(* A Monitor that does not look at the tasks while the vehicle is armed. *)
WatchedWhenDisarmed(m) == IF m # "DISARMED" THEN {"monitor"} ELSE Tasks

(* prv_is_task_watch_enabled *)
WatchedIn(m) == IF m \in Unwatched THEN {"monitor"} ELSE Tasks

(* No protection window at all. *)
NeverOpens(before, now) == FALSE

(* The mode change that opens the protection window. *)
Opens(before, now) == before = "STANDBY" /\ now = "DISARMED"

(* A watchdog that is only fed when all tasks are watched. *)
FedWhenAllWatched(late) == IF late # {} \/ mode \in Unwatched THEN wdt ELSE 0

(* bsp_wdg_feed, unless some task is late. *)
Fed(late) == IF late # {} THEN wdt ELSE 0

(* The Monitor is on time and finds nothing, the control task has followed the
   mode, and every sensor task keeps its period: what went before is over. *)
Settled(late) ==
  /\ hung = {} /\ late = {} /\ snap = 0 /\ wake["monitor"] = 0
  /\ ctlMode = mode /\ early = {}
  /\ \A t \in Sensors : /\ run[t] = 0 /\ wake[t] <= Period[t]
                        /\ ~Suspended(t) => age[t] + wake[t] <= Period[t]

(* ... and later the stamps and the mode; judges them; reports or feeds. *)
MonitorJudge ==
  LET edge   == last_sys_mode \notin {"NONE", mode}
      opens  == Opens(last_sys_mode, mode)
      active == IF edge THEN opens ELSE guard
      since  == IF edge /\ opens THEN snap ELSE guardAge
      grace_elapsed  == TicksBetween(since, snap) >= Grace
      guard_timeout  == TicksBetween(since, snap) >= GuardMax
      control_synced == TicksBetween(since, age["control"]) >= 1
      monitor_only   == active /\ ~guard_timeout /\ ~(grace_elapsed /\ control_synced)
      late == {t \in IF monitor_only THEN {"monitor"} ELSE WatchedIn(mode) :
                 TicksBetween(age[t], snap) > Threshold[t]}
  IN /\ snap >= 0 /\ "monitor" \notin hung /\ ~Preempted
     /\ last_sys_mode' = mode
     /\ guard' = monitor_only
     /\ guardAge' = IF monitor_only THEN since ELSE 0
     /\ blamed' = late
     /\ mode' = IF late # {} THEN "FAILSAFE" ELSE mode
     /\ wdt'  = Fed(late)
     /\ age'  = [age EXCEPT !["monitor"] = 0]
     /\ wake' = [wake EXCEPT !["monitor"] = @ + MonitorPeriod]
     /\ snap' = -1 /\ stall' = 0 /\ changes' = 0 /\ pulsed' = 0
     /\ flipped' = (flipped /\ ~Settled(late))
     /\ starved' = (starved /\ ~Settled(late))
     /\ exposed' = IF late # {} THEN 0 ELSE exposed
     /\ UNCHANGED <<ctlVars, runVars, hung>>

(* The watchdog resets the processor. *)
Reset ==
  /\ wdt = Watchdog
  /\ mode' = "STANDBY" /\ ctlMode' = "STANDBY" /\ settle' = 0
  /\ age' = [t \in Tasks |-> 0]
  /\ wake' = [t \in Tasks |-> CASE t = "control" -> StandbyPeriod
                                [] t = "monitor" -> 0
                                [] OTHER -> Period[t]]
  /\ early' = {} /\ run' = [t \in Sensors |-> 0] /\ spin' = FALSE
  /\ hung' = {}
  /\ snap' = -1 /\ stall' = 0 /\ last_sys_mode' = "NONE"
  /\ guard' = FALSE /\ guardAge' = 0
  /\ blamed' = {} /\ wdt' = 0 /\ changes' = 0 /\ pulsed' = 0 /\ exposed' = 0
  /\ flipped' = FALSE /\ starved' = FALSE

-----------------------------------------------------------------------------
Next == \/ Tick
        \/ ControlPass \/ \E t \in Sensors : SensorPass(t)
        \/ MonitorBegin \/ MonitorJudge
        \/ ChangeMode \/ Pulse \/ Hang \/ Reset

Spec == Init /\ [][Next]_vars

(* Time passes, and every task that is ready and has not hung gets to run. *)
Fairness ==
  /\ WF_vars(Tick) /\ WF_vars(Reset)
  /\ WF_vars(ControlPass) /\ \A t \in Sensors : WF_vars(SensorPass(t))
  /\ WF_vars(MonitorBegin) /\ WF_vars(MonitorJudge)

FairSpec == Spec /\ Fairness

-----------------------------------------------------------------------------
(* What the theorems suppose of the constants, besides the assumptions: the periods
   fit the thresholds, the watchdog and each other. *)
Timing ==
  /\ Brief <= MaxBacklog
  /\ MonitorPeriod + Brief <= Threshold["monitor"]
  /\ MonitorPeriod + Brief < Watchdog
  /\ ActivePeriod <= Threshold["control"]
  /\ \A t \in Sensors \ Suspendable : Period[t] <= Threshold[t] + 1
  /\ \A t \in Suspendable : 2 * Period[t] <= Threshold[t] + 1 /\ Period[t] <= StandbyPeriod

(* docs, 3.2: a task is found late when it is, that is, when it has hung. *)
NoFalseTimeout == blamed # {} => hung # {}

(* A task is only found late when some task has hung, whatever the modes go
   through: suspended and resumed passes never look like a hang.  Excused, until
   all has settled again, are two things the code does not withstand: a second mode
   change before the Monitor has seen the first, which hides the switch it has to
   protect, and time it loses amid a round, to a pass that is made up, or to pulses
   longer than Brief. *)
LateOnlyIfHung == blamed # {} => hung # {} \/ flipped \/ starved

(* A sensor task that is not suspended has been stamped within two of its
   periods, one of which it may owe to a STANDBY that cut its delay short, and
   the pulses, when it has a lower priority than the shell. *)
OnSchedule ==
  hung = {} /\ ~flipped /\ ~starved => \A t \in Sensors : ~Suspended(t) =>
    age[t] <= 2 * Period[t] + (IF t \in Outranked THEN Brief ELSE 0)

(* The watchdog resets the processor only when some task has hung, or one of the
   two disturbances has lasted until then. *)
NoNeedlessReset == wdt = Watchdog => hung # {} \/ flipped \/ starved

(* However the mode changes, a task that hangs while it is watched is noticed
   within its threshold, a period of the Monitor and a standby period of the
   control task, which still has to resume it, or when the protection window
   has closed at the latest, which only a round of the Monitor does; unless the
   Monitor loses time. *)
HangNoticedInTime ==
  "monitor" \notin hung /\ ~starved =>
    \/ \E t \in Tasks : exposed <= Threshold[t] + StandbyPeriod + MonitorPeriod
    \/ exposed <= WindowEnd + MonitorPeriod

(* A Monitor that hangs, or is starved for good, is cured by a reset. *)
HungMonitorIsReset == []<>("monitor" \notin hung)
=============================================================================
