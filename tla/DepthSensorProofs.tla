--------------------------- MODULE DepthSensorProofs --------------------------
(***************************************************************************)
(* Theorems about DepthSensor: its types, the reference that is kept, and  *)
(* the time in which the depth is right again.                             *)
(***************************************************************************)
EXTENDS DepthSensor, TLAPS

\* The state of the sensor while a conversion of what was asked for is under way, and
\* when it can be read.
Converting(of) == adc.of = of /\ adc.state \in {"converting", "done"}
Readable(of)   == adc.of = of /\ adc.state = "done"

\* Where in the loop the task is with its two states.
Stages ==
  /\ pc \in {"readPressure", "push"} => depth_state = 1
  /\ pc = "startPressure" => depth_state = 0
  /\ pc = "startTemp" => depth_state = 0 /\ temp_state = 2
  /\ temp_state = 2 => depth_state = 0 /\ pc \in {"startTemp", "delay", "sleep", "top"}

\* Up to the first reading, as long as nothing has disturbed it.
FirstReading ==
  calibrated /\ ~disturbed /\ ~base.taken =>
    /\ temp_state = 0
    /\ pc = "firstStart" => adc.state = "wrong"
    /\ pc = "firstWait" => Converting("D2")
    /\ pc = "firstRead" => Readable("D2")
    /\ pc \notin {"firstStart", "firstWait", "firstRead"} => comp /\ late = 0
    /\ pc = "top" /\ depth_state = 0 => adc.state = "wrong"
    /\ pc = "startPressure" => adc.state = "wrong"
    /\ pc \in {"delay", "sleep"} => depth_state = 1 /\ Converting("D1")
    /\ pc = "top" /\ depth_state = 1 => Readable("D1")
    /\ pc = "readPressure" => Readable("D1")
    /\ pc \notin {"push", "startTemp"}
    /\ suspended => pc = "firstStart"
    /\ pc \in {"firstStart", "firstWait", "firstRead"} => depth_state = 0

\* While nothing goes wrong, every conversion is read when it is complete ...
InOrder ==
  calibrated /\ calm > 0 =>
    /\ ~suspended /\ pc \notin {"firstStart", "firstWait", "firstRead"}
    /\ pc \notin {"startTemp", "delay"} => late = 0
    /\ pc = "startPressure" => adc.state # "converting"
    /\ pc = "top" => adc.state # "converting"
    /\ depth_state = 1 /\ pc \in {"delay", "sleep"} => Converting("D1")
    /\ depth_state = 1 /\ pc \in {"top", "readPressure"} => Readable("D1")
    /\ pc = "push" => adc.state = "wrong" /\ (comp => depth_val.right)
    /\ calm > 1 /\ pc = "startTemp" => adc.state = "wrong"
    /\ calm > 1 /\ temp_state = 2 /\ pc \in {"delay", "sleep"} => Converting("D2")
    /\ calm > 1 /\ temp_state = 2 /\ pc = "top" => Readable("D2")

\* ... and the compensation has been wrong for no more depths than were counted since
\* it was due.
Counted ==
  calibrated /\ calm > 0 =>
    /\ ~comp => \/ calm <= temp_count + 1
                \/ temp_state = 2 /\ calm > 1 /\ calm <= TempEvery + 1
    /\ ~pool.right => calm <= TempEvery + 1

IInv == TypeOK /\ Stages /\ FirstReading /\ InOrder /\ Counted /\ ReferenceKept

Conversions == [of : {"D1", "D2"}, state : {"converting", "done", "stale", "wrong"}, at : Depths]
Counts      == calm' \in 0..TempEvery + 2 /\ disturbed' \in BOOLEAN

\* What a bus error and the two accesses to the sensor leave of the types, and what a conversion starts.
LEMMA Failure == ASSUME TypeOK, BusFails PROVE Counts
<1>1. calm' \in 0..TempEvery + 2
  BY DepthSensorAssumption DEF BusFails
<1>2. disturbed' \in BOOLEAN
  BY DEF BusFails
<1> QED BY <1>1, <1>2 DEF Counts

LEMMA Converts == ASSUME TypeOK, NEW of \in {"D1", "D2"}, Convert(of)
                  PROVE  /\ adc' \in Conversions /\ Counts
                         /\ BusFails \/ (BusWorks /\ adc'.of = of)
                         /\ BusFails \/ adc.state = "converting" \/ adc'.state = "converting"
<1>1. CASE BusFails /\ UNCHANGED adc
  <2>1. Counts
    BY <1>1, Failure
  <2>2. adc' \in Conversions
    BY <1>1 DEF TypeOK, Conversions
  <2>3. BusFails
    BY <1>1
  <2> QED BY <2>1, <2>2, <2>3
<1>2. CASE BusWorks /\ ~(BusFails /\ UNCHANGED adc)
  <2>1. Counts
    BY <1>2 DEF BusWorks, TypeOK, Counts
  <2>2. PICK s \in IF adc.state = "converting" THEN {"converting", "wrong"} ELSE {"converting"} :
          adc' = [of |-> of, state |-> s, at |-> vehicle]
    BY <1>2 DEF Convert
  <2>3. s \in {"converting", "wrong"} /\ (s = "converting" \/ adc.state = "converting")
    BY <2>2
  <2> QED BY <1>2, <2>1, <2>2, <2>3 DEF TypeOK, Conversions
<1> QED BY <1>1, <1>2 DEF Convert

LEMMA Reads == ASSUME TypeOK, NEW of, NEW complete \in BOOLEAN, Read(of, complete)
               PROVE  adc' \in Conversions /\ Counts
<1>1. Counts
  BY DEF Read, BusWorks, TypeOK, Counts
<1>2. adc \in Conversions /\ adc' = [adc EXCEPT !.state = "wrong"]
  BY DEF Read, TypeOK, Conversions
<1> QED BY <1>1, <1>2 DEF Conversions

LEMMA Compensates == ASSUME TypeOK, ReadTempAndCompensate
                     PROVE  adc' \in Conversions /\ Counts /\ comp' \in BOOLEAN
<1>1. ASSUME NEW complete \in BOOLEAN, Read("D2", complete), comp' = (calibrated /\ complete)
      PROVE  adc' \in Conversions /\ Counts /\ comp' \in BOOLEAN
  BY <1>1, Reads DEF TypeOK
<1>2. CASE BusFails /\ UNCHANGED <<adc, comp>>
  BY <1>2, Failure DEF TypeOK, Conversions
<1> QED BY <1>1, <1>2 DEF ReadTempAndCompensate

\* Every step keeps the types.
LEMMA NextTypes == TypeOK /\ [Next]_vars => TypeOK'
<1> SUFFICES ASSUME TypeOK, [Next]_vars PROVE TypeOK'
  OBVIOUS
<1> USE DepthSensorAssumption DEF TypeOK, Readings, Places
<1>1. CASE FirstStart
  BY <1>1, Converts DEF FirstStart, Conversions, Counts, world, taskVars
<1>2. CASE FirstWait
  BY <1>2 DEF FirstWait, world, taskVars
<1>3. CASE FirstRead
  BY <1>3, Compensates DEF FirstRead, Conversions, Counts, world, taskVars
<1>4. CASE Top
  <2>1. CASE depth_state = 0 /\ temp_state = 2
    BY <1>4, <2>1, Compensates DEF Top, Conversions, Counts, world, taskVars
  <2>2. CASE ~(depth_state = 0 /\ temp_state = 2)
    BY <1>4, <2>2 DEF Top, world, taskVars
  <2> QED BY <2>1, <2>2
<1>5. CASE StartPressure
  BY <1>5, Converts DEF StartPressure, Conversions, Counts, world, taskVars
<1>6. CASE ReadPressure
  <2>1. ASSUME NEW complete \in BOOLEAN, NEW right \in BOOLEAN,
               Read("D1", complete), base' = Based(right, adc.at),
               depth_val' = [right |-> right, depth |-> adc.at - base'.at, at |-> adc.at]
        PROVE  TypeOK'
    <3>1. base' \in [taken : BOOLEAN, right : BOOLEAN, at : Depths]
      BY <2>1 DEF Based
    <3>2. adc.at \in Depths /\ base'.at \in Depths
      BY <3>1
    <3>3. adc.at - base'.at \in Int
      <4>1. \A d, e \in Depths : d - e \in Int
        OBVIOUS
      <4> QED BY <3>2, <4>1
    <3>4. depth_val' \in Readings
      BY <2>1, <3>2, <3>3
    <3> QED BY <1>6, <2>1, <3>1, <3>4, Reads DEF ReadPressure, Conversions, Counts, world, taskVars
  <2>2. CASE BusFails /\ UNCHANGED <<adc, base>> /\ depth_val' = [depth_val EXCEPT !.right = FALSE]
    <3>1. depth_val' \in Readings
      BY <2>2
    <3> QED BY <1>6, <2>2, <3>1, Failure DEF ReadPressure, Counts, world, taskVars
  <2>3. ASSUME NEW complete \in BOOLEAN PROVE (complete /\ comp) \in BOOLEAN
    OBVIOUS
  <2> QED BY <1>6, <2>1, <2>2, <2>3 DEF ReadPressure
<1>7. CASE PushDepth
  BY <1>7 DEF PushDepth, world, taskVars
<1>8. CASE StartTemp
  BY <1>8, Converts DEF StartTemp, Conversions, Counts, world, taskVars
<1>9. CASE Delay
  BY <1>9 DEF Delay, world, taskVars
<1>10. CASE Wake
  BY <1>10 DEF Wake, world, taskVars
<1>11. CASE ConversionEnds
  BY <1>11 DEF ConversionEnds, world, taskVars
<1>12. CASE Suspend
  BY <1>12 DEF Suspend, world, taskVars
<1>13. CASE Resume
  <2>1. adc' \in Conversions
    BY <1>13 DEF Resume, Conversions
  <2>2. late' \in 0..MaxMissed
    BY <1>13 DEF Resume
  <2>3. depth_val' \in Readings
    BY <1>13 DEF Resume
  <2>4. pc' \in Places
    BY <1>13 DEF Resume
  <2> QED BY <1>13, <2>1, <2>2, <2>3, <2>4 DEF Resume, Conversions, world, taskVars
<1>14. CASE Move
  BY <1>14 DEF Move, world, taskVars
<1>15. CASE UNCHANGED vars
  BY <1>15 DEF vars, world, taskVars
<1> QED BY <1>1, <1>2, <1>3, <1>4, <1>5, <1>6, <1>7, <1>8, <1>9, <1>10, <1>11, <1>12, <1>13, <1>14, <1>15 DEF Next, TaskStep

\* ... and the place in the loop.
LEMMA NextStages == TypeOK /\ Stages /\ [Next]_vars => Stages'
<1> SUFFICES ASSUME TypeOK, Stages, [Next]_vars PROVE Stages'
  OBVIOUS
<1> USE DepthSensorAssumption DEF TypeOK, Readings, Places
<1>1. CASE FirstStart
  BY <1>1 DEF FirstStart, Convert, BusWorks, BusFails, Stages, world, taskVars
<1>2. CASE FirstWait
  BY <1>2 DEF FirstWait, Stages, world, taskVars
<1>3. CASE FirstRead
  BY <1>3 DEF FirstRead, ReadTempAndCompensate, Read, BusWorks, BusFails, Stages, world, taskVars
<1>4. CASE Top
  BY <1>4 DEF Top, ReadTempAndCompensate, Read, BusWorks, BusFails, Stages, world, taskVars
<1>5. CASE StartPressure
  BY <1>5 DEF StartPressure, Convert, BusWorks, BusFails, Stages, world, taskVars
<1>6. CASE ReadPressure
  BY <1>6 DEF ReadPressure, Read, Based, BusWorks, BusFails, Stages, world, taskVars
<1>7. CASE PushDepth
  BY <1>7 DEF PushDepth, Stages, world, taskVars
<1>8. CASE StartTemp
  BY <1>8 DEF StartTemp, Convert, BusWorks, BusFails, Stages, world, taskVars
<1>9. CASE Delay
  BY <1>9 DEF Delay, Stages, world, taskVars
<1>10. CASE Wake
  BY <1>10 DEF Wake, Stages, world, taskVars
<1>11. CASE ConversionEnds
  BY <1>11 DEF ConversionEnds, Stages, world, taskVars
<1>12. CASE Suspend
  BY <1>12 DEF Suspend, Stages, world, taskVars
<1>13. CASE Resume
  BY <1>13 DEF Resume, Stages, world, taskVars
<1>14. CASE Move
  BY <1>14 DEF Move, Stages, world, taskVars
<1>15. CASE UNCHANGED vars
  BY <1>15 DEF vars, world, taskVars, Stages
<1> QED BY <1>1, <1>2, <1>3, <1>4, <1>5, <1>6, <1>7, <1>8, <1>9, <1>10, <1>11, <1>12, <1>13, <1>14, <1>15 DEF Next, TaskStep

\* ... and the way to the first reading.
LEMMA NextFirst == TypeOK /\ Stages /\ FirstReading /\ [Next]_vars => FirstReading'
<1> SUFFICES ASSUME TypeOK, Stages, FirstReading, [Next]_vars PROVE FirstReading'
  OBVIOUS
<1> USE DepthSensorAssumption DEF TypeOK, Readings, Places
<1>1. CASE FirstStart
  <2>1. CASE BusFails
    BY <1>1, <2>1 DEF FirstStart, BusFails, FirstReading, world, taskVars
  <2>2. CASE ~BusFails
    BY <1>1, <2>2, Converts DEF FirstStart, BusWorks, Stages, FirstReading, Converting, Readable, world, taskVars
  <2> QED BY <2>1, <2>2
<1>2. CASE FirstWait
  BY <1>2 DEF FirstWait, Stages, FirstReading, Converting, Readable, world, taskVars
<1>3. CASE FirstRead
  <2>1. ASSUME NEW complete \in BOOLEAN, Read("D2", complete), comp' = (calibrated /\ complete)
        PROVE  FirstReading'
    <3>1. adc'.state = "wrong"
      BY <2>1 DEF Read
    <3>2. /\ UNCHANGED <<calibrated, disturbed, base, temp_state, depth_state, suspended>>
          /\ pc = "firstRead" /\ ~suspended /\ pc' = "top" /\ late' = 0
      BY <1>3, <2>1 DEF FirstRead, Read, BusWorks, world, taskVars
    <3>3. calibrated /\ ~disturbed /\ ~base.taken => comp' /\ temp_state = 0 /\ depth_state = 0
      BY <2>1, <3>2 DEF Read, FirstReading, Readable
    <3> QED BY <3>1, <3>2, <3>3 DEF FirstReading
  <2>2. CASE BusFails
    BY <1>3, <2>2 DEF FirstRead, BusFails, FirstReading, world, taskVars
  <2> QED BY <1>3, <2>1, <2>2 DEF FirstRead, ReadTempAndCompensate
<1>4. CASE Top
  BY <1>4 DEF Top, ReadTempAndCompensate, Read, BusWorks, BusFails, Stages, FirstReading, Converting, Readable, world, taskVars
<1>5. CASE StartPressure
  BY <1>5 DEF StartPressure, Convert, BusWorks, BusFails, Stages, FirstReading, Converting, Readable, world, taskVars
<1>6. CASE ReadPressure
  BY <1>6 DEF ReadPressure, Read, Based, BusWorks, BusFails, Stages, FirstReading, Converting, Readable, world, taskVars
<1>7. CASE PushDepth
  BY <1>7 DEF PushDepth, Stages, FirstReading, Converting, Readable, world, taskVars
<1>8. CASE StartTemp
  BY <1>8 DEF StartTemp, Convert, BusWorks, BusFails, Stages, FirstReading, Converting, Readable, world, taskVars
<1>9. CASE Delay
  BY <1>9 DEF Delay, Stages, FirstReading, Converting, Readable, world, taskVars
<1>10. CASE Wake
  BY <1>10 DEF Wake, Stages, FirstReading, Converting, Readable, world, taskVars
<1>11. CASE ConversionEnds
  BY <1>11 DEF ConversionEnds, Stages, FirstReading, Converting, Readable, world, taskVars
<1>12. CASE Suspend
  BY <1>12 DEF Suspend, Stages, FirstReading, Converting, Readable, world, taskVars
<1>13. CASE Resume
  BY <1>13 DEF Resume, Stages, FirstReading, Converting, Readable, world, taskVars
<1>14. CASE Move
  BY <1>14 DEF Move, Stages, FirstReading, Converting, Readable, world, taskVars
<1>15. CASE UNCHANGED vars
  BY <1>15 DEF vars, world, taskVars, Stages, FirstReading, Converting, Readable
<1> QED BY <1>1, <1>2, <1>3, <1>4, <1>5, <1>6, <1>7, <1>8, <1>9, <1>10, <1>11, <1>12, <1>13, <1>14, <1>15 DEF Next, TaskStep

\* ... and the reference.
LEMMA NextKept == TypeOK /\ FirstReading /\ ReferenceKept /\ [Next]_vars => ReferenceKept'
<1> SUFFICES ASSUME TypeOK, FirstReading, ReferenceKept, [Next]_vars PROVE ReferenceKept'
  OBVIOUS
<1> USE DepthSensorAssumption DEF TypeOK, Readings, Places
<1>1. CASE FirstStart
  BY <1>1 DEF FirstStart, Convert, BusWorks, BusFails, FirstReading, ReferenceKept, Readable, world, taskVars
<1>2. CASE FirstWait
  BY <1>2 DEF FirstWait, FirstReading, ReferenceKept, Readable, world, taskVars
<1>3. CASE FirstRead
  BY <1>3 DEF FirstRead, ReadTempAndCompensate, Read, BusWorks, BusFails, FirstReading, ReferenceKept, Readable, world, taskVars
<1>4. CASE Top
  BY <1>4 DEF Top, ReadTempAndCompensate, Read, BusWorks, BusFails, FirstReading, ReferenceKept, Readable, world, taskVars
<1>5. CASE StartPressure
  BY <1>5 DEF StartPressure, Convert, BusWorks, BusFails, FirstReading, ReferenceKept, Readable, world, taskVars
<1>6. CASE ReadPressure
  BY <1>6 DEF ReadPressure, Read, Based, BusWorks, BusFails, FirstReading, ReferenceKept, Readable, world, taskVars
<1>7. CASE PushDepth
  BY <1>7 DEF PushDepth, FirstReading, ReferenceKept, Readable, world, taskVars
<1>8. CASE StartTemp
  BY <1>8 DEF StartTemp, Convert, BusWorks, BusFails, FirstReading, ReferenceKept, Readable, world, taskVars
<1>9. CASE Delay
  BY <1>9 DEF Delay, FirstReading, ReferenceKept, Readable, world, taskVars
<1>10. CASE Wake
  BY <1>10 DEF Wake, FirstReading, ReferenceKept, Readable, world, taskVars
<1>11. CASE ConversionEnds
  BY <1>11 DEF ConversionEnds, FirstReading, ReferenceKept, Readable, world, taskVars
<1>12. CASE Suspend
  BY <1>12 DEF Suspend, FirstReading, ReferenceKept, Readable, world, taskVars
<1>13. CASE Resume
  BY <1>13 DEF Resume, FirstReading, ReferenceKept, Readable, world, taskVars
<1>14. CASE Move
  BY <1>14 DEF Move, FirstReading, ReferenceKept, Readable, world, taskVars
<1>15. CASE UNCHANGED vars
  BY <1>15 DEF vars, world, taskVars, FirstReading, ReferenceKept, Readable
<1> QED BY <1>1, <1>2, <1>3, <1>4, <1>5, <1>6, <1>7, <1>8, <1>9, <1>10, <1>11, <1>12, <1>13, <1>14, <1>15 DEF Next, TaskStep

\* ... and the order of conversions and readings.
LEMMA NextOrder == TypeOK /\ TypeOK' /\ Stages /\ InOrder /\ [Next]_vars => InOrder'
<1> SUFFICES ASSUME TypeOK, TypeOK', Stages, InOrder, [Next]_vars PROVE InOrder'
  OBVIOUS
<1> USE DepthSensorAssumption DEF TypeOK, Readings, Places
<1>1. CASE FirstStart
  BY <1>1 DEF FirstStart, Convert, BusWorks, BusFails, Stages, InOrder, Converting, Readable, world, taskVars
<1>2. CASE FirstWait
  BY <1>2 DEF FirstWait, Stages, InOrder, Converting, Readable, world, taskVars
<1>3. CASE FirstRead
  BY <1>3 DEF FirstRead, ReadTempAndCompensate, Read, BusWorks, BusFails, Stages, InOrder, Converting, Readable, world, taskVars
<1>4. CASE Top
  BY <1>4 DEF Top, ReadTempAndCompensate, Read, BusWorks, BusFails, Stages, InOrder, Converting, Readable, world, taskVars
<1>5. CASE StartPressure
  BY <1>5 DEF StartPressure, Convert, BusWorks, BusFails, Stages, InOrder, Converting, Readable, world, taskVars
<1>6. CASE ReadPressure
  BY <1>6 DEF ReadPressure, Read, Based, BusWorks, BusFails, Stages, InOrder, Converting, Readable, world, taskVars
<1>7. CASE PushDepth
  BY <1>7 DEF PushDepth, Stages, InOrder, Converting, Readable, world, taskVars
<1>8. CASE StartTemp
  BY <1>8 DEF StartTemp, Convert, BusWorks, BusFails, Stages, InOrder, Converting, Readable, world, taskVars
<1>9. CASE Delay
  BY <1>9 DEF Delay, Stages, InOrder, Converting, Readable, world, taskVars
<1>10. CASE Wake
  BY <1>10 DEF Wake, Stages, InOrder, Converting, Readable, world, taskVars
<1>11. CASE ConversionEnds
  BY <1>11 DEF ConversionEnds, Stages, InOrder, Converting, Readable, world, taskVars
<1>12. CASE Suspend
  BY <1>12 DEF Suspend, Stages, InOrder, Converting, Readable, world, taskVars
<1>13. CASE Resume
  BY <1>13 DEF Resume, Stages, InOrder, Converting, Readable, world, taskVars
<1>14. CASE Move
  BY <1>14 DEF Move, Stages, InOrder, Converting, Readable, world, taskVars
<1>15. CASE UNCHANGED vars
  BY <1>15 DEF vars, world, taskVars, Stages, InOrder, Converting, Readable
<1> QED BY <1>1, <1>2, <1>3, <1>4, <1>5, <1>6, <1>7, <1>8, <1>9, <1>10, <1>11, <1>12, <1>13, <1>14, <1>15 DEF Next, TaskStep

\* What a step may do to the counts: leave them, start again, read the temperature, or
\* push a depth.
Stays    == UNCHANGED <<calibrated, calm, comp, temp_state, temp_count, pool>>
Restarts == ~(calibrated' /\ calm' > 0)
Repairs  ==
  /\ UNCHANGED <<calibrated, calm, temp_count, pool>> /\ temp_state' = 0
  /\ calibrated /\ calm > 1 => comp'
Pushes   ==
  /\ UNCHANGED <<calibrated, comp>> /\ pool' = depth_val
  /\ temp_state = 0
  /\ calibrated /\ calm > 0 /\ comp => depth_val.right
  /\ calm' = IF calm > TempEvery + 1 THEN calm ELSE calm + 1
  /\ \/ temp_count + 1 >= TempEvery /\ temp_count' = 0 /\ temp_state' = 2
     \/ temp_count + 1 < TempEvery /\ temp_count' = temp_count + 1 /\ temp_state' = 0

\* None of them breaks the count.
LEMMA CountKept == TypeOK /\ Counted /\ (Stays \/ Restarts \/ Repairs \/ Pushes) => Counted'
<1> SUFFICES ASSUME TypeOK, Counted, Stays \/ Restarts \/ Repairs \/ Pushes PROVE Counted'
  OBVIOUS
<1>1. /\ TempEvery \in Nat \ {0} /\ calm \in Nat /\ calm <= TempEvery + 2
      /\ temp_count \in Nat /\ temp_count < TempEvery /\ comp \in BOOLEAN
  BY DepthSensorAssumption DEF TypeOK
<1>2. CASE Stays
  BY <1>1, <1>2 DEF Stays, Counted
<1>3. CASE Restarts
  BY <1>3 DEF Restarts, Counted
<1>4. CASE Repairs
  BY <1>1, <1>4 DEF Repairs, Counted
<1>5. CASE Pushes
  <2>1. CASE temp_count + 1 >= TempEvery /\ temp_count' = 0 /\ temp_state' = 2
    BY <1>1, <1>5, <2>1 DEF Pushes, Counted
  <2>2. CASE temp_count + 1 < TempEvery /\ temp_count' = temp_count + 1 /\ temp_state' = 0
    BY <1>1, <1>5, <2>2 DEF Pushes, Counted
  <2> QED BY <1>5, <2>1, <2>2 DEF Pushes
<1> QED BY <1>2, <1>3, <1>4, <1>5

\* Every step does one of them.
LEMMA EveryStep == TypeOK /\ Stages /\ InOrder /\ [Next]_vars => Stays \/ Restarts \/ Repairs \/ Pushes
<1> SUFFICES ASSUME TypeOK, Stages, InOrder, [Next]_vars
             PROVE  Stays \/ Restarts \/ Repairs \/ Pushes
  OBVIOUS
<1> USE DEF TypeOK, world, taskVars
<1>1. CASE FirstStart
  BY <1>1 DEF FirstStart, Convert, BusWorks, BusFails, Stays, Restarts
<1>2. CASE FirstRead
  <2>1. ~(calibrated /\ calm > 0)
    BY <1>2 DEF FirstRead, InOrder
  <2>2. calibrated' = calibrated /\ (calm' = calm \/ calm' = 0)
    BY <1>2 DEF FirstRead, ReadTempAndCompensate, Read, BusWorks, BusFails
  <2> QED BY <2>1, <2>2 DEF Restarts
<1>3. CASE Top
  <2>1. CASE depth_state = 0 /\ temp_state = 2
    <3>1. CASE BusFails
      BY <1>3, <2>1, <3>1 DEF Top, BusFails, Restarts
    <3>2. ASSUME NEW complete \in BOOLEAN, Read("D2", complete), comp' = (calibrated /\ complete)
          PROVE  Repairs
      <4>1. calibrated /\ calm > 1 => complete
        <5>1. calibrated /\ calm > 1 => adc.of = "D2" /\ adc.state = "done"
          BY <1>3, <2>1 DEF Top, InOrder, Readable
        <5> QED BY <3>2, <5>1 DEF Read
      <4>2. calm' = calm
        BY <3>2 DEF Read, BusWorks
      <4> QED BY <1>3, <2>1, <3>2, <4>1, <4>2 DEF Top, Repairs
    <3> QED BY <1>3, <2>1, <3>1, <3>2 DEF Top, ReadTempAndCompensate
  <2>2. CASE ~(depth_state = 0 /\ temp_state = 2)
    BY <1>3, <2>2 DEF Top, Stays
  <2> QED BY <2>1, <2>2
<1>4. CASE StartPressure
  BY <1>4 DEF StartPressure, Convert, BusWorks, BusFails, Stays, Restarts
<1>5. CASE ReadPressure
  BY <1>5 DEF ReadPressure, Read, BusWorks, BusFails, Stays, Restarts
<1>6. CASE PushDepth
  <2>1. temp_state = 0
    BY <1>6 DEF PushDepth, Stages
  <2>2. calibrated /\ calm > 0 /\ comp => depth_val.right
    BY <1>6 DEF PushDepth, InOrder
  <2>3. /\ UNCHANGED <<calibrated, comp>> /\ pool' = depth_val
        /\ calm' = IF calm > TempEvery + 1 THEN calm ELSE calm + 1
    BY <1>6 DEF PushDepth
  <2>4. \/ temp_count + 1 >= TempEvery /\ temp_count' = 0 /\ temp_state' = 2
        \/ temp_count + 1 < TempEvery /\ temp_count' = temp_count + 1 /\ temp_state' = 0
    BY <1>6, <2>1, DepthSensorAssumption DEF PushDepth
  <2> QED BY <2>1, <2>2, <2>3, <2>4 DEF Pushes
<1>7. CASE StartTemp
  BY <1>7 DEF StartTemp, Convert, BusWorks, BusFails, Stays, Restarts
<1>8. CASE Delay
  BY <1>8 DEF Delay, Stays, Restarts
<1>9. CASE FirstWait \/ Wake \/ ConversionEnds \/ Resume \/ Move \/ UNCHANGED vars
  BY <1>9 DEF FirstWait, Wake, ConversionEnds, Resume, Move, vars, Stays
<1>10. CASE Suspend
  BY <1>10 DEF Suspend, Restarts
<1> QED BY <1>1, <1>2, <1>3, <1>4, <1>5, <1>6, <1>7, <1>8, <1>9, <1>10 DEF Next, TaskStep

LEMMA InitInv == Init => IInv
<1> SUFFICES ASSUME Init PROVE IInv
  OBVIOUS
<1>1. 0 \in 0..TempEvery - 1 /\ 0 \in 0..TempEvery + 2 /\ 0 \in 0..MaxMissed /\ 0 \in Int
  BY DepthSensorAssumption
<1>2. TypeOK
  <2>1. adc \in [of : {"D1", "D2"}, state : {"converting", "done", "stale", "wrong"}, at : Depths]
    BY DEF Init
  <2>2. base \in [taken : BOOLEAN, right : BOOLEAN, at : Depths]
    BY DEF Init
  <2>3. depth_val \in Readings /\ pool \in Readings
    BY <1>1 DEF Init, Readings
  <2> QED BY <1>1, <2>1, <2>2, <2>3 DEF Init, TypeOK, Places
<1>3. Stages
  BY DEF Init, Stages
<1>4. FirstReading
  BY DEF Init, FirstReading
<1>5. InOrder /\ Counted /\ ReferenceKept
  BY DEF Init, InOrder, Counted, ReferenceKept
<1> QED BY <1>2, <1>3, <1>4, <1>5 DEF IInv

LEMMA NextInv == IInv /\ [Next]_vars => IInv'
  BY NextTypes, NextStages, NextFirst, NextKept, NextOrder, EveryStep, CountKept DEF IInv

\* The variables keep their types, so the counter of readings never passes the one at
\* which the temperature is due.
THEOREM TypeCorrect == Spec => []TypeOK
<1>1. IInv => TypeOK
  BY DEF IInv
<1> QED BY <1>1, InitInv, NextInv, PTL DEF Spec

\* The reference of all depths is a proper reading, unless a pause or a bus error came
\* before it, through every pause, late pass and bus error after it.
THEOREM ReferenceTheorem == Spec => []ReferenceKept
<1>1. IInv => ReferenceKept
  BY DEF IInv
<1> QED BY <1>1, InitInv, NextInv, PTL DEF Spec

\* Whatever a pause, the late passes after it or a bus error have done to the readings
\* and to the compensation, TempEvery + 2 undisturbed readings repair it.
THEOREM Recovery == Spec => []RecoversInTime
<1>1. IInv => RecoversInTime
  BY DepthSensorAssumption DEF IInv, TypeOK, Counted, RecoversInTime
<1> QED BY <1>1, InitInv, NextInv, PTL DEF Spec
===============================================================================
