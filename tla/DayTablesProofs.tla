--------------------------- MODULE DayTablesProofs ---------------------------
(***************************************************************************)
(* The tables of DayTables, for every length of a day, every wait and      *)
(* every outage that its assumptions allow.                                *)
(***************************************************************************)
EXTENDS DayTables, SequenceTheorems, TLAPS

(* The first moment at which the task was due, as ticks from the midnight   *)
(* that began the current day.                                              *)
Plan == sec + left

(* How the task is placed with respect to the day of its last table: the    *)
(* run is planned for that day, or within MaxLag of the midnight that ends  *)
(* it, because the run that made the table was itself late.                 *)
PlaceInv ==
    \/ day = newest - 1 /\ DayLen <= Plan /\ Plan < 2 * DayLen
    \/ day = newest /\ 0 <= Plan /\ Plan <= DayLen + MaxLag
    \/ day = newest + 1 /\ -DayLen <= Plan /\ Plan <= MaxLag

(* The waits after failures are what separates due from left.               *)
WaitInv == left <= due /\ due <= left + Outage + Retry

(* A table that is being created is named after tomorrow, or after today    *)
(* when the midnight has passed since the run began.                        *)
NamingInv ==
    naming # NoDay =>
        /\ due <= 0
        /\ naming = day + 1 \/ (naming = day /\ sec + due < 0)

TablesInv ==
    /\ since <= newest /\ newest \in tables
    /\ \A d \in since .. newest - 1 : d \in tables \/ d + 1 \in tables

IInv ==
    /\ TypeOK
    /\ naming # NoDay => loaded
    /\ loaded => PlaceInv /\ WaitInv /\ NamingInv /\ TablesInv
-----------------------------------------------------------------------------
(* bm_mysql_init has not run yet: nothing is loaded or created.             *)
LEMMA InitEstablishes == Init => IInv
<1> SUFFICES ASSUME Init PROVE IInv
  OBVIOUS
<1> USE TimesAssumption DEF Init, Days, NoDay
<1>1. queue \in Seq(Days) /\ tables \subseteq 0 .. MaxDay + 1 /\ missed \subseteq Days
  OBVIOUS
<1>2. /\ day \in Days /\ sec \in 0 .. DayLen - 1
      /\ due \in Int /\ due >= -MaxLag
      /\ left \in Int /\ left >= -(MaxLag + Outage + Retry)
      /\ written \in 0 .. MaxWrites
      /\ since \in Days /\ newest \in 0 .. MaxDay + 1
  OBVIOUS
<1>3. ~loaded /\ loaded \in BOOLEAN
  OBVIOUS
<1>4. naming = NoDay /\ naming \in {NoDay} \union (0 .. MaxDay + 1)
  OBVIOUS
<1> QED BY <1>1, <1>2, <1>3, <1>4 DEF IInv, TypeOK

(* Each variable keeps its type.                                            *)
LEMMA TypeStep ==
    ASSUME IInv, [Next]_vars
    PROVE  TypeOK'
<1> USE TimesAssumption DEF IInv, TypeOK, Days, NoDay, clock, task, records
<1>1. CASE Tick
  <2>1. day' \in Days /\ sec' \in 0 .. DayLen - 1
    BY <1>1 DEF Tick
  <2>2. due' \in Int /\ due' >= -MaxLag /\ left' \in Int
    BY <1>1 DEF Tick
  <2>3. left' >= -(MaxLag + Outage + Retry)
    BY <1>1 DEF Tick, WaitInv
  <2> QED BY <1>1, <2>1, <2>2, <2>3 DEF Tick
<1>2. CASE Load
  BY <1>2 DEF Load
<1>3. CASE Crash
  <2>1. queue' \in Seq(Days)
    BY <1>3 DEF Crash
  <2>2. loaded' \in BOOLEAN
    BY <1>3 DEF Crash
  <2>3. /\ due' \in Int /\ due' >= -MaxLag
        /\ left' \in Int /\ left' >= -(MaxLag + Outage + Retry)
    BY <1>3 DEF Crash
  <2> QED BY <1>3, <2>1, <2>2, <2>3 DEF Crash
<1>4. CASE StartTask
  BY <1>4 DEF StartTask, Tomorrow
<1>5. CASE TaskSucceeds
  BY <1>5 DEF TaskSucceeds
<1>6. CASE TaskFails
  BY <1>6 DEF TaskFails
<1>7. CASE Record
  <2>1. queue' \in Seq(Days) /\ written' \in 0 .. MaxWrites
    BY <1>7 DEF Record
  <2> QED BY <1>7, <2>1 DEF Record
<1>8. CASE Insert
  <2>1. queue' \in Seq(Days)
    BY <1>8 DEF Insert
  <2>2. missed' \subseteq Days
    BY <1>8 DEF Insert
  <2> QED BY <1>8, <2>1, <2>2 DEF Insert
<1>9. CASE EndOfTime \/ UNCHANGED vars
  BY <1>9 DEF EndOfTime, vars
<1> QED BY <1>1, <1>2, <1>3, <1>4, <1>5, <1>6, <1>7, <1>8, <1>9 DEF Next

(* Time passes: the plan moves one day back at midnight, and the task is    *)
(* never so late that the plan leaves the three cases of PlaceInv.          *)
LEMMA TickStep ==
    ASSUME IInv, Tick, loaded
    PROVE  (PlaceInv /\ WaitInv /\ NamingInv /\ TablesInv)'
<1> USE TimesAssumption, ShortOutageAssumption
<1>1. /\ day \in Nat /\ sec \in 0 .. DayLen - 1 /\ due \in Int /\ left \in Int
      /\ newest \in Nat /\ naming \in Int /\ due > -MaxLag
      /\ due' = due - 1 /\ left' = left - 1
      /\ UNCHANGED <<loaded, tables, naming, since, newest>>
  BY DEF IInv, TypeOK, Days, NoDay, Tick
<1>2. PlaceInv /\ WaitInv /\ NamingInv /\ TablesInv
  BY DEF IInv
<1>3. WaitInv' /\ TablesInv'
  BY <1>1, <1>2 DEF WaitInv, TablesInv
<1>4. CASE sec' = sec + 1 /\ day' = day
  <2>1. Plan' = Plan
    BY <1>1, <1>4 DEF Plan
  <2>2. PlaceInv'
    BY <1>1, <1>2, <1>4, <2>1 DEF PlaceInv
  <2>3. NamingInv'
    BY <1>1, <1>2, <1>4 DEF NamingInv
  <2> QED BY <1>3, <2>2, <2>3
<1>5. CASE sec + 1 = DayLen /\ sec' = 0 /\ day' = day + 1
  <2>1. Plan' = Plan - DayLen
    BY <1>1, <1>5 DEF Plan
  <2>2. left > MaxLag - DayLen + 1
    BY <1>1, <1>2 DEF WaitInv
  <2>3. day # newest + 1
    BY <1>1, <1>2, <1>5, <2>2 DEF PlaceInv, Plan
  <2>4. PlaceInv'
    BY <1>1, <1>2, <1>5, <2>1, <2>3 DEF PlaceInv, Plan
  <2>5. NamingInv'
    BY <1>1, <1>2, <1>5 DEF NamingInv
  <2> QED BY <1>3, <2>4, <2>5
<1> QED BY <1>4, <1>5 DEF Tick

(* bm_mysql_init: the plan is now, and the last table is that of today.     *)
LEMMA LoadStep ==
    ASSUME IInv, Load
    PROVE  (PlaceInv /\ WaitInv /\ NamingInv /\ TablesInv)'
<1> USE TimesAssumption, ShortOutageAssumption
<1>1. /\ day \in Nat /\ sec \in 0 .. DayLen - 1 /\ naming = NoDay
      /\ due' = 0 /\ left' = 0 /\ newest' = day /\ since' = day
      /\ tables' = tables \union {day}
      /\ UNCHANGED <<day, sec, naming>>
  BY DEF IInv, TypeOK, Days, Load, clock
<1> QED BY <1>1 DEF PlaceInv, WaitInv, NamingInv, TablesInv, Plan

(* The task names its table when it is due.                                 *)
LEMMA StartStep ==
    ASSUME IInv, StartTask
    PROVE  (PlaceInv /\ WaitInv /\ NamingInv /\ TablesInv)'
BY DEF IInv, TypeOK, Days, StartTask, Tomorrow, clock, PlaceInv, WaitInv,
       NamingInv, TablesInv, Plan

(* The table of a run is at most two days after the one before, so that at  *)
(* most one day is between them.                                            *)
LEMMA SuccessStep ==
    ASSUME IInv, TaskSucceeds
    PROVE  (PlaceInv /\ WaitInv /\ NamingInv /\ TablesInv)'
<1> USE TimesAssumption, ShortOutageAssumption
<1>1. /\ day \in Nat /\ sec \in 0 .. DayLen - 1 /\ due \in Int /\ left \in Int
      /\ newest \in Nat /\ since \in Nat /\ naming \in Int /\ naming # NoDay /\ due >= -MaxLag
      /\ due' = DayLen /\ left' = DayLen /\ newest' = naming /\ naming' = NoDay
      /\ tables' = tables \union {naming}
      /\ UNCHANGED <<day, sec, since>>
  BY DEF IInv, TypeOK, Days, NoDay, TaskSucceeds, clock
<1>2. PlaceInv /\ WaitInv /\ NamingInv /\ TablesInv
  BY DEF IInv, TaskSucceeds
<1>3. due <= 0 /\ (naming = day + 1 \/ (naming = day /\ sec + due < 0))
  BY <1>1, <1>2 DEF NamingInv
<1>4. day = newest \/ day = newest + 1
  BY <1>1, <1>2, <1>3 DEF PlaceInv, WaitInv, Plan
<1>5. newest <= naming /\ naming <= newest + 2
  BY <1>1, <1>3, <1>4
<1>6. PlaceInv' /\ WaitInv' /\ NamingInv'
  BY <1>1, <1>3 DEF PlaceInv, WaitInv, NamingInv, Plan
<1>7. TablesInv'
  <2>1. since' <= newest' /\ newest' \in tables'
    BY <1>1, <1>2, <1>5 DEF TablesInv
  <2>2. ASSUME NEW d \in since .. naming - 1
        PROVE  d \in tables' \/ d + 1 \in tables'
    <3>1. CASE d < newest
      BY <1>1, <1>2, <3>1 DEF TablesInv
    <3>2. CASE d = newest
      BY <1>1, <1>2, <3>2 DEF TablesInv
    <3>3. CASE d > newest
      BY <1>1, <1>5, <3>3
    <3> QED BY <1>1, <3>1, <3>2, <3>3
  <2> QED BY <1>1, <2>1, <2>2 DEF TablesInv
<1> QED BY <1>6, <1>7

(* After a failure the next run is a Retry away.                            *)
LEMMA FailStep ==
    ASSUME IInv, TaskFails
    PROVE  (PlaceInv /\ WaitInv /\ NamingInv /\ TablesInv)'
<1> USE TimesAssumption, ShortOutageAssumption
<1>1. /\ due \in Int /\ left \in Int /\ naming # NoDay /\ left >= -Outage
      /\ due' = Retry /\ naming' = NoDay
      /\ UNCHANGED <<day, sec, tables, left, since, newest>>
  BY DEF IInv, TypeOK, TaskFails, clock
<1>2. PlaceInv /\ WaitInv /\ NamingInv /\ TablesInv
  BY DEF IInv, TaskFails
<1>3. PlaceInv' /\ TablesInv'
  BY <1>1, <1>2 DEF PlaceInv, TablesInv, Plan
<1>4. WaitInv' /\ NamingInv'
  BY <1>1, <1>2 DEF WaitInv, NamingInv
<1> QED BY <1>3, <1>4

(* Every step keeps the invariant.                                          *)
LEMMA StepPreserves == IInv /\ [Next]_vars => IInv'
<1> SUFFICES ASSUME IInv, [Next]_vars PROVE IInv'
  OBVIOUS
<1>1. TypeOK'
  BY TypeStep
<1>2. (naming # NoDay => loaded)'
  BY DEF IInv, Next, Tick, Load, Crash, StartTask, TaskSucceeds, TaskFails, Record,
         Insert, EndOfTime, vars, clock, task, records
<1>3. ASSUME loaded' PROVE (PlaceInv /\ WaitInv /\ NamingInv /\ TablesInv)'
  <2>1. CASE Tick
    BY <1>3, <2>1, TickStep DEF Tick
  <2>2. CASE Load
    BY <2>2, LoadStep
  <2>3. CASE Crash
    BY <1>3, <2>3 DEF Crash
  <2>4. CASE StartTask
    BY <2>4, StartStep
  <2>5. CASE TaskSucceeds
    BY <2>5, SuccessStep
  <2>6. CASE TaskFails
    BY <2>6, FailStep
  <2>7. CASE Record \/ Insert \/ EndOfTime \/ UNCHANGED vars
    <3>1. UNCHANGED <<day, sec, loaded, tables, due, naming, left, since, newest>>
      BY <2>7 DEF Record, Insert, EndOfTime, vars, clock, task
    <3> QED BY <1>3, <3>1 DEF IInv, PlaceInv, WaitInv, NamingInv, TablesInv, Plan
  <2> QED BY <2>1, <2>2, <2>3, <2>4, <2>5, <2>6, <2>7 DEF Next
<1> QED BY <1>1, <1>2, <1>3 DEF IInv

(* Every variable of the day tables has its type, in every behaviour.       *)
THEOREM TypeCorrect == Spec => []TypeOK
<1>1. IInv => TypeOK
  BY DEF IInv
<1> QED BY <1>1, InitEstablishes, StepPreserves, PTL DEF Spec

(* While the module is loaded no two days in a row are without a table,     *)
(* whenever it was loaded and however far the task has drifted, as long as  *)
(* mysql and the scheduler delay no run by most of a day.                   *)
THEOREM SkipsAreSingle == Spec => []NoTwoDaysSkipped
<1>1. IInv => NoTwoDaysSkipped
  <2> SUFFICES ASSUME IInv, loaded, NEW d \in since .. day - 1
               PROVE  d \in tables \/ d + 1 \in tables
    BY DEF NoTwoDaysSkipped
  <2>1. since \in Nat /\ newest \in Nat /\ day \in Nat /\ PlaceInv /\ TablesInv
    BY DEF IInv, TypeOK, Days
  <2>2. day <= newest + 1
    BY <2>1 DEF PlaceInv
  <2>3. d < newest \/ d = newest
    BY <2>1, <2>2
  <2> QED BY <2>1, <2>3 DEF TablesInv
<1> QED BY <1>1, InitEstablishes, StepPreserves, PTL DEF Spec
-----------------------------------------------------------------------------
(* How much later in its day a run can end than the one before.             *)
Drift == MaxLag + Outage + Retry

(* No run has drifted to a midnight yet, so each day has had one: the table *)
(* of tomorrow is the newest when it has ended, that of today before.       *)
PunctualInv ==
    loaded =>
        /\ since <= day /\ day \in tables
        /\ naming # NoDay => naming = day + 1
        /\ \/ newest = day /\ Plan < LoadBefore + (day - since) * Drift
           \/ newest = day + 1 /\ Plan < DayLen + LoadBefore + (day - since + 1) * Drift

NeverMissed == PunctualInv /\ (~loaded => queue = <<>>) /\ NoRecordMissed

(* Midnight comes after the run of the day.                                 *)
LEMMA PunctualTick ==
    ASSUME IInv, PunctualInv, Tick, loaded, LoadBefore + MaxDay * Drift <= DayLen
    PROVE  PunctualInv'
<1> USE TimesAssumption
<1>1. /\ day \in Nat /\ day <= MaxDay /\ since \in Nat /\ sec \in 0 .. DayLen - 1
      /\ due \in Int /\ left \in Int /\ newest \in Nat /\ due > -MaxLag
      /\ due' = due - 1 /\ left' = left - 1 /\ Drift \in Nat
      /\ UNCHANGED <<loaded, tables, naming, since, newest>>
  BY DEF IInv, TypeOK, Days, Tick, Drift
<1>2. /\ since <= day /\ day \in tables /\ newest \in tables
      /\ naming # NoDay => naming = day + 1 /\ due <= 0
      /\ \/ newest = day /\ Plan < LoadBefore + (day - since) * Drift
         \/ newest = day + 1 /\ Plan < DayLen + LoadBefore + (day - since + 1) * Drift
  BY DEF IInv, PunctualInv, TablesInv, NamingInv
<1>3. CASE sec' = sec + 1 /\ day' = day
  <2>1. Plan' = Plan
    BY <1>1, <1>3 DEF Plan
  <2> QED BY <1>1, <1>2, <1>3, <2>1 DEF PunctualInv
<1>4. CASE sec + 1 = DayLen /\ sec' = 0 /\ day' = day + 1
  <2>1. Plan' = Plan - DayLen /\ Plan \in Int
    BY <1>1, <1>4 DEF Plan
  <2>2. left > -Drift
    BY <1>1 DEF IInv, WaitInv, Drift
  <2>3. (day - since) * Drift + Drift <= MaxDay * Drift
    <3>1. day - since + 1 <= MaxDay /\ day - since + 1 \in Nat
      BY <1>1, <1>2, <1>4 DEF Tick
    <3>2. \A a, b, c \in Nat : a <= b => a * c <= b * c
      OBVIOUS
    <3>3. (day - since + 1) * Drift <= MaxDay * Drift
      BY <1>1, <3>1, <3>2
    <3> QED BY <1>1, <1>2, <3>3
  <2>4. newest # day
    BY <1>1, <1>2, <1>4, <2>2, <2>3 DEF Plan
  <2>5. newest = day' /\ Plan' < LoadBefore + (day' - since) * Drift
    <3>1. (day - since + 1) * Drift = (day' - since) * Drift /\ (day' - since) * Drift \in Int
      BY <1>1, <1>4
    <3> QED BY <1>2, <1>1, <1>4, <2>1, <2>4, <3>1
  <2>6. naming = NoDay
    <3>1. Plan >= DayLen
      BY <1>1, <1>2, <2>4 DEF IInv, PlaceInv
    <3> QED BY <1>1, <1>2, <1>4, <3>1 DEF IInv, WaitInv, Plan
  <2> QED BY <1>1, <1>2, <1>4, <2>5, <2>6 DEF PunctualInv
<1> QED BY <1>3, <1>4 DEF Tick

LEMMA PunctualStep ==
    ASSUME IInv, PunctualInv, [Next]_vars, LoadBefore + MaxDay * Drift <= DayLen
    PROVE  PunctualInv'
<1> USE TimesAssumption
<1>1. /\ day \in Nat /\ since \in Nat /\ sec \in 0 .. DayLen - 1 /\ Drift \in Nat
      /\ due \in Int /\ left \in Int /\ left >= -Drift /\ newest \in Nat
  BY DEF IInv, TypeOK, Days, Drift
<1>2. CASE Tick
  BY <1>2, PunctualTick DEF Tick, PunctualInv
<1>3. CASE Load
  <2>1. (day' - since') * Drift = 0 /\ Plan' < LoadBefore
    BY <1>1, <1>3 DEF Load, clock, Plan
  <2>2. naming' = NoDay
    BY <1>3 DEF IInv, Load
  <2> QED BY <1>1, <1>3, <2>1, <2>2 DEF Load, clock, PunctualInv
<1>4. CASE StartTask
  BY <1>1, <1>4 DEF StartTask, Tomorrow, clock, PunctualInv, Plan
<1>5. CASE TaskSucceeds
  <2>1. /\ naming = day + 1 /\ since <= day /\ day \in tables /\ loaded
        /\ naming' = NoDay /\ newest' = day + 1 /\ tables' = tables \union {day + 1}
        /\ left' = DayLen /\ UNCHANGED <<day, sec, since, loaded>>
    BY <1>5 DEF TaskSucceeds, clock, IInv, PunctualInv
  <2>2. newest = day
    <3>1. newest = day + 1 => Plan >= DayLen
      BY <1>1, <2>1 DEF IInv, PlaceInv
    <3>2. left <= 0
      BY <1>1, <1>5, <2>1 DEF IInv, WaitInv, NamingInv, TaskSucceeds
    <3> QED BY <1>1, <2>1, <3>1, <3>2 DEF PunctualInv, Plan
  <2>3. sec + left < LoadBefore + (day - since) * Drift
    BY <1>1, <2>1, <2>2 DEF PunctualInv, Plan
  <2>4. (day - since + 1) * Drift = (day - since) * Drift + Drift /\ (day - since) * Drift \in Int
    BY <1>1
  <2>5. Plan' < DayLen + LoadBefore + (day - since + 1) * Drift
    BY <1>1, <2>1, <2>3, <2>4 DEF Plan
  <2> QED BY <2>1, <2>5 DEF PunctualInv
<1>6. CASE TaskFails
  BY <1>6 DEF TaskFails, clock, PunctualInv, Plan
<1>7. CASE Crash
  BY <1>7 DEF Crash, PunctualInv
<1>8. CASE Record \/ Insert \/ EndOfTime \/ UNCHANGED vars
  <2>1. UNCHANGED <<day, sec, loaded, tables, due, naming, left, since, newest>>
    BY <1>8 DEF Record, Insert, EndOfTime, vars, clock, task
  <2> QED BY <2>1 DEF PunctualInv, Plan
<1> QED BY <1>2, <1>3, <1>4, <1>5, <1>6, <1>7, <1>8 DEF Next

LEMMA MissesStep ==
    ASSUME IInv, NeverMissed, [Next]_vars, PunctualInv'
    PROVE  NeverMissed'
<1>1. CASE Insert
  <2>1. loaded /\ day \in tables
    BY <1>1 DEF Insert, NeverMissed, PunctualInv, IInv, TypeOK
  <2> QED BY <1>1, <2>1 DEF Insert, NeverMissed, NoRecordMissed, task
<1>2. CASE ~Insert
  BY <1>2 DEF NeverMissed, NoRecordMissed, Next, Tick, Load, Crash, StartTask, TaskSucceeds, TaskFails, Record,
     EndOfTime, vars, clock, task, records
<1> QED BY <1>1, <1>2

(* The run of a day that has a table makes that of the next day.            *)
LEMMA LeftOutStep ==
    ASSUME IInv, PunctualInv, NoDayLeftOut, [Next]_vars
    PROVE  NoDayLeftOut'
<1>1. day \in Nat /\ since \in Nat /\ newest \in Nat
  BY DEF IInv, TypeOK, Days
<1>2. CASE Load
  BY <1>1, <1>2 DEF Load, clock, NoDayLeftOut
<1>3. CASE TaskSucceeds
  <2>1. /\ naming = day + 1 /\ loaded /\ (newest = day \/ newest = day + 1)
        /\ newest' = naming /\ tables' = tables \union {naming} /\ UNCHANGED <<loaded, since>>
    BY <1>3 DEF TaskSucceeds, IInv, PunctualInv
  <2>2. \A d \in since .. naming : d = naming \/ d \in since .. newest
    BY <1>1, <2>1
  <2> QED BY <2>1, <2>2 DEF NoDayLeftOut
<1>4. CASE Tick \/ Crash \/ StartTask \/ TaskFails \/ Record \/ Insert \/ EndOfTime \/ UNCHANGED vars
  BY <1>4 DEF Tick, Crash, StartTask, TaskFails, Record, Insert, EndOfTime, vars, clock, task, NoDayLeftOut
<1> QED BY <1>2, <1>3, <1>4 DEF Next

(* While the drift of the task stays off midnight, no day is left out and   *)
(* no record is dropped for want of a table: loaded before LoadBefore, the  *)
(* module records every call of MaxDay days, each of which moves the run by *)
(* at most Drift (mysql.cpp 172-226, record.cpp 98).                        *)
THEOREM NoMissUntilDrift ==
    ASSUME LoadBefore + MaxDay * Drift <= DayLen
    PROVE  Spec => [](NoDayLeftOut /\ NoRecordMissed)
<1> DEFINE I == IInv /\ NeverMissed /\ NoDayLeftOut
<1>1. Init => I
  BY InitEstablishes DEF Init, NeverMissed, PunctualInv, NoRecordMissed, NoDayLeftOut
<1>2. I /\ [Next]_vars => I'
  BY StepPreserves, PunctualStep, MissesStep, LeftOutStep DEF NeverMissed
<1>3. I => NoDayLeftOut /\ NoRecordMissed
  BY DEF NeverMissed
<1> QED BY <1>1, <1>2, <1>3, PTL DEF Spec
=============================================================================
