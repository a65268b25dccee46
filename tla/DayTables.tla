------------------------------ MODULE DayTables ------------------------------
(***************************************************************************)
(* The table of check records of each day (mod_blacklist_manage_mysql.cpp) *)
(* and the record worker that needs it (mod_blacklist_manage_record.cpp).  *)
(*                                                                         *)
(* bm_mysql_init creates the table of the current day and gives the        *)
(* scheduler of the host a task that is due at once.  Every run of the     *)
(* task creates the table of the day after, then asks to run again 86400   *)
(* seconds after its end, or 60 seconds after a failure.  A worker that    *)
(* inserts a record computes the day itself, when it inserts; when there   *)
(* is no such table the statement fails, which is logged, and the record   *)
(* is deleted.                                                             *)
(*                                                                         *)
(* Time is a day and the ticks since its midnight.  The scheduler, which   *)
(* looks at its tasks once a second, and the statements of the task are    *)
(* external: together they take at most MaxLag ticks.  mysql refuses the   *)
(* task for at most Outage ticks after a run was due.                      *)
(***************************************************************************)
EXTENDS Integers, Sequences

CONSTANTS
    DayLen,     \* 86400, in ticks
    Retry,      \* the 60 seconds after a failed run, in ticks
    MaxLag,     \* from the moment the task is due to the end of its run
    Outage,     \* how long after a run was due mysql may still refuse it
    LoadBefore, \* bound: the module is loaded before this tick of a day
    MaxDay,     \* bound: the last day
    MaxWrites   \* bound: checks recorded

ASSUME TimesAssumption ==
    /\ DayLen \in Nat \ {0} /\ Retry \in Nat \ {0} /\ MaxLag \in Nat /\ Outage \in Nat
    /\ LoadBefore \in Nat /\ MaxDay \in Nat /\ MaxWrites \in Nat

(* A run of the task, with its failures, and a second wait by the           *)
(* scheduler are over within the day that follows the moment it was due.    *)
ASSUME ShortOutageAssumption == 2 * MaxLag + Outage + Retry < DayLen

Days == 0 .. MaxDay
NoDay == -1

VARIABLES
    day,        \* the current day
    sec,        \* ticks since midnight
    loaded,     \* whether the module is loaded
    tables,     \* external: the days whose table bl_check_<day> exists
    due,        \* ticks until the task is to run: task->runtime - now
    naming,     \* the day the running task names its table after, NoDay between runs
    queue,      \* the records in the queue of the worker: the day of each check
    written,    \* how many checks have been recorded
    missed,     \* history: the days on which a record found no table
    left,       \* history: ticks until the run was first due
    since,      \* history: the day of the last load
    newest      \* history: the day of the table created last

clock == <<day, sec>>
task == <<loaded, tables, due, naming, left, since, newest>>
records == <<queue, written, missed>>
vars == <<clock, task, records>>

Init ==
    /\ day = 0 /\ sec \in 0 .. DayLen - 1
    /\ loaded = FALSE /\ tables = {}
    /\ due = 0 /\ naming = NoDay
    /\ queue = <<>> /\ written = 0 /\ missed = {}
    /\ left = 0 /\ since = 0 /\ newest = 0
-----------------------------------------------------------------------------
(* A get_time_str_tomorrow that does not add 86400.                         *)
TomorrowMutant(d) == d

Tomorrow(d) == d + 1

(* Time passes, but no task is left waiting for longer than MaxLag.         *)
Tick ==
    /\ loaded => due > -MaxLag
    /\ \/ sec + 1 < DayLen /\ sec' = sec + 1 /\ UNCHANGED day
       \/ sec + 1 = DayLen /\ day < MaxDay /\ sec' = 0 /\ day' = day + 1
    /\ IF loaded THEN due' = due - 1 /\ left' = left - 1 ELSE UNCHANGED <<due, left>>
    /\ UNCHANGED <<loaded, tables, naming, since, newest, records>>

(* bm_mysql_init.  When mysql is not reachable the module is not loaded.    *)
Load ==
    /\ ~loaded /\ sec < LoadBefore
    /\ loaded' = TRUE
    /\ tables' = tables \union {day}
    /\ due' = 0 /\ left' = 0
    /\ since' = day /\ newest' = day
    /\ UNCHANGED <<clock, naming, records>>

(* The host stops: the queue and the schedule are only in memory.           *)
Crash ==
    /\ loaded
    /\ loaded' = FALSE
    /\ naming' = NoDay /\ due' = 0 /\ left' = 0
    /\ queue' = <<>>
    /\ UNCHANGED <<clock, tables, since, newest, written, missed>>

(* The scheduler runs create_table_bl_check_tomorrow_task, which connects   *)
(* and computes the name of the table ...                                   *)
StartTask ==
    /\ loaded /\ naming = NoDay /\ due <= 0
    /\ naming' = Tomorrow(day)
    /\ UNCHANGED <<clock, loaded, tables, due, left, since, newest, records>>

(* ... then creates it, and is due again a day after its end.               *)
TaskSucceeds ==
    /\ naming # NoDay
    /\ tables' = tables \union {naming}
    /\ newest' = naming
    /\ due' = DayLen /\ left' = DayLen
    /\ naming' = NoDay
    /\ UNCHANGED <<clock, loaded, since, records>>

(* A run without the return after a failure waits a whole day.              *)
TaskFailsMutant ==
    /\ naming # NoDay /\ left >= -Outage
    /\ due' = DayLen
    /\ naming' = NoDay
    /\ UNCHANGED <<clock, loaded, tables, left, since, newest, records>>

(* The connection or the statement failed.                                  *)
TaskFails ==
    /\ naming # NoDay /\ left >= -Outage
    /\ due' = Retry
    /\ naming' = NoDay
    /\ UNCHANGED <<clock, loaded, tables, left, since, newest, records>>

(* blacklist_manage_record_write, for a call checked now.                   *)
Record ==
    /\ loaded /\ written < MaxWrites
    /\ written' = written + 1
    /\ queue' = Append(queue, day)
    /\ UNCHANGED <<clock, task, missed>>

(* A worker takes a record and inserts it into the table of the day.        *)
Insert ==
    /\ queue # <<>>
    /\ queue' = Tail(queue)
    /\ missed' = IF day \in tables THEN missed ELSE missed \union {day}
    /\ UNCHANGED <<clock, task, written>>

(* The end of the time that is modelled.                                    *)
EndOfTime ==
    /\ day = MaxDay /\ sec = DayLen - 1 /\ ~loaded
    /\ UNCHANGED vars

Next ==
    \/ Tick \/ Load \/ Crash
    \/ StartTask \/ TaskSucceeds \/ TaskFails
    \/ Record \/ Insert
    \/ EndOfTime

Spec == Init /\ [][Next]_vars
-----------------------------------------------------------------------------
(* Every variable has its type, and the clocks of the task stay within what *)
(* the scheduler and mysql allow: a run of the task, failures included, is  *)
(* over MaxLag + Outage + Retry ticks after it was due.                     *)
TypeOK ==
    /\ day \in Days /\ sec \in 0 .. DayLen - 1
    /\ loaded \in BOOLEAN
    /\ tables \subseteq 0 .. MaxDay + 1
    /\ due \in Int /\ due >= -MaxLag
    /\ left \in Int /\ left >= -(MaxLag + Outage + Retry)
    /\ naming \in {NoDay} \union (0 .. MaxDay + 1)
    /\ queue \in Seq(Days) /\ written \in 0 .. MaxWrites
    /\ missed \subseteq Days
    /\ since \in Days /\ newest \in 0 .. MaxDay + 1

(* mod_blacklist_manage_mysql.cpp:202 and 220: the module creates the table *)
(* of today and of tomorrow when it is loaded, and that of tomorrow every   *)
(* day.  So no day from that of the load to that of the newest table is     *)
(* without one.  (The task only goes forward: a day that it has left out    *)
(* has no table until the module is loaded again on that day, and its       *)
(* records are dropped.)                                                    *)
NoDayLeftOut == loaded => \A d \in since .. newest : d \in tables

(* No record is dropped because the table of the day on which it is         *)
(* inserted does not exist (record.cpp 98-105).                             *)
NoRecordMissed == missed = {}

(* However early or late in the day the module was loaded, and however far  *)
(* the runs of the task have drifted since: while it is loaded, no two days *)
(* in a row are without a table.  (The task skips a day when one run is     *)
(* just before a midnight and the next one just after the one that follows; *)
(* the next run must then make up for it.)                                  *)
NoTwoDaysSkipped ==
    loaded => \A d \in since .. day - 1 : d \in tables \/ d + 1 \in tables
=============================================================================
