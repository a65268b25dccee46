# A verification of fs_blacklist_manage

TLA+ models of the two FreeSWITCH modules of this repository, checked with TLC
and proved with TLAPS:

* `mod_as_dbcache` lends threads of the host a redis and a mysql client: a query
  is handed to one of sixteen listener threads and its answer comes back through
  a pool of response queues;
* `mod_blacklist_manage` checks calls against a blacklist and charges the caller:
  accounts are kept in memory and reloaded from mysql, records and deductions are
  queued to worker threads that write them in batches, and a table of records is
  made for each day.

Both are multi-threaded C and C++ with few locks. What is hard in them is not the
statements but the order in which threads, timeouts and the database interleave,
and that is what the modules keep. Texts, columns, lengths and logging are left
out unless a property needs them.

## 1. Inventory

| Component | State | Operations | Talks to |
|---|---|---|---|
| Query service, `mod_as_dbcache_queue.c` | main queues, response-queue pool with flags, `nLastIndex`, sequence counter, contexts of the listeners | `query` (get a response queue, number, choose a main queue, push, wait, release), listener thread, keep-alive task, init, uninit | callers through queues; redis and mysql clients |
| Redis client, `mod_as_dbcache_redis.c` | a context per listener with its error flag | command, reconnect | queue service |
| Mysql client, `mod_as_dbcache_mysql.c` | a connection per listener | query, deadline check, callback | writes through the caller's `result` pointer |
| Load and unload of mod_as_dbcache | `isinit`, the pool, the mutex, the pointers to the queues, the tasks in the scheduler | queue init and uninit | every thread in a query; the scheduler |
| Console of mod_as_dbcache | none | one query per command | queue service |
| Deduction workers, `..._deduction.cpp` | `queue_index`, a queue, a connection and an open batch per worker | write, worker loop, init, uninit | call check; `user_info` |
| Record workers, `..._record.cpp` | the same | the same, with INSERTs | call check; `bl_check_<day>` |
| Day tables, `..._mysql.cpp` | the task of the scheduler, the tables | init, daily task | record workers |
| Accounts in memory, `..._user.cpp` | two pools, their tables, three pointers, `last_update_time` | reload, lookup, change, deduct | everything below |
| User commands, `..._data.cpp` | none of its own | a statement, then a change in memory | queue service, accounts |
| Call check, `..._app.cpp` | none of its own | lookup, refusal, blacklist, record, deduction | accounts, both kinds of workers |
| Console `bl_user`, module load and shutdown | none of their own | argument parsing; order of init and uninit | all |

Hard behaviour, and what makes each part correct:

* **Query service.** The caller leaves after a timeout, its request does not. The
  late answer meets a response queue that has a new holder, and a callback writes
  to memory of a caller that may be gone. Correct means: an accepted answer is
  the caller's own; no callback for a caller that left; a reported timeout is
  real; the pool is neither leaked nor lent twice; sizes that are read without a
  lock never let a push wait; every query returns; queues drain.
* **Load and unload of it.** `isinit` is set before anything exists, an init that
  fails frees the pool under listeners it has started, an unload frees it under
  queries in flight, and the keep-alive task cannot be deleted. Correct means:
  while the module is up nothing of this load uses freed memory; an unload answers
  what was queued before it and returns; the tasks end.
* **Deduction workers.** Statements fail, transactions are lost without the
  worker noticing, the answer to a COMMIT is lost, two workers lock the same rows
  in opposite orders, an unload comes at any time. Correct means: nothing is
  charged twice, each error loses at most one batch, an unload leaves nothing in
  hand, everything is charged in the end and no lock is kept for ever.
* **Day tables.** The schedule is relative to the end of the last run, so it
  drifts, and loads and failures come at any time of day. Correct means: a record
  finds the table of its day.
* **Accounts in memory.** No lock at all: pools are destroyed and pointers
  redirected while other threads use them. Correct means: nobody works in a
  destroyed pool, and memory and database agree.
* **Paying for calls.** A call is admitted on a copy of the account, queued for the
  database and only then taken off memory; other calls, payments, changes of the
  fee and reloads come in between. Correct means: an account is overdrawn by no
  more than the calls in progress and what memory showed in excess explain, and
  the books of memory and database agree whenever nothing has disturbed them.

`PROJECT.json` lists the hazards at their lines, with the properties that catch
each of them, or why none does.

## 2. Modules

| Module | Models | Abstract or detailed |
|---|---|---|
| `DbCacheQueue` | query service, with both clients as its listeners use them | detailed |
| `QueryService` | what the query service promises a caller: its command runs at most once, and the query returns its outcome, a refusal of what was never run, or a timeout after its time | abstract |
| `DbCacheQueueProofs` | theorems about `DbCacheQueue`: types, pool, lengths, numbers, timeouts | |
| `DbCacheServiceProofs` | theorems about where a request is, when callbacks start, and the refinement of `QueryService` | |
| `DbCacheLifecycle` | init with its failures, uninit, keep-alive tasks across loads, as far as queries read pointers | detailed |
| `DbCacheLifecycleProofs` | theorems about it | |
| `WorkQueue` | deduction workers, writers, unload, mysql transactions and row locks | detailed |
| `ChargeLedger` | what the workers promise: an accepted deduction is charged in an atomic batch, at most once, or lost | abstract |
| `WorkQueueProofs` | theorems about them, and the refinement | |
| `DayTables` | day tables, daily task, record workers as far as they need the table | detailed |
| `DayTablesProofs` | theorems about it | |
| `UserCache` | accounts in memory, commands with their statements, call check | detailed |
| `UserCacheProofs` | theorems about it | |
| `UserCacheDbProofs` | theorems that memory and database agree, and when entries stay in live pools | |
| `Billing` | call check, deduction, payments, fees and reload over the columns of one account; charges through `ChargeLedger` | detailed |
| `BillingProofs` | theorems about it | |
| `MCDbCacheQueue`, `MCDbCacheLifecycle`, `MCWorkQueue`, `MCDayTables`, `MCUserCache`, `MCBilling` | instances for TLC | |

`QueryService` is what `DbCacheQueue` implements. `ChargeLedger` joins two modules: `WorkQueue` implements it, and `Billing` takes
its `Accept` and `Charge` for the steps of the workers, so what is said of an
account holds for the workers as they are, with `Lose` for what an error costs.

An operator whose name ends in `Mutant` stands beside a definition and is what
that definition would be with a plausible mistake. The specifications do not use
them. Substituting one shows that the property it belongs to can fail.

### DbCacheQueue

A caller's `pc` follows `mod_as_dbcache_queue_query`: `lock`, `scan`, `take`
(`get_handler`, `get_resp_queue`), `seqread`, `seqwrite` (the unprotected
`sequence++`), `respdata`, `mainscan` (`get_resp_data`, `get_main_queue`), `push`
(`send`), `wait` (`recv_wait`), `release` (`handler_free`). A listener's `lpc`
follows `listen_thread`: `pop`, `redis`, `mysql`, `callback`, `offer` (compare the
size), `push`. Reading a size or a flag and acting on it are always two steps.
The ghost field `from` of a message says whose `result` pointer it carries; no
guard of the protocol reads it, only the deadline, which stands for the value
computed for that query, and the properties.

Time is one event for each query, `Elapse`: the caller's wait and the deadline of
the listener end at the same instant. In the code the deadline is a whole second
computed before the wait begins (queue.c:763, compared with `>=` at mysql.c:369),
so it passes up to about a second before the wait ends, and earlier still when the
wait has started over after an answer that was not its own (queue.c:591). The one
instant is the weakest case in which the check can be relied on; what the model
calls the time of a query is its deadline. `MysqlQuery` makes the comparison
and the call of the callback (mysql.c:377) one step. A caller that leaves between
them is, in the model, one that leaves during the callback, which is what
`NoWriteAfterReturn` is about. For `REDIS_MYSQL` the deadline is a length that is
compared with a date (queue.c:761), which `DeadlinePassed` reproduces.

### QueryService

What a session thread sees of `mod_as_dbcache_queue_query`. A query is `pending`
while its command may still be run, an entry of `answers` once it has been, and
`late` after its time. `Run` takes it from the first set to the second, so a
command runs once; `Refuse` takes it out of the first, so what was refused never
runs; `Answer` needs the entry of the caller's own query; `GiveUp` leaves both
sets as they are, so a command may still run after its caller has left, and its
answer is then lost (`Lose`). The mapping collects `pending` from wherever a
request can be: with a caller that has not sent it, in a main queue, in the hands
of a listener before it has an outcome. `answers` are what listeners have yet to
push and what response queues hold, whoever holds the queue now. The outcome of
an answer is a set: for redis the caller's own callback has the last word.

### DbCacheLifecycle

A pointer to a queue or to the mutex is the load that set it, `Null` before and
after; what it points to exists while the pool of that load does (`Exists`). A use
of anything else, a null pointer included, ends the process, and `crash` says
whose use it was and in which load it began. Destroying a pool while threads wait
in its queues counts as such a use. `host` follows `mod_as_dbcache_queue_init`
(`pool`, `mutex`, `resp`, `main`, `thread`, then `up`, or `failed` on the way to
`unloaded`) and `mod_as_dbcache_queue_uninit` (`push`, `join`, `clear`, `busy`,
`unlock`, `free`); each array is filled or emptied slot by slot, with queries in
between. A query is cut down to what reads a pointer, tests `isinit` or moves an
item: the race for the pool of response queues and the sequence numbers are in
`DbCacheQueue`. A task belongs to the load that added it and survives it
(`SSHF_NO_DEL`): it ends by finding `isinit` clear, and a load that comes first
leaves two of them.

Three history variables: `born` and `seen` are the loads in which a caller or a
task last found `isinit` set, and `behind` the callers whose request was queued
behind the NULL of an unload.

### WorkQueue and ChargeLedger

A writer reads `queue_index`, stores the next one and pushes; the read and the
store are separate. A worker's `pc` follows `work_thread`: `pop`, `start`,
`update`, `commit`, `lastcommit`, `stopped`. mysql is external: `open[w]` and
`done[w]` are the transaction of a connection, `charged[d]` counts what has been
committed for a deduction. A deadlock victim and a broken connection lose the
transaction, and the worker, which only logs, continues with `insertcount` as it
was, so the rest of its batch commits statement by statement.

`ChargeLedger` knows a set of deductions that were accepted and how often each
was charged. Its steps are accepting one, and charging a set of accepted ones
that have not been charged. The refinement mapping is the identity on `accepted`
and `charged`.

The record workers are the same loop with a batch of 1000 and a wait of three
seconds around an INSERT; their differences, the name of the day table and its
absence, are in `DayTables`.

### DayTables

Time is a day and a tick of that day. `due` is the time to the next run of the
task. The task names the table when it starts (`StartTask`) and creates it later
(`TaskSucceeds`), perhaps beyond midnight. `bm_mysql_init` makes today's table and
schedules the task for now.

### UserCache

A pool is a number that is never used again; it is valid while one of the two
global pointers refers to it. `hpool`, `huser`, `hnum` are the three pointers to
what is in use. A function on the tables is cut where it reads a pointer, searches
a table, touches an account and stores an entry. `hold` is what it has in hand: the
table, the account, the copy of a key, and, as history, `home`, the pool of the
table in which it found the account. A reload is `CheckTime`, `Stamp`,
`Destroy`, `Make`, `LoadUsers`, `LoadNums`, `SwitchPool`, `SwitchUser`,
`SwitchNum`, with the ways to fail. A command is its statement (`QuerySucceeds`,
`QueryFails`, `LateStatement`) and then its function. Status stands for all
columns of an account.

`CacheMatchesDb` needs two history variables. `overlap` says that a command or a
late statement met the reload, `stale` that memory and database may differ since:
after a command that failed with its statement executed, a late statement, two
commands at once, or a reload with an overlap. A reload without overlap clears it.

`PoolsInUseLive` is about the pointers in use and about what each thread has in
hand: table, key, and the account when it lies in the pool of the table that it was
found in. An entry that `num_add` has stored across a redirection points into the
pool of another table, which the next reload may destroy, and a call that follows it
then copies an account that is gone. `EntriesLive` says that there are no such
entries, which is false (`MCNumAdd`); `AccountsInHandLive` proves that without them
no account in hand is ever in a destroyed pool.

### Billing

One user, seen by every thread that touches its columns. A session goes through
`blacklist_manage_check`: `BeginCall` (found by number), `Copy` of balance and
credit one by one, `Admit` or `Refuse` (the fee, the comparisons of app.cpp 61-94
and the choice of the column), `QueueDeduction`, then `Find`, `Read`, `Store`,
which are the subtraction of user.cpp 534-541 cut where it reads and writes. The
fee is read anew by each of check, subtraction and UPDATE. A console pays in or
sets the fee: a statement, which may succeed, and then come the same three steps; or
fail, or time out, executed all the same before the command returns, or still to be
executed (`late`, `LateStatement`) at any time after it, a reload or several in
between. A reload fills the table that is not in
use from the row and redirects two pointers. `Charge` takes the fee the row has
then.

`Worth` is what a column holds once all that is queued is charged; `Excess` is by
how much a table in use shows more than that; `over` remembers its maximum. The
other history variables are for `BooksAgree`: `read` is what a column held when it
was read to be changed, `disturbed` says that a store overwrote another one or
went to a table that had been left, that a deduction was lost, that the fee changed,
or that a statement was executed whose command has failed or has timed out and
returned; and `quiet` says that a reload has met nothing so far, so that it settles
the books, until the next late statement.

## 3. Runs

| Run | Question | Bounds |
|---|---|---|
| `MCOneCaller` | one caller, two listeners, keep-alive: `OwnAnswer`, `TimeoutIsReal`, `CallbackStartsInTime`, `ListenersNeverBlock`, types; `QueryReturns` even if nothing answers, `MainQueuesDrain` if something does; refinement of `QueryService` | 2 queries of two kinds: a second query is what a late answer needs |
| `MCPool` | three callers, two response queues: `PoolExact`, `CallersNeverBlock` | 1 query each, 2 tries: more callers than queues, with waiting and giving up; inserts and redis. There is no redis connection in this run, so the keep-alive task is idle in it: its part of `CallersNeverBlock` is the theorem's (`CallersDoNotBlock`) |
| `MCLifecycle` | `DeadUseExplained`, `Drained`, `UnloadReturns`, `TasksEnd`, types | 1 query, 2 listeners, queues of 2, 2 loads that may fail anywhere: a query, a NULL and a keep-alive meet in one queue, and what the first load leaves meets the second |
| `MCDeductions` | `ChargedOnce`, `LossBounded`, `FlushedAtUnload`, refinement of `ChargeLedger`, types | 2 writers with 2 deductions each on 2 users, 2 workers, batch 2, queue 2, 2 failures: enough for a deadlock, a full batch, a partial one, a lost transaction and its aftermath |
| `MCDeductionsFair` | `EventuallyCharged`, `LocksReleased`, `UninitReturns` | 1 writer with 4 deductions, queue of 1, batch of 3: full queues, partial batches, deadlocks |
| `MCDayTables` | `NoTwoDaysSkipped`, types | days of 6 ticks, loads at each of them, an outage of 2 ticks, 5 days |
| `MCUserCache` | `PoolsInUseLive`, `CacheMatchesDb`, types | 1 user with 1 number, 1 call thread, 1 console with 2 commands, reloads at the minimal distance, 3 pools: the first pool is destroyed, as soon as the code allows, with threads that may have read its pointers |
| `MCBilling` | `OverdraftBounded`, `BooksAgree`, types | 2 sessions with 3 calls on a credit of one fee, 1 payment or change of the fee, which may fail, time out and be executed later, 1 reload, 1 lost deduction, batches of 2: two calls on one copy, a third after the reload has forgotten one |

Runs that refute something the source says of itself:

| Run | Claim | What happens |
|---|---|---|
| `MCStaleAnswer` | `OwnAnswer` (queue.c:619) | two queries draw one number; the late answer of one is taken for that of the other |
| `MCWriteAfterReturn` | `NoWriteAfterReturn` (mysql.c:367) | a callback that began in time still writes after its caller has returned |
| `MCMidnight` | `NoDayLeftOut` (mysql.cpp:202) | a load just before midnight, and the first run of the task just after it: the load makes the table of its day, the task that of the day after the new one, and the new day has none |
| `MCNumAdd` | `EntriesLive` (user.cpp:187) | a number stored while a reload switches pools points into the pool destroyed next |

More was seen while modelling and has no run of its own:

* The callback of `MYSQL_INSERT_ID` is not compared with the deadline at all
  (mysql.c:338), so it can begin after the caller has left.
* A redis query that falls back to mysql times out at once: its deadline stays a
  length (queue.c:761) and is compared with a date. `TimeoutsAreReal` excludes
  `REDIS_MYSQL` for that reason; nothing in the repository sends such a query.
* With a load just after midnight, the drift of the daily task alone, without any
  failure, makes a run pass over a midnight after some days (mysql.cpp:189), so a
  single day has no table; `NoTwoDaysSkipped` is what remains true, and
  `NoMissUntilDrift` says for how long no day is without one.
* The task of the scheduler and `bl_user` on a console can compare
  `last_update_time` (user.cpp:179) before one of them sets it (user.cpp:185): both
  then destroy, fill and redirect the same pool.
* A keep-alive task that sleeps through an unload and the next load runs on beside
  the task of that load (queue.c:233, 391).
* A caller that outlives an unload and the load after it sets a slot IDLE that has
  been lent anew (queue.c:47): after a reload of the module `PoolExact` is no
  longer guaranteed for such a caller.

All bounds are constants: `MaxQueries`, `MaxTries`, `MaxWrites`, `MaxErrors`,
`MaxDay`, `LoadBefore`, `MaxPools`, `MaxCommands`, `MaxLoads`, `MaxAlive`,
`MaxCalls`, `MaxPaid`, `MaxReloads`, `MaxLost`. Callers and writers are
interchangeable and reduced by symmetry where a run has no liveness property.
Deadlock is checked in every run: steps for the ends the bounds impose
(`Quiescent`, `Unloaded`, `EndOfTime`, `Idle`, `Rest`) keep these from being taken for one.

## 4. Fairness

* `CallersFair`, the premise of `QueryReturns`: threads inside a query are
  scheduled, and time passes. Nothing is asked of the listeners. Every wait in
  `query` is on the scheduler, on a mutex that is held for a bounded search, or has
  a timeout; the push to a main queue is the exception, and `CallersNeverBlock` is
  why it does not matter.
* `ListenersFair`, the premise of `MainQueuesDrain`: the listeners go on, that is,
  redis and mysql return. Nothing is asked of the callers.
* `FairSpec` of `WorkQueue`: writers, workers and uninit are scheduled, and mysql
  returns. Weak fairness is enough: an update that waits for a row can step as
  soon as the row is free or the wait closes a cycle, and the holder of the row
  always commits in the end.
* `FairSpec` of `DbCacheLifecycle`: an unload that has begun goes on, the listeners
  get answers from their databases, the scheduler runs the tasks it has. Callers
  may stop anywhere or push for ever, nobody has to begin an unload, and an init
  may stay where it is.

## 5. Proofs

All theorems hold for every value of the constants that satisfies the named
assumptions of the modules.

| Theorem | Statement | Argument |
|---|---|---|
| `DbCacheQueueProofs!TypeCorrect` | `TypeOK` | inductive with the facts that a caller between `seqread` and `release` holds a queue and that a listener with an answer to offer has a queue to offer it to |
| `DbCacheQueueProofs!PoolIsExact` | `PoolExact` | a slot found IDLE stays so until it is taken: only the holder of the mutex sets BUSY, and everybody else only sets IDLE on a slot it holds |
| `DbCacheQueueProofs!ListenersDoNotBlock` | `ListenersNeverBlock` if `RespOverFlow >= NMain - 1` | length of a response queue plus the listeners that have decided to push to it never exceeds `RespMax - 1 + NMain`: the last one to decide saw fewer than `RespMax`, the others were pushing already; the shipped overflow, 16 for 16 listeners, satisfies it |
| `DbCacheQueueProofs!CallersDoNotBlock` | `CallersNeverBlock` if `MainOverFlow >= Cardinality(Callers)` | the same count for a main queue, over the callers that have read its length, with the keep-alive task as one more: it never exceeds `MainMax + Cardinality(Callers)`; the shipped overflow is 128, so this is a limit on concurrent calls |
| `DbCacheQueueProofs!AtomicCounterSuffices` | `OwnAnswer` if no two callers are ever between reading and writing the counter | every message in a queue or in hand carries a number below the counter, and the number of a query still under way is its own |
| `DbCacheQueueProofs!OneCallerOwnAnswer` | `OwnAnswer` for one caller | its premise is then always true. Together they say that the race of `MCStaleAnswer` is the only way to confuse two queries |
| `DbCacheQueueProofs!TimeoutsAreReal` | `TimeoutIsReal` without `REDIS_MYSQL`, as long as `OwnAnswer` holds | the status `TIMEOUT` is set by an elapsed wait or by a listener whose query is late, and an answer that says so is accepted by that query only |
| `DbCacheServiceProofs!CallbacksStartInTime` | `CallbackStartsInTime` without `MYSQL_INSERT_ID`, as long as `OwnAnswer` holds | `Single`: no two messages of one query exist, in queues and hands together; so while a request has no answer, no other message can end its caller's wait, and only the timeout can, which the comparison before the callback sees |
| `DbCacheServiceProofs!ServiceIsImplemented` | `QueryService` is implemented, without `REDIS_MYSQL`, as long as `OwnAnswer` holds | `Single` again, and that a query not yet sent has no message anywhere: taking an outcome, an answer or a refusal away leaves nothing of that query behind, which is what at most once means; that an answer of `TIMEOUT` is late comes from the invariant of `TimeoutsAreReal`; every other step is a stutter |
| `DbCacheServiceProofs!OneCallerService` | the same for one caller, without the condition on `OwnAnswer` | by `OneCallerOwnAnswer` |
| `DbCacheLifecycleProofs!TypeCorrect` | `TypeOK` | where the host is tells which pool exists |
| `DbCacheLifecycleProofs!DeadUseIsExplained` | `DeadUseExplained` | what each label of the host has built and not yet taken down; a caller or task born in this load holds only what this load has made; the listeners run between their start and their join |
| `DbCacheLifecycleProofs!UnloadAnswers` | `Drained` | the request of a caller that waits is answered, in a listener's hand, or in a queue of this load before any NULL; a stopped listener has taken its NULL, so nothing is before it |
| `WorkQueueProofs!TypeCorrect` | `TypeOK` | |
| `WorkQueueProofs!ChargedAtMostOnce` | `ChargedOnce` | a deduction is in exactly one place: with its writer, in one queue, in one worker's hands, in one open transaction, or charged or lost |
| `WorkQueueProofs!LossIsBounded` | `LossBounded` | the deductions lost are at most `Batch` for each logged error, since a worker's open transaction never holds more than its `insertcount`, and this never more than `Batch` |
| `WorkQueueProofs!WorkersImplementLedger` | `ChargeLedger` is implemented | each COMMIT, and each statement outside of a transaction, maps to one `Charge`, everything else to `Accept` or a stutter, by the invariant of `ChargedAtMostOnce` |
| `WorkQueueProofs!UnloadFlushes` | `FlushedAtUnload` | the NULL is the last item of a queue, since writing has ended before uninit pushes it; a worker that has taken it commits before it stops, and uninit joins all of them |
| `DayTablesProofs!TypeCorrect` | `TypeOK` | includes the bounds on lateness that `Tick` and `TaskFails` keep |
| `DayTablesProofs!SkipsAreSingle` | `NoTwoDaysSkipped` if `2 * MaxLag + Outage + Retry < DayLen` | relates the newest table to the next run: whenever the newest table is not tomorrow's, the next run or its retry is planned to end before the midnight that would be the second one without a table |
| `DayTablesProofs!NoMissUntilDrift` | `NoDayLeftOut` and `NoRecordMissed` if `LoadBefore + MaxDay * Drift <= DayLen`, where `Drift` is `MaxLag + Outage + Retry` | on the k-th day after a load the run is due before tick `LoadBefore + k * Drift` (`PunctualInv`), so it ends before midnight: each day's table exists when the day begins, and the tables are made in the order of the days with none left out. This is what a host that loads the module before a given hour and runs for a given number of days can rely on. The bound is sharp: with a drift of two ticks, a load in tick 0 and three days TLC finds no record missed in days of seven ticks, and one in days of six |
| `UserCacheProofs!TypeCorrect` | `TypeOK` if `MaxLoad <= Gap` | with the labels each kind of thread can be at, what its job is there, and that an entry of a table is missing or complete |
| `UserCacheProofs!AtomicCheckSuffices` | `ReloadsApart`, a reload less than `Gap` after another is refused (user.cpp:182), if `MaxLoad + MaxOp < Gap` and no two threads are between the comparison and the setting of `last_update_time` (`ChecksApart`) | a reload under way began less than `Gap` ago, by `SwitchInv`, so nobody else passes the comparison (`OneReload`). The lack of a lock between user.cpp:179 and 185 is thus the only way to two reloads at work on one pool |
| `UserCacheProofs!PoolsAreLive` | `PoolsInUseLive` if `MaxLoad + MaxOp < Gap` and `ChecksApart`, for any number of threads that reload; `PoolsAreLiveAlone` is the case of one | `SwitchInv` places the three pointers for each step of a reload; `HoldInv` says that a pool in hand, by the table, the key or an account found in its own pool, is in use, or was left by the last reload, which then began at most `MaxLoad` before the thread entered its function. A thread has it in hand for at most `MaxOp`, so when the next reload is allowed nobody is left in the pool it destroys |
| `UserCacheDbProofs!CacheAgrees` | `CacheMatchesDb` under the same conditions | as long as nothing has made memory and database differ, `MatchInv` says that the tables in use are the rows but for the one user or number a lone command has changed in the database and not yet in memory, and what that command holds on its way, and for numbers that a DELETE has taken along with another of the same `ValueOf` (data.cpp:227); `CopyInv` says what a reload that nothing has met has copied so far, so that its switch keeps the match; `SlotInv` keeps the pool being filled apart from the one in use |
| `UserCacheDbProofs!OnlyRedirectionsMatter` | `EntriesLive` if `MaxLoad + MaxOp < Gap`, `ChecksApart`, and no command has anything in hand while a reload redirects the three pointers (`Apart`) | `LiveInv`: the entries of a table lie in the table's own pool, those of a table being filled and of what a command holds included. Outside a redirection all three pointers are to one pool, so a command stores there, and the switch leaves nothing of the old pool in use. The overlap is thus the only way to what `MCNumAdd` shows |
| `UserCacheDbProofs!AccountsInHandLive` | `PoolsInUseLive` and `AccountsLive`, every account in hand is in a live pool, under the conditions of `OnlyRedirectionsMatter` | then the entries of every table, in use or left, lie in its own pool (`AllOwn`), so every account in hand was found in the pool of its table or made for it (`AtHome`), and `PoolsInUseLive` says the rest. Without `Apart` it is false: a call can follow the entry of `MCNumAdd` |
| `BillingProofs!TypeCorrect` | `TypeOK` | with the table that each label of a thread implies |
| `BillingProofs!OverdraftIsBounded` | `OverdraftBounded` | `Covered`: what a caller is worth, less `MaxFee` for each of his sessions admitted or about to be and not yet queued (`Committed`), never falls below `MinFee` less `MaxFee` for each session and the excess of the fees; a session is admitted only if its copy held the minimum, and the copy was at most `Worth`, `MaxFee` for each deduction not yet stored and the excess |
| `BillingProofs!BooksAlwaysAgree` | `BooksAgree` for finitely many consoles | each call has a number of its own, so a deduction that is queued is charged for once more; a thread about to store still has what the column holds, or else its store disturbs it; a change of the fee has disturbed both columns; a statement executed for a command that failed, at once or late, disturbs what it changes; a quiet reload has copied a row on which nothing was pending and which nobody was about to store to. What consoles have paid and not stored is counted unit by unit (`Due`), as the cardinality of a set: a sum over a set is a fold, for which the prover has no induction |

Only model-checked: liveness (`QueryReturns`, `MainQueuesDrain`,
`EventuallyCharged`, `LocksReleased`, `UninitReturns`, `UnloadReturns`,
`TasksEnd`), which is beyond the prover. All invariants, both refinements and the
action property are proved. The theorems with a condition (`RespOverFlow`,
`MainOverFlow`, the times of a reload, the drift, `ChecksApart`, `Apart`, `REDIS_MYSQL`,
`MYSQL_INSERT_ID`, answers that are not confused) name what the code does not
guarantee by itself.

## 6. Assumptions

* The host withdraws the application and the console before it shuts a module
  down, and waits for calls in progress.
* `APR_EINTR` is a repeated wait and `APR_EOF` does not occur: nobody terminates
  the queues while they are in use.
* Statuses other than success and timeout are one failure. The order in which the
  keep-alive task visits the queues is free. `iscache` is never set by any event
  of the repository.
* The sequence counter does not wrap; with 32 bits a collision by wrapping takes
  four billion queries within one timeout.
* `queue_index` is kept in a register between its load and its store, so that
  other threads see only indices in range (deduction.cpp:236-240).
* With automatic reconnection, a connection lost in a transaction fails the
  statement at hand and later ones commit themselves. A deadlock is resolved at
  once by failing one of those in the cycle.
* Days have one length: there is no daylight saving time. The scheduler and the
  statements of the daily task take at most `MaxLag`. The bound on outages is
  needed by the theorem and the run that say that no two days are skipped.
* The deadline of a listener and the end of the caller's wait are one instant in
  `DbCacheQueue` (`Elapse`), and the comparison at mysql.c:369 and the call at 377
  one step: `TimeoutIsReal` says that a query reporting a timeout is past its
  deadline, which the code may reach up to about a second before the wait ends, and
  `CallbackStartsInTime` that no check passes for a caller that has left. What can
  happen between the check and the end of the callback is `NoWriteAfterReturn`.
* A reload takes at most `MaxLoad`, a function on the tables at most `MaxOp`, with
  `MaxLoad + MaxOp < Gap`. In the code `Gap` is 60 seconds, a reload is two queries
  with a timeout of ten seconds and the functions do not wait for anything. The
  runs that pass have one thread that reloads; the theorems allow any number as long
  as no two are between the comparison and the setting of `last_update_time`. A single `apr_hash_set` or `apr_hash_get` is one
  step.
* `mod_blacklist_manage` is linked with the library of `mod_as_dbcache`
  (its Makefile.am:31), so the code stays mapped after an unload, and its threads
  can be inside a query when the host unloads the other module.
* In `DbCacheLifecycle`: lock, search and unlock of `get_resp_queue` are one step;
  a caller that waits for room in a main queue reads the pointer when there is
  room; a response queue has room for its answer (`ListenersNeverBlock`).
* In `Billing`: amounts are whole numbers of the smallest unit; sums are paid in
  and a fee is not negative, though the console checks neither; at the start of a
  reload nobody is left in the table that is not in use, which is what the 60
  seconds between reloads are for (`PoolsInUseLive`). The record of a call carries
  the fee that was copied (mysql.cpp:129), the charge the fee of the row when it
  is executed; the two are not compared.

## 7. Not modelled

* The two consoles beyond the commands themselves: splitting, conversion, printing,
  and `getinfo` and `checkinfo`, which only print what a query returned. Their
  threads are the callers and consoles of the models.
* The older single-connection functions of the two clients and
  `cluster_cache_command`, which no event of the repository reaches. The loss of a
  redis context that is replaced without being freed (redis.c:378) is a leak and
  no state of the protocol.
* An init of the deduction or record workers that fails after some threads run
  (deduction.cpp:187). It is the failure that `DbCacheLifecycle` shows for the
  listeners, in the same form: queues freed under threads that wait in them.
* The daily task after an unload of its module (mysql.cpp:228): it runs on, and the
  next load adds a second one. Creating a table twice is harmless (IF NOT EXISTS).
* Loading and unloading of `mod_blacklist_manage`: registrations and calls of the
  init functions in order. Each model begins after its init.
* Two threads that reload accounts at once (user.cpp:179): what they do to each
  other, such as both inside the same `apr_pool_destroy`. `UserCache` allows them
  with two `Reloaders`, the theorems say that only the unlocked comparison of
  `last_update_time` lets them meet, and the runs have one.
* A timeout of zero, memory exhaustion other than where a function returns early
  for it, and anything inside FreeSWITCH, APR, hiredis and mysql beyond what is
  said above.

`PROJECT.json` says for each component what is left.

## 8. Order of the work, and what could follow

The modules were written in the order of what depends on them: the query service,
the workers with their ledger, the day tables, the accounts in memory, billing on
top of the ledger, and the life cycle of the query service. What would add most
now:

1. `UserCache` rephrased over `QueryService`, whose outcomes its commands now take
   as a free choice.
2. An unload of `mod_blacklist_manage` while a reload or the daily task runs.
