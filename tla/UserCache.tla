------------------------------ MODULE UserCache ------------------------------
(***************************************************************************)
(* The accounts in memory (mod_blacklist_manage_user.cpp), the commands    *)
(* that change them together with the database                             *)
(* (mod_blacklist_manage_data.cpp) and the call check that reads them      *)
(* (mod_blacklist_manage_app.cpp), after a successful                      *)
(* blacklist_manage_user_init.                                             *)
(*                                                                         *)
(* The accounts are two hash tables, by user id and by number, in a memory *)
(* pool.  There are two such pools, and three pointers to the one in use.  *)
(* A reload, at most one in 60 seconds, destroys the pool that is not in   *)
(* use, makes a new one, fills it with two queries and redirects the       *)
(* pointers one by one.  Nothing is locked: what protects a thread that    *)
(* still works in the old pool is the time until the next reload.          *)
(*                                                                         *)
(* A pool is a number that is never used again, and its memory is valid    *)
(* while one of the two global pointers refers to it.  Of the columns of   *)
(* an account only the status is kept: balance, credit and fee are found   *)
(* and written in the same way.  Time is in ticks.                         *)
(***************************************************************************)
EXTENDS Integers, FiniteSets

CONSTANTS
    Callers,    \* session threads in blacklist_manage_check
    Consoles,   \* threads in a bl_user command that changes an account
    Reloaders,  \* threads that call blacklist_manage_user_update
    Users, Numbers,
    NULL,       \* no user
    ValueOf,    \* what mysql makes of a number it compares with an unquoted one
    Commands,   \* the commands the consoles give
    Gap,        \* the 60 seconds between two reloads
    MaxLoad,    \* a reload, with the timeouts of its queries, takes no longer
    MaxOp,      \* one function on the tables takes no longer
    MaxPools,   \* bound: pools ever made
    MaxCommands \* bound: commands given

CommandKinds == {"create", "status", "num_add", "num_del"}

ASSUME TimesAssumption ==
    /\ Gap \in Nat /\ MaxLoad \in Nat /\ MaxOp \in Nat
    /\ MaxPools \in Nat \ {0} /\ MaxCommands \in Nat
ASSUME ThreadsAssumption ==
    /\ Callers \intersect Consoles = {} /\ Callers \intersect Reloaders = {}
    /\ Consoles \intersect Reloaders = {}
ASSUME DataAssumption == NULL \notin Users /\ Commands \subseteq CommandKinds

Pools == 1 .. MaxPools
None == 0                       \* the NULL of a pointer to a pool or into one
Pointers == Pools \union {None}

(* An entry of a table by number, and of one by user id: the key and the    *)
(* USER_INFO it points to, each by the pool it was allocated in.            *)
NumEntry == [user : Users \union {NULL}, rec : Pointers, key : Pointers]
UserEntry == [rec : Pointers, key : Pointers]
NoNum == [user |-> NULL, rec |-> None, key |-> None]
NoUser == [rec |-> None, key |-> None]

Absent == -1                    \* the status of a user that has no row
Job == [kind : CommandKinds \union {"get", "deduct"}, user : Users \union {NULL},
        num : Numbers \union {NULL}, status : {0, 1}]
NoJob == [kind |-> "get", user |-> NULL, num |-> NULL, status |-> 0]

(* What a function holds: the table it works in, the account it has found   *)
(* or made, the copy of the key; and, as history, the pool of the table in  *)
(* which it found the account, or for which it made it.                     *)
NoHold == [table |-> None, rec |-> None, key |-> None, home |-> None]

Workers == Callers \union Consoles
Threads == Workers \union Reloaders

VARIABLES
    slot,       \* ppool1 and ppool2, and the tables that go with them
    made,       \* how many pools have been made
    hpool, huser, hnum, \* phandlepool, phandlehash_user, phandlehash_num
    users, nums,        \* the tables of each pool
    status,     \* status in the accounts of each pool
    since,      \* ticks since last_update_time, up to Gap
    pc,         \* where each thread is
    age,        \* ticks since it entered the function it is in
    job, hold,  \* the arguments and the locals of each worker
    target,     \* which of the two pools each reloader rebuilds
    new,        \* sqlresult.pnewpool of each reloader
    given,      \* how many commands have been given
    db,         \* external: the rows of user_info and user_num
    late,       \* external: statements given up by a timeout, still to be executed
    overlap,    \* history: whether a command or a late statement met the reload
    stale       \* history: whether one has since made memory and database differ

handle == <<hpool, huser, hnum>>
tables == <<users, nums, status>>
worker == <<job, hold>>
reloader == <<target, new, since>>
database == <<db, late, given>>
history == <<overlap, stale>>
vars == <<slot, made, handle, tables, worker, reloader, database, history, pc, age>>

Empty(entry, S) == [s \in S |-> entry]

(* blacklist_manage_user_init *)
Init ==
    /\ slot = [i \in {1, 2} |-> IF i = 1 THEN 1 ELSE None] /\ made = 1
    /\ hpool = 1 /\ huser = 1 /\ hnum = 1
    /\ users = [p \in Pools |-> Empty(NoUser, Users)]
    /\ nums = [p \in Pools |-> Empty(NoNum, Numbers)]
    /\ status = [p \in Pools |-> Empty(0, Users)]
    /\ since = Gap
    /\ pc = [t \in Threads |-> "idle"] /\ age = [t \in Threads |-> 0]
    /\ job = [t \in Workers |-> NoJob] /\ hold = [t \in Workers |-> NoHold]
    /\ target = [r \in Reloaders |-> 1] /\ new = [r \in Reloaders |-> None]
    /\ given = 0 /\ late = {}
    /\ \E s \in [Users -> {Absent, 0}] : \E o \in [Numbers -> Users \union {NULL}] :
           db = [status |-> s, owner |-> o]
    /\ overlap = FALSE /\ stale = TRUE

Goto(t, label) == pc' = [pc EXCEPT ![t] = label]
Enter(t, label) == Goto(t, label) /\ age' = [age EXCEPT ![t] = 0]
-----------------------------------------------------------------------------
(* The database.  A number is UNIQUE; a DELETE names the number without     *)
(* quotes, so mysql compares values and takes every number with that value. *)

Refused(j) == j.kind = "num_add" /\ db.owner[j.num] # NULL

After(j) ==
    CASE j.kind = "create"  -> [db EXCEPT !.status[j.user] = 0]
      [] j.kind = "status"  -> [db EXCEPT !.status[j.user] = IF @ = Absent THEN @ ELSE j.status]
      [] j.kind = "num_add" -> [db EXCEPT !.owner[j.num] = j.user]
      [] j.kind = "num_del" -> [db EXCEPT !.owner = [n \in Numbers |->
             IF ValueOf[n] = ValueOf[j.num] THEN NULL ELSE db.owner[n]]]

(* A statement whose caller has given up is executed in the end.            *)
LateStatement(j) ==
    /\ j \in late
    /\ late' = late \ {j}
    /\ db' = IF Refused(j) THEN db ELSE After(j)
    /\ overlap' = TRUE /\ stale' = TRUE
    /\ UNCHANGED <<slot, made, handle, tables, worker, reloader, given, pc, age>>
-----------------------------------------------------------------------------
(* The commands: bm_user_create, bm_user_status, bm_user_num_add and        *)
(* bm_user_num_del.  The id of a new user is one that was never used.       *)

Jobs == [kind : Commands, user : Users, num : Numbers, status : {0, 1}]
Begun == {job[t] : t \in {x \in Consoles : pc[x] # "idle"}} \union late
Sensible(j) ==
    /\ j.kind = "create" =>
           db.status[j.user] = Absent /\ \A k \in Begun : k.kind = "create" => k.user # j.user
    /\ j.kind # "status" => j.status = 0
    /\ j.kind \in {"create", "status"} => j.num = CHOOSE n \in Numbers : TRUE

BeginCommand(t) ==
    /\ pc[t] = "idle" /\ given < MaxCommands
    /\ \E j \in Jobs : Sensible(j) /\ job' = [job EXCEPT ![t] = j]
    /\ given' = given + 1
    /\ overlap' = TRUE
    /\ stale' = (stale \/ \E x \in Consoles : pc[x] # "idle")
    /\ Goto(t, "query")
    /\ UNCHANGED <<slot, made, handle, tables, hold, reloader, db, late, age>>

FirstStep(kind) == CASE kind = "create" -> "alloc" [] kind = "num_del" -> "readnum" [] OTHER -> "readuser"

(* A new user may find its id in a number that was added too early.         *)
Adopts(j) == j.kind = "create" /\ \E n \in Numbers : db.owner[n] = j.user

QuerySucceeds(t) ==
    /\ pc[t] = "query" /\ ~Refused(job[t])
    /\ db' = After(job[t])
    /\ stale' = (stale \/ Adopts(job[t]))
    /\ Goto(t, FirstStep(job[t].kind))
    /\ UNCHANGED <<slot, made, handle, tables, worker, reloader, late, given, overlap, age>>

(* An error, or a timeout: the statement may have been executed, or will be.*)
QueryFails(t) ==
    /\ pc[t] = "query"
    /\ \/ UNCHANGED <<db, late>>
       \/ ~Refused(job[t]) /\ db' = After(job[t]) /\ UNCHANGED late
       \/ late' = late \union {job[t]} /\ UNCHANGED db
    /\ stale' = (stale \/ db' # db)
    /\ Goto(t, "idle")
    /\ UNCHANGED <<slot, made, handle, tables, worker, reloader, given, overlap, age>>
-----------------------------------------------------------------------------
(* The functions on the tables: blacklist_manage_user_create, _status,      *)
(* _num_add, _num_del, _get and _deduction.                                 *)

unchangedByWorkers == <<slot, made, handle, reloader, database, overlap>>

Return(t) == Goto(t, "idle") /\ hold' = [hold EXCEPT ![t] = NoHold]

(* The account that the entry e of the table in hand points to.             *)
Found(t, e) == [NoHold EXCEPT !.rec = e.rec, !.home = hold[t].table]

(* A call: blacklist_manage_check of some caller_id_number.                 *)
BeginCall(t) ==
    /\ pc[t] = "idle"
    /\ \E n \in Numbers : job' = [job EXCEPT ![t] = [NoJob EXCEPT !.num = n]]
    /\ Goto(t, "readnum")
    /\ UNCHANGED <<unchangedByWorkers, tables, hold, stale, age>>

(* Each argument of apr_hash_get and apr_hash_set is read, then the table   *)
(* is searched or changed.                                                  *)
ReadNum(t) ==
    /\ pc[t] = "readnum"
    /\ hold' = [hold EXCEPT ![t] = [NoHold EXCEPT !.table = hnum]]
    /\ Enter(t, IF job[t].kind = "get" THEN "findnum" ELSE "put")
    /\ UNCHANGED <<unchangedByWorkers, tables, job, stale>>

(* Without the comparison with NULL. *)
FindNumMutant(t) ==
    LET e == nums[hold[t].table][job[t].num] IN
    /\ pc[t] = "findnum"
    /\ hold' = [hold EXCEPT ![t] = Found(t, e)]
    /\ job' = [job EXCEPT ![t].user = e.user]
    /\ Goto(t, "copy")
    /\ UNCHANGED <<unchangedByWorkers, tables, stale, age>>

FindNum(t) ==
    LET e == nums[hold[t].table][job[t].num] IN
    /\ pc[t] = "findnum"
    /\ IF e = NoNum
         THEN Return(t) /\ UNCHANGED job
         ELSE /\ hold' = [hold EXCEPT ![t] = Found(t, e)]
              /\ job' = [job EXCEPT ![t].user = e.user]
              /\ Goto(t, "copy")
    /\ UNCHANGED <<unchangedByWorkers, tables, stale, age>>

(* The account is copied.  The call is refused for its status, or for its   *)
(* balance, credit or fee; otherwise bm_user_deduction follows.             *)
Copy(t) ==
    /\ pc[t] = "copy"
    /\ \/ Return(t) /\ UNCHANGED job
       \/ /\ status[hold[t].rec][job[t].user] = 0
          /\ hold' = [hold EXCEPT ![t] = NoHold]
          /\ job' = [job EXCEPT ![t].kind = "deduct"]
          /\ Goto(t, "readuser")
    /\ UNCHANGED <<unchangedByWorkers, tables, stale, age>>

ReadUser(t) ==
    /\ pc[t] = "readuser"
    /\ hold' = [hold EXCEPT ![t] = [NoHold EXCEPT !.table = huser]]
    /\ Enter(t, "finduser")
    /\ UNCHANGED <<unchangedByWorkers, tables, job, stale>>

(* A command that fails here has already changed the database.              *)
FindUser(t) ==
    LET e == users[hold[t].table][job[t].user] IN
    /\ pc[t] = "finduser"
    /\ IF e = NoUser
         THEN Return(t) /\ stale' = (stale \/ job[t].kind = "num_add")
         ELSE /\ hold' = [hold EXCEPT ![t] = Found(t, e)]
              /\ Goto(t, IF job[t].kind = "num_add" THEN "readput" ELSE "write")
              /\ UNCHANGED stale
    /\ UNCHANGED <<unchangedByWorkers, tables, job, age>>

(* The account is written.  A deduction changes its balance or credit.      *)
Write(t) ==
    /\ pc[t] = "write"
    /\ status' = IF job[t].kind = "status"
                   THEN [status EXCEPT ![hold[t].rec][job[t].user] = job[t].status]
                   ELSE status
    /\ Return(t)
    /\ UNCHANGED <<unchangedByWorkers, users, nums, job, stale, age>>

Alloc(t) ==
    /\ pc[t] = "alloc"
    /\ hold' = [hold EXCEPT ![t] = [NoHold EXCEPT !.rec = hpool, !.home = hpool]]
    /\ Enter(t, "readput")
    /\ UNCHANGED <<unchangedByWorkers, tables, job, stale>>

ReadPut(t) ==
    /\ pc[t] = "readput"
    /\ hold' = [hold EXCEPT ![t].table = IF job[t].kind = "create" THEN huser ELSE hnum,
                            ![t].key = hpool]
    /\ Goto(t, "put")
    /\ UNCHANGED <<unchangedByWorkers, tables, job, stale, age>>

Put(t) ==
    LET h == hold[t] j == job[t] IN
    /\ pc[t] = "put"
    /\ CASE j.kind = "create" ->
              /\ users' = [users EXCEPT ![h.table][j.user] = [rec |-> h.rec, key |-> h.key]]
              /\ status' = [status EXCEPT ![h.rec][j.user] = 0]
              /\ UNCHANGED nums
         [] j.kind = "num_add" ->
              /\ nums' = [nums EXCEPT ![h.table][j.num] = [user |-> j.user, rec |-> h.rec, key |-> h.key]]
              /\ UNCHANGED <<users, status>>
         [] j.kind = "num_del" ->
              /\ nums' = [nums EXCEPT ![h.table][j.num] = NoNum]
              /\ UNCHANGED <<users, status>>
    /\ Return(t)
    /\ UNCHANGED <<unchangedByWorkers, job, stale, age>>
-----------------------------------------------------------------------------
(* The reload: blacklist_manage_user_update, called by the task of the      *)
(* scheduler and by the console command.                                    *)

unchangedByReloads == <<worker, database>>

(* Without the check of the time since the last reload. *)
TooFrequentMutant == FALSE

TooFrequent == since < Gap

CheckTime(r) ==
    /\ pc[r] = "idle" /\ ~TooFrequent /\ made < MaxPools
    /\ Enter(r, "stamp")
    /\ UNCHANGED <<slot, made, handle, tables, reloader, unchangedByReloads, history>>

(* last_update_time becomes the time that was compared.                     *)
Stamp(r) ==
    /\ pc[r] = "stamp"
    /\ since' = age[r]
    /\ Goto(r, "destroy")
    /\ UNCHANGED <<slot, made, handle, tables, target, new, unchangedByReloads, history, age>>

InUse(i) == hpool = slot[i] /\ huser = slot[i] /\ hnum = slot[i]

Destroy(r) ==
    LET i == IF InUse(1) THEN 2 ELSE 1 IN
    /\ pc[r] = "destroy"
    /\ target' = [target EXCEPT ![r] = i]
    /\ slot' = [slot EXCEPT ![i] = None]
    /\ Goto(r, "make")
    /\ UNCHANGED <<made, handle, tables, new, since, unchangedByReloads, history, age>>

(* apr_pool_create and apr_hash_make twice, which may fail.                 *)
Make(r) ==
    /\ pc[r] = "make"
    /\ \/ /\ made < MaxPools
          /\ made' = made + 1
          /\ slot' = [slot EXCEPT ![target[r]] = made + 1]
          /\ new' = [new EXCEPT ![r] = made + 1]
          /\ Goto(r, "loadusers")
       \/ Goto(r, "idle") /\ UNCHANGED <<made, slot, new>>
    /\ UNCHANGED <<handle, tables, target, since, unchangedByReloads, history, age>>

(* bm_user_update_from_mysql: SELECT ... FROM user_info ...                 *)
Loaded(p) == [u \in Users |-> IF db.status[u] = Absent THEN NoUser ELSE [rec |-> p, key |-> p]]

LoadUsers(r) ==
    LET p == new[r] IN
    /\ pc[r] = "loadusers"
    /\ users' = [users EXCEPT ![p] = Loaded(p)]
    /\ status' = [status EXCEPT ![p] = [u \in Users |-> IF db.status[u] = Absent THEN 0 ELSE db.status[u]]]
    /\ overlap' = \E t \in Consoles : pc[t] # "idle"
    /\ Goto(r, "loadnums")
    /\ UNCHANGED <<slot, made, handle, nums, reloader, unchangedByReloads, stale, age>>

(* ... and SELECT ... FROM user_num, where a row of an unknown user is      *)
(* skipped.                                                                 *)
LoadNums(r) ==
    LET p == new[r]
        Known(n) == db.owner[n] # NULL /\ users[p][db.owner[n]] # NoUser
    IN
    /\ pc[r] = "loadnums"
    /\ nums' = [nums EXCEPT ![p] = [n \in Numbers |->
           IF Known(n) THEN [user |-> db.owner[n], rec |-> users[p][db.owner[n]].rec, key |-> p]
                       ELSE NoNum]]
    /\ Goto(r, "switchpool")
    /\ UNCHANGED <<slot, made, handle, users, status, reloader, unchangedByReloads, history, age>>

(* A reload that goes on after a failed query. *)
LoadFailsMutant(r) ==
    /\ pc[r] \in {"loadusers", "loadnums"}
    /\ Goto(r, "switchpool")
    /\ UNCHANGED <<slot, made, handle, tables, reloader, unchangedByReloads, history, age>>

(* A query that fails ends the reload; the next one rebuilds this pool.     *)
LoadFails(r) ==
    /\ pc[r] \in {"loadusers", "loadnums"}
    /\ Goto(r, "idle")
    /\ UNCHANGED <<slot, made, handle, tables, reloader, unchangedByReloads, history, age>>

SwitchPool(r) ==
    /\ pc[r] = "switchpool"
    /\ hpool' = new[r]
    /\ stale' = (stale \/ overlap)
    /\ Goto(r, "switchuser")
    /\ UNCHANGED <<slot, made, huser, hnum, tables, reloader, unchangedByReloads, overlap, age>>

SwitchUser(r) ==
    /\ pc[r] = "switchuser"
    /\ huser' = new[r]
    /\ stale' = (stale \/ overlap)
    /\ Goto(r, "switchnum")
    /\ UNCHANGED <<slot, made, hpool, hnum, tables, reloader, unchangedByReloads, overlap, age>>

SwitchNum(r) ==
    /\ pc[r] = "switchnum"
    /\ hnum' = new[r]
    /\ stale' = overlap
    /\ Goto(r, "idle")
    /\ UNCHANGED <<slot, made, hpool, huser, tables, reloader, unchangedByReloads, overlap, age>>
-----------------------------------------------------------------------------
(* Time passes, but a function on the tables is over within MaxOp ticks and *)
(* a reload within MaxLoad.                                                 *)
InTables == {"findnum", "copy", "finduser", "write", "readput", "put"}
Working(t) == IF t \in Reloaders THEN pc[t] # "idle" ELSE pc[t] \in InTables
Limit(t) == IF t \in Reloaders THEN MaxLoad ELSE MaxOp

Tick ==
    /\ \A t \in Threads : Working(t) => age[t] < Limit(t)
    /\ since' = IF since < Gap THEN since + 1 ELSE since
    /\ age' = [t \in Threads |-> IF Working(t) THEN age[t] + 1 ELSE age[t]]
    /\ UNCHANGED <<slot, made, handle, tables, worker, target, new, database, history, pc>>

TableStep(t) ==
    \/ ReadUser(t) \/ FindUser(t) \/ Write(t)
    \/ ReadNum(t)

CallStep(t) == BeginCall(t) \/ FindNum(t) \/ Copy(t) \/ TableStep(t)

CommandStep(t) ==
    \/ BeginCommand(t) \/ QuerySucceeds(t) \/ QueryFails(t)
    \/ TableStep(t) \/ Alloc(t) \/ ReadPut(t) \/ Put(t)

ReloadStep(r) ==
    \/ CheckTime(r) \/ Stamp(r) \/ Destroy(r) \/ Make(r)
    \/ LoadUsers(r) \/ LoadNums(r) \/ LoadFails(r)
    \/ SwitchPool(r) \/ SwitchUser(r) \/ SwitchNum(r)

Next ==
    \/ \E t \in Callers : CallStep(t)
    \/ \E t \in Consoles : CommandStep(t)
    \/ \E r \in Reloaders : ReloadStep(r)
    \/ \E j \in late : LateStatement(j)
    \/ Tick

Spec == Init /\ [][Next]_vars
-----------------------------------------------------------------------------
(* Properties *)

(* Each variable has its type, no function outlasts its limit, and none     *)
(* works through a null pointer.                                            *)
Holding(t) ==
    /\ pc[t] \in {"findnum", "finduser", "put"} => hold[t].table # None
    /\ pc[t] \in {"copy", "write", "readput"} => hold[t].rec # None /\ job[t].user # NULL

TypeOK ==
    /\ slot \in [{1, 2} -> Pointers] /\ made \in Pools
    /\ hpool \in Pools /\ huser \in Pools /\ hnum \in Pools
    /\ users \in [Pools -> [Users -> UserEntry]]
    /\ nums \in [Pools -> [Numbers -> NumEntry]]
    /\ status \in [Pools -> [Users -> {0, 1}]]
    /\ since \in 0 .. Gap
    /\ pc \in [Threads -> {"idle", "query", "readnum", "findnum", "copy", "readuser", "finduser",
                           "write", "alloc", "readput", "put", "stamp", "destroy", "make",
                           "loadusers", "loadnums", "switchpool", "switchuser", "switchnum"}]
    /\ age \in [Threads -> Nat] /\ \A t \in Threads : Working(t) => age[t] <= Limit(t)
    /\ job \in [Workers -> Job]
    /\ hold \in [Workers -> [table : Pointers, rec : Pointers, key : Pointers, home : Pointers]]
    /\ \A t \in Workers : Holding(t)
    /\ target \in [Reloaders -> {1, 2}] /\ new \in [Reloaders -> Pointers]
    /\ given \in 0 .. MaxCommands
    /\ db \in [status : [Users -> {Absent, 0, 1}], owner : [Numbers -> Users \union {NULL}]]
    /\ late \subseteq Jobs
    /\ overlap \in BOOLEAN /\ stale \in BOOLEAN

Valid(p) == p \in {slot[1], slot[2]}

(* The pools a worker has in hand. *)
HasInHand(t, p) ==
    LET h == hold[t] IN p = h.table \/ p = h.key \/ (p = h.rec /\ p = h.home)

(* Live are the pool in use (user.cpp 188-196, 285-287), the table a thread *)
(* works in, the copy of a key it is about to store (user.cpp 511-516, 536) *)
(* and the account it reads, writes or stores (user.cpp 405, 477), though   *)
(* it took them before the pointers were redirected; and so is the pool a   *)
(* reload fills.  Only the time between two reloads sees to that.  An       *)
(* account in another pool than the table that points to it is left out:    *)
(* that one may be destroyed, and whether there is one EntriesLive says.    *)
PoolsInUseLive ==
    /\ Valid(hpool) /\ Valid(huser) /\ Valid(hnum)
    /\ \A t \in Workers : \A p \in Pools : HasInHand(t, p) => Valid(p)
    /\ \A r \in Reloaders : pc[r] \in {"loadusers", "loadnums", "switchpool"} => Valid(new[r])

(* After a reload that no command met, and through every later command that *)
(* succeeds on its own, the tables say what the database says (user.cpp     *)
(* 125-171, data.cpp 27-250): commands change both or neither, whatever     *)
(* reloads fail in between.  Only a number that mysql takes for equal to    *)
(* another may be left in memory when the other is deleted (data.cpp:227).  *)
UserMatches(u) ==
    LET e == users[huser][u] IN
    IF db.status[u] = Absent THEN e = NoUser
                             ELSE e # NoUser /\ status[e.rec][u] = db.status[u]
TakenAlong(n) == db.owner[n] = NULL /\ \E m \in Numbers \ {n} : ValueOf[m] = ValueOf[n]
NumMatches(n) ==
    IF db.owner[n] = NULL \/ db.status[db.owner[n]] = Absent
      THEN nums[hnum][n] = NoNum \/ TakenAlong(n)
      ELSE nums[hnum][n].user = db.owner[n]
CacheMatchesDb ==
    ~stale /\ (\A t \in Consoles : pc[t] = "idle") =>
        (\A u \in Users : UserMatches(u)) /\ (\A n \in Numbers : NumMatches(n))

(* user.cpp:187: the pool that is refreshed is not the one in use.  So all  *)
(* that the tables in use point to is in a live pool.                       *)
EntriesLive ==
    /\ \A u \in Users : LET e == users[huser][u] IN e # NoUser => Valid(e.rec) /\ Valid(e.key)
    /\ \A n \in Numbers : LET e == nums[hnum][n] IN e # NoNum => Valid(e.rec) /\ Valid(e.key)
=============================================================================
