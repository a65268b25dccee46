--------------------------- MODULE UserCacheProofs ---------------------------
(***************************************************************************)
(* The pools of UserCache.  A thread works in a table for at most MaxOp    *)
(* ticks, and a reload lasts at most MaxLoad: if both together are shorter *)
(* than the time between two reloads, and no two threads have compared     *)
(* that time before one of them begins a reload, then reloads follow one   *)
(* another and nobody works in a pool that has been destroyed.             *)
(***************************************************************************)
EXTENDS UserCache, TLAPS

CallerLabels == {"idle", "readnum", "findnum", "copy", "readuser", "finduser", "write"}
ConsoleLabels == {"idle", "query", "readnum", "readuser", "finduser", "write", "alloc", "readput", "put"}
Filling == {"loadusers", "loadnums", "switchpool", "switchuser", "switchnum"}
ReloaderLabels == {"idle", "stamp", "destroy", "make"} \union Filling

(* Where each kind of thread can be, and what it has read by then.          *)
LabelInv ==
    /\ \A t \in Callers : pc[t] \in CallerLabels
    /\ \A t \in Consoles : pc[t] \in ConsoleLabels
    /\ \A r \in Reloaders : pc[r] \in ReloaderLabels /\ (pc[r] \in Filling => new[r] # None)

CallerJob(t) ==
    /\ job[t].kind \in {"get", "deduct"}
    /\ pc[t] # "idle" => job[t].num \in Numbers
    /\ pc[t] = "readnum" => job[t].kind = "get"
    /\ pc[t] \in {"copy", "readuser", "finduser", "write"} => job[t].user \in Users

ConsoleJob(t) ==
    /\ pc[t] # "idle" => job[t] \in Jobs
    /\ pc[t] = "readnum" => job[t].kind = "num_del"
    /\ pc[t] = "alloc" => job[t].kind = "create"
    /\ pc[t] = "readput" => job[t].kind \in {"create", "num_add"}
    /\ pc[t] = "put" => job[t].kind # "status"
    /\ pc[t] = "put" /\ job[t].kind # "num_del" => hold[t].rec # None /\ hold[t].key # None

JobInv == (\A t \in Callers : CallerJob(t)) /\ (\A t \in Consoles : ConsoleJob(t))

(* An entry is either missing or complete.                                  *)
EntriesInv ==
    /\ \A p \in Pools : \A u \in Users :
           users[p][u] = NoUser \/ (users[p][u].rec \in Pools /\ users[p][u].key \in Pools)
    /\ \A p \in Pools : \A n \in Numbers :
           \/ nums[p][n] = NoNum
           \/ nums[p][n].user \in Users /\ nums[p][n].rec \in Pools /\ nums[p][n].key \in Pools

(* TypeOK in parts.                                                         *)
PoolTypes ==
    /\ slot \in [{1, 2} -> Pointers] /\ made \in Pools
    /\ hpool \in Pools /\ huser \in Pools /\ hnum \in Pools
    /\ target \in [Reloaders -> {1, 2}] /\ new \in [Reloaders -> Pointers]

TableTypes ==
    /\ users \in [Pools -> [Users -> UserEntry]]
    /\ nums \in [Pools -> [Numbers -> NumEntry]]
    /\ status \in [Pools -> [Users -> {0, 1}]]

LabelTypes ==
    pc \in [Threads -> {"idle", "query", "readnum", "findnum", "copy", "readuser", "finduser",
                        "write", "alloc", "readput", "put", "stamp", "destroy", "make",
                        "loadusers", "loadnums", "switchpool", "switchuser", "switchnum"}]

TimeTypes ==
    /\ since \in 0 .. Gap
    /\ age \in [Threads -> Nat] /\ \A t \in Threads : Working(t) => age[t] <= Limit(t)

WorkerTypes ==
    /\ job \in [Workers -> Job]
    /\ hold \in [Workers -> [table : Pointers, rec : Pointers, key : Pointers, home : Pointers]]
    /\ \A t \in Workers : Holding(t)

DbTypes ==
    /\ given \in 0 .. MaxCommands
    /\ db \in [status : [Users -> {Absent, 0, 1}], owner : [Numbers -> Users \union {NULL}]]
    /\ late \subseteq Jobs
    /\ overlap \in BOOLEAN /\ stale \in BOOLEAN

LEMMA TypeParts ==
    TypeOK <=> PoolTypes /\ TableTypes /\ LabelTypes /\ TimeTypes /\ WorkerTypes /\ DbTypes
BY DEF TypeOK, PoolTypes, TableTypes, LabelTypes, TimeTypes, WorkerTypes, DbTypes

TypeInv == TypeOK /\ LabelInv /\ JobInv /\ EntriesInv

(* The pool that is not rebuilt is the one in use, and the pointers leave   *)
(* it in their order.                                                       *)
Kept(r) == slot[3 - target[r]]
Rebuilt(r) == slot[target[r]]

SwitchInv ==
    /\ (\A r \in Reloaders : pc[r] \in {"idle", "stamp", "destroy"}) => huser = hpool /\ hnum = hpool
    /\ \A r \in Reloaders :
        /\ pc[r] \in {"make", "loadusers", "loadnums", "switchpool"} => hpool = Kept(r)
        /\ pc[r] \in {"make", "loadusers", "loadnums", "switchpool", "switchuser"} => huser = Kept(r)
        /\ pc[r] \in {"make"} \union Filling => hnum = Kept(r)
        /\ pc[r] \in Filling => new[r] = Rebuilt(r)
        /\ pc[r] \in {"switchuser", "switchnum"} => hpool = Rebuilt(r)
        /\ pc[r] = "switchnum" => huser = Rebuilt(r)
        /\ pc[r] \notin {"idle", "stamp"} => since <= age[r]

(* The pools a worker can have in hand: one that is in use, or one that the *)
(* last reload has left, and then that reload is over and began no more     *)
(* than MaxLoad before the worker entered its function.                     *)
InUseNow(p) == p \in {hpool, huser, hnum}
JustLeft(t) == (\A r \in Reloaders : pc[r] = "idle") /\ since <= age[t] + MaxLoad

HoldInv ==
    \A t \in Workers : \A p \in Pools : HasInHand(t, p) =>
        /\ pc[t] \in InTables
        /\ Valid(p)
        /\ InUseNow(p) \/ JustLeft(t)

ValidInv == Valid(hpool) /\ Valid(huser) /\ Valid(hnum)

(* Two reloads have not passed the comparison of last_update_time before    *)
(* one of them sets it; and then there is never more than one.              *)
ChecksApart == \A q, r \in Reloaders : pc[q] = "stamp" /\ pc[r] = "stamp" => q = r
OneReload == \A q, r \in Reloaders : q = r \/ pc[q] = "idle" \/ pc[r] = "idle"
Alone(r) == \A q \in Reloaders : q = r \/ (pc[q] = "idle" /\ pc'[q] = "idle")

PoolInv == TypeInv /\ SwitchInv /\ HoldInv /\ ValidInv
-----------------------------------------------------------------------------
LEMMA InitTypeInv ==
    ASSUME Init PROVE TypeInv
<1> USE TimesAssumption DEF Init
<1>1. PoolTypes
  BY DEF PoolTypes, Pointers, Pools, None
<1>2. TableTypes
  BY DEF TableTypes, Empty, NoUser, NoNum, UserEntry, NumEntry, Pointers, None
<1>3. \A t \in Threads : pc[t] = "idle"
  OBVIOUS
<1>9. LabelTypes
  BY DEF LabelTypes
<1>10. LabelInv
  BY <1>3 DEF LabelInv, CallerLabels, ConsoleLabels, ReloaderLabels, Filling, Threads, Workers
<1>4. TimeTypes
  BY DEF TimeTypes, Working, InTables
<1>5. WorkerTypes
  BY DEF WorkerTypes, Job, NoJob, NoHold, Pointers, None, Holding, Threads
<1>6. DbTypes
  <2>1. PICK s \in [Users -> {Absent, 0}], o \in [Numbers -> Users \union {NULL}] :
            db = [status |-> s, owner |-> o]
    OBVIOUS
  <2>2. s \in [Users -> {Absent, 0, 1}]
    BY <2>1
  <2>3. db \in [status : [Users -> {Absent, 0, 1}], owner : [Numbers -> Users \union {NULL}]]
    BY <2>1, <2>2
  <2>4. given = 0 /\ late = {} /\ overlap = FALSE /\ stale = TRUE
    OBVIOUS
  <2>5. 0 \in 0 .. MaxCommands
    BY ONLY TimesAssumption DEF TimesAssumption
  <2> QED BY ONLY <2>3, <2>4, <2>5 DEF DbTypes
<1>7. JobInv
  BY DEF JobInv, CallerJob, ConsoleJob, NoJob, Threads, Workers
<1>8. EntriesInv
  BY DEF EntriesInv, Empty
<1> QED BY <1>1, <1>2, <1>4, <1>5, <1>6, <1>7, <1>8, <1>9, <1>10, TypeParts DEF TypeInv

(* The pools: a reload makes them and redirects the pointers.               *)
PoolStep(r) == Destroy(r) \/ Make(r) \/ SwitchPool(r) \/ SwitchUser(r) \/ SwitchNum(r)

LEMMA OthersKeepPools ==
    ASSUME [Next]_vars
    PROVE  \/ \E r \in Reloaders : PoolStep(r)
           \/ UNCHANGED <<slot, made, handle, target, new>>
<1>1. CASE UNCHANGED vars
  BY <1>1 DEF vars, reloader, handle
<1>2. ASSUME NEW t \in Workers, CallStep(t) \/ CommandStep(t)
      PROVE  UNCHANGED <<slot, made, handle, target, new>>
  BY <1>2 DEF CallStep, CommandStep, TableStep, BeginCall, FindNum, Copy, ReadUser, FindUser, Write,
     ReadNum, BeginCommand, QuerySucceeds, QueryFails, Alloc, ReadPut, Put, unchangedByWorkers, reloader
<1>3. ASSUME NEW r \in Reloaders, ReloadStep(r)
      PROVE  PoolStep(r) \/ UNCHANGED <<slot, made, handle, target, new>>
  BY <1>3 DEF ReloadStep, PoolStep, CheckTime, Stamp, LoadUsers, LoadNums, LoadFails, reloader
<1>4. CASE Tick \/ \E j \in late : LateStatement(j)
  BY <1>4 DEF Tick, LateStatement, reloader
<1> QED BY <1>1, <1>2, <1>3, <1>4 DEF Next, Workers

LEMMA PoolTypesStep ==
    ASSUME TypeInv, [Next]_vars
    PROVE  PoolTypes'
<1> USE DEF PoolTypes
<1>1. PoolTypes /\ LabelInv
  BY TypeParts DEF TypeInv
<1>2. ASSUME NEW r \in Reloaders, PoolStep(r) PROVE PoolTypes'
  <2>1. /\ made \in Nat /\ (made < MaxPools => made + 1 \in Pools)
        /\ \A p \in Pools : p \in Pointers
        /\ None \in Pointers
        /\ pc[r] \in Filling => new[r] \in Pools
    BY <1>1, TimesAssumption DEF Pools, Pointers, None, LabelInv
  <2>2. CASE Destroy(r)
    BY <1>1, <2>1, <2>2 DEF Destroy, handle
  <2>3. CASE Make(r)
    BY <1>1, <2>1, <2>3 DEF Make, handle
  <2>4. CASE SwitchPool(r) \/ SwitchUser(r) \/ SwitchNum(r)
    BY <1>1, <2>1, <2>4 DEF SwitchPool, SwitchUser, SwitchNum, Filling, reloader
  <2> QED BY <1>2, <2>2, <2>3, <2>4 DEF PoolStep
<1> QED BY <1>1, <1>2, OthersKeepPools DEF handle

(* The tables: a reload fills those of its new pool, a function on the      *)
(* tables writes an account or stores an entry.                             *)
TableChange ==
    \/ \E t \in Workers : Write(t) \/ Put(t)
    \/ \E r \in Reloaders : LoadUsers(r) \/ LoadNums(r)

LEMMA OthersKeepTables ==
    ASSUME [Next]_vars
    PROVE  TableChange \/ UNCHANGED <<users, nums, status>>
<1>1. CASE UNCHANGED vars
  BY <1>1 DEF vars, tables
<1>2. ASSUME NEW t \in Workers, CallStep(t) \/ CommandStep(t)
      PROVE  Write(t) \/ Put(t) \/ UNCHANGED <<users, nums, status>>
  BY <1>2 DEF CallStep, CommandStep, TableStep, BeginCall, FindNum, Copy, ReadUser, FindUser,
     ReadNum, BeginCommand, QuerySucceeds, QueryFails, Alloc, ReadPut, tables
<1>3. ASSUME NEW r \in Reloaders, ReloadStep(r)
      PROVE  LoadUsers(r) \/ LoadNums(r) \/ UNCHANGED <<users, nums, status>>
  BY <1>3 DEF ReloadStep, CheckTime, Stamp, Destroy, Make, LoadFails, SwitchPool, SwitchUser,
     SwitchNum, tables
<1>4. CASE Tick \/ \E j \in late : LateStatement(j)
  BY <1>4 DEF Tick, LateStatement, tables
<1> QED BY <1>1, <1>2, <1>3, <1>4 DEF Next, Workers, TableChange

LEMMA TablesStep ==
    ASSUME TypeInv, [Next]_vars
    PROVE  TableTypes' /\ EntriesInv'
<1> USE DEF TableTypes, EntriesInv
<1>1. TypeOK /\ TableTypes /\ EntriesInv /\ LabelInv /\ JobInv /\ PoolTypes /\ WorkerTypes /\ DbTypes
  BY TypeParts DEF TypeInv
<1>2. /\ Pools \subseteq Pointers /\ \A p \in Pointers : p # None => p \in Pools
  BY DEF Pools, Pointers, None
<1>3. ASSUME NEW t \in Workers, Write(t) PROVE TableTypes' /\ EntriesInv'
  <2>1. hold[t].rec \in Pools /\ job[t].user \in Users /\ job[t].status \in {0, 1}
    BY <1>1, <1>2, <1>3 DEF Write, WorkerTypes, Holding, Job
  <2> QED BY <1>1, <1>3, <2>1 DEF Write
<1>4. ASSUME NEW t \in Workers, Put(t) PROVE TableTypes' /\ EntriesInv'
  <2>1. t \in Consoles /\ job[t] \in Jobs
    BY <1>1, <1>4 DEF Put, LabelInv, JobInv, CallerJob, ConsoleJob, CallerLabels, Workers
  <2>2. /\ hold[t].table \in Pools /\ job[t].user \in Users /\ job[t].num \in Numbers
        /\ job[t].kind # "num_del" => hold[t].rec \in Pools /\ hold[t].key \in Pools
    BY <1>1, <1>2, <1>4, <2>1 DEF Put, WorkerTypes, Holding, Jobs, JobInv, CallerJob, ConsoleJob
  <2> DEFINE u == job[t].user
  <2> DEFINE n == job[t].num
  <2> DEFINE h == hold[t]
  <2>3. CASE job[t].kind = "create"
    <3>1. /\ users' = [users EXCEPT ![h.table][u] = [rec |-> h.rec, key |-> h.key]]
          /\ status' = [status EXCEPT ![h.rec][u] = 0]
          /\ nums' = nums
      BY <1>4, <2>3 DEF Put
    <3>2. /\ h.table \in Pools /\ u \in Users /\ h.rec \in Pools /\ h.key \in Pools
          /\ [rec |-> h.rec, key |-> h.key] \in UserEntry
      BY <1>2, <2>2, <2>3 DEF UserEntry
    <3> HIDE DEF h, u
    <3> QED BY <1>1, <3>1, <3>2
  <2>4. CASE job[t].kind = "num_add"
    <3>1. /\ nums' = [nums EXCEPT ![h.table][n] = [user |-> u, rec |-> h.rec, key |-> h.key]]
          /\ users' = users /\ status' = status
      BY <1>4, <2>4 DEF Put
    <3>2. /\ h.table \in Pools /\ n \in Numbers /\ u \in Users /\ h.rec \in Pools /\ h.key \in Pools
          /\ [user |-> u, rec |-> h.rec, key |-> h.key] \in NumEntry
      BY <1>2, <2>2, <2>4 DEF NumEntry
    <3> HIDE DEF h, u, n
    <3> QED BY <1>1, <3>1, <3>2
  <2>5. CASE job[t].kind = "num_del"
    <3>1. /\ nums' = [nums EXCEPT ![h.table][n] = NoNum]
          /\ users' = users /\ status' = status
      BY <1>4, <2>5 DEF Put
    <3>2. h.table \in Pools /\ n \in Numbers /\ NoNum \in NumEntry
      BY <2>2 DEF NumEntry, NoNum, Pointers
    <3> HIDE DEF h, n
    <3> QED BY <1>1, <3>1, <3>2
  <2>6. job[t].kind \in {"create", "num_add", "num_del"}
    BY <1>1, <1>4, <2>1, DataAssumption DEF JobInv, CallerJob, ConsoleJob, Put, Jobs, CommandKinds
  <2> QED BY <2>3, <2>4, <2>5, <2>6
<1>5. ASSUME NEW r \in Reloaders, LoadUsers(r) PROVE TableTypes' /\ EntriesInv'
  <2> DEFINE p == new[r]
  <2>1. p \in Pools
    BY <1>1, <1>2, <1>5 DEF LoadUsers, PoolTypes, LabelInv, Filling
  <2>2. Loaded(p) \in [Users -> UserEntry]
    BY <1>2, <2>1 DEF Loaded, UserEntry, NoUser, Pointers
  <2>3. \A u \in Users : Loaded(p)[u] = NoUser \/ (Loaded(p)[u].rec \in Pools /\ Loaded(p)[u].key \in Pools)
    BY <2>1 DEF Loaded
  <2>4. [u \in Users |-> IF db.status[u] = Absent THEN 0 ELSE db.status[u]] \in [Users -> {0, 1}]
    BY <1>1 DEF DbTypes, Absent
  <2> QED BY <1>1, <1>5, <2>1, <2>2, <2>3, <2>4 DEF LoadUsers
<1>6. ASSUME NEW r \in Reloaders, LoadNums(r) PROVE TableTypes' /\ EntriesInv'
  <2> DEFINE p == new[r]
  <2> DEFINE Known(n) == db.owner[n] # NULL /\ users[p][db.owner[n]] # NoUser
  <2> DEFINE Table == [n \in Numbers |->
           IF Known(n) THEN [user |-> db.owner[n], rec |-> users[p][db.owner[n]].rec, key |-> p]
                       ELSE NoNum]
  <2>1. p \in Pools
    BY <1>1, <1>2, <1>6 DEF LoadNums, PoolTypes, LabelInv, Filling
  <2>2. \A n \in Numbers : Known(n) =>
            db.owner[n] \in Users /\ users[p][db.owner[n]].rec \in Pools
    BY <1>1, <2>1 DEF DbTypes
  <2>3. Table \in [Numbers -> NumEntry]
    BY <1>2, <2>1, <2>2 DEF NumEntry, NoNum, Pointers
  <2>4. \A n \in Numbers : Table[n] = NoNum \/
            (Table[n].user \in Users /\ Table[n].rec \in Pools /\ Table[n].key \in Pools)
    BY <2>1, <2>2
  <2>5. nums' = [nums EXCEPT ![p] = Table] /\ users' = users /\ status' = status
    BY <1>6 DEF LoadNums
  <2> HIDE DEF Table, Known
  <2> QED BY <1>1, <2>1, <2>3, <2>4, <2>5
<1> QED BY <1>1, <1>3, <1>4, <1>5, <1>6, OthersKeepTables DEF TableChange

(* Each thread moves between the labels of its kind.                        *)
Moves(t, labels) == pc' = [pc EXCEPT ![t] = pc'[t]] /\ pc'[t] \in labels

LEMMA LabelMoves ==
    ASSUME TypeInv, [Next]_vars
    PROVE  \/ UNCHANGED <<pc, job, hold>> /\ (Tick \/ age' = age)
           \/ \E t \in Callers : CallStep(t) /\ Moves(t, CallerLabels)
           \/ \E t \in Consoles : CommandStep(t) /\ Moves(t, ConsoleLabels)
           \/ \E r \in Reloaders : ReloadStep(r) /\ Moves(r, ReloaderLabels)
<1>1. LabelTypes /\ LabelInv /\ JobInv
  BY TypeParts DEF TypeInv
<1>2. ASSUME NEW t \in Callers, CallStep(t) PROVE Moves(t, CallerLabels)
  <2>1. t \in Threads /\ job[t].kind \in {"get", "deduct"} /\ (pc[t] = "readnum" => job[t].kind = "get")
    BY <1>1 DEF Threads, Workers, JobInv, CallerJob, ConsoleJob
  <2> QED BY <1>1, <1>2, <2>1 DEF CallStep, TableStep, BeginCall, FindNum, Copy, ReadUser, FindUser, Write,
      ReadNum, Goto, Enter, Return, Moves, LabelTypes, CallerLabels
<1>3. ASSUME NEW t \in Consoles, CommandStep(t) PROVE Moves(t, ConsoleLabels)
  <2>1. t \in Threads /\ (pc[t] = "readnum" => job[t].kind # "get")
    BY <1>1 DEF Threads, Workers, JobInv, CallerJob, ConsoleJob
  <2>2. CASE QuerySucceeds(t)
    BY <1>1, <2>1, <2>2 DEF QuerySucceeds, FirstStep, Goto, Moves, LabelTypes, ConsoleLabels
  <2>3. CASE BeginCommand(t) \/ QueryFails(t) \/ TableStep(t) \/ Alloc(t) \/ ReadPut(t) \/ Put(t)
    BY <1>1, <2>1, <2>3 DEF TableStep, BeginCommand, QueryFails, ReadUser, FindUser, Write,
       ReadNum, Alloc, ReadPut, Put, Goto, Enter, Return, Moves, LabelTypes, ConsoleLabels
  <2> QED BY <1>3, <2>2, <2>3 DEF CommandStep
<1>4. ASSUME NEW r \in Reloaders, ReloadStep(r) PROVE Moves(r, ReloaderLabels)
  <2>1. r \in Threads
    BY DEF Threads
  <2> QED BY <1>1, <1>4, <2>1 DEF ReloadStep, CheckTime, Stamp, Destroy, Make, LoadUsers, LoadNums, LoadFails,
      SwitchPool, SwitchUser, SwitchNum, Goto, Enter, Moves, LabelTypes, ReloaderLabels, Filling
<1>5. UNCHANGED vars \/ Tick \/ (\E j \in late : LateStatement(j))
          => UNCHANGED <<pc, job, hold>> /\ (Tick \/ age' = age)
  BY DEF vars, Tick, LateStatement, worker
<1> QED BY <1>2, <1>3, <1>4, <1>5 DEF Next

LEMMA LabelsStep ==
    ASSUME TypeInv, [Next]_vars
    PROVE  LabelTypes' /\ LabelInv'
<1>1. LabelTypes /\ LabelInv /\ PoolTypes
  BY TypeParts DEF TypeInv
<1>2. LabelTypes'
  BY <1>1, LabelMoves DEF Moves, LabelTypes, CallerLabels, ConsoleLabels, ReloaderLabels, Filling
<1>3. (\A t \in Callers : pc'[t] \in CallerLabels) /\ (\A t \in Consoles : pc'[t] \in ConsoleLabels)
      /\ (\A r \in Reloaders : pc'[r] \in ReloaderLabels)
  BY <1>1, LabelMoves, ThreadsAssumption DEF Moves, LabelTypes, LabelInv, Threads, Workers
<1>4. ASSUME NEW r \in Reloaders, pc'[r] \in Filling PROVE new'[r] # None
  <2>1. r \in Threads
    BY DEF Threads
  <2>2. /\ made + 1 # None
        /\ new' = new \/ \E q \in Reloaders : new' = [new EXCEPT ![q] = made + 1]
    BY <1>1, OthersKeepPools DEF PoolStep, Destroy, Make, SwitchPool, SwitchUser, SwitchNum, reloader,
       PoolTypes, Pools, None
  <2>3. CASE pc[r] \in Filling
    BY <1>1, <2>2, <2>3 DEF LabelInv, PoolTypes
  <2>4. CASE pc[r] \notin Filling
    <3>1. ReloadStep(r)
      BY <1>1, <1>4, <2>1, <2>4, LabelMoves, ThreadsAssumption DEF Moves, LabelTypes
    <3>2. Make(r) /\ new' = [new EXCEPT ![r] = made + 1]
      BY <1>1, <1>4, <2>1, <2>4, <3>1 DEF ReloadStep, CheckTime, Stamp, Destroy, Make, LoadUsers, LoadNums,
         LoadFails, SwitchPool, SwitchUser, SwitchNum, Goto, Enter, LabelTypes, Filling
    <3> QED BY <1>1, <2>2, <3>2 DEF PoolTypes
  <2> QED BY <2>3, <2>4
<1> QED BY <1>2, <1>3, <1>4 DEF LabelInv

(* Time: since is set by Stamp and Tick, and a thread that works has begun  *)
(* with an age of nothing.                                                  *)
LEMMA AgeMoves ==
    ASSUME TypeInv, [Next]_vars, ~Tick
    PROVE  \/ pc' = pc /\ age' = age
           \/ \E t \in Threads :
                 /\ pc' = [pc EXCEPT ![t] = pc'[t]]
                 /\ \/ age' = age /\ (Working(t)' => Working(t))
                    \/ age' = [age EXCEPT ![t] = 0]
<1>1. LabelTypes /\ LabelInv /\ JobInv
  BY TypeParts DEF TypeInv
<1>2. ASSUME NEW t \in Workers, CallStep(t) \/ CommandStep(t)
      PROVE  (age' = age /\ (Working(t)' => Working(t))) \/ age' = [age EXCEPT ![t] = 0]
  <2>1. t \in Threads /\ t \notin Reloaders
    BY ThreadsAssumption DEF Threads, Workers
  <2>2. CASE QuerySucceeds(t)
    BY <1>1, <2>1, <2>2 DEF QuerySucceeds, FirstStep, Goto, Working, LabelTypes, InTables
  <2>3. CASE BeginCommand(t) \/ QueryFails(t) \/ BeginCall(t) \/ FindUser(t) \/ Write(t) \/ Put(t)
    BY <1>1, <2>1, <2>3 DEF BeginCommand, QueryFails, BeginCall, FindUser, Write, Put,
       Goto, Return, Working, LabelTypes, InTables
  <2>4. CASE FindNum(t) \/ Copy(t) \/ ReadPut(t)
    BY <1>1, <2>1, <2>4 DEF FindNum, Copy, ReadPut, Goto, Return, Working, LabelTypes, InTables
  <2>5. CASE ReadUser(t) \/ ReadNum(t) \/ Alloc(t)
    BY <2>5 DEF ReadUser, ReadNum, Alloc, Enter
  <2> QED BY <1>2, <2>2, <2>3, <2>4, <2>5 DEF CallStep, CommandStep, TableStep
<1>3. ASSUME NEW r \in Reloaders, ReloadStep(r)
      PROVE  (age' = age /\ (Working(r)' => Working(r))) \/ age' = [age EXCEPT ![r] = 0]
  BY <1>3 DEF ReloadStep, CheckTime, Stamp, Destroy, Make, LoadUsers, LoadNums, LoadFails,
     SwitchPool, SwitchUser, SwitchNum, Enter, Working
<1>5. \A t \in Callers : CallStep(t) => t \in Threads /\ t \in Workers
  BY DEF Threads, Workers
<1>6. \A t \in Consoles : CommandStep(t) => t \in Threads /\ t \in Workers
  BY DEF Threads, Workers
<1>7. \A r \in Reloaders : r \in Threads
  BY DEF Threads
<1>8. CASE pc' = pc /\ age' = age
  BY <1>8
<1>9. CASE \E t \in Callers : CallStep(t) /\ Moves(t, CallerLabels)
  BY <1>2, <1>5, <1>9 DEF Moves
<1>10. CASE \E t \in Consoles : CommandStep(t) /\ Moves(t, ConsoleLabels)
  BY <1>2, <1>6, <1>10 DEF Moves
<1>11. CASE \E r \in Reloaders : ReloadStep(r) /\ Moves(r, ReloaderLabels)
  BY <1>3, <1>7, <1>11 DEF Moves
<1> QED BY <1>8, <1>9, <1>10, <1>11, LabelMoves

LEMMA SinceMoves ==
    ASSUME [Next]_vars, ~Tick
    PROVE  since' = since \/ \E r \in Reloaders : Stamp(r)
<1>1. CASE UNCHANGED vars \/ \E j \in late : LateStatement(j)
  BY <1>1 DEF vars, reloader, LateStatement
<1>2. ASSUME NEW t \in Workers, CallStep(t) \/ CommandStep(t) PROVE since' = since
  BY <1>2 DEF CallStep, CommandStep, TableStep, BeginCall, FindNum, Copy, ReadUser, FindUser, Write,
     ReadNum, BeginCommand, QuerySucceeds, QueryFails, Alloc, ReadPut, Put, unchangedByWorkers, reloader
<1>3. ASSUME NEW r \in Reloaders, ReloadStep(r) PROVE Stamp(r) \/ since' = since
  BY <1>3 DEF ReloadStep, CheckTime, Destroy, Make, LoadUsers, LoadNums, LoadFails, SwitchPool,
     SwitchUser, SwitchNum, reloader
<1> QED BY <1>1, <1>2, <1>3 DEF Next, Workers

LEMMA TimeStep ==
    ASSUME TypeInv, [Next]_vars, MaxLoad <= Gap
    PROVE  TimeTypes'
<1> USE DEF TimeTypes
<1>1. TimeTypes /\ LabelTypes
  BY TypeParts DEF TypeInv
<1>2. \A t \in Threads : Limit(t) \in Nat /\ Limit(t)' = Limit(t)
  BY TimesAssumption DEF Limit
<1>3. CASE Tick
  <2>1. since' \in 0 .. Gap
    BY <1>1, <1>3, TimesAssumption DEF Tick
  <2>2. pc' = pc /\ age' = [t \in Threads |-> IF Working(t) THEN age[t] + 1 ELSE age[t]]
    BY <1>3 DEF Tick
  <2>3. \A t \in Threads : Working(t)' = Working(t)
    BY <2>2 DEF Working
  <2>4. \A t \in Threads : Working(t) => age[t] < Limit(t)
    BY <1>3 DEF Tick
  <2> HIDE DEF Working
  <2> QED BY <1>1, <1>2, <2>1, <2>2, <2>3, <2>4
<1>4. CASE ~Tick
  <2>1. since' \in 0 .. Gap
    <3>1. ASSUME NEW r \in Reloaders, Stamp(r) PROVE since' \in 0 .. Gap
      BY <1>1, <3>1, TimesAssumption DEF Stamp, Working, Limit, Threads
    <3> QED BY <1>1, <1>4, <3>1, SinceMoves
  <2>2. CASE pc' = pc /\ age' = age
    BY <1>1, <1>2, <2>1, <2>2 DEF Working
  <2>3. ASSUME NEW t \in Threads, pc' = [pc EXCEPT ![t] = pc'[t]],
               (age' = age /\ (Working(t)' => Working(t))) \/ age' = [age EXCEPT ![t] = 0]
        PROVE  TimeTypes'
    <3>1. \A v \in Threads \ {t} : Working(v)' = Working(v) /\ age'[v] = age[v]
      BY <1>1, <2>3 DEF Working, LabelTypes
    <3>2. age' \in [Threads -> Nat]
      BY <1>1, <2>3
    <3>3. Working(t)' => age'[t] <= Limit(t)
      BY <1>1, <1>2, <2>3
    <3> QED BY <1>1, <1>2, <2>1, <3>1, <3>2, <3>3
  <2> QED BY <1>4, <2>2, <2>3, AgeMoves
<1> QED BY <1>3, <1>4

(* The database: the statements of the commands.                            *)
LEMMA StatementTypes ==
    ASSUME NEW j \in Jobs, DbTypes
    PROVE  After(j) \in [status : [Users -> {Absent, 0, 1}], owner : [Numbers -> Users \union {NULL}]]
<1>1. /\ j.kind \in CommandKinds /\ j.user \in Users /\ j.num \in Numbers /\ j.status \in {0, 1}
      /\ db.status \in [Users -> {Absent, 0, 1}] /\ db.owner \in [Numbers -> Users \union {NULL}]
  BY DataAssumption DEF Jobs, DbTypes
<1>2. db = [status |-> db.status, owner |-> db.owner]
  BY DEF DbTypes
<1>3. CASE j.kind = "create"
  BY <1>1, <1>2, <1>3 DEF After, DbTypes
<1>4. CASE j.kind = "status"
  BY <1>1, <1>2, <1>4 DEF After, DbTypes
<1>5. CASE j.kind = "num_add"
  BY <1>1, <1>2, <1>5 DEF After, DbTypes
<1>6. CASE j.kind = "num_del"
  BY <1>1, <1>2, <1>6 DEF After, DbTypes
<1> QED BY <1>1, <1>3, <1>4, <1>5, <1>6 DEF CommandKinds

StatementStep ==
    \/ \E t \in Consoles : BeginCommand(t) \/ QuerySucceeds(t) \/ QueryFails(t)
    \/ \E j \in late : LateStatement(j)

LEMMA OthersKeepDb ==
    ASSUME [Next]_vars
    PROVE  StatementStep \/ UNCHANGED <<db, late, given>>
<1>1. CASE UNCHANGED vars \/ Tick
  BY <1>1 DEF vars, Tick, database
<1>2. ASSUME NEW t \in Callers, CallStep(t) PROVE UNCHANGED <<db, late, given>>
  BY <1>2 DEF CallStep, TableStep, BeginCall, FindNum, Copy, ReadUser, FindUser, Write, ReadNum,
     unchangedByWorkers, database
<1>3. ASSUME NEW t \in Consoles, CommandStep(t)
      PROVE  BeginCommand(t) \/ QuerySucceeds(t) \/ QueryFails(t) \/ UNCHANGED <<db, late, given>>
  BY <1>3 DEF CommandStep, TableStep, ReadUser, FindUser, Write, ReadNum, Alloc, ReadPut, Put,
     unchangedByWorkers, database
<1>4. ASSUME NEW r \in Reloaders, ReloadStep(r) PROVE UNCHANGED <<db, late, given>>
  BY <1>4 DEF ReloadStep, CheckTime, Stamp, Destroy, Make, LoadUsers, LoadNums, LoadFails, SwitchPool,
     SwitchUser, SwitchNum, unchangedByReloads, database
<1> QED BY <1>1, <1>2, <1>3, <1>4 DEF Next, StatementStep

LEMMA HistoryTypes ==
    ASSUME overlap \in BOOLEAN, stale \in BOOLEAN, [Next]_vars
    PROVE  overlap' \in BOOLEAN /\ stale' \in BOOLEAN
<1>1. CASE UNCHANGED vars \/ Tick \/ \E j \in late : LateStatement(j)
  BY <1>1 DEF vars, Tick, LateStatement, history
<1>2. ASSUME NEW t \in Workers, CallStep(t) \/ CommandStep(t) PROVE overlap' \in BOOLEAN /\ stale' \in BOOLEAN
  BY <1>2 DEF CallStep, CommandStep, TableStep, BeginCall, FindNum, Copy, ReadUser, FindUser, Write,
     ReadNum, BeginCommand, QuerySucceeds, QueryFails, Alloc, ReadPut, Put, unchangedByWorkers
<1>3. ASSUME NEW r \in Reloaders, ReloadStep(r) PROVE overlap' \in BOOLEAN /\ stale' \in BOOLEAN
  BY <1>3 DEF ReloadStep, CheckTime, Stamp, Destroy, Make, LoadUsers, LoadNums, LoadFails, SwitchPool,
     SwitchUser, SwitchNum, history
<1> QED BY <1>1, <1>2, <1>3 DEF Next, Workers

LEMMA DbStep ==
    ASSUME TypeInv, [Next]_vars
    PROVE  DbTypes'
<1> DEFINE Db == [status : [Users -> {Absent, 0, 1}], owner : [Numbers -> Users \union {NULL}]]
<1>1. DbTypes /\ JobInv /\ WorkerTypes /\ LabelInv
  BY TypeParts DEF TypeInv
<1>2. given \in 0 .. MaxCommands /\ db \in Db /\ late \subseteq Jobs
  BY <1>1 DEF DbTypes
<1>3. \A j \in Jobs : After(j) \in Db
  BY <1>1, StatementTypes
<1>4. overlap' \in BOOLEAN /\ stale' \in BOOLEAN
  BY <1>1, HistoryTypes DEF DbTypes
<1> HIDE DEF Db
<1>5. CASE \E j \in late : LateStatement(j)
  <2>1. given' \in 0 .. MaxCommands /\ db' \in Db /\ late' \subseteq Jobs
    BY <1>2, <1>3, <1>5 DEF LateStatement
  <2> QED BY <1>4, <2>1 DEF Db, DbTypes
<1>6. ASSUME NEW t \in Consoles, BeginCommand(t) PROVE DbTypes'
  <2>1. given' \in 0 .. MaxCommands /\ db' \in Db /\ late' \subseteq Jobs
    BY <1>2, <1>6, TimesAssumption DEF BeginCommand
  <2> QED BY <1>4, <2>1 DEF Db, DbTypes
<1>7. ASSUME NEW t \in Consoles, QuerySucceeds(t) \/ QueryFails(t) PROVE DbTypes'
  <2>1. job[t] \in Jobs
    BY <1>1, <1>7 DEF JobInv, CallerJob, ConsoleJob, QuerySucceeds, QueryFails
  <2>2. given' \in 0 .. MaxCommands /\ db' \in Db /\ late' \subseteq Jobs
    BY <1>2, <1>3, <1>7, <2>1 DEF QuerySucceeds, QueryFails
  <2> QED BY <1>4, <2>2 DEF Db, DbTypes
<1>8. CASE UNCHANGED <<db, late, given>>
  BY <1>2, <1>4, <1>8 DEF Db, DbTypes
<1> QED BY <1>5, <1>6, <1>7, <1>8, OthersKeepDb DEF StatementStep

(* The arguments and locals of the workers: each step is of one of them.    *)
Holds == [table : Pointers, rec : Pointers, key : Pointers, home : Pointers]

WorkerOK(t) ==
    /\ job[t] \in Job /\ hold[t] \in Holds /\ Holding(t)
    /\ t \in Callers => CallerJob(t)
    /\ t \in Consoles => ConsoleJob(t)

Own(t) == job' = [job EXCEPT ![t] = job'[t]] /\ hold' = [hold EXCEPT ![t] = hold'[t]]

LEMMA OwnMoves ==
    ASSUME TypeInv, [Next]_vars
    PROVE  \/ UNCHANGED <<job, hold>> /\ \A t \in Workers : pc'[t] = pc[t]
           \/ \E t \in Callers : CallStep(t) /\ Moves(t, CallerLabels) /\ Own(t)
           \/ \E t \in Consoles : CommandStep(t) /\ Moves(t, ConsoleLabels) /\ Own(t)
<1>1. LabelTypes /\ WorkerTypes
  BY TypeParts DEF TypeInv
<1>2. ASSUME NEW t \in Workers, CallStep(t) \/ CommandStep(t) PROVE Own(t)
  <2>1. job' = job \/ hold' = hold \/ FindNum(t) \/ Copy(t)
    BY <1>2 DEF CallStep, CommandStep, TableStep, BeginCall, ReadUser, FindUser, Write, ReadNum,
       BeginCommand, QuerySucceeds, QueryFails, Alloc, ReadPut, Put, worker
  <2> QED
    BY <1>1, <1>2 DEF CallStep, CommandStep, TableStep, BeginCall, FindNum, Copy, ReadUser, FindUser, Write,
     ReadNum, BeginCommand, QuerySucceeds, QueryFails, Alloc, ReadPut, Put, Return, Own, WorkerTypes, worker
<1>3. ASSUME NEW r \in Reloaders, ReloadStep(r) PROVE UNCHANGED <<job, hold>>
  BY <1>3 DEF ReloadStep, CheckTime, Stamp, Destroy, Make, LoadUsers, LoadNums, LoadFails, SwitchPool,
     SwitchUser, SwitchNum, unchangedByReloads, worker
<1>4. ASSUME NEW r \in Reloaders, ReloadStep(r), Moves(r, ReloaderLabels)
      PROVE  UNCHANGED <<job, hold>> /\ \A t \in Workers : pc'[t] = pc[t]
  BY <1>1, <1>3, <1>4, ThreadsAssumption DEF Moves, Workers, Threads, LabelTypes
<1> QED BY <1>2, <1>4, LabelMoves DEF Workers

LEMMA WorkerPartsOK ==
    (\A t \in Workers : WorkerOK(t)) /\ job \in [Workers -> Job] /\ hold \in [Workers -> Holds]
        <=> WorkerTypes /\ JobInv
<1>1. ASSUME WorkerTypes, JobInv, NEW t \in Workers PROVE WorkerOK(t)
  BY <1>1 DEF WorkerTypes, JobInv, WorkerOK, Holds
<1>2. ASSUME \A t \in Workers : WorkerOK(t) PROVE JobInv
  BY <1>2 DEF JobInv, WorkerOK, Workers
<1> QED BY <1>1, <1>2 DEF WorkerTypes, WorkerOK, Holds

(* One function on the tables, in a worker's own state.                     *)
LEMMA TableStepOK ==
    ASSUME TypeInv, NEW t \in Workers, TableStep(t)
    PROVE  WorkerOK(t)'
<1>1. /\ LabelTypes /\ LabelInv /\ PoolTypes /\ TableTypes /\ EntriesInv /\ WorkerTypes
      /\ WorkerOK(t) /\ t \in Threads
  BY TypeParts, WorkerPartsOK DEF TypeInv, Threads
<1>2. Pools \subseteq Pointers /\ None \in Pointers /\ None \notin Pools /\ NULL \notin Users
  BY DataAssumption DEF Pools, Pointers, None
<1>3. CASE ReadUser(t)
  <2>1. /\ job' = job /\ pc'[t] = "finduser" /\ pc[t] = "readuser"
        /\ hold'[t] = [table |-> huser, rec |-> None, key |-> None, home |-> None]
    BY <1>1, <1>3 DEF ReadUser, Enter, Goto, LabelTypes, WorkerTypes, NoHold
  <2> QED BY <1>1, <1>2, <2>1 DEF WorkerOK, Holds, Holding, CallerJob, ConsoleJob, PoolTypes
<1>4. CASE ReadNum(t)
  <2>1. /\ job' = job /\ pc[t] = "readnum"
        /\ pc'[t] = IF job[t].kind = "get" THEN "findnum" ELSE "put"
        /\ hold'[t] = [table |-> hnum, rec |-> None, key |-> None, home |-> None]
    BY <1>1, <1>4 DEF ReadNum, Enter, Goto, LabelTypes, WorkerTypes, NoHold
  <2> QED BY <1>1, <1>2, <2>1 DEF WorkerOK, Holds, Holding, CallerJob, ConsoleJob, PoolTypes
<1>5. CASE FindUser(t)
  <2> DEFINE e == users[hold[t].table][job[t].user]
  <2>1. /\ hold[t].table \in Pools /\ job[t].user \in Users
    BY <1>1, <1>2, <1>5 DEF FindUser, WorkerOK, Holds, Holding, CallerJob, ConsoleJob, Jobs, Workers, Pools, Pointers, None
  <2>2. e # NoUser => e.rec \in Pools
    BY <1>1, <2>1 DEF EntriesInv
  <2>3. job' = job /\ pc[t] = "finduser"
    BY <1>5 DEF FindUser
  <2>4. CASE e = NoUser
    <3>1. pc'[t] = "idle" /\ hold'[t] = NoHold
      BY <1>1, <1>5, <2>4 DEF FindUser, Return, Goto, LabelTypes, WorkerTypes
    <3> QED BY <1>1, <1>2, <2>3, <3>1 DEF WorkerOK, Holds, Holding, CallerJob, ConsoleJob, NoHold
  <2>5. CASE e # NoUser
    <3>1. /\ pc'[t] = IF job[t].kind = "num_add" THEN "readput" ELSE "write"
          /\ hold'[t] = [table |-> None, rec |-> e.rec, key |-> None, home |-> hold[t].table]
      <4>1. /\ pc' = [pc EXCEPT ![t] = IF job[t].kind = "num_add" THEN "readput" ELSE "write"]
            /\ hold' = [hold EXCEPT ![t] = Found(t, e)]
        BY <1>5, <2>5 DEF FindUser, Goto
      <4> HIDE DEF e
      <4> QED BY <1>1, <4>1 DEF Found, LabelTypes, WorkerTypes, NoHold
    <3> HIDE DEF e
    <3> QED BY <1>1, <1>2, <2>1, <2>2, <2>3, <2>5, <3>1 DEF WorkerOK, Holds, Holding, CallerJob, ConsoleJob
  <2> QED BY <2>4, <2>5
<1>6. CASE Write(t)
  <2>1. job' = job /\ pc'[t] = "idle" /\ hold'[t] = NoHold
    BY <1>1, <1>6 DEF Write, Return, Goto, LabelTypes, WorkerTypes
  <2> QED BY <1>1, <1>2, <2>1 DEF WorkerOK, Holds, Holding, CallerJob, ConsoleJob, NoHold, Write
<1> QED BY <1>3, <1>4, <1>5, <1>6 DEF TableStep

LEMMA CallStepOK ==
    ASSUME TypeInv, NEW t \in Callers, CallStep(t)
    PROVE  WorkerOK(t)'
<1> USE DEF WorkerOK, Holds, Holding, CallerJob
<1>1. /\ LabelTypes /\ PoolTypes /\ TableTypes /\ EntriesInv /\ WorkerTypes
      /\ WorkerOK(t) /\ t \in Workers /\ t \in Threads /\ t \notin Consoles
  BY TypeParts, WorkerPartsOK, ThreadsAssumption DEF TypeInv, Threads, Workers
<1>2. Pools \subseteq Pointers /\ None \in Pointers /\ None \notin Pools /\ NULL \notin Users
  BY DataAssumption DEF Pools, Pointers, None
<1>3. CASE BeginCall(t)
  <2>1. PICK n \in Numbers : job' = [job EXCEPT ![t] = [NoJob EXCEPT !.num = n]]
    BY <1>3 DEF BeginCall
  <2>2. /\ job'[t] = [kind |-> "get", user |-> NULL, num |-> n, status |-> 0]
        /\ hold' = hold /\ pc'[t] = "readnum"
    BY <1>1, <1>3, <2>1 DEF BeginCall, Goto, LabelTypes, WorkerTypes, NoJob
  <2> QED BY <1>1, <2>2 DEF Job
<1>4. CASE FindNum(t)
  <2> DEFINE e == nums[hold[t].table][job[t].num]
  <2>1. hold[t].table \in Pools /\ job[t].num \in Numbers /\ pc[t] = "findnum"
    BY <1>1, <1>4 DEF FindNum, Pools, Pointers, None
  <2>2. e # NoNum => e.user \in Users /\ e.rec \in Pools
    BY <1>1, <2>1 DEF EntriesInv
  <2>3. CASE e = NoNum
    <3>1. pc'[t] = "idle" /\ hold'[t] = NoHold /\ job' = job
      BY <1>1, <1>4, <2>3 DEF FindNum, Return, Goto, LabelTypes, WorkerTypes
    <3> QED BY <1>1, <1>2, <3>1 DEF NoHold
  <2>4. CASE e # NoNum
    <3>1. pc' = [pc EXCEPT ![t] = "copy"] /\ hold' = [hold EXCEPT ![t] = Found(t, e)]
          /\ job' = [job EXCEPT ![t].user = e.user]
      BY <1>4, <2>4 DEF FindNum, Goto
    <3> HIDE DEF e
    <3>3. /\ pc'[t] = "copy"
          /\ hold'[t] = [table |-> None, rec |-> e.rec, key |-> None, home |-> hold[t].table]
      BY <1>1, <3>1 DEF Found, LabelTypes, WorkerTypes, NoHold
    <3>4. job'[t] = [job[t] EXCEPT !.user = e.user]
      BY <1>1, <3>1 DEF WorkerTypes
    <3>2. /\ job'[t] \in Job /\ job'[t].user \in Users
          /\ job'[t].kind = job[t].kind /\ job'[t].num = job[t].num
      BY <1>1, <2>2, <2>4, <3>4 DEF Job
    <3> QED BY <1>1, <1>2, <2>1, <2>2, <2>4, <3>2, <3>3
  <2> QED BY <2>3, <2>4
<1>5. CASE Copy(t)
  <2>1. pc[t] = "copy" /\ hold'[t] = NoHold
    BY <1>1, <1>5 DEF Copy, Return, WorkerTypes
  <2>2. CASE pc'[t] = "idle" /\ job' = job
    BY <1>1, <1>2, <2>1, <2>2 DEF NoHold
  <2>3. CASE pc'[t] = "readuser" /\ job' = [job EXCEPT ![t].kind = "deduct"]
    <3>1. /\ job'[t] \in Job /\ job'[t].user = job[t].user
          /\ job'[t].kind = "deduct" /\ job'[t].num = job[t].num
      BY <1>1, <2>3 DEF Job, WorkerTypes
    <3> QED BY <1>1, <1>2, <2>1, <2>3, <3>1 DEF NoHold
  <2> QED BY <1>1, <1>5, <2>2, <2>3 DEF Copy, Return, Goto, LabelTypes
<1> QED BY <1>1, <1>3, <1>4, <1>5, TableStepOK DEF CallStep

LEMMA CommandStepOK ==
    ASSUME TypeInv, NEW t \in Consoles, CommandStep(t)
    PROVE  WorkerOK(t)'
<1> USE DEF WorkerOK, Holds, Holding, ConsoleJob
<1>1. /\ LabelTypes /\ LabelInv /\ PoolTypes /\ TableTypes /\ EntriesInv /\ WorkerTypes
      /\ WorkerOK(t) /\ t \in Workers /\ t \in Threads /\ t \notin Callers
  BY TypeParts, WorkerPartsOK, ThreadsAssumption DEF TypeInv, Threads, Workers
<1>2. Pools \subseteq Pointers /\ None \in Pointers /\ None \notin Pools /\ NULL \notin Users
  BY DataAssumption DEF Pools, Pointers, None
<1>3. \A j \in Jobs : j \in Job /\ j.kind \in CommandKinds /\ j.user # NULL
  BY <1>2, DataAssumption DEF Jobs, Job
<1>4. CASE BeginCommand(t)
  <2>1. job'[t] \in Jobs /\ hold' = hold /\ pc'[t] = "query"
    BY <1>1, <1>4 DEF BeginCommand, Goto, LabelTypes, WorkerTypes
  <2> QED BY <1>1, <1>3, <2>1
<1>5. CASE QuerySucceeds(t)
  <2>1. job' = job /\ hold' = hold /\ pc[t] = "query" /\ pc'[t] = FirstStep(job[t].kind)
    BY <1>1, <1>5 DEF QuerySucceeds, Goto, LabelTypes, worker
  <2> QED BY <1>1, <1>3, <2>1 DEF FirstStep, CommandKinds
<1>6. CASE QueryFails(t)
  <2>1. job' = job /\ hold' = hold /\ pc'[t] = "idle"
    BY <1>1, <1>6 DEF QueryFails, Goto, LabelTypes, worker
  <2> QED BY <1>1, <2>1
<1>7. CASE Alloc(t)
  <2>1. job' = job /\ hold'[t] = [table |-> None, rec |-> hpool, key |-> None, home |-> hpool]
        /\ pc[t] = "alloc" /\ pc'[t] = "readput"
    BY <1>1, <1>7 DEF Alloc, Enter, Goto, LabelTypes, WorkerTypes, NoHold
  <2> QED BY <1>1, <1>2, <1>3, <2>1 DEF PoolTypes
<1>8. CASE ReadPut(t)
  <2>1. /\ job' = job /\ pc[t] = "readput" /\ pc'[t] = "put"
        /\ hold'[t].table \in Pools /\ hold'[t].key = hpool /\ hold'[t].rec = hold[t].rec
        /\ hold'[t] \in Holds
    BY <1>1, <1>2, <1>8 DEF ReadPut, Goto, LabelTypes, WorkerTypes, PoolTypes
  <2> QED BY <1>1, <1>2, <2>1 DEF PoolTypes
<1>9. CASE Put(t)
  <2>1. job' = job /\ pc'[t] = "idle" /\ hold'[t] = NoHold
    BY <1>1, <1>9 DEF Put, Return, Goto, LabelTypes, WorkerTypes
  <2> QED BY <1>1, <1>2, <2>1 DEF NoHold
<1> QED BY <1>1, <1>4, <1>5, <1>6, <1>7, <1>8, <1>9, TableStepOK DEF CommandStep

LEMMA WorkersStep ==
    ASSUME TypeInv, [Next]_vars
    PROVE  WorkerTypes' /\ JobInv'
<1>1. /\ LabelTypes /\ WorkerTypes /\ job \in [Workers -> Job] /\ hold \in [Workers -> Holds]
      /\ \A t \in Workers : WorkerOK(t) /\ t \in Threads
  BY TypeParts, WorkerPartsOK DEF TypeInv, Threads, WorkerTypes, Holds
<1>2. ASSUME NEW t \in Workers, pc'[t] = pc[t], job'[t] = job[t], hold'[t] = hold[t]
      PROVE  WorkerOK(t)'
  BY <1>1, <1>2 DEF WorkerOK, Holding, CallerJob, ConsoleJob
<1>3. ASSUME \A t \in Workers : WorkerOK(t)', job' \in [Workers -> Job], hold' \in [Workers -> Holds]
      PROVE  WorkerTypes' /\ JobInv'
  BY <1>3 DEF WorkerTypes, JobInv, WorkerOK, Holds, Workers
<1>4. CASE UNCHANGED <<job, hold>> /\ \A t \in Workers : pc'[t] = pc[t]
  BY <1>1, <1>2, <1>4, <1>3
<1>5. ASSUME NEW t \in Workers, Own(t), pc' = [pc EXCEPT ![t] = pc'[t]], WorkerOK(t)'
      PROVE  WorkerTypes' /\ JobInv'
  <2>1. \A v \in Workers \ {t} : WorkerOK(v)'
    BY <1>1, <1>2, <1>5 DEF Own, LabelTypes
  <2>2. job' \in [Workers -> Job] /\ hold' \in [Workers -> Holds]
    BY <1>1, <1>5 DEF Own, WorkerOK
  <2> QED BY <1>5, <1>3, <2>1, <2>2
<1>6. CASE \E t \in Callers : CallStep(t) /\ Moves(t, CallerLabels) /\ Own(t)
  BY <1>5, <1>6, CallStepOK DEF Moves, Workers
<1>7. CASE \E t \in Consoles : CommandStep(t) /\ Moves(t, ConsoleLabels) /\ Own(t)
  BY <1>5, <1>7, CommandStepOK DEF Moves, Workers
<1> QED BY <1>4, <1>6, <1>7, OwnMoves

LEMMA TypeInvStep ==
    ASSUME TypeInv, [Next]_vars, MaxLoad <= Gap
    PROVE  TypeInv'
<1>1. /\ PoolTypes' /\ TableTypes' /\ EntriesInv' /\ LabelTypes' /\ LabelInv' /\ TimeTypes'
      /\ WorkerTypes' /\ JobInv' /\ DbTypes'
  BY PoolTypesStep, TablesStep, LabelsStep, TimeStep, WorkersStep, DbStep
<1>2. TypeOK'
  BY <1>1 DEF TypeOK, PoolTypes, TableTypes, LabelTypes, TimeTypes, WorkerTypes, DbTypes
<1> QED BY <1>1, <1>2 DEF TypeInv

(* TypeOK is an invariant when no reload lasts longer than the time between *)
(* two: every pointer a function works through points to a pool (user.cpp   *)
(* 369-544), every function is within its limit.                            *)
THEOREM TypeCorrect ==
    ASSUME MaxLoad <= Gap
    PROVE  Spec => []TypeOK
<1>1. Init => TypeInv
  BY InitTypeInv
<1>2. TypeInv /\ [Next]_vars => TypeInv'
  BY TypeInvStep
<1>3. TypeInv => TypeOK
  BY DEF TypeInv
<1> QED BY <1>1, <1>2, <1>3, PTL DEF Spec
-----------------------------------------------------------------------------
LEMMA InitPoolInv ==
    ASSUME Init PROVE PoolInv
<1>1. SwitchInv
  BY DEF Init, SwitchInv, Filling, Threads
<1>2. HoldInv
  BY DEF Init, HoldInv, HasInHand, NoHold, Pools, None
<1>3. ValidInv
  BY DEF Init, ValidInv, Valid
<1> QED BY <1>1, <1>2, <1>3, InitTypeInv DEF PoolInv

(* Everybody but the reloading thread leaves what it relies on alone.       *)
Reloading == <<slot, hpool, huser, hnum, target, new, since>>

LEMMA WorkersKeepReload ==
    ASSUME TypeInv, NEW t \in Workers, CallStep(t) \/ CommandStep(t)
    PROVE  /\ UNCHANGED Reloading
           /\ \A v \in Threads \ {t} : pc'[v] = pc[v] /\ age'[v] = age[v]
           /\ \A v \in Workers \ {t} : hold'[v] = hold[v]
<1>1. LabelTypes /\ WorkerTypes /\ TimeTypes
  BY TypeParts DEF TypeInv
<1>2. UNCHANGED Reloading
  BY DEF CallStep, CommandStep, TableStep, BeginCall, FindNum, Copy, ReadUser, FindUser, Write,
     ReadNum, BeginCommand, QuerySucceeds, QueryFails, Alloc, ReadPut, Put, unchangedByWorkers,
     reloader, handle, Reloading
<1>3. pc' = [pc EXCEPT ![t] = pc'[t]] /\ (age' = age \/ age' = [age EXCEPT ![t] = 0])
  BY <1>1 DEF CallStep, CommandStep, TableStep, BeginCall, FindNum, Copy, ReadUser, FindUser, Write,
     ReadNum, BeginCommand, QuerySucceeds, QueryFails, Alloc, ReadPut, Put, Goto, Enter, Return,
     LabelTypes, Threads, Workers
<1>4. hold' = hold \/ hold' = [hold EXCEPT ![t] = hold'[t]]
  BY <1>1 DEF CallStep, CommandStep, TableStep, BeginCall, FindNum, Copy, ReadUser, FindUser, Write,
     ReadNum, BeginCommand, QuerySucceeds, QueryFails, Alloc, ReadPut, Put, Return, WorkerTypes, worker
<1> QED BY <1>1, <1>2, <1>3, <1>4 DEF LabelTypes, TimeTypes, WorkerTypes

(* A reload that is under way began less than Gap ago, so no other passes   *)
(* the comparison, unless it did so before the first had set the time.      *)
LEMMA OneReloadStep ==
    ASSUME TypeInv, SwitchInv, OneReload, [Next]_vars, ChecksApart', MaxLoad < Gap
    PROVE  OneReload'
<1>1. /\ LabelTypes /\ TimeTypes /\ \A r \in Reloaders : r \in Threads /\ r \notin Workers
  BY TypeParts, ThreadsAssumption DEF TypeInv, Threads, Workers
<1>2. CASE \A r \in Reloaders : pc'[r] = pc[r]
  BY <1>2 DEF OneReload
<1>3. CASE UNCHANGED vars \/ Tick \/ \E j \in late : LateStatement(j)
  BY <1>2, <1>3 DEF vars, Tick, LateStatement
<1>4. ASSUME NEW t \in Workers, CallStep(t) \/ CommandStep(t) PROVE OneReload'
  BY <1>1, <1>2, <1>4, WorkersKeepReload
<1>5. ASSUME NEW r \in Reloaders, ReloadStep(r) PROVE OneReload'
  <2>1. \A q \in Reloaders \ {r} : pc'[q] = pc[q]
    BY <1>1, <1>5 DEF ReloadStep, CheckTime, Stamp, Destroy, Make, LoadUsers, LoadNums, LoadFails,
       SwitchPool, SwitchUser, SwitchNum, Goto, Enter, LabelTypes
  <2>2. CASE CheckTime(r)
    <3>1. pc'[r] = "stamp" /\ since >= Gap
      BY <1>1, <2>2, TimesAssumption DEF CheckTime, TooFrequent, Enter, Goto, LabelTypes, TimeTypes
    <3>2. ASSUME NEW q \in Reloaders \ {r} PROVE pc[q] = "idle"
      <4>1. pc[q] # "stamp"
        BY <2>1, <3>1, <3>2 DEF ChecksApart
      <4>2. CASE pc[q] # "idle"
        <5>1. since <= age[q] /\ age[q] <= MaxLoad /\ age[q] \in Nat
          BY <1>1, <4>1, <4>2 DEF SwitchInv, TimeTypes, Working, Limit
        <5> QED BY <1>1, <3>1, <5>1, TimesAssumption DEF TimeTypes
      <4> QED BY <4>2
    <3> QED BY <2>1, <3>2 DEF OneReload
  <2>3. CASE pc[r] # "idle"
    BY <2>1, <2>3 DEF OneReload
  <2> QED BY <1>5, <2>2, <2>3 DEF ReloadStep, Stamp, Destroy, Make, LoadUsers, LoadNums, LoadFails,
      SwitchPool, SwitchUser, SwitchNum
<1> QED BY <1>3, <1>4, <1>5 DEF Next, Workers

LEMMA ReloadsAlone ==
    ASSUME LabelTypes, OneReload, OneReload', NEW r \in Reloaders, ReloadStep(r)
    PROVE  Alone(r)
<1>1. /\ r \in Threads
      /\ \A q \in Reloaders \ {r} : q \in Threads /\ pc'[q] = pc[q]
  BY DEF ReloadStep, CheckTime, Stamp, Destroy, Make, LoadUsers, LoadNums, LoadFails,
     SwitchPool, SwitchUser, SwitchNum, Goto, Enter, LabelTypes, Threads
<1>2. CASE pc[r] # "idle"
  BY <1>1, <1>2 DEF OneReload, Alone
<1>3. CASE CheckTime(r)
  <2>1. pc'[r] = "stamp"
    BY <1>1, <1>3 DEF CheckTime, Enter, Goto, LabelTypes
  <2> QED BY <1>1, <2>1 DEF OneReload, Alone
<1> QED BY <1>2, <1>3 DEF ReloadStep, Stamp, Destroy, Make, LoadUsers, LoadNums, LoadFails,
    SwitchPool, SwitchUser, SwitchNum

(* The pointers are redirected in their order, within one reload.           *)
LEMMA SwitchStep ==
    ASSUME PoolInv, [Next]_vars, OneReload, OneReload'
    PROVE  SwitchInv' /\ ValidInv'
<1>1. /\ TypeInv /\ SwitchInv /\ ValidInv /\ LabelTypes /\ LabelInv /\ TimeTypes /\ PoolTypes
      /\ \A r \in Reloaders : r \in Threads /\ r \notin Workers
  BY TypeParts, ThreadsAssumption DEF PoolInv, TypeInv, Threads, Workers
<1> USE DEF SwitchInv, ValidInv, Valid, Kept, Rebuilt
<1>2. CASE UNCHANGED Reloading /\ \A r \in Reloaders : pc'[r] = pc[r] /\ age'[r] = age[r]
  BY <1>1, <1>2 DEF Reloading
<1>3. CASE UNCHANGED vars \/ \E j \in late : LateStatement(j)
  BY <1>2, <1>3 DEF vars, LateStatement, reloader, handle, Reloading
<1>4. ASSUME NEW t \in Workers, CallStep(t) \/ CommandStep(t) PROVE SwitchInv' /\ ValidInv'
  BY <1>1, <1>2, <1>4, WorkersKeepReload
<1>5. CASE Tick
  <2>1. /\ UNCHANGED <<slot, hpool, huser, hnum, target, new, pc>> /\ since' <= since + 1
        /\ \A r \in Reloaders : pc[r] # "idle" => age'[r] = age[r] + 1
    BY <1>1, <1>5 DEF Tick, handle, Working, TimeTypes
  <2>2. ASSUME NEW r \in Reloaders, pc[r] \notin {"idle", "stamp"} PROVE since' <= age'[r]
    <3>1. since <= age[r] /\ age'[r] = age[r] + 1
      BY <1>1, <2>1, <2>2
    <3>2. age[r] \in Int /\ since \in Int /\ since' \in Int
      BY <1>1, <1>5 DEF TimeTypes, Tick
    <3> QED BY <2>1, <3>1, <3>2
  <2> QED BY <1>1, <2>1, <2>2
<1>6. ASSUME NEW r \in Reloaders, ReloadStep(r), Alone(r)
      PROVE  SwitchInv' /\ ValidInv'
  <2> USE <1>1, <1>6 DEF Alone, LabelTypes, PoolTypes, Filling, Goto
  <2>1. CASE CheckTime(r)
    BY <2>1 DEF CheckTime, Enter, reloader, handle
  <2>2. CASE Stamp(r)
    BY <2>2 DEF Stamp, handle, TimeTypes
  <2>3. CASE Destroy(r)
    BY <2>3 DEF Destroy, InUse, handle
  <2>4. CASE Make(r)
    BY <2>4 DEF Make, handle
  <2>5. CASE LoadUsers(r) \/ LoadNums(r)
    <3>1. CASE LoadUsers(r)
      BY <3>1 DEF LoadUsers, reloader, handle
    <3>2. CASE LoadNums(r)
      BY <3>2 DEF LoadNums, reloader, handle
    <3> QED BY <2>5, <3>1, <3>2
  <2>6. CASE LoadFails(r)
    BY <2>6 DEF LoadFails, reloader, handle
  <2>7. CASE SwitchPool(r)
    BY <2>7 DEF SwitchPool, reloader
  <2>8. CASE SwitchUser(r)
    BY <2>8 DEF SwitchUser, reloader
  <2>9. CASE SwitchNum(r)
    BY <2>9 DEF SwitchNum, reloader
  <2> QED BY <1>6, <2>1, <2>2, <2>3, <2>4, <2>5, <2>6, <2>7, <2>8, <2>9 DEF ReloadStep
<1> QED BY <1>1, <1>3, <1>4, <1>5, <1>6, ReloadsAlone DEF Next, Workers

(* What a worker has in hand after a step of its own: a pool in use, or one *)
(* it had in hand before, in the same function.                             *)
LEMMA WorkerTakes ==
    ASSUME TypeInv, HoldInv, NEW t \in Workers, CallStep(t) \/ CommandStep(t),
           NEW p \in Pools, HasInHand(t, p)'
    PROVE  /\ pc'[t] \in InTables
           /\ InUseNow(p) \/ (HasInHand(t, p) /\ age'[t] = age[t])
<1>1. /\ LabelTypes /\ LabelInv /\ WorkerTypes /\ t \in Threads /\ p # None
  BY TypeParts DEF TypeInv, Threads, Workers, Pools, None
<1> USE DEF LabelTypes, WorkerTypes, Goto, HasInHand, InUseNow, InTables
<1>2. CASE ReadUser(t) \/ ReadNum(t)
  BY <1>1, <1>2 DEF ReadUser, ReadNum, Enter, NoHold
<1>3. CASE ReadPut(t)
  <2>1. /\ hold'[t].rec = hold[t].rec /\ hold'[t].home = hold[t].home
        /\ hold'[t].table \in {huser, hnum} /\ hold'[t].key = hpool
        /\ pc'[t] = "put" /\ age' = age
    BY <1>1, <1>3 DEF ReadPut
  <2> QED BY <2>1
<1>4. CASE Alloc(t)
  BY <1>1, <1>4 DEF Alloc, Enter, NoHold
<1>5. CASE FindNum(t) \/ FindUser(t) \/ Copy(t) \/ Write(t) \/ Put(t)
  <2>1. hold' # [hold EXCEPT ![t] = NoHold]
    BY <1>1 DEF NoHold
  <2>2. ASSUME NEW e, hold' = [hold EXCEPT ![t] = Found(t, e)] PROVE HasInHand(t, p)
    BY <1>1, <2>2 DEF Found, NoHold
  <2>3. CASE FindNum(t)
    BY <1>1, <2>1, <2>2, <2>3 DEF FindNum, Return
  <2>4. CASE FindUser(t)
    BY <1>1, <2>1, <2>2, <2>4 DEF FindUser, Return
  <2>5. CASE Copy(t) \/ Write(t) \/ Put(t)
    BY <2>1, <2>5 DEF Copy, Write, Put, Return
  <2> QED BY <1>5, <2>3, <2>4, <2>5
<1>6. CASE BeginCall(t) \/ BeginCommand(t) \/ QuerySucceeds(t) \/ QueryFails(t)
  <2>1. hold' = hold /\ pc[t] \in {"idle", "query"}
    BY <1>6 DEF BeginCall, BeginCommand, QuerySucceeds, QueryFails, worker
  <2> QED BY <2>1 DEF HoldInv
<1> QED BY <1>2, <1>3, <1>4, <1>5, <1>6 DEF CallStep, CommandStep, TableStep

(* A pool in hand when a reload begins is in use: the last reload began at  *)
(* least Gap ago, so nobody is left in the pool that it redirected.         *)
LEMMA HoldStep ==
    ASSUME PoolInv, [Next]_vars, OneReload, OneReload', MaxLoad + MaxOp < Gap
    PROVE  HoldInv'
<1>1. /\ TypeInv /\ SwitchInv /\ HoldInv /\ ValidInv /\ LabelTypes /\ LabelInv /\ TimeTypes /\ PoolTypes
      /\ WorkerTypes /\ \A t \in Workers : t \in Threads /\ t \notin Reloaders
      /\ \A r \in Reloaders : r \in Threads
  BY TypeParts, ThreadsAssumption DEF PoolInv, TypeInv, Threads, Workers
<1>2. SwitchInv' /\ ValidInv'
  BY SwitchStep
<1> USE DEF InUseNow, JustLeft, Valid
<1>3. CASE UNCHANGED Reloading /\ hold' = hold /\ pc' = pc /\ age' = age
  BY <1>1, <1>3 DEF HoldInv, HasInHand, Reloading
<1>4. CASE UNCHANGED vars \/ \E j \in late : LateStatement(j)
  BY <1>3, <1>4 DEF vars, LateStatement, reloader, handle, worker, Reloading
<1>5. ASSUME NEW t \in Workers, CallStep(t) \/ CommandStep(t) PROVE HoldInv'
  <2>1. /\ UNCHANGED Reloading
        /\ \A v \in Threads \ {t} : pc'[v] = pc[v] /\ age'[v] = age[v]
        /\ \A v \in Workers \ {t} : hold'[v] = hold[v]
    BY <1>1, <1>5, WorkersKeepReload
  <2>2. ASSUME NEW v \in Workers, NEW p \in Pools, HasInHand(v, p)'
        PROVE  /\ pc'[v] \in InTables
               /\ InUseNow(p) \/ (HasInHand(v, p) /\ age'[v] = age[v])
    <3>1. CASE v = t
      BY <1>1, <1>5, <2>2, <3>1, WorkerTakes
    <3>2. CASE v # t
      BY <1>1, <2>1, <2>2, <3>2 DEF HoldInv, HasInHand
    <3> QED BY <3>1, <3>2
  <2>3. ASSUME NEW v \in Workers, NEW p \in Pools, HasInHand(v, p)'
        PROVE  Valid(p)' /\ (InUseNow(p)' \/ JustLeft(v)')
    <3>1. CASE InUseNow(p)
      BY <1>1, <2>1, <3>1 DEF ValidInv, Reloading
    <3>2. CASE HasInHand(v, p) /\ age'[v] = age[v]
      BY <1>1, <2>1, <3>2 DEF HoldInv, Reloading
    <3> QED BY <2>2, <2>3, <3>1, <3>2
  <2> QED BY <2>2, <2>3 DEF HoldInv
<1>6. CASE Tick
  <2>1. /\ UNCHANGED <<slot, hpool, huser, hnum, pc, hold>> /\ since' <= since + 1
        /\ \A t \in Threads : Working(t) => age'[t] = age[t] + 1
    BY <1>1, <1>6 DEF Tick, handle, worker, TimeTypes
  <2>2. ASSUME NEW t \in Workers, pc[t] \in InTables, JustLeft(t) PROVE JustLeft(t)'
    <3>1. Working(t) /\ age[t] \in Nat /\ since \in Int /\ since' \in Int
      BY <1>1, <1>6, <2>2, TimesAssumption DEF Working, TimeTypes, Tick
    <3> QED BY <1>1, <2>1, <2>2, <3>1, TimesAssumption
  <2> QED BY <1>1, <2>1, <2>2 DEF HoldInv, HasInHand
<1>7. ASSUME NEW r \in Reloaders, ReloadStep(r), Alone(r), NEW t \in Workers, NEW p \in Pools,
             hold' = hold, HasInHand(t, p)
      PROVE  /\ pc'[t] \in InTables
             /\ Valid(p)'
             /\ InUseNow(p)' \/ JustLeft(t)'
  <2>1. pc'[t] = pc[t]
    BY <1>1, <1>7 DEF ReloadStep, CheckTime, Stamp, Destroy, Make, LoadUsers, LoadNums, LoadFails,
       SwitchPool, SwitchUser, SwitchNum, Goto, Enter, LabelTypes
  <2>2. pc[t] \in InTables /\ Valid(p) /\ (InUseNow(p) \/ JustLeft(t))
    BY <1>1, <1>7 DEF HoldInv
  <2>3. age[t] <= MaxOp /\ age[t] \in Nat
    BY <1>1, <2>2 DEF TimeTypes, Working, Limit
  <2>4. InUseNow(p)
    <3>1. CASE CheckTime(r)
      <4>1. since >= Gap /\ since \in Nat
        BY <1>1, <3>1, TimesAssumption DEF CheckTime, TooFrequent, TimeTypes
      <4>2. ~JustLeft(t)
        BY <2>3, <4>1, TimesAssumption
      <4> QED BY <2>2, <4>2
    <3>2. CASE pc[r] # "idle"
      BY <2>2, <3>2
    <3> QED BY <1>7, <3>1, <3>2 DEF ReloadStep, Stamp, Destroy, Make, LoadUsers, LoadNums, LoadFails,
        SwitchPool, SwitchUser, SwitchNum
  <2>5. CASE UNCHANGED <<hpool, huser, hnum>>
    BY <1>2, <2>1, <2>2, <2>4, <2>5 DEF ValidInv
  <2>6. CASE SwitchPool(r)
    <3>1. hpool = huser /\ huser' = huser /\ hnum' = hnum
      BY <1>1, <2>6 DEF SwitchPool, SwitchInv, Filling
    <3> QED BY <1>2, <2>1, <2>2, <2>4, <3>1 DEF ValidInv
  <2>7. CASE SwitchUser(r)
    <3>1. huser = hnum /\ hnum' = hnum /\ hpool' = hpool
      BY <1>1, <2>7 DEF SwitchUser, SwitchInv, Filling
    <3> QED BY <1>2, <2>1, <2>2, <2>4, <3>1 DEF ValidInv
  <2>8. CASE SwitchNum(r)
    <3>1. /\ slot' = slot /\ since' = since /\ age' = age /\ pc'[r] = "idle"
      BY <1>1, <2>8 DEF SwitchNum, Goto, LabelTypes, reloader
    <3>2. since <= age[r] /\ age[r] <= MaxLoad
      BY <1>1, <2>8 DEF SwitchNum, SwitchInv, TimeTypes, Working, Limit
    <3>3. JustLeft(t)'
      BY <1>1, <1>7, <2>3, <3>1, <3>2, TimesAssumption DEF TimeTypes, Alone
    <3> QED BY <2>1, <2>2, <3>1, <3>3
  <2> QED BY <1>7, <2>5, <2>6, <2>7, <2>8 DEF ReloadStep, CheckTime, Stamp, Destroy, Make, LoadUsers,
      LoadNums, LoadFails, handle
<1>8. ASSUME NEW r \in Reloaders, ReloadStep(r) PROVE HoldInv'
  <2>1. hold' = hold
    BY <1>8 DEF ReloadStep, CheckTime, Stamp, Destroy, Make, LoadUsers, LoadNums, LoadFails,
       SwitchPool, SwitchUser, SwitchNum, unchangedByReloads, worker
  <2>2. Alone(r)
    BY <1>1, <1>8, ReloadsAlone
  <2> QED BY <1>7, <1>8, <2>1, <2>2 DEF HoldInv, HasInHand
<1> QED BY <1>4, <1>5, <1>6, <1>8 DEF Next, Workers

LEMMA InitOneReload == Init => OneReload
<1>1. \A r \in Reloaders : r \in Threads
  BY DEF Threads
<1> QED BY <1>1 DEF Init, OneReload

LEMMA PoolInvStep ==
    ASSUME PoolInv, OneReload, [Next]_vars, ChecksApart', MaxLoad + MaxOp < Gap
    PROVE  PoolInv' /\ OneReload'
<1>1. MaxLoad <= Gap /\ MaxLoad < Gap
  BY TimesAssumption
<1>2. OneReload'
  BY <1>1, OneReloadStep DEF PoolInv
<1> QED BY <1>1, <1>2, TypeInvStep, SwitchStep, HoldStep DEF PoolInv

LEMMA HoldsValid == PoolInv => PoolsInUseLive
BY TypeParts DEF PoolInv, PoolsInUseLive, TypeInv, SwitchInv, HoldInv, ValidInv, Valid, Rebuilt, Filling, PoolTypes

(* user.cpp:182: a reload less than Gap after the last one is refused, as   *)
(* "too frequent".  So no two of them are at work at once.                  *)
ReloadsApart ==
    \A q, r \in Reloaders : pc[q] \notin {"idle", "stamp"} /\ pc[r] \notin {"idle", "stamp"} => q = r

(* No two reloads are at work at once, unless two threads have both         *)
(* compared last_update_time before one of them set it: that is all the     *)
(* test at user.cpp:174 leaves open.                                        *)
THEOREM AtomicCheckSuffices ==
    ASSUME MaxLoad + MaxOp < Gap
    PROVE  Spec /\ []ChecksApart => []ReloadsApart
<1>1. Init => PoolInv /\ OneReload
  BY InitPoolInv, InitOneReload
<1>2. PoolInv /\ OneReload /\ ChecksApart' /\ [Next]_vars => PoolInv' /\ OneReload'
  BY PoolInvStep
<1>3. OneReload => ReloadsApart
  BY DEF OneReload, ReloadsApart
<1> QED BY <1>1, <1>2, <1>3, PTL DEF Spec

(* PoolsInUseLive is an invariant, however many threads reload, when no two *)
(* of them have compared last_update_time before one sets it, and a reload  *)
(* and a function on the tables together are shorter than the time between  *)
(* two reloads: with no lock at all, the tables a thread works in and the   *)
(* accounts it has found in their own pools stay (user.cpp 174-302).        *)
THEOREM PoolsAreLive ==
    ASSUME MaxLoad + MaxOp < Gap
    PROVE  Spec /\ []ChecksApart => []PoolsInUseLive
<1>1. Init => PoolInv /\ OneReload
  BY InitPoolInv, InitOneReload
<1>2. PoolInv /\ OneReload /\ ChecksApart' /\ [Next]_vars => PoolInv' /\ OneReload'
  BY PoolInvStep
<1>3. PoolInv => PoolsInUseLive
  BY HoldsValid
<1> QED BY <1>1, <1>2, <1>3, PTL DEF Spec

(* As it is when the task of the scheduler is the only thread that reloads. *)
COROLLARY PoolsAreLiveAlone ==
    ASSUME MaxLoad + MaxOp < Gap, \A q, r \in Reloaders : q = r
    PROVE  Spec => []PoolsInUseLive
<1>1. ChecksApart
  BY DEF ChecksApart
<1> QED BY <1>1, PoolsAreLive, PTL
=============================================================================
