-------------------------- MODULE UserCacheDbProofs --------------------------
(***************************************************************************)
(* Memory and database in UserCache.  As long as nothing has made them     *)
(* differ, the tables in use are the rows of the database but for what one *)
(* command, alone, has changed there and not yet in memory; and a reload   *)
(* that nothing has met has copied the rows.                               *)
(***************************************************************************)
EXTENDS UserCacheProofs

(* A console in a command whose statement has been executed, and the user   *)
(* and the number it has still to change in memory.                         *)
Executed(t) == pc[t] \notin {"idle", "query"}
UserOpen(t, u) == Executed(t) /\ job[t].kind \in {"create", "status"} /\ job[t].user = u
NumOpen(t, n) == Executed(t) /\ job[t].kind \in {"num_add", "num_del"} /\ job[t].num = n

(* What each kind of command knows on its way.                              *)
CreateInv(t) ==
    job[t].kind = "create" =>
        /\ pc[t] \in {"alloc", "readput", "put"}
        /\ db.status[job[t].user] = 0
        /\ pc[t] \in {"readput", "put"} => hold[t].rec = hpool
        /\ pc[t] = "put" => hold[t].table = huser

StatusInv(t) ==
    job[t].kind = "status" =>
        /\ pc[t] \in {"readuser", "finduser", "write"}
        /\ db.status[job[t].user] \in {Absent, job[t].status}
        /\ db.status[job[t].user] = Absent <=> users[huser][job[t].user] = NoUser
        /\ pc[t] = "finduser" => hold[t].table = huser
        /\ pc[t] = "write" =>
               /\ users[huser][job[t].user] # NoUser
               /\ hold[t].rec = users[huser][job[t].user].rec

NumAddInv(t) ==
    job[t].kind = "num_add" =>
        /\ pc[t] \in {"readuser", "finduser", "readput", "put"}
        /\ db.owner[job[t].num] = job[t].user
        /\ pc[t] = "finduser" => hold[t].table = huser
        /\ pc[t] \in {"readput", "put"} => db.status[job[t].user] # Absent
        /\ pc[t] = "put" => hold[t].table = hnum

NumDelInv(t) ==
    job[t].kind = "num_del" =>
        /\ pc[t] \in {"readnum", "put"}
        /\ db.owner[job[t].num] = NULL
        /\ pc[t] = "put" => hold[t].table = hnum

CommandInv(t) == CreateInv(t) /\ StatusInv(t) /\ NumAddInv(t) /\ NumDelInv(t)

(* The accounts of the table in use are not in a pool that is being filled. *)
RecInv == \A u \in Users : users[huser][u] # NoUser => users[huser][u].rec \in {hpool, huser}

MatchInv ==
    ~stale =>
        /\ RecInv
        /\ \A s, t \in Consoles : pc[s] # "idle" /\ pc[t] # "idle" => s = t
        /\ \A u \in Users : UserMatches(u) \/ \E t \in Consoles : UserOpen(t, u)
        /\ \A n \in Numbers : NumMatches(n) \/ \E t \in Consoles : NumOpen(t, n)
        /\ \A t \in Consoles : Executed(t) => CommandInv(t)

(* What a reload that nothing has met has copied so far.                    *)
UserCopied(p, u) ==
    IF db.status[u] = Absent THEN users[p][u] = NoUser
    ELSE users[p][u] # NoUser /\ users[p][u].rec = p /\ status[p][u] = db.status[u]
NumCopied(p, n) ==
    IF db.owner[n] = NULL \/ db.status[db.owner[n]] = Absent THEN nums[p][n] = NoNum
    ELSE nums[p][n].user = db.owner[n]

Copying == {"loadnums", "switchpool", "switchuser", "switchnum"}
CopyInv ==
    \A r \in Reloaders : pc[r] \in Copying /\ ~overlap =>
        /\ \A t \in Consoles : pc[t] = "idle"
        /\ \A u \in Users : UserCopied(new[r], u)
        /\ pc[r] # "loadnums" => \A n \in Numbers : NumCopied(new[r], n)

(* The two pools are two.                                                   *)
SlotInv == slot[1] <= made /\ slot[2] <= made /\ (slot[1] = slot[2] => slot[1] = None)

DataInv == PoolInv /\ SlotInv /\ CopyInv /\ MatchInv
-----------------------------------------------------------------------------
LEMMA InitData == ASSUME Init PROVE DataInv
<1>1. SlotInv
  BY DEF Init, SlotInv, None
<1>2. CopyInv
  BY DEF Init, CopyInv, Copying, Threads
<1>3. MatchInv
  BY DEF Init, MatchInv
<1> QED BY <1>1, <1>2, <1>3, InitPoolInv DEF DataInv

LEMMA SlotStep ==
    ASSUME TypeInv, SlotInv, [Next]_vars
    PROVE  SlotInv'
<1>1. PoolTypes /\ made \in Nat /\ slot[1] \in Nat /\ slot[2] \in Nat
  BY TypeParts, TimesAssumption DEF TypeInv, PoolTypes, Pools, Pointers, None
<1> USE DEF SlotInv, None
<1>2. CASE UNCHANGED <<slot, made, handle, target, new>>
  BY <1>2
<1>3. ASSUME NEW r \in Reloaders, Destroy(r) PROVE SlotInv'
  BY <1>1, <1>3 DEF Destroy, PoolTypes
<1>4. ASSUME NEW r \in Reloaders, Make(r) PROVE SlotInv'
  <2>1. CASE UNCHANGED <<made, slot>>
    BY <2>1
  <2>2. CASE made' = made + 1 /\ slot' = [slot EXCEPT ![target[r]] = made + 1]
    <3>1. target[r] \in {1, 2}
      BY <1>1 DEF PoolTypes
    <3> QED BY <1>1, <2>2, <3>1 DEF PoolTypes
  <2> QED BY <1>4, <2>1, <2>2 DEF Make
<1>5. ASSUME NEW r \in Reloaders, SwitchPool(r) \/ SwitchUser(r) \/ SwitchNum(r) PROVE SlotInv'
  BY <1>5 DEF SwitchPool, SwitchUser, SwitchNum
<1> QED BY <1>2, <1>3, <1>4, <1>5, OthersKeepPools DEF PoolStep

(* The pool a reload fills is not the one that is in use.                   *)
LEMMA FilledApart ==
    ASSUME PoolInv, SlotInv, NEW r \in Reloaders, pc[r] \in Filling
    PROVE  new[r] \in Pools /\ new[r] # hnum /\ (pc[r] \in {"loadusers", "loadnums", "switchpool"} => hpool = hnum /\ huser = hnum)
<1>1. /\ PoolTypes /\ LabelInv /\ SwitchInv /\ ValidInv
  BY TypeParts DEF PoolInv, TypeInv
<1>2. new[r] # None /\ new[r] = slot[target[r]] /\ hnum = slot[3 - target[r]]
  BY <1>1 DEF LabelInv, SwitchInv, Kept, Rebuilt
<1>3. target[r] \in {1, 2} /\ hnum \in Pools /\ new[r] \in Pointers
  BY <1>1 DEF PoolTypes
<1>4. new[r] # hnum
  BY <1>2, <1>3 DEF SlotInv
<1>5. new[r] \in Pools
  BY <1>2, <1>3 DEF Pointers
<1>6. pc[r] \in {"loadusers", "loadnums", "switchpool"} => hpool = hnum /\ huser = hnum
  BY <1>1 DEF SwitchInv, Filling
<1> QED BY <1>4, <1>5, <1>6

(* Calls leave the tables and the database alone.                           *)
LEMMA CallsLeave ==
    ASSUME TypeInv, NEW t \in Callers, CallStep(t)
    PROVE  UNCHANGED <<users, nums, status, db, overlap, stale>>
<1>1. /\ stale \in BOOLEAN /\ job[t].kind \in {"get", "deduct"}
  BY TypeParts DEF TypeInv, DbTypes, JobInv, CallerJob
<1>2. CASE BeginCall(t) \/ FindNum(t) \/ Copy(t) \/ ReadUser(t) \/ ReadNum(t)
  BY <1>2 DEF BeginCall, FindNum, Copy, ReadUser, ReadNum, unchangedByWorkers, tables, database
<1>3. CASE FindUser(t)
  <2>1. UNCHANGED <<users, nums, status, db, overlap>>
    BY <1>3 DEF FindUser, unchangedByWorkers, tables, database
  <2>2. stale' = stale \/ stale' = (stale \/ job[t].kind = "num_add")
    BY <1>3 DEF FindUser
  <2>3. stale' = stale
    BY <1>1, <2>2
  <2> QED BY <2>1, <2>3
<1>4. CASE Write(t)
  BY <1>1, <1>4 DEF Write, unchangedByWorkers, tables, database
<1> QED BY <1>2, <1>3, <1>4 DEF CallStep, TableStep

(* A step of a reload leaves the consoles and the database alone.           *)
LEMMA ReloadsLeave ==
    ASSUME TypeInv, NEW r \in Reloaders, ReloadStep(r)
    PROVE  UNCHANGED <<job, hold, db>> /\ \A t \in Consoles : pc'[t] = pc[t]
<1>1. LabelTypes /\ \A t \in Consoles : t \in Threads /\ t # r
  BY TypeParts, ThreadsAssumption DEF TypeInv, Threads, Workers
<1>2. UNCHANGED <<job, hold, db>>
  BY DEF ReloadStep, CheckTime, Stamp, Destroy, Make, LoadUsers, LoadNums, LoadFails, SwitchPool,
     SwitchUser, SwitchNum, unchangedByReloads, worker, database
<1>3. pc' = [pc EXCEPT ![r] = pc'[r]]
  <2>1. r \in Threads
    BY DEF Threads
  <2> QED BY <1>1, <2>1 DEF ReloadStep, CheckTime, Stamp, Destroy, Make, LoadUsers, LoadNums, LoadFails,
      SwitchPool, SwitchUser, SwitchNum, Goto, Enter, LabelTypes
<1> QED BY <1>1, <1>2, <1>3 DEF LabelTypes
-----------------------------------------------------------------------------
(* A reload copies the rows.                                                *)
LEMMA CopyStep ==
    ASSUME DataInv, [Next]_vars, OneReload, OneReload'
    PROVE  CopyInv'
<1>1. /\ PoolInv /\ TypeInv /\ SlotInv /\ CopyInv /\ PoolTypes /\ TableTypes /\ EntriesInv /\ LabelTypes /\ DbTypes
      /\ \A r \in Reloaders : r \in Threads /\ r \notin Workers
      /\ \A t \in Workers : t \in Threads
  BY TypeParts, ThreadsAssumption DEF DataInv, PoolInv, TypeInv, Threads, Workers
<1>2. CASE /\ UNCHANGED <<users, nums, status, new, db, overlap>>
           /\ \A r \in Reloaders : pc'[r] = pc[r]
           /\ \A t \in Consoles : pc'[t] = pc[t]
  BY <1>1, <1>2 DEF CopyInv, UserCopied, NumCopied
<1>3. CASE overlap' = TRUE
  BY <1>3 DEF CopyInv
<1>4. CASE UNCHANGED vars \/ Tick
  BY <1>2, <1>4 DEF vars, Tick, tables, reloader, database, history
<1>5. CASE \E j \in late : LateStatement(j)
  BY <1>3, <1>5 DEF LateStatement
<1>6. ASSUME NEW t \in Callers, CallStep(t) PROVE CopyInv'
  <2>1. t \in Workers /\ t \notin Consoles
    BY ThreadsAssumption DEF Workers
  <2>2. UNCHANGED Reloading /\ \A v \in Threads \ {t} : pc'[v] = pc[v]
    BY <1>1, <1>6, <2>1, WorkersKeepReload
  <2> QED BY <1>1, <1>2, <1>6, <2>1, <2>2, CallsLeave DEF Reloading, Workers
<1>7. ASSUME NEW t \in Consoles, CommandStep(t) PROVE CopyInv'
  <2>1. t \in Workers
    BY DEF Workers
  <2>2. \A r \in Reloaders : pc'[r] = pc[r]
    BY <1>1, <1>7, <2>1, WorkersKeepReload
  <2>3. CASE BeginCommand(t)
    BY <1>3, <2>3 DEF BeginCommand
  <2>4. CASE pc[t] # "idle" /\ overlap' = overlap
    BY <1>1, <2>2, <2>4 DEF CopyInv
  <2> QED BY <1>7, <2>3, <2>4 DEF CommandStep, TableStep, QuerySucceeds, QueryFails, ReadUser, FindUser, Write,
      ReadNum, Alloc, ReadPut, Put, unchangedByWorkers
<1>8. ASSUME NEW r \in Reloaders, ReloadStep(r) PROVE CopyInv'
  <2>1. UNCHANGED db /\ \A t \in Consoles : pc'[t] = pc[t]
    BY <1>1, <1>8, ReloadsLeave
  <2>2. \A q \in Reloaders : q = r \/ (pc[q] = "idle" /\ pc'[q] = "idle")
    BY <1>1, <1>8, ReloadsAlone DEF Alone
  <2>3. CASE pc'[r] \notin Copying
    BY <2>2, <2>3 DEF CopyInv, Copying
  <2>4. CASE LoadUsers(r)
    <3> DEFINE p == new[r]
    <3>1. p \in Pools
      BY <1>1, <2>4, FilledApart DEF LoadUsers, Filling
    <3>2. /\ users' = [users EXCEPT ![p] = Loaded(p)] /\ new' = new /\ pc'[r] = "loadnums"
          /\ status' = [status EXCEPT ![p] = [u \in Users |-> IF db.status[u] = Absent THEN 0 ELSE db.status[u]]]
          /\ overlap' = \E t \in Consoles : pc[t] # "idle"
      BY <1>1, <2>4 DEF LoadUsers, Goto, LabelTypes, reloader
    <3>3. ASSUME NEW u \in Users PROVE UserCopied(p, u)'
      <4>1. users'[p][u] = Loaded(p)[u] /\ db' = db /\ p' = p
        BY <1>1, <2>1, <3>1, <3>2 DEF TableTypes
      <4>2. status'[p][u] = IF db.status[u] = Absent THEN 0 ELSE db.status[u]
        BY <1>1, <3>1, <3>2 DEF TableTypes
      <4>3. p # None
        BY <3>1 DEF Pools, None
      <4> QED BY <4>1, <4>2, <4>3 DEF Loaded, UserCopied, NoUser
    <3> QED BY <2>1, <2>2, <3>2, <3>3 DEF CopyInv, Copying
  <2>5. CASE LoadNums(r)
    <3> DEFINE p == new[r]
    <3> DEFINE Known(n) == db.owner[n] # NULL /\ users[p][db.owner[n]] # NoUser
    <3>1. p \in Pools
      BY <1>1, <2>5, FilledApart DEF LoadNums, Filling
    <3>2. /\ nums' = [nums EXCEPT ![p] = [n \in Numbers |->
                IF Known(n) THEN [user |-> db.owner[n], rec |-> users[p][db.owner[n]].rec, key |-> p] ELSE NoNum]]
          /\ UNCHANGED <<users, status, new, overlap>> /\ pc[r] = "loadnums" /\ pc'[r] = "switchpool"
      BY <1>1, <2>5 DEF LoadNums, Goto, LabelTypes, reloader, history
    <3>3. ASSUME NEW n \in Numbers, \A u \in Users : UserCopied(p, u) PROVE NumCopied(p, n)'
      <4>1. db.owner[n] # NULL => db.owner[n] \in Users
        BY <1>1 DEF DbTypes
      <4>2. Known(n) <=> db.owner[n] # NULL /\ db.status[db.owner[n]] # Absent
        BY <3>3, <4>1 DEF UserCopied
      <4>3. nums'[p][n] = IF Known(n) THEN [user |-> db.owner[n], rec |-> users[p][db.owner[n]].rec, key |-> p] ELSE NoNum
        BY <1>1, <3>1, <3>2 DEF TableTypes
      <4>4. CASE Known(n)
        <5>1. nums'[p][n].user = db.owner[n]
          BY <4>3, <4>4
        <5> HIDE DEF Known
        <5> QED BY <2>1, <3>2, <4>2, <4>4, <5>1 DEF NumCopied
      <4>5. CASE ~Known(n)
        <5>1. nums'[p][n] = NoNum
          BY <4>3, <4>5
        <5> HIDE DEF Known
        <5> QED BY <2>1, <3>2, <4>2, <4>5, <5>1 DEF NumCopied
      <4> QED BY <4>4, <4>5
    <3> QED BY <1>1, <2>1, <2>2, <3>2, <3>3 DEF CopyInv, Copying, UserCopied
  <2>6. CASE SwitchPool(r) \/ SwitchUser(r)
    <3>1. /\ UNCHANGED <<users, nums, status, new, overlap>>
          /\ pc[r] \in {"switchpool", "switchuser"} /\ pc'[r] \in {"switchuser", "switchnum"}
      BY <1>1, <2>6 DEF SwitchPool, SwitchUser, Goto, LabelTypes, reloader, tables
    <3> QED BY <1>1, <2>1, <2>2, <3>1 DEF CopyInv, Copying, UserCopied, NumCopied
  <2>7. CASE CheckTime(r) \/ Stamp(r) \/ Destroy(r) \/ Make(r) \/ LoadFails(r) \/ SwitchNum(r)
    <3>1. pc'[r] \in {"stamp", "destroy", "make", "loadusers", "idle"}
      BY <1>1, <2>7 DEF CheckTime, Stamp, Destroy, Make, LoadFails, SwitchNum, Goto, Enter, LabelTypes
    <3> QED BY <2>3, <3>1 DEF Copying
  <2> QED BY <1>8, <2>4, <2>5, <2>6, <2>7 DEF ReloadStep
<1> QED BY <1>4, <1>5, <1>6, <1>7, <1>8 DEF Next
-----------------------------------------------------------------------------
(* Steps of everybody but the consoles.                                     *)
LEMMA MatchKept ==
    ASSUME MatchInv, stale' = stale, UNCHANGED <<users, nums, status, hpool, huser, hnum, db>>,
           \A t \in Consoles : pc'[t] = pc[t] /\ job'[t] = job[t] /\ hold'[t] = hold[t]
    PROVE  MatchInv'
<1>1. \A t \in Consoles : Executed(t)' = Executed(t) /\ (CommandInv(t) => CommandInv(t)')
  BY DEF Executed, CommandInv, CreateInv, StatusInv, NumAddInv, NumDelInv
<1>2. /\ RecInv' = RecInv
      /\ \A u \in Users : UserMatches(u)' = UserMatches(u) /\ \A t \in Consoles : UserOpen(t, u)' = UserOpen(t, u)
      /\ \A n \in Numbers : NumMatches(n)' = NumMatches(n) /\ \A t \in Consoles : NumOpen(t, n)' = NumOpen(t, n)
  BY DEF RecInv, UserMatches, NumMatches, TakenAlong, UserOpen, NumOpen, Executed
<1> QED BY <1>1, <1>2 DEF MatchInv

LEMMA MatchReload ==
    ASSUME DataInv, NEW r \in Reloaders, ReloadStep(r)
    PROVE  MatchInv'
<1>1. /\ PoolInv /\ TypeInv /\ SlotInv /\ CopyInv /\ MatchInv /\ PoolTypes /\ TableTypes /\ EntriesInv
      /\ LabelTypes /\ DbTypes /\ SwitchInv /\ r \in Threads
      /\ stale \in BOOLEAN /\ overlap \in BOOLEAN
  BY TypeParts DEF DataInv, PoolInv, TypeInv, Threads, DbTypes
<1>2. UNCHANGED <<job, hold, db>> /\ \A t \in Consoles : pc'[t] = pc[t]
  BY <1>1, ReloadsLeave
<1>3. CASE CheckTime(r) \/ Stamp(r) \/ Destroy(r) \/ Make(r) \/ LoadFails(r)
  <2>1. UNCHANGED <<users, nums, status, hpool, huser, hnum, stale>>
    BY <1>3 DEF CheckTime, Stamp, Destroy, Make, LoadFails, handle, tables, history
  <2> QED BY <1>1, <1>2, <2>1, MatchKept
(* The pool that is filled is not in use.                                   *)
<1>4. CASE LoadUsers(r) \/ LoadNums(r)
  <2> DEFINE p == new[r]
  <2>1. p \in Pools /\ p # hnum /\ hpool = hnum /\ huser = hnum /\ hnum \in Pools
    BY <1>1, <1>4, FilledApart DEF LoadUsers, LoadNums, Filling, PoolTypes
  <2>2. UNCHANGED <<hpool, huser, hnum, stale>>
    BY <1>1, <1>4 DEF LoadUsers, LoadNums, handle, history
  <2>3. \A q \in Pools \ {p} : users'[q] = users[q] /\ nums'[q] = nums[q] /\ status'[q] = status[q]
    <3>1. CASE LoadUsers(r)
      BY <1>1, <3>1 DEF LoadUsers, TableTypes
    <3>2. CASE LoadNums(r)
      <4>1. UNCHANGED <<users, status>> /\ \E T : nums' = [nums EXCEPT ![p] = T]
        BY <3>2 DEF LoadNums
      <4> QED BY <1>1, <4>1 DEF TableTypes
    <3> QED BY <1>4, <3>1, <3>2
  <2>4. SUFFICES ASSUME ~stale PROVE MatchInv'
    BY <2>2 DEF MatchInv
  <2>5. RecInv /\ RecInv'
    BY <1>1, <2>1, <2>2, <2>3, <2>4 DEF MatchInv, RecInv
  <2>6. ASSUME NEW u \in Users PROVE UserMatches(u)' = UserMatches(u)
    <3>1. users'[huser'][u] = users[huser][u] /\ (users[huser][u] # NoUser => users[huser][u].rec \in Pools \ {p})
      BY <2>1, <2>2, <2>3, <2>5 DEF RecInv
    <3>2. users[huser][u] # NoUser => status'[users[huser][u].rec][u] = status[users[huser][u].rec][u]
      BY <2>3, <3>1
    <3> QED BY <1>2, <3>1, <3>2 DEF UserMatches
  <2>7. ASSUME NEW n \in Numbers PROVE NumMatches(n)' = NumMatches(n)
    BY <1>2, <2>1, <2>2, <2>3 DEF NumMatches, TakenAlong
  <2>8. ASSUME NEW t \in Consoles PROVE Executed(t)' = Executed(t) /\ (CommandInv(t) => CommandInv(t)')
    BY <1>2, <2>1, <2>2, <2>3 DEF Executed, CommandInv, CreateInv, StatusInv, NumAddInv, NumDelInv
  <2>9. \A t \in Consoles : /\ \A u \in Users : UserOpen(t, u)' = UserOpen(t, u)
                            /\ \A n \in Numbers : NumOpen(t, n)' = NumOpen(t, n)
    BY <1>2 DEF UserOpen, NumOpen, Executed
  <2> HIDE DEF p
  <2> QED BY <1>1, <1>2, <2>4, <2>5, <2>6, <2>7, <2>8, <2>9 DEF MatchInv
(* A pointer is redirected to the copy of the rows, or the two may differ.  *)
<1>5. CASE SwitchPool(r) \/ SwitchUser(r) \/ SwitchNum(r)
  <2> DEFINE p == new[r]
  <2>1. p \in Pools /\ UNCHANGED <<users, nums, status>>
    BY <1>1, <1>5, FilledApart DEF SwitchPool, SwitchUser, SwitchNum, Filling, tables
  <2>2. SUFFICES ASSUME ~stale' PROVE MatchInv'
    BY DEF MatchInv
  <2>3. ~overlap /\ (stale => SwitchNum(r))
    BY <1>1, <1>5, <2>2 DEF SwitchPool, SwitchUser, SwitchNum
  <2>4. /\ \A t \in Consoles : pc[t] = "idle"
        /\ \A u \in Users : UserCopied(p, u)
        /\ \A n \in Numbers : NumCopied(p, n)
    BY <1>1, <1>5, <2>3 DEF CopyInv, Copying, SwitchPool, SwitchUser, SwitchNum
  <2>5. /\ ~stale => RecInv /\ (\A u \in Users : UserMatches(u)) /\ (\A n \in Numbers : NumMatches(n))
    BY <1>1, <2>4 DEF MatchInv, UserOpen, NumOpen, Executed
  <2>6. \A u \in Users : UserCopied(p, u) => (users[p][u] # NoUser => users[p][u].rec = p)
    BY DEF UserCopied
  <2>7. SUFFICES RecInv' /\ (\A u \in Users : UserMatches(u)') /\ (\A n \in Numbers : NumMatches(n)')
    BY <1>2, <2>2, <2>4 DEF MatchInv, Executed
  <2>8. CASE SwitchPool(r)
    <3>1. hpool = huser /\ UNCHANGED <<huser, hnum>> /\ ~stale
      BY <1>1, <2>3, <2>8, FilledApart DEF SwitchPool, Filling, SwitchNum
    <3> QED BY <1>2, <2>1, <2>5, <3>1 DEF RecInv, UserMatches, NumMatches, TakenAlong
  <2>9. CASE SwitchUser(r)
    <3>1. huser' = p /\ UNCHANGED hnum /\ ~stale
      BY <2>3, <2>9 DEF SwitchUser, SwitchNum
    <3>2. RecInv'
      BY <2>1, <2>4, <2>6, <3>1 DEF RecInv
    <3>3. \A u \in Users : UserMatches(u)'
      BY <1>2, <2>1, <2>4, <3>1 DEF UserCopied, UserMatches
    <3> QED BY <1>2, <2>1, <2>5, <3>1, <3>2, <3>3 DEF NumMatches, TakenAlong
  <2>10. CASE SwitchNum(r)
    <3>1. hnum' = p /\ huser' = p
      BY <1>1, <2>10 DEF SwitchNum, SwitchInv, Filling
    <3>2. RecInv'
      BY <2>1, <2>4, <2>6, <3>1 DEF RecInv
    <3>3. \A u \in Users : UserMatches(u)'
      BY <1>2, <2>1, <2>4, <3>1 DEF UserCopied, UserMatches
    <3>4. \A n \in Numbers : NumMatches(n)'
      BY <1>2, <2>1, <2>4, <3>1 DEF NumCopied, NumMatches
    <3> QED BY <3>2, <3>3, <3>4
  <2> QED BY <1>5, <2>8, <2>9, <2>10
<1> QED BY <1>3, <1>4, <1>5 DEF ReloadStep
-----------------------------------------------------------------------------
(* Steps of a console.  One that can matter is alone.                       *)
LEMMA MatchFrom ==
    ASSUME NEW t \in Consoles, \A v \in Consoles \ {t} : pc'[v] = "idle", RecInv',
           \A u \in Users : UserMatches(u)' \/ UserOpen(t, u)',
           \A n \in Numbers : NumMatches(n)' \/ NumOpen(t, n)',
           Executed(t)' => CommandInv(t)'
    PROVE  MatchInv'
BY DEF MatchInv, Executed

LEMMA MatchAt ==
    ASSUME MatchInv, ~stale, NEW t \in Consoles, pc[t] # "idle"
    PROVE  /\ \A v \in Consoles \ {t} : pc[v] = "idle"
           /\ RecInv
           /\ \A u \in Users : UserMatches(u) \/ UserOpen(t, u)
           /\ \A n \in Numbers : NumMatches(n) \/ NumOpen(t, n)
           /\ Executed(t) => CommandInv(t)
<1>1. \A v \in Consoles \ {t} : pc[v] = "idle"
  BY DEF MatchInv
<1> QED BY <1>1 DEF MatchInv, UserOpen, NumOpen, Executed

(* The statement of a command that succeeds.                                *)
LEMMA MatchStatement ==
    ASSUME DataInv, NEW t \in Consoles, QuerySucceeds(t), ~stale'
    PROVE  MatchInv'
<1> DEFINE j == job[t]
<1>1. /\ TypeInv /\ MatchInv /\ LabelTypes /\ DbTypes /\ t \in Threads /\ j \in Jobs
  BY TypeParts DEF DataInv, PoolInv, TypeInv, Threads, Workers, JobInv, ConsoleJob, QuerySucceeds
<1>2. /\ pc[t] = "query" /\ UNCHANGED <<users, nums, status, hpool, huser, hnum, job, hold>>
      /\ db' = After(j) /\ ~stale /\ ~Adopts(j)
      /\ pc' = [pc EXCEPT ![t] = FirstStep(j.kind)]
  BY DEF QuerySucceeds, Goto, handle, tables, worker
<1>3. /\ \A v \in Consoles \ {t} : pc[v] = "idle" /\ pc'[v] = "idle"
      /\ RecInv /\ RecInv'
      /\ \A u \in Users : UserMatches(u)
      /\ \A n \in Numbers : NumMatches(n)
  <2>1. /\ \A v \in Consoles \ {t} : pc[v] = "idle"
        /\ RecInv
        /\ \A u \in Users : UserMatches(u) \/ UserOpen(t, u)
        /\ \A n \in Numbers : NumMatches(n) \/ NumOpen(t, n)
    BY <1>1, <1>2, MatchAt
  <2>2. \A v \in Consoles \ {t} : pc'[v] = pc[v]
    BY <1>1, <1>2 DEF LabelTypes, Threads, Workers
  <2> QED BY <1>2, <2>1, <2>2 DEF UserOpen, NumOpen, Executed, RecInv
<1>4. pc'[t] = FirstStep(j.kind)
  BY <1>1, <1>2 DEF LabelTypes
<1>5. /\ j.kind \in CommandKinds /\ j.user \in Users /\ j.num \in Numbers /\ j.status \in {0, 1}
      /\ db.status \in [Users -> {Absent, 0, 1}] /\ db.owner \in [Numbers -> Users \union {NULL}]
      /\ Absent \notin {0, 1}
  BY <1>1, DataAssumption DEF Jobs, DbTypes, Absent
<1>6. CASE j.kind = "create"
  <2>1. db'.status = [db.status EXCEPT ![j.user] = 0] /\ db'.owner = db.owner
    BY <1>1, <1>2, <1>6 DEF After, DbTypes
  <2>2. \A n \in Numbers : db.owner[n] # j.user
    BY <1>2, <1>6 DEF Adopts
  <2>3. pc'[t] = "alloc" /\ job'[t] = j
    BY <1>2, <1>4, <1>6 DEF FirstStep
  <2>4. ASSUME NEW u \in Users PROVE UserMatches(u)' \/ UserOpen(t, u)'
    BY <1>2, <1>3, <1>5, <1>6, <2>1, <2>3 DEF UserMatches, UserOpen, Executed
  <2>5. ASSUME NEW n \in Numbers PROVE NumMatches(n)'
    BY <1>2, <1>3, <1>5, <2>1, <2>2 DEF NumMatches, TakenAlong
  <2>6. CommandInv(t)'
    BY <1>5, <1>6, <2>1, <2>3 DEF CommandInv, CreateInv, StatusInv, NumAddInv, NumDelInv
  <2> QED BY <1>3, <2>4, <2>5, <2>6, MatchFrom
<1>7. CASE j.kind = "status"
  <2>1. /\ db'.status = [db.status EXCEPT ![j.user] = IF @ = Absent THEN @ ELSE j.status]
        /\ db'.owner = db.owner
    BY <1>1, <1>2, <1>7 DEF After, DbTypes
  <2>2. \A u \in Users : db'.status[u] = Absent <=> db.status[u] = Absent
    BY <1>5, <2>1
  <2>3. pc'[t] = "readuser" /\ job'[t] = j
    BY <1>2, <1>4, <1>7 DEF FirstStep
  <2>4. ASSUME NEW u \in Users PROVE UserMatches(u)' \/ UserOpen(t, u)'
    BY <1>2, <1>3, <1>5, <1>7, <2>1, <2>3 DEF UserMatches, UserOpen, Executed
  <2>5. ASSUME NEW n \in Numbers PROVE NumMatches(n)'
    <3>1. NumMatches(n) /\ (db.owner[n] = NULL \/ db.owner[n] \in Users)
      BY <1>3, <1>5
    <3> QED BY <1>2, <2>1, <2>2, <3>1 DEF NumMatches, TakenAlong
  <2>6. CommandInv(t)'
    <3>1. UserMatches(j.user)
      BY <1>3, <1>5
    <3>2. db'.status[j.user] \in {Absent, j.status}
      BY <1>5, <2>1
    <3> QED BY <1>2, <1>5, <1>7, <2>2, <2>3, <3>1, <3>2 DEF CommandInv, CreateInv, StatusInv, NumAddInv, NumDelInv, UserMatches
  <2> QED BY <1>3, <2>4, <2>5, <2>6, MatchFrom
<1>8. CASE j.kind = "num_add"
  <2>1. db'.status = db.status /\ db'.owner = [db.owner EXCEPT ![j.num] = j.user]
    BY <1>1, <1>2, <1>8 DEF After, DbTypes
  <2>2. pc'[t] = "readuser" /\ job'[t] = j
    BY <1>2, <1>4, <1>8 DEF FirstStep
  <2>3. ASSUME NEW u \in Users PROVE UserMatches(u)'
    BY <1>2, <1>3, <2>1 DEF UserMatches
  <2>4. ASSUME NEW n \in Numbers PROVE NumMatches(n)' \/ NumOpen(t, n)'
    BY <1>2, <1>3, <1>5, <1>8, <2>1, <2>2 DEF NumMatches, TakenAlong, NumOpen, Executed
  <2>5. CommandInv(t)'
    BY <1>5, <1>8, <2>1, <2>2 DEF CommandInv, CreateInv, StatusInv, NumAddInv, NumDelInv
  <2> QED BY <1>3, <2>3, <2>4, <2>5, MatchFrom
<1>9. CASE j.kind = "num_del"
  <2>1. /\ db'.status = db.status
        /\ db'.owner = [n \in Numbers |-> IF ValueOf[n] = ValueOf[j.num] THEN NULL ELSE db.owner[n]]
    BY <1>1, <1>2, <1>9 DEF After, DbTypes
  <2>2. pc'[t] = "readnum" /\ job'[t] = j
    BY <1>2, <1>4, <1>9 DEF FirstStep
  <2>3. ASSUME NEW u \in Users PROVE UserMatches(u)'
    BY <1>2, <1>3, <2>1 DEF UserMatches
  <2>4. ASSUME NEW n \in Numbers PROVE NumMatches(n)' \/ NumOpen(t, n)'
    <3>1. CASE n = j.num
      BY <1>9, <2>2, <3>1 DEF NumOpen, Executed
    <3>2. CASE n # j.num /\ ValueOf[n] = ValueOf[j.num]
      <4>1. db'.owner[n] = NULL
        BY <1>5, <2>1, <3>2
      <4> QED BY <1>5, <3>2, <4>1 DEF NumMatches, TakenAlong
    <3>3. CASE ValueOf[n] # ValueOf[j.num]
      <4>1. db'.owner[n] = db.owner[n]
        BY <1>5, <2>1, <3>3
      <4> QED BY <1>2, <1>3, <2>1, <4>1 DEF NumMatches, TakenAlong
    <3> QED BY <3>1, <3>2, <3>3
  <2>5. CommandInv(t)'
    BY <1>5, <1>9, <2>1, <2>2 DEF CommandInv, CreateInv, StatusInv, NumAddInv, NumDelInv
  <2> QED BY <1>3, <2>3, <2>4, <2>5, MatchFrom
<1> QED BY <1>5, <1>6, <1>7, <1>8, <1>9 DEF CommandKinds

(* A command begins, or ends without its statement.                         *)
LEMMA MatchEnds ==
    ASSUME DataInv, NEW t \in Consoles, BeginCommand(t) \/ QueryFails(t), ~stale'
    PROVE  MatchInv'
<1>1. /\ TypeInv /\ MatchInv /\ LabelTypes /\ WorkerTypes /\ t \in Threads /\ \A v \in Consoles : v \in Threads
  BY TypeParts DEF DataInv, PoolInv, TypeInv, Threads, Workers
<1>2. /\ UNCHANGED <<users, nums, status, hpool, huser, hnum, db>> /\ ~stale
      /\ pc[t] \in {"idle", "query"} /\ pc' = [pc EXCEPT ![t] = pc'[t]] /\ pc'[t] \in {"idle", "query"}
  BY <1>1 DEF BeginCommand, QueryFails, Goto, handle, tables, LabelTypes
<1>3. \A v \in Consoles \ {t} : pc[v] = "idle"
  <2>1. CASE BeginCommand(t)
    BY <1>2, <2>1 DEF BeginCommand
  <2>2. CASE QueryFails(t)
    BY <1>1, <1>2, <2>2, MatchAt DEF QueryFails
  <2> QED BY <2>1, <2>2
<1>4. \A v \in Consoles \ {t} : pc'[v] = "idle"
  BY <1>1, <1>2, <1>3 DEF LabelTypes
<1>5. RecInv /\ (\A u \in Users : UserMatches(u)) /\ (\A n \in Numbers : NumMatches(n))
  BY <1>1, <1>2, <1>3 DEF MatchInv, UserOpen, NumOpen, Executed
<1>6. RecInv' /\ (\A u \in Users : UserMatches(u)') /\ (\A n \in Numbers : NumMatches(n)')
  BY <1>2, <1>5 DEF RecInv, UserMatches, NumMatches, TakenAlong
<1> QED BY <1>2, <1>4, <1>6, MatchFrom DEF Executed

(* A step in the tables that does not write leaves the matches as they are. *)
LEMMA MatchReads ==
    ASSUME MatchInv, ~stale, NEW t \in Consoles, Executed(t),
           UNCHANGED <<users, nums, status, hpool, huser, hnum, db, job>>,
           \A v \in Consoles \ {t} : pc'[v] = pc[v],
           Executed(t)' => CommandInv(t)',
           \/ Executed(t)'
           \/ /\ \A u \in Users : UserOpen(t, u) => UserMatches(u)
              /\ \A n \in Numbers : ~NumOpen(t, n)
    PROVE  MatchInv'
<1>1. /\ \A v \in Consoles \ {t} : pc'[v] = "idle"
      /\ RecInv
      /\ \A u \in Users : UserMatches(u) \/ UserOpen(t, u)
      /\ \A n \in Numbers : NumMatches(n) \/ NumOpen(t, n)
  BY MatchAt DEF Executed
<1>2. RecInv' /\ (\A u \in Users : UserMatches(u)' = UserMatches(u)) /\ (\A n \in Numbers : NumMatches(n)' = NumMatches(n))
  BY <1>1 DEF RecInv, UserMatches, NumMatches, TakenAlong
<1>3. CASE Executed(t)'
  <2>1. \A u \in Users : UserOpen(t, u)' = UserOpen(t, u)
    BY <1>3 DEF UserOpen
  <2>2. \A n \in Numbers : NumOpen(t, n)' = NumOpen(t, n)
    BY <1>3 DEF NumOpen
  <2> QED BY <1>1, <1>2, <2>1, <2>2, MatchFrom
<1>4. CASE ~Executed(t)'
  BY <1>1, <1>2, <1>4, MatchFrom
<1> QED BY <1>3, <1>4

LEMMA MatchTables ==
    ASSUME DataInv, NEW t \in Consoles, ~stale',
           TableStep(t) \/ Alloc(t) \/ ReadPut(t) \/ Put(t)
    PROVE  MatchInv'
<1> DEFINE j == job[t]
<1> DEFINE h == hold[t]
<1>1. /\ TypeInv /\ MatchInv /\ PoolTypes /\ TableTypes /\ EntriesInv /\ LabelTypes /\ WorkerTypes /\ DbTypes
      /\ t \in Threads /\ t \in Workers /\ ConsoleJob(t)
  BY TypeParts DEF DataInv, PoolInv, TypeInv, Threads, Workers, JobInv
<1>2. /\ UNCHANGED <<hpool, huser, hnum, db, job>> /\ ~stale
      /\ pc[t] \notin {"idle", "query"} /\ Executed(t)
      /\ pc' = [pc EXCEPT ![t] = pc'[t]]
  <2> DEFINE One == /\ UNCHANGED <<hpool, huser, hnum, db, job>>
                    /\ pc[t] \notin {"idle", "query"}
                    /\ \E label : pc' = [pc EXCEPT ![t] = label]
  <2> USE DEF unchangedByWorkers, handle, database, Goto, Enter, Return
  <2>1. ReadUser(t) => One BY DEF ReadUser
  <2>2. FindUser(t) => One BY DEF FindUser
  <2>3. Write(t) => One BY DEF Write
  <2>4. ReadNum(t) => One BY DEF ReadNum
  <2>5. Alloc(t) => One BY DEF Alloc
  <2>6. ReadPut(t) => One BY DEF ReadPut
  <2>7. Put(t) => One BY DEF Put
  <2>8. One BY <2>1, <2>2, <2>3, <2>4, <2>5, <2>6, <2>7 DEF TableStep
  <2>9. ~stale
    BY DEF TableStep, ReadUser, FindUser, Write, ReadNum, Alloc, ReadPut, Put
  <2> QED BY <1>1, <2>8, <2>9 DEF LabelTypes, Executed
<1>3. /\ \A v \in Consoles \ {t} : pc[v] = "idle" /\ pc'[v] = "idle"
      /\ RecInv
      /\ \A u \in Users : UserMatches(u) \/ UserOpen(t, u)
      /\ \A n \in Numbers : NumMatches(n) \/ NumOpen(t, n)
      /\ CommandInv(t)
  <2>1. \A v \in Consoles \ {t} : pc'[v] = pc[v]
    BY <1>1, <1>2 DEF LabelTypes, Threads, Workers
  <2> QED BY <1>1, <1>2, <2>1, MatchAt
<1>4. /\ j \in Jobs /\ j.kind \in CommandKinds /\ j.user \in Users /\ j.num \in Numbers /\ j.status \in {0, 1}
      /\ db.status[j.user] \in {Absent, 0, 1} /\ Absent \notin {0, 1} /\ NULL \notin Users
      /\ h \in Holds /\ huser \in Pools /\ hnum \in Pools /\ hpool \in Pools /\ None \notin Pools
  BY <1>1, <1>2, DataAssumption DEF ConsoleJob, Jobs, DbTypes, Absent, Holds, WorkerTypes, PoolTypes, Pools, None
<1> USE DEF CommandInv, CreateInv, StatusInv, NumAddInv, NumDelInv
<1>5. CASE ReadUser(t)
  <2>1. /\ UNCHANGED <<users, nums, status>> /\ pc[t] = "readuser" /\ pc'[t] = "finduser"
        /\ hold'[t].table = huser
    BY <1>1, <1>5 DEF ReadUser, Enter, Goto, LabelTypes, WorkerTypes, tables, NoHold
  <2>2. CommandInv(t)' /\ Executed(t)'
    BY <1>2, <1>3, <1>4, <2>1 DEF Executed
  <2> QED BY <1>1, <1>2, <1>3, <2>1, <2>2, MatchReads
<1>6. CASE ReadNum(t)
  <2>1. /\ UNCHANGED <<users, nums, status>> /\ pc[t] = "readnum" /\ j.kind = "num_del"
        /\ pc'[t] = "put" /\ hold'[t].table = hnum
    BY <1>1, <1>6 DEF ReadNum, Enter, Goto, LabelTypes, WorkerTypes, tables, NoHold, ConsoleJob
  <2>2. CommandInv(t)' /\ Executed(t)'
    BY <1>2, <1>3, <1>4, <2>1 DEF Executed
  <2> QED BY <1>1, <1>2, <1>3, <2>1, <2>2, MatchReads
<1>7. CASE FindUser(t)
  <2> DEFINE e == users[h.table][j.user]
  <2>1. UNCHANGED <<users, nums, status>> /\ pc[t] = "finduser" /\ j.kind \in {"status", "num_add"} /\ h.table = huser
    BY <1>3, <1>4, <1>7 DEF FindUser, tables, CommandKinds
  <2>2. CASE e = NoUser
    <3>1. pc'[t] = "idle" /\ j.kind = "status"
      BY <1>1, <1>7, <2>1, <2>2 DEF FindUser, Return, Goto, LabelTypes
    <3>2. UserMatches(j.user)
      BY <1>3, <2>1, <2>2, <3>1 DEF UserMatches
    <3>3. (\A u \in Users : UserOpen(t, u) => UserMatches(u)) /\ \A n \in Numbers : ~NumOpen(t, n)
      BY <3>1, <3>2 DEF UserOpen, NumOpen
    <3> QED BY <1>1, <1>2, <1>3, <2>1, <3>1, <3>3, MatchReads DEF Executed
  <2>3. CASE e # NoUser
    <3>1. /\ pc'[t] = IF j.kind = "num_add" THEN "readput" ELSE "write"
          /\ hold'[t].rec = e.rec
      <4>1. /\ pc' = [pc EXCEPT ![t] = IF j.kind = "num_add" THEN "readput" ELSE "write"]
            /\ hold' = [hold EXCEPT ![t] = Found(t, e)]
        BY <1>7, <2>3 DEF FindUser, Goto
      <4> HIDE DEF e
      <4> QED BY <1>1, <4>1 DEF Found, LabelTypes, WorkerTypes, NoHold
    <3>2. j.kind = "num_add" => db.status[j.user] # Absent
      <4>1. j.kind = "num_add" => UserMatches(j.user)
        BY <1>3, <1>4 DEF UserOpen
      <4> QED BY <2>1, <2>3, <4>1 DEF UserMatches
    <3>3. CommandInv(t)' /\ Executed(t)'
      BY <1>2, <1>3, <1>4, <2>1, <2>3, <3>1, <3>2 DEF Executed
    <3> QED BY <1>1, <1>2, <1>3, <2>1, <3>3, MatchReads
  <2> QED BY <2>2, <2>3
<1>8. CASE Alloc(t)
  <2>1. /\ UNCHANGED <<users, nums, status>> /\ pc[t] = "alloc" /\ j.kind = "create"
        /\ pc'[t] = "readput" /\ hold'[t].rec = hpool
    BY <1>1, <1>8 DEF Alloc, Enter, Goto, LabelTypes, WorkerTypes, tables, NoHold, ConsoleJob
  <2>2. CommandInv(t)' /\ Executed(t)'
    BY <1>2, <1>3, <1>4, <2>1 DEF Executed
  <2> QED BY <1>1, <1>2, <1>3, <2>1, <2>2, MatchReads
<1>9. CASE ReadPut(t)
  <2>1. /\ UNCHANGED <<users, nums, status>> /\ pc[t] = "readput" /\ j.kind \in {"create", "num_add"}
        /\ pc'[t] = "put" /\ hold'[t].rec = h.rec
        /\ hold'[t].table = IF j.kind = "create" THEN huser ELSE hnum
    BY <1>1, <1>9 DEF ReadPut, Goto, LabelTypes, WorkerTypes, tables, ConsoleJob
  <2>2. CommandInv(t)' /\ Executed(t)'
    BY <1>2, <1>3, <1>4, <2>1 DEF Executed
  <2> QED BY <1>1, <1>2, <1>3, <2>1, <2>2, MatchReads
(* The account is written: only a status command can be here.               *)
<1>10. CASE Write(t)
  <2> DEFINE r == users[huser][j.user].rec
  <2>1. j.kind = "status" /\ pc'[t] = "idle" /\ UNCHANGED <<users, nums>> /\ pc[t] = "write"
    BY <1>1, <1>3, <1>4, <1>10 DEF Write, Return, Goto, LabelTypes, CommandKinds
  <2>2. /\ h.rec = r /\ users[huser][j.user] # NoUser /\ r \in Pools
        /\ db.status[j.user] = j.status
    <3>1. h.rec = r /\ users[huser][j.user] # NoUser /\ db.status[j.user] = j.status
      BY <1>3, <1>4, <2>1
    <3> QED BY <1>1, <1>4, <3>1 DEF EntriesInv
  <2>3. status' = [status EXCEPT ![r][j.user] = j.status]
    BY <1>10, <2>1, <2>2 DEF Write
  <2>4. status'[r][j.user] = j.status /\ \A q \in Pools : \A u \in Users \ {j.user} : status'[q][u] = status[q][u]
    BY <1>1, <1>4, <2>2, <2>3 DEF TableTypes
  <2>5. RecInv'
    BY <1>2, <1>3, <2>1 DEF RecInv
  <2>6. ASSUME NEW u \in Users PROVE UserMatches(u)'
    <3>1. CASE u = j.user
      BY <1>2, <1>4, <2>1, <2>2, <2>4, <3>1 DEF UserMatches
    <3>2. CASE u # j.user
      <4>1. UserMatches(u)
        BY <1>3, <3>2 DEF UserOpen
      <4>2. users[huser][u] # NoUser => users[huser][u].rec \in Pools
        BY <1>1, <1>4 DEF EntriesInv
      <4> HIDE DEF r
      <4> QED BY <1>2, <2>1, <2>4, <3>2, <4>1, <4>2 DEF UserMatches
    <3> QED BY <3>1, <3>2
  <2>7. ASSUME NEW n \in Numbers PROVE NumMatches(n)'
    BY <1>2, <1>3, <2>1 DEF NumMatches, TakenAlong, NumOpen
  <2> QED BY <1>3, <2>1, <2>5, <2>6, <2>7, MatchFrom DEF Executed
(* An entry is stored.                                                      *)
<1>11. CASE Put(t)
  <2>1. pc[t] = "put" /\ pc'[t] = "idle" /\ j.kind \in {"create", "num_add", "num_del"}
    BY <1>1, <1>3, <1>4, <1>11 DEF Put, Return, Goto, LabelTypes, CommandKinds
  <2>2. CASE j.kind = "create"
    <3> DEFINE e == [rec |-> hpool, key |-> h.key]
    <3>1. h.rec = hpool /\ h.table = huser /\ db.status[j.user] = 0
      BY <1>3, <2>1, <2>2
    <3>2. /\ users' = [users EXCEPT ![huser][j.user] = e]
          /\ status' = [status EXCEPT ![hpool][j.user] = 0] /\ nums' = nums
      BY <1>11, <2>2, <3>1 DEF Put
    <3>3. /\ users'[huser][j.user] = e /\ \A u \in Users \ {j.user} : users'[huser][u] = users[huser][u]
          /\ status'[hpool][j.user] = 0
          /\ \A q \in Pools : \A u \in Users \ {j.user} : status'[q][u] = status[q][u]
      BY <1>1, <1>4, <3>2 DEF TableTypes
    <3>4. e # NoUser /\ e.rec = hpool
      BY <1>4 DEF NoUser
    <3>5. RecInv'
      BY <1>2, <1>3, <3>3, <3>4 DEF RecInv
    <3>6. ASSUME NEW u \in Users PROVE UserMatches(u)'
      <4>1. CASE u = j.user
        BY <1>2, <1>4, <3>1, <3>3, <3>4, <4>1 DEF UserMatches
      <4>2. CASE u # j.user
        <5>1. UserMatches(u)
          BY <1>3, <4>2 DEF UserOpen
        <5>2. users[huser][u] # NoUser => users[huser][u].rec \in Pools
          BY <1>1, <1>4 DEF EntriesInv
        <5> QED BY <1>2, <3>3, <4>2, <5>1, <5>2 DEF UserMatches
      <4> QED BY <4>1, <4>2
    <3>7. ASSUME NEW n \in Numbers PROVE NumMatches(n)'
      BY <1>2, <1>3, <2>2, <3>2 DEF NumMatches, TakenAlong, NumOpen
    <3> QED BY <1>3, <2>1, <3>5, <3>6, <3>7, MatchFrom DEF Executed
  <2>3. CASE j.kind \in {"num_add", "num_del"}
    <3> DEFINE e == IF j.kind = "num_add" THEN [user |-> j.user, rec |-> h.rec, key |-> h.key] ELSE NoNum
    <3>1. h.table = hnum
      BY <1>3, <2>1, <2>3
    <3>2. nums' = [nums EXCEPT ![hnum][j.num] = e] /\ UNCHANGED <<users, status>>
      BY <1>11, <2>3, <3>1 DEF Put
    <3>3. nums'[hnum][j.num] = e /\ \A n \in Numbers \ {j.num} : nums'[hnum][n] = nums[hnum][n]
      BY <1>1, <1>4, <3>2 DEF TableTypes
    <3>4. RecInv' /\ \A u \in Users : UserMatches(u)'
      BY <1>2, <1>3, <2>3, <3>2 DEF RecInv, UserMatches, UserOpen
    <3>5. ASSUME NEW n \in Numbers PROVE NumMatches(n)'
      <4>1. CASE n = j.num
        BY <1>2, <1>3, <1>4, <2>1, <2>3, <3>3, <4>1 DEF NumMatches
      <4>2. CASE n # j.num
        <5>1. NumMatches(n)
          BY <1>3, <4>2 DEF NumOpen
        <5> QED BY <1>2, <3>3, <4>2, <5>1 DEF NumMatches, TakenAlong
      <4> QED BY <4>1, <4>2
    <3> QED BY <1>3, <2>1, <3>4, <3>5, MatchFrom DEF Executed
  <2> QED BY <2>1, <2>2, <2>3
<1> QED BY <1>5, <1>6, <1>7, <1>8, <1>9, <1>10, <1>11 DEF TableStep

LEMMA MatchStep ==
    ASSUME DataInv, [Next]_vars
    PROVE  MatchInv'
<1>1. MatchInv /\ TypeInv /\ PoolInv
  BY DEF DataInv, PoolInv
<1>2. CASE UNCHANGED vars \/ Tick
  <2>1. UNCHANGED <<users, nums, status, hpool, huser, hnum, db, stale, pc, job, hold>>
    BY <1>2 DEF vars, Tick, tables, handle, database, history, worker
  <2> QED BY <1>1, <2>1, MatchKept
<1>3. CASE \E j \in late : LateStatement(j)
  BY <1>3 DEF LateStatement, MatchInv
<1>4. ASSUME NEW t \in Callers, CallStep(t) PROVE MatchInv'
  <2>1. t \in Workers /\ t \notin Consoles /\ \A v \in Consoles : v \in Threads /\ v \in Workers
    BY ThreadsAssumption DEF Workers, Threads
  <2>2. UNCHANGED Reloading /\ \A v \in Consoles : pc'[v] = pc[v] /\ hold'[v] = hold[v]
    BY <1>1, <1>4, <2>1, WorkersKeepReload
  <2>3. \A v \in Consoles : job'[v] = job[v]
    <3>1. job' = job \/ job' = [job EXCEPT ![t] = job'[t]]
      BY <1>1, <1>4, <2>1, TypeParts DEF CallStep, TableStep, BeginCall, FindNum, Copy, ReadUser, FindUser, Write, ReadNum,
         TypeInv, WorkerTypes
    <3>2. job \in [Workers -> Job]
      BY <1>1, TypeParts DEF TypeInv, WorkerTypes
    <3> QED BY <2>1, <3>1, <3>2
  <2> QED BY <1>1, <1>4, <2>2, <2>3, CallsLeave, MatchKept DEF Reloading
<1>5. ASSUME NEW t \in Consoles, CommandStep(t) PROVE MatchInv'
  <2>1. CASE stale'
    BY <2>1 DEF MatchInv
  <2>2. CASE ~stale'
    BY <1>5, <2>2, MatchStatement, MatchEnds, MatchTables DEF CommandStep
  <2> QED BY <2>1, <2>2
<1>6. ASSUME NEW r \in Reloaders, ReloadStep(r) PROVE MatchInv'
  BY <1>6, MatchReload
<1> QED BY <1>2, <1>3, <1>4, <1>5, <1>6 DEF Next

(* CacheMatchesDb is an invariant when no two threads have compared         *)
(* last_update_time before one sets it, and reloads and functions keep to   *)
(* their times: a command that succeeds alone changes both sides in the     *)
(* same way, but for the other numbers a DELETE takes, and a reload that    *)
(* meets none of them makes them equal again (user.cpp 125-171, 280-288;    *)
(* data.cpp 27-250).                                                        *)
THEOREM CacheAgrees ==
    ASSUME MaxLoad + MaxOp < Gap
    PROVE  Spec /\ []ChecksApart => []CacheMatchesDb
<1>1. Init => DataInv /\ OneReload
  BY InitData, InitOneReload
<1>2. DataInv /\ OneReload /\ ChecksApart' /\ [Next]_vars => DataInv' /\ OneReload'
  <2> SUFFICES ASSUME DataInv, OneReload, ChecksApart', [Next]_vars PROVE DataInv' /\ OneReload'
    OBVIOUS
  <2>1. PoolInv' /\ OneReload'
    BY PoolInvStep DEF DataInv
  <2> QED BY <2>1, SlotStep, CopyStep, MatchStep DEF DataInv, PoolInv
<1>3. DataInv => CacheMatchesDb
  <2> SUFFICES ASSUME DataInv, ~stale, \A t \in Consoles : pc[t] = "idle"
               PROVE  (\A u \in Users : UserMatches(u)) /\ (\A n \in Numbers : NumMatches(n))
    BY DEF CacheMatchesDb
  <2> QED BY DEF DataInv, MatchInv, UserOpen, NumOpen, Executed
<1> QED BY <1>1, <1>2, <1>3, PTL DEF Spec
-----------------------------------------------------------------------------
(* Entries and pools.  No command has anything in hand while the pointers   *)
(* to the tables are redirected.                                            *)
Switching == {"switchpool", "switchuser", "switchnum"}
Apart == \A r \in Reloaders : pc[r] \in Switching => \A t \in Consoles : hold[t] = NoHold

(* What the entries of a table point to is in the pool of the table.        *)
UsersOwn(p) == \A u \in Users : users[p][u] # NoUser => users[p][u].rec = p /\ users[p][u].key = p
NumsOwn(p) == \A n \in Numbers : nums[p][n] # NoNum => nums[p][n].rec = p /\ nums[p][n].key = p

CopiesOwn ==
    \A r \in Reloaders :
        /\ pc[r] \in Copying => UsersOwn(new[r])
        /\ pc[r] \in Switching => NumsOwn(new[r])
HoldsOwn ==
    \A t \in Consoles :
        hold[t].table \in {None, hpool} /\ hold[t].rec \in {None, hpool} /\ hold[t].key \in {None, hpool}
Together ==
    \/ hpool = huser /\ huser = hnum
    \/ \E r \in Reloaders : pc[r] \in {"switchuser", "switchnum"}

LiveInv == UsersOwn(huser) /\ NumsOwn(hnum) /\ CopiesOwn /\ HoldsOwn /\ Together

LEMMA InitLive == Init => LiveInv
<1> SUFFICES ASSUME Init PROVE LiveInv
  OBVIOUS
<1>1. 1 \in Pools
  BY TimesAssumption DEF Pools
<1>2. \A r \in Reloaders : r \in Threads
  BY DEF Threads
<1>3. \A t \in Consoles : t \in Workers
  BY DEF Workers
<1> QED BY <1>1, <1>2, <1>3 DEF Init, LiveInv, UsersOwn, NumsOwn, CopiesOwn, HoldsOwn, Together, Copying,
           Switching, Empty, NoHold

LEMMA LiveKept ==
    ASSUME LiveInv, UNCHANGED <<users, nums, hpool, huser, hnum, new>>,
           \A r \in Reloaders : pc'[r] = pc[r], HoldsOwn'
    PROVE  LiveInv'
BY DEF LiveInv, UsersOwn, NumsOwn, CopiesOwn, Together

LEMMA LiveCommand ==
    ASSUME PoolInv, SlotInv, LiveInv, Apart, Apart', NEW t \in Consoles, CommandStep(t)
    PROVE  LiveInv'
<1> DEFINE h == hold[t]
<1> DEFINE j == job[t]
<1>1. /\ TypeInv /\ PoolInv /\ SlotInv /\ PoolTypes /\ TableTypes /\ LabelTypes /\ WorkerTypes /\ EntriesInv
      /\ t \in Workers /\ t \in Threads /\ ConsoleJob(t) /\ Holding(t)
      /\ h \in Holds /\ None \notin Pools /\ Pointers = Pools \union {None}
  BY TypeParts DEF PoolInv, TypeInv, Threads, Workers, JobInv, WorkerTypes, Holds, Pools, Pointers, None
<1>2. /\ UNCHANGED <<hpool, huser, hnum, new>> /\ \A r \in Reloaders : pc'[r] = pc[r]
      /\ \A v \in Consoles \ {t} : hold'[v] = hold[v]
  BY <1>1, WorkersKeepReload, ThreadsAssumption DEF Reloading, Threads, Workers
<1>3. /\ h # NoHold \/ hold'[t] # NoHold => hpool = huser /\ huser = hnum
      /\ h # NoHold => \A r \in Reloaders : pc[r] \notin Switching
  BY <1>2 DEF Apart, LiveInv, Together, Switching
<1>4. h.table \in {None, hpool} /\ h.rec \in {None, hpool} /\ h.key \in {None, hpool}
  BY DEF LiveInv, HoldsOwn
<1>5. ASSUME hold'[t].table \in {None, hpool}, hold'[t].rec \in {None, hpool}, hold'[t].key \in {None, hpool}
      PROVE  HoldsOwn'
  BY <1>2, <1>5 DEF LiveInv, HoldsOwn
<1>6. CASE BeginCommand(t) \/ QuerySucceeds(t) \/ QueryFails(t)
  <2>1. UNCHANGED <<users, nums, hold>>
    BY <1>6 DEF BeginCommand, QuerySucceeds, QueryFails, tables, worker
  <2> QED BY <1>2, <1>4, <1>5, <2>1, LiveKept
<1>7. CASE Write(t)
  <2>1. UNCHANGED <<users, nums>> /\ hold'[t] = NoHold
    BY <1>1, <1>7 DEF Write, Return, WorkerTypes
  <2> QED BY <1>2, <1>5, <2>1, LiveKept DEF NoHold
<1>8. CASE ReadUser(t) \/ ReadNum(t) \/ Alloc(t) \/ ReadPut(t)
  <2>1. UNCHANGED <<users, nums>>
    BY <1>8 DEF ReadUser, ReadNum, Alloc, ReadPut, tables
  <2>2. /\ hold'[t].table \in {None, huser, hnum} /\ hold'[t].rec \in {h.rec, None, hpool}
        /\ hold'[t].key \in {h.key, None, hpool}
        /\ hold'[t].table # None \/ hold'[t].rec # None
    <3>1. CASE ReadUser(t) \/ ReadNum(t)
      BY <1>1, <3>1 DEF ReadUser, ReadNum, NoHold, WorkerTypes, PoolTypes
    <3>2. CASE Alloc(t)
      BY <1>1, <3>2 DEF Alloc, NoHold, WorkerTypes, PoolTypes
    <3>3. CASE ReadPut(t)
      BY <1>1, <3>3 DEF ReadPut, WorkerTypes, PoolTypes
    <3> QED BY <1>8, <3>1, <3>2, <3>3
  <2>3. hpool = huser /\ huser = hnum
    BY <1>3, <2>2 DEF NoHold
  <2> QED BY <1>2, <1>4, <1>5, <2>1, <2>2, <2>3, LiveKept
<1>9. CASE FindUser(t)
  <2> DEFINE e == users[h.table][j.user]
  <2>1. UNCHANGED <<users, nums>> /\ pc[t] = "finduser"
    BY <1>9 DEF FindUser, tables
  <2>2. h.table # None /\ h # NoHold
    BY <1>1, <2>1 DEF Holding, NoHold
  <2>3. h.table = huser /\ huser = hpool
    BY <1>3, <1>4, <2>2
  <2>4. j.user \in Users
    BY <1>1, <2>1 DEF ConsoleJob, Jobs
  <2>5. e # NoUser => e.rec = huser
    BY <2>3, <2>4 DEF LiveInv, UsersOwn
  <2>6. /\ hold'[t].table = None /\ hold'[t].key = None
        /\ hold'[t].rec = None \/ (e # NoUser /\ hold'[t].rec = e.rec)
    <3>1. CASE hold' = [hold EXCEPT ![t] = NoHold]
      BY <1>1, <3>1 DEF WorkerTypes, NoHold
    <3>2. CASE hold' = [hold EXCEPT ![t] = Found(t, e)] /\ e # NoUser
      <4> HIDE DEF e
      <4> QED BY <1>1, <3>2 DEF Found, WorkerTypes, NoHold
    <3> QED BY <1>9, <3>1, <3>2 DEF FindUser, Return
  <2>7. hold'[t].table = None /\ hold'[t].rec \in {None, hpool} /\ hold'[t].key = None
    <3> HIDE DEF e
    <3> QED BY <2>3, <2>5, <2>6
  <2> QED BY <1>2, <1>5, <2>1, <2>7, LiveKept
(* An entry is stored, in the one pool there is to store it in.             *)
<1>10. CASE Put(t)
  <2>1. pc[t] = "put" /\ hold'[t] = NoHold /\ j \in Jobs /\ j.kind # "status"
        /\ (j.kind # "num_del" => h.rec # None /\ h.key # None)
    BY <1>1, <1>10 DEF Put, Return, WorkerTypes, ConsoleJob
  <2>2. h.table # None /\ h # NoHold
    BY <1>1, <2>1 DEF Holding, NoHold
  <2>3. /\ h.table = huser /\ huser = hpool /\ hnum = hpool /\ huser \in Pools
        /\ (j.kind # "num_del" => h.rec = hpool /\ h.key = hpool)
        /\ j.user \in Users /\ j.num \in Numbers /\ j.kind \in {"create", "num_add", "num_del"}
    BY <1>1, <1>3, <1>4, <2>1, <2>2, DataAssumption DEF PoolTypes, Jobs, CommandKinds
  <2>4. HoldsOwn'
    BY <1>5, <2>1 DEF NoHold
  <2>5. /\ \A p \in Pools : p # huser => users'[p] = users[p] /\ nums'[p] = nums[p]
        /\ UsersOwn(huser)' /\ NumsOwn(hnum)'
    <3>1. CASE j.kind = "create"
      <4>1. /\ users' = [users EXCEPT ![huser][j.user] = [rec |-> hpool, key |-> hpool]]
            /\ UNCHANGED nums
        BY <1>10, <2>3, <3>1 DEF Put
      <4> QED BY <1>1, <1>2, <2>3, <4>1 DEF LiveInv, UsersOwn, NumsOwn, TableTypes
    <3>2. CASE j.kind = "num_add"
      <4>1. /\ nums' = [nums EXCEPT ![huser][j.num] = [user |-> j.user, rec |-> hpool, key |-> hpool]]
            /\ UNCHANGED users
        BY <1>10, <2>3, <3>2 DEF Put
      <4> QED BY <1>1, <1>2, <2>3, <4>1 DEF LiveInv, UsersOwn, NumsOwn, TableTypes
    <3>3. CASE j.kind = "num_del"
      <4>1. nums' = [nums EXCEPT ![huser][j.num] = NoNum] /\ UNCHANGED users
        BY <1>10, <2>3, <3>3 DEF Put
      <4> QED BY <1>1, <1>2, <2>3, <4>1 DEF LiveInv, UsersOwn, NumsOwn, TableTypes
    <3> QED BY <2>3, <3>1, <3>2, <3>3
  <2>6. CopiesOwn'
    <3>1. ASSUME NEW r \in Reloaders, pc[r] \in Copying PROVE UsersOwn(new[r])'
      <4>1. new[r] \in Pools /\ new[r] # huser
        BY <1>1, <2>3, <3>1, FilledApart DEF Copying, Filling
      <4> QED BY <1>2, <2>5, <3>1, <4>1 DEF LiveInv, CopiesOwn, UsersOwn
    <3>2. \A r \in Reloaders : pc'[r] \notin Switching
      BY <1>2, <1>3, <2>2
    <3> QED BY <1>2, <3>1, <3>2 DEF CopiesOwn
  <2>7. Together'
    BY <1>2, <2>3 DEF Together
  <2> QED BY <2>4, <2>5, <2>6, <2>7 DEF LiveInv
<1> QED BY <1>6, <1>7, <1>8, <1>9, <1>10 DEF CommandStep, TableStep

LEMMA LiveReload ==
    ASSUME PoolInv, SlotInv, LiveInv, Apart, NEW r \in Reloaders, ReloadStep(r), Alone(r)
    PROVE  LiveInv'
<1> DEFINE p == new[r]
<1>0. \A q \in Reloaders : q = r \/ (pc[q] = "idle" /\ pc'[q] = "idle")
  BY DEF Alone
<1>1. /\ TypeInv /\ PoolInv /\ SlotInv /\ SwitchInv /\ PoolTypes /\ TableTypes /\ LabelTypes /\ DbTypes
      /\ r \in Threads
  BY TypeParts DEF PoolInv, TypeInv, Threads
<1>2. UNCHANGED <<job, hold, db>> /\ \A t \in Consoles : pc'[t] = pc[t]
  BY <1>1, ReloadsLeave
<1>3. hpool' = hpool => HoldsOwn'
  BY <1>2 DEF LiveInv, HoldsOwn
<1>4. ASSUME pc'[r] \notin Copying PROVE CopiesOwn'
  BY <1>0, <1>4 DEF CopiesOwn, Copying, Switching
<1>5. pc[r] \notin {"switchuser", "switchnum"} => hpool = huser /\ huser = hnum
  BY <1>0 DEF LiveInv, Together
<1>6. CASE CheckTime(r) \/ Stamp(r) \/ Destroy(r) \/ Make(r) \/ LoadFails(r)
  <2>1. /\ UNCHANGED <<users, nums, hpool, huser, hnum>>
        /\ pc[r] \notin {"switchuser", "switchnum"}
    BY <1>6 DEF CheckTime, Stamp, Destroy, Make, LoadFails, handle, tables
  <2>2. pc'[r] \notin Copying
    BY <1>1, <1>6 DEF CheckTime, Stamp, Destroy, Make, LoadFails, Goto, Enter, LabelTypes, Copying
  <2> QED BY <1>3, <1>4, <1>5, <2>1, <2>2 DEF LiveInv, UsersOwn, NumsOwn, Together
<1>7. CASE LoadUsers(r)
  <2>1. p \in Pools /\ p # hnum /\ hpool = hnum /\ huser = hnum
    BY <1>1, <1>7, FilledApart DEF LoadUsers, Filling
  <2>2. /\ users' = [users EXCEPT ![p] = Loaded(p)] /\ UNCHANGED <<nums, hpool, huser, hnum, new>>
        /\ pc'[r] = "loadnums"
    BY <1>1, <1>7 DEF LoadUsers, Goto, LabelTypes, reloader, handle
  <2>3. users'[p] = Loaded(p) /\ users'[huser] = users[huser]
    BY <1>1, <2>1, <2>2 DEF TableTypes, PoolTypes
  <2>4. CopiesOwn'
    <3>1. UsersOwn(p)'
      BY <2>2, <2>3 DEF Loaded, UsersOwn
    <3>2. pc'[r] \notin Switching
      BY <2>2 DEF Switching
    <3> QED BY <1>0, <2>2, <3>1, <3>2 DEF CopiesOwn, Copying, Switching
  <2> HIDE DEF p
  <2> QED BY <1>3, <2>1, <2>2, <2>3, <2>4 DEF LiveInv, UsersOwn, NumsOwn, Together
<1>8. CASE LoadNums(r)
  <2> DEFINE Known(n) == db.owner[n] # NULL /\ users[p][db.owner[n]] # NoUser
  <2>1. p \in Pools /\ p # hnum /\ hpool = hnum /\ huser = hnum
    BY <1>1, <1>8, FilledApart DEF LoadNums, Filling
  <2>2. /\ nums' = [nums EXCEPT ![p] = [n \in Numbers |->
              IF Known(n) THEN [user |-> db.owner[n], rec |-> users[p][db.owner[n]].rec, key |-> p] ELSE NoNum]]
        /\ UNCHANGED <<users, hpool, huser, hnum, new>> /\ pc[r] = "loadnums" /\ pc'[r] = "switchpool"
    BY <1>1, <1>8 DEF LoadNums, Goto, LabelTypes, reloader, handle
  <2>3. nums'[hnum] = nums[hnum] /\ UsersOwn(p)
    BY <1>1, <2>1, <2>2 DEF TableTypes, PoolTypes, LiveInv, CopiesOwn, Copying
  <2>4. ASSUME NEW n \in Numbers, nums'[p][n] # NoNum PROVE nums'[p][n].rec = p /\ nums'[p][n].key = p
    <3>1. Known(n) /\ db.owner[n] \in Users
      BY <1>1, <2>1, <2>2, <2>4 DEF TableTypes, DbTypes
    <3>2. nums'[p][n] = [user |-> db.owner[n], rec |-> users[p][db.owner[n]].rec, key |-> p]
      BY <1>1, <2>1, <2>2, <3>1 DEF TableTypes
    <3> QED BY <2>3, <3>1, <3>2 DEF UsersOwn
  <2>5. CopiesOwn'
    BY <1>0, <2>2, <2>3, <2>4 DEF CopiesOwn, Copying, Switching, UsersOwn, NumsOwn
  <2> HIDE DEF p
  <2> QED BY <1>3, <2>1, <2>2, <2>3, <2>5 DEF LiveInv, UsersOwn, NumsOwn, Together
(* A pointer is redirected, and no command has anything in hand.            *)
<1>9. CASE SwitchPool(r) \/ SwitchUser(r) \/ SwitchNum(r)
  <2>1. pc[r] \in Switching /\ pc[r] \in Copying /\ UNCHANGED <<users, nums, new>>
    BY <1>9 DEF SwitchPool, SwitchUser, SwitchNum, Switching, Copying, tables, reloader
  <2>2. UsersOwn(p) /\ NumsOwn(p)
    BY <2>1 DEF LiveInv, CopiesOwn
  <2>3. HoldsOwn'
    BY <1>2, <2>1 DEF Apart, HoldsOwn, NoHold
  <2>4. CopiesOwn'
    BY <1>0, <2>1, <2>2 DEF CopiesOwn, Copying, Switching, UsersOwn, NumsOwn
  <2>5. CASE SwitchPool(r)
    <3>1. UNCHANGED <<huser, hnum>> /\ pc'[r] = "switchuser"
      BY <1>1, <2>5 DEF SwitchPool, Goto, LabelTypes
    <3> QED BY <2>1, <2>3, <2>4, <3>1 DEF LiveInv, UsersOwn, NumsOwn, Together
  <2>6. CASE SwitchUser(r)
    <3>1. huser' = p /\ UNCHANGED hnum /\ pc'[r] = "switchnum"
      BY <1>1, <2>6 DEF SwitchUser, Goto, LabelTypes
    <3> HIDE DEF p
    <3> QED BY <2>1, <2>2, <2>3, <2>4, <3>1 DEF LiveInv, UsersOwn, NumsOwn, Together
  <2>7. CASE SwitchNum(r)
    <3>1. hnum' = p /\ huser' = p /\ hpool' = p
      BY <1>1, <2>7 DEF SwitchNum, SwitchInv, Filling
    <3> HIDE DEF p
    <3> QED BY <2>1, <2>2, <2>3, <2>4, <3>1 DEF LiveInv, UsersOwn, NumsOwn, Together
  <2> QED BY <1>9, <2>5, <2>6, <2>7
<1> QED BY <1>6, <1>7, <1>8, <1>9 DEF ReloadStep

LEMMA LiveStep ==
    ASSUME PoolInv, SlotInv, LiveInv, Apart, Apart', [Next]_vars, OneReload, OneReload'
    PROVE  LiveInv'
<1>1. TypeInv /\ \A v \in Consoles : v \in Workers
  BY DEF PoolInv, Workers
<1>2. CASE \/ UNCHANGED vars \/ Tick \/ \E j \in late : LateStatement(j)
  <2>1. UNCHANGED <<users, nums, hpool, huser, hnum, new, pc, hold>>
    BY <1>2 DEF vars, Tick, LateStatement, tables, handle, worker, reloader
  <2>2. HoldsOwn'
    BY <2>1 DEF LiveInv, HoldsOwn
  <2> QED BY <2>1, <2>2, LiveKept
<1>3. ASSUME NEW t \in Callers, CallStep(t) PROVE LiveInv'
  <2>1. t \in Workers /\ t \notin Consoles /\ \A v \in Reloaders : v \in Threads \ {t}
    BY ThreadsAssumption DEF Workers, Threads
  <2>2. UNCHANGED <<hpool, huser, hnum, new>> /\ (\A v \in Consoles : hold'[v] = hold[v])
        /\ \A v \in Reloaders : pc'[v] = pc[v]
    BY <1>1, <1>3, <2>1, WorkersKeepReload DEF Reloading
  <2>3. HoldsOwn'
    BY <2>2 DEF LiveInv, HoldsOwn
  <2> QED BY <1>1, <1>3, <2>2, <2>3, CallsLeave, LiveKept
<1>4. ASSUME NEW t \in Consoles, CommandStep(t) PROVE LiveInv'
  BY <1>4, LiveCommand
<1>5. ASSUME NEW r \in Reloaders, ReloadStep(r) PROVE LiveInv'
  BY <1>1, <1>5, LiveReload, ReloadsAlone, TypeParts DEF TypeInv
<1> QED BY <1>2, <1>3, <1>4, <1>5 DEF Next

(* The only way for an entry to be left in a pool that is destroyed is a    *)
(* command that has something in hand while a reload redirects the three    *)
(* pointers: otherwise each entry is in the pool of its table, or goes with *)
(* it (user.cpp 125-171, 187-196; data.cpp 27-250).                         *)
THEOREM OnlyRedirectionsMatter ==
    ASSUME MaxLoad + MaxOp < Gap
    PROVE  Spec /\ []ChecksApart /\ []Apart => []EntriesLive
<1>1. Init => PoolInv /\ SlotInv /\ OneReload
  BY InitData, InitOneReload DEF DataInv
<1>2. PoolInv /\ SlotInv /\ OneReload /\ ChecksApart' /\ [Next]_vars => PoolInv' /\ SlotInv' /\ OneReload'
  BY PoolInvStep, SlotStep DEF PoolInv
<1>3. PoolInv /\ SlotInv /\ LiveInv /\ Apart /\ Apart' /\ OneReload /\ OneReload' /\ [Next]_vars => LiveInv'
  BY LiveStep
<1>4. PoolInv /\ LiveInv => EntriesLive
  BY DEF PoolInv, ValidInv, LiveInv, UsersOwn, NumsOwn, EntriesLive
<1> QED BY <1>1, <1>2, <1>3, <1>4, InitLive, PTL DEF Spec

(* Then every entry of every pool is in the pool of its table, and every    *)
(* account in hand was found in its own pool or made for it.                *)
AllOwn == \A p \in Pools : UsersOwn(p) /\ NumsOwn(p)
AtHome == \A t \in Workers : hold[t].rec \in {None, hold[t].home}

LEMMA InitOwn == Init => AllOwn /\ AtHome
BY DEF Init, AllOwn, AtHome, UsersOwn, NumsOwn, Empty, NoHold

LEMMA AllOwnStep ==
    ASSUME PoolInv, LiveInv, Apart, AllOwn, [Next]_vars
    PROVE  AllOwn'
<1>1. /\ TypeInv /\ PoolTypes /\ TableTypes /\ LabelInv /\ WorkerTypes /\ JobInv
      /\ None \notin Pools /\ Pointers = Pools \union {None}
  BY TypeParts DEF PoolInv, TypeInv, Pools, Pointers, None
<1> USE DEF AllOwn, UsersOwn, NumsOwn
<1>2. CASE UNCHANGED <<users, nums>>
  BY <1>2
<1>3. ASSUME NEW t \in Workers, Put(t) PROVE AllOwn'
  <2> DEFINE h == hold[t]
  <2> DEFINE j == job[t]
  <2>1. t \in Consoles
    BY <1>1, <1>3 DEF Put, LabelInv, CallerLabels, Workers
  <2>2. /\ pc[t] = "put" /\ j \in Jobs /\ j.kind # "status" /\ h.table \in Pools
        /\ (j.kind # "num_del" => h.rec # None /\ h.key # None)
    BY <1>1, <1>3, <2>1 DEF Put, JobInv, ConsoleJob, WorkerTypes, Holding
  <2>3. hpool = huser /\ huser = hnum
    BY <1>1, <2>1, <2>2 DEF Apart, LiveInv, Together, Switching, NoHold
  <2>4. /\ h.table = hpool /\ (j.kind # "num_del" => h.rec = hpool /\ h.key = hpool)
        /\ j.user \in Users /\ j.num \in Numbers /\ j.kind \in {"create", "num_add", "num_del"}
    BY <1>1, <2>1, <2>2, DataAssumption DEF LiveInv, HoldsOwn, Jobs, CommandKinds
  <2>5. CASE j.kind = "create"
    <3>1. users' = [users EXCEPT ![hpool][j.user] = [rec |-> hpool, key |-> hpool]] /\ UNCHANGED nums
      BY <1>3, <2>4, <2>5 DEF Put
    <3> QED BY <1>1, <2>4, <3>1 DEF PoolTypes, TableTypes
  <2>6. CASE j.kind = "num_add"
    <3>1. nums' = [nums EXCEPT ![hpool][j.num] = [user |-> j.user, rec |-> hpool, key |-> hpool]] /\ UNCHANGED users
      BY <1>3, <2>4, <2>6 DEF Put
    <3> QED BY <1>1, <2>4, <3>1 DEF PoolTypes, TableTypes
  <2>7. CASE j.kind = "num_del"
    <3>1. nums' = [nums EXCEPT ![hpool][j.num] = NoNum] /\ UNCHANGED users
      BY <1>3, <2>4, <2>7 DEF Put
    <3> QED BY <1>1, <2>4, <3>1 DEF PoolTypes, TableTypes
  <2> QED BY <2>4, <2>5, <2>6, <2>7
<1>4. ASSUME NEW r \in Reloaders, LoadUsers(r) \/ LoadNums(r) PROVE AllOwn'
  <2> DEFINE p == new[r]
  <2>1. p \in Pools /\ \A q \in Pools : q # p => users'[q] = users[q] /\ nums'[q] = nums[q]
    BY <1>1, <1>4 DEF LoadUsers, LoadNums, PoolTypes, TableTypes, LabelInv, Filling
  <2>2. CASE LoadUsers(r)
    <3>1. users'[p] = Loaded(p) /\ UNCHANGED nums
      BY <1>1, <2>1, <2>2 DEF LoadUsers, TableTypes
    <3> HIDE DEF p
    <3>2. \A u \in Users : users'[p][u] # NoUser => users'[p][u].rec = p /\ users'[p][u].key = p
      BY <3>1 DEF Loaded
    <3> QED BY <2>1, <3>1, <3>2
  <2>3. CASE LoadNums(r)
    <3>1. /\ UNCHANGED users
          /\ nums'[p] = [n \in Numbers |->
                 IF db.owner[n] # NULL /\ users[p][db.owner[n]] # NoUser
                   THEN [user |-> db.owner[n], rec |-> users[p][db.owner[n]].rec, key |-> p]
                   ELSE NoNum]
      BY <1>1, <2>1, <2>3 DEF LoadNums, TableTypes
    <3>2. db.owner \in [Numbers -> Users \union {NULL}]
      BY TypeParts, <1>1 DEF TypeInv, DbTypes
    <3> HIDE DEF p
    <3>3. \A n \in Numbers : nums'[p][n] # NoNum => nums'[p][n].rec = p /\ nums'[p][n].key = p
      BY <2>1, <3>1, <3>2
    <3> QED BY <2>1, <3>1, <3>3
  <2> QED BY <1>4, <2>2, <2>3
<1>5. ASSUME NEW t \in Workers, Write(t) PROVE UNCHANGED <<users, nums>>
  BY <1>5 DEF Write
<1> QED BY <1>2, <1>3, <1>4, <1>5, OthersKeepTables DEF TableChange

LEMMA AtHomeStep ==
    ASSUME PoolInv, AllOwn, AtHome, [Next]_vars
    PROVE  AtHome'
<1>1. /\ TypeInv /\ WorkerTypes /\ JobInv /\ LabelInv /\ Pointers = Pools \union {None}
      /\ \A t \in Workers : WorkerOK(t)
  BY TypeParts, WorkerPartsOK DEF PoolInv, TypeInv, Pools, Pointers, None
<1>2. ASSUME NEW t \in Workers, Own(t), hold'[t].rec \in {None, hold'[t].home} PROVE AtHome'
  BY <1>1, <1>2 DEF AtHome, Own, WorkerTypes
<1>3. CASE hold' = hold
  BY <1>3 DEF AtHome
<1>4. ASSUME NEW t \in Workers, CallStep(t) \/ CommandStep(t)
      PROVE  hold' = hold \/ hold'[t].rec \in {None, hold'[t].home}
  <2>1. CASE hold' = [hold EXCEPT ![t] = NoHold]
    BY <1>1, <2>1 DEF WorkerTypes, NoHold
  <2>2. ASSUME NEW e, e.rec = hold[t].table, hold' = [hold EXCEPT ![t] = Found(t, e)]
        PROVE  hold'[t].rec \in {None, hold'[t].home}
    BY <1>1, <2>2 DEF WorkerTypes, Found, NoHold
  <2>3. CASE FindNum(t)
    <3> DEFINE e == nums[hold[t].table][job[t].num]
    <3>1. hold[t].table \in Pools /\ job[t].num \in Numbers
      BY <1>1, <2>3 DEF FindNum, WorkerTypes, Holding, JobInv, CallerJob, LabelInv, ConsoleLabels, Workers
    <3>2. e # NoNum => e.rec = hold[t].table
      BY <3>1 DEF AllOwn, NumsOwn
    <3>3. hold' = [hold EXCEPT ![t] = NoHold] \/ (e # NoNum /\ hold' = [hold EXCEPT ![t] = Found(t, e)])
      BY <2>3 DEF FindNum, Return
    <3> HIDE DEF e
    <3> QED BY <2>1, <2>2, <3>2, <3>3
  <2>4. CASE FindUser(t)
    <3> DEFINE e == users[hold[t].table][job[t].user]
    <3>1. hold[t].table \in Pools /\ job[t].user \in Users
      BY <1>1, <2>4 DEF FindUser, WorkerTypes, Holding, JobInv, CallerJob, ConsoleJob, Jobs, Workers
    <3>2. e # NoUser => e.rec = hold[t].table
      BY <3>1 DEF AllOwn, UsersOwn
    <3>3. hold' = [hold EXCEPT ![t] = NoHold] \/ (e # NoUser /\ hold' = [hold EXCEPT ![t] = Found(t, e)])
      BY <2>4 DEF FindUser, Return
    <3> HIDE DEF e
    <3> QED BY <2>1, <2>2, <3>2, <3>3
  <2>5. CASE ReadUser(t) \/ ReadNum(t) \/ Alloc(t)
    <3>1. CASE ReadUser(t) \/ ReadNum(t)
      BY <1>1, <3>1 DEF ReadUser, ReadNum, WorkerTypes, NoHold
    <3>2. CASE Alloc(t)
      BY <1>1, <3>2 DEF Alloc, WorkerTypes, NoHold
    <3> QED BY <2>5, <3>1, <3>2
  <2>6. CASE ReadPut(t)
    BY <1>1, <2>6 DEF ReadPut, WorkerTypes, AtHome
  <2>7. CASE \/ BeginCall(t) \/ BeginCommand(t) \/ QuerySucceeds(t) \/ QueryFails(t)
             \/ Copy(t) \/ Write(t) \/ Put(t)
    BY <2>1, <2>7 DEF BeginCall, BeginCommand, QuerySucceeds, QueryFails, Copy, Write, Put, Return, worker
  <2> QED BY <1>4, <2>3, <2>4, <2>5, <2>6, <2>7 DEF CallStep, CommandStep, TableStep
<1> QED BY <1>1, <1>2, <1>3, <1>4, OwnMoves DEF Workers

(* Then nobody works in a destroyed pool at all: each account that a call   *)
(* copies or charges, and that a command changes or enters, is in a pool    *)
(* that is there, whenever it took the pointer to it (user.cpp 405, 477,    *)
(* 511-516, 536).                                                           *)
AccountsLive == \A t \in Workers : hold[t].rec # None => Valid(hold[t].rec)

THEOREM AccountsInHandLive ==
    ASSUME MaxLoad + MaxOp < Gap
    PROVE  Spec /\ []ChecksApart /\ []Apart => [](PoolsInUseLive /\ AccountsLive)
<1> DEFINE I == PoolInv /\ SlotInv /\ OneReload
<1> DEFINE L == LiveInv /\ AllOwn /\ AtHome
<1>1. Init => I /\ L
  BY InitData, InitOneReload, InitLive, InitOwn DEF DataInv
<1>2. I /\ ChecksApart' /\ [Next]_vars => I'
  BY PoolInvStep, SlotStep DEF PoolInv
<1>3. I /\ I' /\ L /\ Apart /\ Apart' /\ [Next]_vars => L'
  BY LiveStep, AllOwnStep, AtHomeStep
<1>4. I /\ L => PoolsInUseLive /\ AccountsLive
  <2> SUFFICES ASSUME I, L PROVE PoolsInUseLive /\ AccountsLive
    OBVIOUS
  <2>1. PoolsInUseLive
    BY HoldsValid
  <2>2. \A t \in Workers : hold[t].rec # None => hold[t].rec \in Pools /\ HasInHand(t, hold[t].rec)
    BY TypeParts DEF PoolInv, TypeInv, WorkerTypes, AtHome, HasInHand, Pools, Pointers, None
  <2> QED BY <2>1, <2>2 DEF AccountsLive, PoolsInUseLive
<1> QED BY <1>1, <1>2, <1>3, <1>4, PTL DEF Spec
=============================================================================
