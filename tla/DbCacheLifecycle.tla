-------------------------- MODULE DbCacheLifecycle --------------------------
(***************************************************************************)
(* Loading and unloading of mod_as_dbcache (mod_as_dbcache_queue_init and  *)
(* mod_as_dbcache_queue_uninit) while other threads are inside a query.    *)
(*                                                                         *)
(* The host keeps the users of a console away from a module that it        *)
(* unloads, but not mod_blacklist_manage, which is linked with this        *)
(* library and whose commands and reloads call mod_as_dbcache_query.  What *)
(* stands between them and freed memory is isinit, the null pointers and   *)
(* the BUSY flags that uninit leaves behind.                               *)
(*                                                                         *)
(* All queues and the mutex are allocated from one pool, made by each      *)
(* load.  A pointer is the load that set it, Null before; what it points   *)
(* to exists while the pool of that load does.  A use of anything else     *)
(* ends the process, and "crash" says whose it was.  The exchange between  *)
(* a query and its listener is in DbCacheQueue; here it is cut down to     *)
(* what reads a pointer, tests isinit or takes an item from a queue.       *)
(***************************************************************************)
EXTENDS Integers, Sequences, FiniteSets

CONSTANTS
    Callers,        \* threads of mod_blacklist_manage that make queries
    NMain,          \* MOD_AS_DBCACHE_MAIN_QUEUE_NUMBER
    NResp,          \* MOD_AS_DBCACHE_RESP_QUEUE_NUMBER
    MainSize,       \* the capacity of a main queue, with the overflow
    MaxTries,       \* COUNT_GET_RESP_QUEUE
    MaxQueries,     \* bound: queries of each caller
    MaxLoads,       \* bound: loads of the module
    MaxAlive        \* bound: keep-alives

ASSUME CallersAssumption == IsFiniteSet(Callers)
ASSUME SizesAssumption ==
    /\ NMain \in Nat \ {0} /\ NResp \in Nat \ {0} /\ MainSize \in Nat \ {0} /\ MaxTries \in Nat \ {0}
    /\ MaxQueries \in Nat /\ MaxLoads \in Nat /\ MaxAlive \in Nat

Listeners == 0 .. NMain - 1
RespQueues == 0 .. NResp - 1
Loads == 1 .. MaxLoads
Null == 0
NoSlot == -1

VARIABLES
    isinit,     \* isinit
    pool,       \* pmod_as_dbcache_queue_pool: the load whose pool exists, or Null
    mutex,      \* pmod_as_dbcache_queue_mutex_resp
    loads,      \* how many loads were begun
    host, i,    \* where init or uninit is, and its loop
    flag, respq,    \* mod_as_dbcache_queue_resp[r]: flag and pqueue
    answers,    \* the callers whose answer is in their response queue
    mainq, items,   \* mod_as_dbcache_queue_main[l].pqueue, and what is in it
    lpc, job,   \* where each listener is, and what it works on
    tpc, target,    \* where the keep-alive task of each load is, and the queue it visits
    alive,      \* how many keep-alives were sent
    pc, made, tries, slot, to,  \* each caller: where it is, how many queries it has made,
                \* nCount, handler->respqueue, data->mainqueue
    born, seen, \* history: the load in which a caller, a task last found isinit set
    behind,     \* history: the callers whose request is behind the NULL of an unload
    crash       \* who has used what does not exist

hostVars == <<isinit, pool, mutex, loads, host, i>>
respVars == <<flag, respq, answers>>
mainVars == <<mainq, items>>
listenerVars == <<lpc, job>>
taskVars == <<tpc, target, alive, seen>>
callerVars == <<pc, made, tries, slot, to, born>>
vars == <<hostVars, respVars, mainVars, listenerVars, taskVars, callerVars, behind, crash>>

Exists(p) == p # Null /\ p = pool
NoCrash == [by |-> "none", since |-> 0]
Crash(who, load) == crash' = [by |-> who, since |-> load]

Request(c) == <<"request", c, made[c], slot[c]>>
KeepAlive == <<"keepalive">>
Stop == <<"stop">>                    \* the NULL that ends a listener

Init ==
    /\ isinit = FALSE /\ pool = Null /\ mutex = Null /\ loads = 0 /\ host = "unloaded" /\ i = 0
    /\ flag = [r \in RespQueues |-> "IDLE"] /\ respq = [r \in RespQueues |-> Null] /\ answers = {}
    /\ mainq = [l \in Listeners |-> Null] /\ items = [l \in Listeners |-> <<>>]
    /\ lpc = [l \in Listeners |-> "none"] /\ job = [l \in Listeners |-> Stop]
    /\ tpc = [n \in Loads |-> "none"] /\ target = [n \in Loads |-> 0] /\ alive = 0 /\ seen = [n \in Loads |-> 0]
    /\ pc = [c \in Callers |-> "idle"] /\ made = [c \in Callers |-> 0] /\ tries = [c \in Callers |-> 0]
    /\ slot = [c \in Callers |-> NoSlot] /\ to = [c \in Callers |-> 0] /\ born = [c \in Callers |-> 0]
    /\ behind = {} /\ crash = NoCrash
-----------------------------------------------------------------------------
(* The threads that are inside a queue of the pool when it is freed.        *)
Listening == {l \in Listeners : lpc[l] \in {"pop", "work"}}
Waiting == {c \in Callers : pc[c] = "wait"}

FreePool ==
    /\ pool' = Null
    /\ IF Listening # {} THEN Crash("listener", loads)
       ELSE IF Waiting # {} THEN \E c \in Waiting : Crash("query", born[c])
       ELSE UNCHANGED crash

unchangedByHost == <<answers, job, target, alive, seen, callerVars, behind>>

(* mod_as_dbcache_queue_init.  It sets isinit before anything else.         *)
BeginInit ==
    /\ host = "unloaded" /\ ~isinit /\ loads < MaxLoads
    /\ isinit' = TRUE /\ loads' = loads + 1
    /\ host' = "pool"
    /\ UNCHANGED <<pool, mutex, i, flag, respq, mainVars, lpc, tpc, unchangedByHost, crash>>

MakePool ==
    /\ host = "pool"
    /\ pool' = loads /\ host' = "mutex"
    /\ UNCHANGED <<isinit, mutex, loads, i, flag, respq, mainVars, lpc, tpc, unchangedByHost, crash>>

MakeMutex ==
    /\ host = "mutex"
    /\ mutex' = pool
    /\ host' = "resp" /\ i' = 0
    /\ UNCHANGED <<isinit, pool, loads, flag, respq, mainVars, lpc, tpc, unchangedByHost, crash>>

MakeResp ==
    /\ host = "resp"
    /\ flag' = [flag EXCEPT ![i] = "IDLE"] /\ respq' = [respq EXCEPT ![i] = pool]
    /\ IF i + 1 < NResp THEN i' = i + 1 /\ UNCHANGED host ELSE i' = 0 /\ host' = "main"
    /\ UNCHANGED <<isinit, pool, mutex, loads, mainVars, lpc, tpc, unchangedByHost, crash>>

MakeMain ==
    /\ host = "main"
    /\ mainq' = [mainq EXCEPT ![i] = pool] /\ items' = [items EXCEPT ![i] = <<>>]
    /\ host' = "thread"
    /\ UNCHANGED <<isinit, pool, mutex, loads, i, flag, respq, lpc, tpc, unchangedByHost, crash>>

(* A loop that runs once too often. *)
StartListenerMutant ==
    /\ host = "thread"
    /\ lpc' = [lpc EXCEPT ![i] = "pop"]
    /\ IF i < NMain
         THEN i' = i + 1 /\ host' = "main" /\ UNCHANGED tpc
         ELSE i' = 0 /\ host' = "up" /\ tpc' = [tpc EXCEPT ![loads] = "sleep"]
    /\ UNCHANGED <<isinit, pool, mutex, loads, flag, respq, mainVars, unchangedByHost, crash>>

(* Connected to redis and mysql; the last listener is followed by the task. *)
StartListener ==
    /\ host = "thread"
    /\ lpc' = [lpc EXCEPT ![i] = "pop"]
    /\ IF i + 1 < NMain
         THEN i' = i + 1 /\ host' = "main" /\ UNCHANGED tpc
         ELSE i' = 0 /\ host' = "up" /\ tpc' = [tpc EXCEPT ![loads] = "sleep"]
    /\ UNCHANGED <<isinit, pool, mutex, loads, flag, respq, mainVars, unchangedByHost, crash>>

(* goto_init_failed: the pool is freed, and only then isinit is taken back. *)
(* No pointer is, and no listener is stopped.                               *)
InitFails ==
    /\ host \in {"pool", "mutex", "resp", "main", "thread"}
    /\ FreePool
    /\ host' = "failed" /\ i' = 0
    /\ UNCHANGED <<isinit, mutex, loads, flag, respq, mainVars, lpc, tpc, unchangedByHost>>

InitFailed ==
    /\ host = "failed"
    /\ isinit' = FALSE /\ host' = "unloaded"
    /\ UNCHANGED <<pool, mutex, loads, i, flag, respq, mainVars, lpc, tpc, unchangedByHost, crash>>

(* mod_as_dbcache_queue_uninit.  The scheduler does not delete a task that  *)
(* was added with SSHF_NO_DEL.                                              *)
BeginUninit ==
    /\ host = "up" /\ isinit
    /\ isinit' = FALSE
    /\ host' = "push" /\ i' = 0
    /\ UNCHANGED <<pool, mutex, loads, flag, respq, mainVars, lpc, tpc, unchangedByHost, crash>>

(* An uninit that pushes the NULLs and joins nobody. *)
PushNullMutant ==
    /\ host = "push" /\ Len(items[i]) < MainSize
    /\ items' = [items EXCEPT ![i] = Append(@, Stop)]
    /\ IF i + 1 < NMain THEN i' = i + 1 /\ UNCHANGED host ELSE i' = 0 /\ host' = "clear"
    /\ UNCHANGED <<isinit, pool, mutex, loads, flag, respq, mainq, lpc, tpc, unchangedByHost, crash>>

PushNull ==
    /\ host = "push" /\ Len(items[i]) < MainSize
    /\ items' = [items EXCEPT ![i] = Append(@, Stop)]
    /\ IF i + 1 < NMain THEN i' = i + 1 /\ UNCHANGED host ELSE i' = 0 /\ host' = "join"
    /\ UNCHANGED <<isinit, pool, mutex, loads, flag, respq, mainq, lpc, tpc, unchangedByHost, crash>>

Join ==
    /\ host = "join" /\ lpc[i] = "stopped"
    /\ IF i + 1 < NMain THEN i' = i + 1 /\ UNCHANGED host ELSE i' = 0 /\ host' = "clear"
    /\ UNCHANGED <<isinit, pool, mutex, loads, flag, respq, mainVars, lpc, tpc, unchangedByHost, crash>>

ClearMain ==
    /\ host = "clear"
    /\ mainq' = [mainq EXCEPT ![i] = Null]
    /\ IF i + 1 < NMain THEN i' = i + 1 /\ UNCHANGED host ELSE i' = 0 /\ host' = "busy"
    /\ UNCHANGED <<isinit, pool, mutex, loads, flag, respq, items, lpc, tpc, unchangedByHost, crash>>

ClearResp ==
    /\ host = "busy"
    /\ flag' = [flag EXCEPT ![i] = "BUSY"] /\ respq' = [respq EXCEPT ![i] = Null]
    /\ IF i + 1 < NResp THEN i' = i + 1 /\ UNCHANGED host ELSE i' = 0 /\ host' = "unlock"
    /\ UNCHANGED <<isinit, pool, mutex, loads, mainVars, lpc, tpc, unchangedByHost, crash>>

DestroyMutex ==
    /\ host = "unlock"
    /\ mutex' = Null /\ host' = "free"
    /\ UNCHANGED <<isinit, pool, loads, i, flag, respq, mainVars, lpc, tpc, unchangedByHost, crash>>

DestroyPool ==
    /\ host = "free"
    /\ FreePool
    /\ host' = "unloaded"
    /\ UNCHANGED <<isinit, mutex, loads, i, flag, respq, mainVars, lpc, tpc, unchangedByHost>>
-----------------------------------------------------------------------------
(* A query: mod_as_dbcache_queue_query, with every pointer it reads.        *)

Goto(c, label) == pc' = [pc EXCEPT ![c] = label]

BeginQuery(c) ==
    /\ pc[c] = "idle" /\ made[c] < MaxQueries
    /\ made' = [made EXCEPT ![c] = @ + 1] /\ tries' = [tries EXCEPT ![c] = 0]
    /\ IF isinit THEN Goto(c, "get") /\ born' = [born EXCEPT ![c] = loads] ELSE UNCHANGED <<pc, born>>
    /\ UNCHANGED <<hostVars, respVars, mainVars, listenerVars, taskVars, slot, to, behind, crash>>

unchangedByCaller == <<hostVars, respq, mainq, listenerVars, taskVars, made>>

(* get_resp_queue: without a mutex, or with a pool that is busy, it returns *)
(* NULL, and get_handler tries again or gives up.  The lock, the search and *)
(* the unlock are one step here.                                            *)
GetNothing(c) ==
    /\ pc[c] = "get"
    /\ mutex = Null \/ (Exists(mutex) /\ \A r \in RespQueues : flag[r] = "BUSY")
    /\ IF tries[c] + 1 < MaxTries
         THEN tries' = [tries EXCEPT ![c] = @ + 1] /\ UNCHANGED <<pc, born>>
         ELSE tries' = [tries EXCEPT ![c] = 0] /\ Goto(c, "idle") /\ born' = [born EXCEPT ![c] = 0]
    /\ UNCHANGED <<unchangedByCaller, flag, answers, items, slot, to, behind, crash>>

GetResp(c) ==
    /\ pc[c] = "get" /\ Exists(mutex)
    /\ \E r \in RespQueues :
        /\ flag[r] = "IDLE"
        /\ flag' = [flag EXCEPT ![r] = "BUSY"] /\ slot' = [slot EXCEPT ![c] = r]
    /\ tries' = [tries EXCEPT ![c] = 0]
    /\ Goto(c, "choose")
    /\ UNCHANGED <<unchangedByCaller, born, answers, items, to, behind, crash>>

GetCrash(c) ==
    /\ pc[c] = "get" /\ mutex # Null /\ ~Exists(mutex)
    /\ Crash("query", born[c])
    /\ UNCHANGED <<unchangedByCaller, born, pc, flag, answers, items, tries, slot, to, behind>>

(* get_main_queue reads the sizes one by one while others push and pop:     *)
(* any queue may seem the shortest.                                         *)
Choose(c) ==
    /\ pc[c] = "choose"
    /\ \E l \in Listeners : Exists(mainq[l]) /\ to' = [to EXCEPT ![c] = l]
    /\ Goto(c, "push")
    /\ UNCHANGED <<unchangedByCaller, born, flag, answers, items, tries, slot, behind, crash>>

(* All are full, or there is no memory.                                     *)
ChooseNothing(c) ==
    /\ pc[c] = "choose" /\ Goto(c, "release")
    /\ UNCHANGED <<unchangedByCaller, born, flag, answers, items, tries, slot, to, behind, crash>>

ChooseCrash(c) ==
    /\ pc[c] = "choose"
    /\ \E l \in Listeners : ~Exists(mainq[l])
    /\ Crash("query", born[c])
    /\ UNCHANGED <<unchangedByCaller, born, pc, flag, answers, items, tries, slot, to, behind>>

(* The listener of this queue has ended, or will before it comes here.      *)
Ending(l) == lpc[l] = "stopped" \/ \E k \in 1 .. Len(items[l]) : items[l][k] = Stop

Send(c) ==
    /\ pc[c] = "push" /\ Exists(mainq[to[c]]) /\ Len(items[to[c]]) < MainSize
    /\ items' = [items EXCEPT ![to[c]] = Append(@, Request(c))]
    /\ behind' = IF Ending(to[c]) THEN behind \union {c} ELSE behind
    /\ Goto(c, "recv")
    /\ UNCHANGED <<unchangedByCaller, born, flag, answers, tries, slot, to, crash>>

SendCrash(c) ==
    /\ pc[c] = "push" /\ ~Exists(mainq[to[c]])
    /\ Crash("query", born[c])
    /\ UNCHANGED <<unchangedByCaller, born, pc, flag, answers, items, tries, slot, to, behind>>

(* recv_wait reads the response queue of its slot and waits there.          *)
Wait(c) ==
    /\ pc[c] = "recv"
    /\ IF Exists(respq[slot[c]]) THEN Goto(c, "wait") /\ UNCHANGED crash ELSE Crash("query", born[c]) /\ UNCHANGED pc
    /\ UNCHANGED <<unchangedByCaller, born, flag, answers, items, tries, slot, to, behind>>

(* An answer, or the timeout.                                               *)
Return(c) ==
    /\ pc[c] = "wait" /\ Goto(c, "release")
    /\ UNCHANGED <<unchangedByCaller, born, flag, answers, items, tries, slot, to, behind, crash>>

Release(c) ==
    /\ pc[c] = "release"
    /\ flag' = [flag EXCEPT ![slot[c]] = "IDLE"]
    /\ slot' = [slot EXCEPT ![c] = NoSlot] /\ born' = [born EXCEPT ![c] = 0] /\ to' = [to EXCEPT ![c] = 0]
    /\ answers' = answers \ {c} /\ behind' = behind \ {c}
    /\ Goto(c, "idle")
    /\ UNCHANGED <<unchangedByCaller, items, tries, crash>>
-----------------------------------------------------------------------------
(* A listener.                                                              *)

Listen(l, label, m) == lpc' = [lpc EXCEPT ![l] = label] /\ job' = [job EXCEPT ![l] = m]
unchangedByListener == <<hostVars, flag, respq, mainq, taskVars, callerVars, behind, crash>>

(* A listener that stops when the module is no longer up. *)
PopMutant(l) ==
    /\ lpc[l] = "pop" /\ items[l] # <<>>
    /\ items' = [items EXCEPT ![l] = Tail(@)]
    /\ IF Head(items[l]) = Stop \/ ~isinit THEN Listen(l, "stopped", Stop) ELSE Listen(l, "work", Head(items[l]))
    /\ UNCHANGED <<unchangedByListener, answers>>

(* A listener that gives the NULL back for the others. *)
PopRepeatsMutant(l) ==
    /\ lpc[l] = "pop" /\ items[l] # <<>>
    /\ IF Head(items[l]) = Stop
         THEN UNCHANGED <<items, lpc, job>>
         ELSE items' = [items EXCEPT ![l] = Tail(@)] /\ Listen(l, "work", Head(items[l]))
    /\ UNCHANGED <<unchangedByListener, answers>>

Pop(l) ==
    /\ lpc[l] = "pop" /\ items[l] # <<>>
    /\ items' = [items EXCEPT ![l] = Tail(@)]
    /\ IF Head(items[l]) = Stop THEN Listen(l, "stopped", Stop) ELSE Listen(l, "work", Head(items[l]))
    /\ UNCHANGED <<unchangedByListener, answers>>

(* The answer finds its caller, if that is still in the same query; there   *)
(* is room for it in the response queue.                                    *)
Asked(m) == {c \in Callers : pc[c] \in {"recv", "wait"} /\ m = Request(c)}

Work(l) ==
    /\ lpc[l] = "work"
    /\ answers' = answers \union Asked(job[l])
    /\ Listen(l, "pop", Stop)
    /\ UNCHANGED <<unchangedByListener, items>>
-----------------------------------------------------------------------------
(* task_keep_redis_alive, as added by load n.  Before each queue it looks   *)
(* at isinit, and returns without a next run if that is not set.            *)

unchangedByTask == <<hostVars, respVars, mainq, listenerVars, callerVars, behind>>

(* A task that is planned again whether isinit is set or not. *)
VisitMutant(n) ==
    /\ tpc[n] = "sleep" /\ isinit
    /\ tpc' = [tpc EXCEPT ![n] = "size"] /\ seen' = [seen EXCEPT ![n] = loads]
    /\ UNCHANGED <<unchangedByTask, items, target, alive, crash>>

Visit(n) ==
    /\ tpc[n] = "sleep"
    /\ IF isinit
         THEN tpc' = [tpc EXCEPT ![n] = "size"] /\ seen' = [seen EXCEPT ![n] = loads]
         ELSE tpc' = [tpc EXCEPT ![n] = "ended"] /\ UNCHANGED seen
    /\ UNCHANGED <<unchangedByTask, items, target, alive, crash>>

Sleep(n) ==
    /\ tpc' = [tpc EXCEPT ![n] = "sleep"]
    /\ target' = [target EXCEPT ![n] = 0] /\ seen' = [seen EXCEPT ![n] = 0]

(* The queue is empty and has been idle, or not.                            *)
FindIdle(n) ==
    /\ tpc[n] = "size" /\ alive < MaxAlive
    /\ \E l \in Listeners :
        /\ Exists(mainq[l]) /\ items[l] = <<>>
        /\ target' = [target EXCEPT ![n] = l]
    /\ tpc' = [tpc EXCEPT ![n] = "push"]
    /\ UNCHANGED <<unchangedByTask, items, alive, seen, crash>>

FindBusy(n) ==
    /\ tpc[n] = "size" /\ \E l \in Listeners : Exists(mainq[l])
    /\ Sleep(n)
    /\ UNCHANGED <<unchangedByTask, items, alive, crash>>

SendKeepAlive(n) ==
    /\ tpc[n] = "push" /\ Exists(mainq[target[n]]) /\ Len(items[target[n]]) < MainSize
    /\ items' = [items EXCEPT ![target[n]] = Append(@, KeepAlive)]
    /\ alive' = alive + 1
    /\ Sleep(n)
    /\ UNCHANGED <<unchangedByTask, crash>>

TaskCrash(n) ==
    /\ \/ tpc[n] = "size" /\ \E l \in Listeners : ~Exists(mainq[l])
       \/ tpc[n] = "push" /\ ~Exists(mainq[target[n]])
    /\ Crash("task", seen[n])
    /\ UNCHANGED <<unchangedByTask, items, taskVars>>
-----------------------------------------------------------------------------
HostStep ==
    \/ BeginInit \/ MakePool \/ MakeMutex \/ MakeResp \/ MakeMain \/ StartListener
    \/ InitFails \/ InitFailed
    \/ BeginUninit \/ PushNull \/ Join \/ ClearMain \/ ClearResp \/ DestroyMutex \/ DestroyPool

(* An uninit that has begun goes on.                                        *)
Unloading == PushNull \/ Join \/ ClearMain \/ ClearResp \/ DestroyMutex \/ DestroyPool

CallerStep(c) ==
    \/ BeginQuery(c) \/ GetNothing(c) \/ GetResp(c) \/ GetCrash(c)
    \/ Choose(c) \/ ChooseNothing(c) \/ ChooseCrash(c) \/ Send(c) \/ SendCrash(c)
    \/ Wait(c) \/ Return(c) \/ Release(c)

ListenerStep(l) == Pop(l) \/ Work(l)
TaskStep(n) == Visit(n) \/ FindIdle(n) \/ FindBusy(n) \/ SendKeepAlive(n) \/ TaskCrash(n)

Running ==
    \/ HostStep
    \/ \E c \in Callers : CallerStep(c)
    \/ \E l \in Listeners : ListenerStep(l)
    \/ \E n \in Loads : TaskStep(n)

(* The process has ended, or the bounds are reached.                        *)
Ended == crash # NoCrash /\ UNCHANGED vars
Idle ==
    /\ host = "unloaded" /\ loads = MaxLoads
    /\ \A c \in Callers : pc[c] = "idle" /\ made[c] = MaxQueries
    /\ \A n \in Loads : tpc[n] \in {"none", "ended"}
    /\ UNCHANGED vars

Next == (crash = NoCrash /\ Running) \/ Ended \/ Idle

Spec == Init /\ [][Next]_vars

(* The host goes on with an unload, the database answers, and the scheduler *)
(* runs the tasks it has.  Callers may do as they like.                     *)
Fairness ==
    /\ WF_vars(crash = NoCrash /\ Unloading)
    /\ \A l \in Listeners : WF_vars(crash = NoCrash /\ ListenerStep(l))
    /\ \A n \in Loads : WF_vars(crash = NoCrash /\ TaskStep(n))
FairSpec == Spec /\ Fairness
-----------------------------------------------------------------------------
(* Properties *)

HostLabels == {"unloaded", "pool", "mutex", "resp", "main", "thread", "failed", "up",
               "push", "join", "clear", "busy", "unlock", "free"}
Item == {KeepAlive, Stop} \union ({"request"} \X Callers \X (1 .. MaxQueries) \X RespQueues)

(* The variables have their types.                                          *)
HostTypeOK ==
    /\ isinit \in BOOLEAN /\ host \in HostLabels /\ i \in Listeners \union RespQueues
    /\ loads \in 0 .. MaxLoads /\ pool \in {Null, loads} /\ mutex \in Nat
QueueTypeOK ==
    /\ flag \in [RespQueues -> {"IDLE", "BUSY"}] /\ respq \in [RespQueues -> Nat]
    /\ mainq \in [Listeners -> Nat] /\ items \in [Listeners -> Seq(Item)]
ThreadTypeOK ==
    /\ lpc \in [Listeners -> {"none", "pop", "work", "stopped"}] /\ job \in [Listeners -> Item]
    /\ tpc \in [Loads -> {"none", "sleep", "size", "push", "ended"}] /\ target \in [Loads -> Listeners]
    /\ alive \in Nat /\ seen \in [Loads -> Nat]
CallerTypeOK ==
    /\ pc \in [Callers -> {"idle", "get", "choose", "push", "recv", "wait", "release"}]
    /\ made \in [Callers -> 0 .. MaxQueries] /\ tries \in [Callers -> Nat]
    /\ slot \in [Callers -> RespQueues \union {NoSlot}] /\ to \in [Callers -> Listeners]
    /\ born \in [Callers -> Nat]
    /\ answers \subseteq Callers /\ behind \subseteq Callers
CrashTypeOK == crash \in [by : {"none", "query", "task", "listener"}, since : Nat]
TypeOK == HostTypeOK /\ QueueTypeOK /\ ThreadTypeOK /\ CallerTypeOK /\ CrashTypeOK

(* While the module is up, and while an unload waits for the listeners,     *)
(* nothing that was begun in this load uses freed or missing memory; no     *)
(* listener does unless an init failed after it had started it.  What can   *)
(* go wrong is an init that is not finished or fails (queue.c 250, 366),    *)
(* and an unload that is past its joins (queue.c 405-435).                  *)
Standing == {"up", "push", "join"}
DeadUseExplained ==
    /\ crash.by \in {"query", "task"} /\ crash.since = loads => host \notin Standing
    /\ crash.by = "listener" => host = "failed"

(* When the listeners have been joined, each query that was queued before   *)
(* the NULL of its queue has its answer: an unload loses none of those that *)
(* came in time (queue.c 394-402).                                          *)
Joined == {"clear", "busy", "unlock", "free"}
Drained ==
    host \in Joined => \A c \in Callers :
        pc[c] = "wait" /\ born[c] = loads /\ c \notin behind => c \in answers

(* An unload ends, however many queries are still pushed, unless a use of   *)
(* freed memory ends the process first.                                     *)
UnloadReturns == host = "push" ~> host = "unloaded" \/ crash # NoCrash

(* Nobody deletes the keep-alive task, but once the module stays unloaded   *)
(* every task ends by itself (queue.c 199-202, 391).                        *)
TasksEnd ==
    <>[](host = "unloaded" /\ crash = NoCrash) => <>[](\A n \in Loads : tpc[n] \in {"none", "ended"})
=============================================================================
