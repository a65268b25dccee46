---------------------------- MODULE DbCacheQueue ----------------------------
(***************************************************************************)
(* The query service of mod_as_dbcache (mod_as_dbcache_queue.c), between a *)
(* successful mod_as_dbcache_queue_init and mod_as_dbcache_queue_uninit.   *)
(*                                                                         *)
(* A session thread (a caller) asks for a query with                       *)
(* mod_as_dbcache_queue_query.  It takes a response queue from a fixed     *)
(* pool, numbers the request from a global counter, picks the shortest     *)
(* main queue, pushes the request there and waits on its response queue,   *)
(* with a timeout, for an answer that carries its number.  One listener    *)
(* thread per main queue pops the requests, runs them on its own redis and *)
(* mysql connections, and pushes the request, now an answer, to the        *)
(* response queue it names.  A caller that times out gives its response    *)
(* queue back at once: the answer may still arrive there, and finds        *)
(* another holder or a later request of the same one.                      *)
(*                                                                         *)
(* Data that no property tells apart is left out: commands, rows, lengths  *)
(* and uuids.  No event of the repository sets iscache, so the answers of  *)
(* mysql are never copied to redis here either.                            *)
(***************************************************************************)
EXTENDS Integers, Sequences, FiniteSets

CONSTANTS
    Callers,        \* session threads that may be inside a query
    NMain,          \* MOD_AS_DBCACHE_MAIN_QUEUE_NUMBER: listeners, one queue each
    NResp,          \* MOD_AS_DBCACHE_RESP_QUEUE_NUMBER: response queues in the pool
    MainMax,        \* MOD_AS_DBCACHE_MAIN_QUEUE_MAX_SIZE
    MainOverFlow,   \* MOD_AS_DBCACHE_MAIN_QUEUE_OVER_FLOW
    RespMax,        \* MOD_AS_DBCACHE_RESP_QUEUE_MAX_SIZE
    RespOverFlow,   \* MOD_AS_DBCACHE_RESP_QUEUE_OVER_FLOW
    MaxTries,       \* COUNT_GET_RESP_QUEUE
    UseRedis,       \* g_as_use_redis
    EventTypes,     \* the event types the callers ask for
    MaxQueries      \* bound: how many queries each caller makes

RedisTypes == {"REDIS", "REDIS_MYSQL"}
CallerTypes == RedisTypes \union {"MYSQL", "MYSQL_INSERT_ID"}

ASSUME CallersAssumption == IsFiniteSet(Callers)
ASSUME SizesAssumption ==
    /\ NMain \in Nat \ {0} /\ NResp \in Nat \ {0} /\ MaxTries \in Nat \ {0}
    /\ MainMax \in Nat \ {0} /\ MainOverFlow \in Nat
    /\ RespMax \in Nat \ {0} /\ RespOverFlow \in Nat
    /\ MaxQueries \in Nat
ASSUME EventsAssumption == UseRedis \in BOOLEAN /\ EventTypes \subseteq CallerTypes

Listeners == 0 .. NMain - 1
RespQueues == 0 .. NResp - 1
None == -1                                 \* the NULL of a pointer to a queue

(* SWITCH_STATUS_SUCCESS, SWITCH_STATUS_FALSE, and SWITCH_STATUS_TIMEOUT or *)
(* APR_TIMEUP; "none" while a query is running.                             *)
Status == {"SUCCESS", "FALSE", "TIMEOUT"}

(* ST_DB_CACHE_QUEUE_RESP_DATA: a request, which becomes its own answer.    *)
(* "from" is ghost data that the code does not have: the caller and the     *)
(* ordinal of its query, that is, whose "result" pointer this carries.      *)
Ids == Callers \X (1 .. MaxQueries)
NoId == <<>>
Msg == [from : Ids \union {NoId}, rq : RespQueues \union {None}, seq : Nat,
        type : CallerTypes \union {"REDIS_KEEP_ALIVE"},
        resptype : {"ERROR", "REDIS", "MYSQL", "MYSQL_INSERT_ID"}, res : Status]
KeepAliveMsg == [from |-> NoId, rq |-> None, seq |-> 0, type |-> "REDIS_KEEP_ALIVE",
                 resptype |-> "ERROR", res |-> "FALSE"]

VARIABLES
    flag,       \* mod_as_dbcache_queue_resp[r].flag
    resp,       \* mod_as_dbcache_queue_resp[r].pqueue
    last,       \* nLastIndex, where the previous search of the pool ended
    pos,        \* nStartPos of the search in progress
    mutex,      \* the callers that hold pmod_as_dbcache_queue_mutex_resp
    counter,    \* mod_as_dbcache_queue_sequence
    mainq,      \* mod_as_dbcache_queue_main[l].pqueue
    ctx,        \* mod_as_dbcache_queue_main[l].pcontext: "ok" or with an err set
    pc,         \* where each caller is in mod_as_dbcache_queue_query
    query,      \* which query of its own each caller is in, or made last
    type,       \* event->type of that query
    tries,      \* nCount of mod_as_dbcache_queue_get_handler
    rq, seq,    \* handler->respqueue and handler->sequence
    scan,       \* i, minindex and minsize of mod_as_dbcache_queue_get_main_queue
    ret,        \* what the last query of each caller returned
    lpc, cur,   \* where each listener is, and the request it has popped
    katarget,   \* the queue the keep alive task has found empty and idle
    late        \* ghost: the queries whose timeout has elapsed

callerVars == <<pc, query, type, tries, rq, seq, scan, ret>>
poolVars == <<flag, last, pos, mutex>>
listenerVars == <<lpc, cur, ctx>>
vars == <<callerVars, poolVars, listenerVars, resp, mainq, counter, katarget, late>>

ScanRecord == [i : Listeners, minindex : Listeners, minsize : Nat]
NoScan == [i |-> 0, minindex |-> 0, minsize |-> 0]
Id(c) == <<c, query[c]>>

Init ==
    /\ flag = [r \in RespQueues |-> "IDLE"] /\ resp = [r \in RespQueues |-> <<>>]
    /\ last = 0 /\ pos = 0 /\ mutex = {} /\ counter = 0
    /\ mainq = [l \in Listeners |-> <<>>] /\ ctx = [l \in Listeners |-> "ok"]
    /\ pc = [c \in Callers |-> "idle"] /\ query = [c \in Callers |-> 0]
    /\ type = [c \in Callers |-> "MYSQL"] /\ tries = [c \in Callers |-> 0]
    /\ rq = [c \in Callers |-> None] /\ seq = [c \in Callers |-> 0]
    /\ scan = [c \in Callers |-> NoScan] /\ ret = [c \in Callers |-> "none"]
    /\ lpc = [l \in Listeners |-> "pop"] /\ cur = [l \in Listeners |-> KeepAliveMsg]
    /\ katarget = None /\ late = {}

-----------------------------------------------------------------------------
(* The caller: mod_as_dbcache_queue_query *)

(* A query of a redis type is refused at once when redis is not used. *)
BeginQuery(c) ==
    /\ pc[c] = "idle" /\ query[c] < MaxQueries
    /\ query' = [query EXCEPT ![c] = @ + 1]
    /\ tries' = [tries EXCEPT ![c] = 0]
    /\ \E t \in EventTypes :
        /\ type' = [type EXCEPT ![c] = t]
        /\ IF ~UseRedis /\ t \in RedisTypes
             THEN ret' = [ret EXCEPT ![c] = "FALSE"] /\ UNCHANGED pc
             ELSE ret' = [ret EXCEPT ![c] = "none"] /\ pc' = [pc EXCEPT ![c] = "lock"]
    /\ UNCHANGED <<rq, seq, scan, poolVars, listenerVars, resp, mainq, counter, katarget, late>>

(* A mutex that excludes nobody. *)
MutexFreeMutant == TRUE

(* mod_as_dbcache_queue_get_resp_queue searches the pool under the mutex,   *)
(* from the slot after nLastIndex round to nLastIndex itself.               *)
MutexFree == mutex = {}

LockResp(c) ==
    /\ pc[c] = "lock" /\ MutexFree
    /\ mutex' = {c} /\ pos' = last
    /\ tries' = [tries EXCEPT ![c] = @ + 1]
    /\ pc' = [pc EXCEPT ![c] = "scan"]
    /\ UNCHANGED <<query, type, rq, seq, scan, ret, flag, last, listenerVars, resp, mainq, counter, katarget, late>>

NextPos(p) == IF p + 1 < NResp THEN p + 1 ELSE 0

(* The turns of the do-while.  The flag is read here and written in         *)
(* TakeResp: only the holder of the mutex sets it to BUSY, but anybody may  *)
(* set it to IDLE meanwhile.                                                *)
ScanNext(c) ==
    /\ pc[c] = "scan" /\ flag[NextPos(pos)] = "BUSY" /\ NextPos(pos) # last
    /\ pos' = NextPos(pos)
    /\ UNCHANGED <<callerVars, flag, last, mutex, listenerVars, resp, mainq, counter, katarget, late>>

ScanFound(c) ==
    /\ pc[c] = "scan" /\ flag[NextPos(pos)] = "IDLE"
    /\ pos' = NextPos(pos)
    /\ pc' = [pc EXCEPT ![c] = "take"]
    /\ UNCHANGED <<query, type, tries, rq, seq, scan, ret, flag, last, mutex, listenerVars, resp, mainq, counter, katarget, late>>

(* The whole pool is busy: sleep and search again, or give up.              *)
ScanFailed(c) ==
    /\ pc[c] = "scan" /\ flag[NextPos(pos)] = "BUSY" /\ NextPos(pos) = last
    /\ pos' = last /\ mutex' = {}
    /\ IF tries[c] < MaxTries
         THEN pc' = [pc EXCEPT ![c] = "lock"] /\ UNCHANGED ret
         ELSE pc' = [pc EXCEPT ![c] = "idle"] /\ ret' = [ret EXCEPT ![c] = "FALSE"]
    /\ UNCHANGED <<query, type, tries, rq, seq, scan, flag, last, listenerVars, resp, mainq, counter, katarget, late>>

TakeResp(c) ==
    /\ pc[c] = "take"
    /\ flag' = [flag EXCEPT ![pos] = "BUSY"] /\ last' = pos /\ mutex' = {}
    /\ rq' = [rq EXCEPT ![c] = pos]
    /\ pc' = [pc EXCEPT ![c] = "seqread"]
    /\ UNCHANGED <<query, type, tries, seq, scan, ret, pos, listenerVars, resp, mainq, counter, katarget, late>>

(* handler->sequence = mod_as_dbcache_queue_sequence++, a read and a write  *)
(* of a plain int outside the mutex.                                        *)
SeqRead(c) ==
    /\ pc[c] = "seqread"
    /\ seq' = [seq EXCEPT ![c] = counter]
    /\ pc' = [pc EXCEPT ![c] = "seqwrite"]
    /\ UNCHANGED <<query, type, tries, rq, scan, ret, poolVars, listenerVars, resp, mainq, counter, katarget, late>>

SeqWrite(c) ==
    /\ pc[c] = "seqwrite"
    /\ counter' = seq[c] + 1
    /\ pc' = [pc EXCEPT ![c] = "respdata"]
    /\ UNCHANGED <<query, type, tries, rq, seq, scan, ret, poolVars, listenerVars, resp, mainq, katarget, late>>

(* mod_as_dbcache_queue_get_resp_data: the allocation may fail; then        *)
(* mod_as_dbcache_queue_get_main_queue reads the size of queue 0 ...        *)
FirstLook == [i |-> 0, minindex |-> 0, minsize |-> Len(mainq[0])]

GetRespData(c) ==
    /\ pc[c] = "respdata"
    /\ \/ /\ scan' = [scan EXCEPT ![c] = FirstLook]
          /\ pc' = [pc EXCEPT ![c] = "mainscan"] /\ UNCHANGED ret
       \/ /\ ret' = [ret EXCEPT ![c] = "FALSE"]
          /\ pc' = [pc EXCEPT ![c] = "release"] /\ UNCHANGED scan
    /\ UNCHANGED <<query, type, tries, rq, seq, poolVars, listenerVars, resp, mainq, counter, katarget, late>>

(* An index that runs past the last queue. *)
LookMutant(s) ==
    LET size == Len(mainq[s.i])
        shorter == size = 0 \/ size < s.minsize
    IN  [i |-> s.i + 1,
         minindex |-> IF shorter THEN s.i ELSE s.minindex,
         minsize |-> IF shorter THEN size ELSE s.minsize]

(* ... and then of each queue in turn, without a lock, up to the first      *)
(* empty one, and takes the shortest it saw if that was below MainMax.      *)
Look(s) ==
    LET size == Len(mainq[s.i])
        shorter == size = 0 \/ size < s.minsize
    IN  [i |-> IF s.i + 1 < NMain THEN s.i + 1 ELSE s.i,
         minindex |-> IF shorter THEN s.i ELSE s.minindex,
         minsize |-> IF shorter THEN size ELSE s.minsize]

LastLook(s) == Len(mainq[s.i]) = 0 \/ s.i + 1 = NMain

HasSpace(size) == size < MainMax

ScanMain(c) ==
    /\ pc[c] = "mainscan"
    /\ scan' = [scan EXCEPT ![c] = Look(@)]
    /\ IF ~LastLook(scan[c])
         THEN UNCHANGED <<pc, ret>>
         ELSE IF HasSpace(Look(scan[c]).minsize)
                THEN pc' = [pc EXCEPT ![c] = "push"] /\ UNCHANGED ret
                ELSE pc' = [pc EXCEPT ![c] = "release"] /\ ret' = [ret EXCEPT ![c] = "FALSE"]
    /\ UNCHANGED <<query, type, tries, rq, seq, poolVars, listenerVars, resp, mainq, counter, katarget, late>>

Request(c) == [from |-> Id(c), rq |-> rq[c], seq |-> seq[c], type |-> type[c],
               resptype |-> "ERROR", res |-> "FALSE"]

(* A queue created without the overflow. *)
MainQueueFullMutant(l) == Len(mainq[l]) >= MainMax

(* switch_queue_push waits, without a timeout, while the queue is full.     *)
MainQueueFull(l) == Len(mainq[l]) >= MainMax + MainOverFlow

Send(c) ==
    LET l == scan[c].minindex IN
    /\ pc[c] = "push" /\ ~MainQueueFull(l)
    /\ mainq' = [mainq EXCEPT ![l] = Append(@, Request(c))]
    /\ scan' = [scan EXCEPT ![c] = NoScan]
    /\ pc' = [pc EXCEPT ![c] = "wait"]
    /\ UNCHANGED <<query, type, tries, rq, seq, ret, poolVars, listenerVars, resp, counter, katarget, late>>

(* mod_as_dbcache_queue_resp_process: for an answer of redis the caller runs *)
(* pfunredis, whose verdict replaces that of the listener.                   *)
Results(m) == CASE m.resptype = "ERROR" -> {"FALSE"}
                [] m.resptype = "REDIS" -> {"SUCCESS", "FALSE"}
                [] OTHER -> {m.res}

(* A receiver that does not compare the numbers. *)
AcceptsMutant(c, m) == TRUE

Accepts(c, m) == seq[c] = m.seq

(* mod_as_dbcache_queue_recv_wait: an answer with the number of the request  *)
(* ends the wait, any other is freed and the wait starts again.              *)
Receive(c) ==
    /\ pc[c] = "wait" /\ resp[rq[c]] # <<>>
    /\ resp' = [resp EXCEPT ![rq[c]] = Tail(@)]
    /\ IF Accepts(c, Head(resp[rq[c]]))
         THEN /\ \E s \in Results(Head(resp[rq[c]])) : ret' = [ret EXCEPT ![c] = s]
              /\ pc' = [pc EXCEPT ![c] = "release"]
         ELSE UNCHANGED <<pc, ret>>
    /\ UNCHANGED <<query, type, tries, rq, seq, scan, poolVars, listenerVars, mainq, counter, katarget, late>>

(* A wait that starts over when its time is up. *)
WaitTimeoutMutant(c) ==
    /\ pc[c] = "wait" /\ resp[rq[c]] = <<>> /\ Id(c) \in late
    /\ UNCHANGED vars

WaitTimeout(c) ==
    /\ pc[c] = "wait" /\ resp[rq[c]] = <<>> /\ Id(c) \in late
    /\ ret' = [ret EXCEPT ![c] = "TIMEOUT"]
    /\ pc' = [pc EXCEPT ![c] = "release"]
    /\ UNCHANGED <<query, type, tries, rq, seq, scan, poolVars, listenerVars, resp, mainq, counter, katarget, late>>

(* mod_as_dbcache_queue_handler_free gives the response queue back without   *)
(* the mutex and without emptying it, and the query returns.                 *)
Release(c) ==
    /\ pc[c] = "release"
    /\ flag' = [flag EXCEPT ![rq[c]] = "IDLE"]
    /\ rq' = [rq EXCEPT ![c] = None] /\ seq' = [seq EXCEPT ![c] = 0]
    /\ scan' = [scan EXCEPT ![c] = NoScan]
    /\ pc' = [pc EXCEPT ![c] = "idle"]
    /\ UNCHANGED <<query, type, tries, ret, last, pos, mutex, listenerVars, resp, mainq, counter, katarget, late>>

-----------------------------------------------------------------------------
(* The listener thread of main queue l: mod_as_dbcache_queue_listen_thread  *)

(* A request that stays in its queue until it is answered. *)
PopMutant(l) ==
    /\ lpc[l] = "pop" /\ mainq[l] # <<>>
    /\ cur' = [cur EXCEPT ![l] = Head(mainq[l])]
    /\ lpc' = [lpc EXCEPT ![l] =
           IF Head(mainq[l]).type \in RedisTypes \union {"REDIS_KEEP_ALIVE"} THEN "redis" ELSE "mysql"]
    /\ UNCHANGED <<ctx, mainq, callerVars, poolVars, resp, counter, katarget, late>>

Pop(l) ==
    /\ lpc[l] = "pop" /\ mainq[l] # <<>>
    /\ cur' = [cur EXCEPT ![l] = Head(mainq[l])]
    /\ mainq' = [mainq EXCEPT ![l] = Tail(@)]
    /\ lpc' = [lpc EXCEPT ![l] =
           IF Head(mainq[l]).type \in RedisTypes \union {"REDIS_KEEP_ALIVE"} THEN "redis" ELSE "mysql"]
    /\ UNCHANGED <<ctx, callerVars, poolVars, resp, counter, katarget, late>>

WithType(m, resptype) == [m EXCEPT !.resptype = resptype]
WithRes(m, res) == [m EXCEPT !.res = res]

(* Where the listener goes with an answer: a keep alive has no response     *)
(* queue and is freed, anything else is offered to the caller's.            *)
Answered(l, m) ==
    IF m.rq = None
      THEN /\ lpc' = [lpc EXCEPT ![l] = "pop"] /\ cur' = [cur EXCEPT ![l] = KeepAliveMsg]
      ELSE /\ lpc' = [lpc EXCEPT ![l] = "offer"] /\ cur' = [cur EXCEPT ![l] = m]

(* mod_as_dbcache_redis_cluster_command2: a context with an error set is    *)
(* connected anew first, and if that fails the old one is kept.  A null     *)
(* reply is a success; an error reply is not; no reply sets the error.  A   *)
(* REDIS_MYSQL query that redis fails goes on to mysql.                     *)
RedisCommand(l) ==
    /\ lpc[l] = "redis"
    /\ \/ /\ ctx' = [ctx EXCEPT ![l] = "ok"]
          /\ Answered(l, WithRes(WithType(cur[l], "REDIS"), "SUCCESS"))
       \/ /\ \/ ctx' = [ctx EXCEPT ![l] = "ok"]       \* an error reply
             \/ ctx' = [ctx EXCEPT ![l] = "err"]      \* no reply, or not connected
          /\ IF cur[l].type = "REDIS_MYSQL"
               THEN lpc' = [lpc EXCEPT ![l] = "mysql"] /\ UNCHANGED cur
               ELSE Answered(l, WithRes(cur[l], "FALSE"))
    /\ UNCHANGED <<mainq, callerVars, poolVars, resp, counter, katarget, late>>

(* Without the check of the time, and with the comparison reversed for      *)
(* those in time.                                                           *)
DeadlinePassedMutant(m) == FALSE
DeadlineAlwaysMutant(m) == TRUE

(* curtime >= event->timeout: get_resp_data makes the timeout a point in    *)
(* time for the mysql types only; for REDIS_MYSQL it is still a length, a   *)
(* handful of seconds, and every current time is beyond it.                 *)
DeadlinePassed(m) == m.from \in late \/ m.type \notin {"MYSQL", "MYSQL_INSERT_ID"}

(* mod_as_dbcache_mysql_command2 up to the callback pfunmysql, which writes *)
(* through the caller's result pointer.  A query without a callback is a    *)
(* callback that writes nothing.  The comparison with the deadline and the  *)
(* call of the callback are one step: a caller that leaves between them     *)
(* leaves during the callback.                                              *)
MysqlQuery(l) ==
    /\ lpc[l] = "mysql"
    /\ \/ Answered(l, WithRes(cur[l], "FALSE"))           \* the query failed
       \/ /\ cur[l].type = "MYSQL_INSERT_ID"
          /\ cur' = [cur EXCEPT ![l] = WithType(@, "MYSQL_INSERT_ID")]
          /\ lpc' = [lpc EXCEPT ![l] = "callback"]
       \/ /\ cur[l].type # "MYSQL_INSERT_ID" /\ DeadlinePassed(cur[l])
          /\ Answered(l, WithRes(WithType(cur[l], "MYSQL"), "TIMEOUT"))
       \/ /\ cur[l].type # "MYSQL_INSERT_ID" /\ ~DeadlinePassed(cur[l])
          /\ cur' = [cur EXCEPT ![l] = WithType(@, "MYSQL")]
          /\ lpc' = [lpc EXCEPT ![l] = "callback"]
    /\ UNCHANGED <<ctx, mainq, callerVars, poolVars, resp, counter, katarget, late>>

(* pfunmysql returns. *)
MysqlCallback(l) ==
    /\ lpc[l] = "callback"
    /\ \E s \in {"SUCCESS", "FALSE"} : Answered(l, WithRes(cur[l], s))
    /\ UNCHANGED <<ctx, mainq, callerVars, poolVars, resp, counter, katarget, late>>

(* switch_queue_size and the comparison; the push is a later step.          *)
HasRoom(r) == Len(resp[r]) < RespMax

(* A listener that keeps an answer until there is room for it. *)
OfferAnswerMutant(l) ==
    /\ lpc[l] = "offer"
    /\ IF HasRoom(cur[l].rq) THEN lpc' = [lpc EXCEPT ![l] = "push"] ELSE UNCHANGED lpc
    /\ UNCHANGED <<cur, ctx, mainq, callerVars, poolVars, resp, counter, katarget, late>>

OfferAnswer(l) ==
    /\ lpc[l] = "offer"
    /\ IF HasRoom(cur[l].rq)
         THEN lpc' = [lpc EXCEPT ![l] = "push"] /\ UNCHANGED cur
         ELSE lpc' = [lpc EXCEPT ![l] = "pop"] /\ cur' = [cur EXCEPT ![l] = KeepAliveMsg]
    /\ UNCHANGED <<ctx, mainq, callerVars, poolVars, resp, counter, katarget, late>>

(* A queue created without the overflow. *)
RespQueueFullMutant(r) == Len(resp[r]) >= RespMax

RespQueueFull(r) == Len(resp[r]) >= RespMax + RespOverFlow

PushAnswer(l) ==
    /\ lpc[l] = "push" /\ ~RespQueueFull(cur[l].rq)
    /\ resp' = [resp EXCEPT ![cur[l].rq] = Append(@, cur[l])]
    /\ lpc' = [lpc EXCEPT ![l] = "pop"] /\ cur' = [cur EXCEPT ![l] = KeepAliveMsg]
    /\ UNCHANGED <<ctx, mainq, callerVars, poolVars, counter, katarget, late>>
-----------------------------------------------------------------------------
(* task_keep_redis_alive, a thread of its own: it finds a queue that is     *)
(* empty and has been idle for the interval, then pushes a keep alive to it *)
(* (mod_as_dbcache_queue_send_keep_alive).                                  *)
KeepAliveCheck(l) ==
    /\ UseRedis /\ katarget = None /\ mainq[l] = <<>>
    /\ katarget' = l
    /\ UNCHANGED <<callerVars, poolVars, listenerVars, resp, mainq, counter, late>>

KeepAliveSend ==
    /\ katarget # None /\ ~MainQueueFull(katarget)
    /\ mainq' = [mainq EXCEPT ![katarget] = Append(@, KeepAliveMsg)]
    /\ katarget' = None
    /\ UNCHANGED <<callerVars, poolVars, listenerVars, resp, counter, late>>

(* The timeout of a query elapses.  One instant stands for two: the         *)
(* deadline of the listener, in whole seconds, computed before the wait     *)
(* (queue.c:763), and the end of the caller's wait, which comes up to a     *)
(* second later, and later still when the wait starts over (queue.c:591).   *)
(* It matters only while the query has a caller waiting or a request in     *)
(* flight.                                                                  *)
InFlight(id) == \/ \E l \in Listeners : cur[l].from = id
                \/ \E l \in Listeners : \E k \in 1 .. Len(mainq[l]) : mainq[l][k].from = id
Elapse(id) ==
    /\ id \notin late
    /\ InFlight(id) \/ \E c \in Callers : Id(c) = id /\ pc[c] \in {"push", "wait"}
    /\ late' = late \union {id}
    /\ UNCHANGED <<callerVars, poolVars, listenerVars, resp, mainq, counter, katarget>>
-----------------------------------------------------------------------------
CallerStep(c) ==
    \/ LockResp(c) \/ ScanNext(c) \/ ScanFound(c) \/ ScanFailed(c) \/ TakeResp(c) \/ SeqRead(c) \/ SeqWrite(c)
    \/ GetRespData(c) \/ ScanMain(c) \/ Send(c)
    \/ Receive(c) \/ WaitTimeout(c) \/ Release(c)

ListenerStep(l) ==
    \/ Pop(l) \/ RedisCommand(l) \/ MysqlQuery(l) \/ MysqlCallback(l)
    \/ OfferAnswer(l) \/ PushAnswer(l)

(* Every caller has made the queries the bound allows and nothing is left   *)
(* to do: not a deadlock.                                                   *)
Quiescent ==
    /\ \A c \in Callers : pc[c] = "idle" /\ query[c] = MaxQueries
    /\ \A l \in Listeners : lpc[l] = "pop" /\ mainq[l] = <<>>
    /\ UNCHANGED vars

Next ==
    \/ Quiescent
    \/ \E c \in Callers : BeginQuery(c) \/ CallerStep(c)
    \/ \E l \in Listeners : ListenerStep(l) \/ KeepAliveCheck(l)
    \/ KeepAliveSend
    \/ \E id \in Ids : Elapse(id)

Spec == Init /\ [][Next]_vars

(* Fairness, assumed where a property needs it.  A session thread inside a  *)
(* query is scheduled, and the clock advances.                              *)
CallersFair == /\ \A c \in Callers : WF_vars(CallerStep(c))
               /\ \A id \in Ids : WF_vars(Elapse(id))

(* A database that answers: commands return, so the listeners go on.        *)
ListenersFair == \A l \in Listeners : WF_vars(ListenerStep(l))
-----------------------------------------------------------------------------
(* Properties *)

(* Each variable has its type; the one shallow invariant.                   *)
PoolTypeOK ==
    /\ flag \in [RespQueues -> {"IDLE", "BUSY"}]
    /\ last \in RespQueues /\ pos \in RespQueues /\ mutex \in SUBSET Callers
    /\ counter \in Nat
CallerTypeOK ==
    /\ pc \in [Callers -> {"idle", "lock", "scan", "take", "seqread", "seqwrite",
                           "respdata", "mainscan", "push", "wait", "release"}]
    /\ query \in [Callers -> 0 .. MaxQueries] /\ type \in [Callers -> CallerTypes]
    /\ tries \in [Callers -> Nat]
    /\ rq \in [Callers -> RespQueues \union {None}] /\ seq \in [Callers -> Nat]
    /\ scan \in [Callers -> ScanRecord]
    /\ ret \in [Callers -> Status \union {"none"}]
QueueTypeOK ==
    /\ resp \in [RespQueues -> Seq(Msg)]
    /\ mainq \in [Listeners -> Seq(Msg)]
ListenerTypeOK ==
    /\ lpc \in [Listeners -> {"pop", "redis", "mysql", "callback", "offer", "push"}]
    /\ cur \in [Listeners -> Msg] /\ ctx \in [Listeners -> {"ok", "err"}]
    /\ katarget \in Listeners \union {None} /\ late \subseteq Ids
TypeOK == PoolTypeOK /\ CallerTypeOK /\ QueueTypeOK /\ ListenerTypeOK

(* The pool of response queues never leaks one and never lends one twice:   *)
(* a slot is BUSY exactly while one caller holds it, though it is given     *)
(* back outside the mutex (queue.c 43-50, 647-693).                         *)
PoolExact ==
    /\ \A r \in RespQueues : flag[r] = "BUSY" <=> \E c \in Callers : rq[c] = r
    /\ \A c, d \in Callers : rq[c] = rq[d] /\ c # d => rq[c] = None

(* No listener waits for room in a response queue, which perhaps nobody     *)
(* will ever empty: the overflow makes up for the size that several of them *)
(* have checked before any of them pushes (queue.c 158-161).                *)
ListenersNeverBlock ==
    \A l \in Listeners : lpc[l] = "push" => ~RespQueueFull(cur[l].rq)

(* No caller and no keep alive waits, without a timeout, for room in a main *)
(* queue: the same for the size read in queue.c 703-722 and the pushes in   *)
(* 519 and 568.                                                             *)
CallersNeverBlock ==
    /\ \A c \in Callers : pc[c] = "push" => ~MainQueueFull(scan[c].minindex)
    /\ katarget # None => ~MainQueueFull(katarget)

(* The answer a caller accepts by its number is the answer to its own       *)
(* query, not a late one that another query left in the response queue      *)
(* (queue.c 619, 802).                                                      *)
OwnAnswer ==
    \A c \in Callers :
        pc[c] = "wait" /\ resp[rq[c]] # <<>> =>
            LET m == Head(resp[rq[c]]) IN Accepts(c, m) => m.from = Id(c)

Waiting(id) == \E c \in Callers : Id(c) = id /\ pc[c] = "wait"

(* No callback of mysql, which writes to memory of the caller, passes the   *)
(* check of the deadline for a caller that has given up (mysql.c 366-378).  *)
CallbackStartsInTime ==
    [][\A l \in Listeners : lpc[l] # "callback" /\ lpc'[l] = "callback" => Waiting(cur[l].from)]_vars

(* Nor does one run on after its caller gave up.                            *)
NoWriteAfterReturn ==
    \A l \in Listeners : lpc[l] = "callback" => Waiting(cur[l].from)

(* A query that reports a timeout is past its deadline (queue.c 583, 764,   *)
(* mysql.c 369).                                                            *)
TimeoutIsReal ==
    \A c \in Callers : pc[c] = "release" /\ ret[c] = "TIMEOUT" => Id(c) \in late

(* Every query returns.  Nothing is assumed of the listeners: the database  *)
(* may never answer (queue.c 583-617).                                      *)
QueryReturns == CallersFair => \A c \in Callers : pc[c] # "idle" ~> pc[c] = "idle"

(* If the database does answer, each main queue empties again and again: no *)
(* listener is stuck on the response queue of callers that have left, or of *)
(* callers suspended anywhere, of which nothing is assumed.                 *)
MainQueuesDrain == ListenersFair => \A l \in Listeners : []<>(mainq[l] = <<>>)

-----------------------------------------------------------------------------
(* The service as the callers see it.  A query is pending from its call     *)
(* until a listener has an outcome for it, wherever its request is, and an  *)
(* answer from then until it is freed.                                      *)
Elems(s) == {s[k] : k \in 1 .. Len(s)}
Asking == {c \in Callers : pc[c] \notin {"idle", "release"}}
Unsent == {c \in Callers : pc[c] \notin {"idle", "wait", "release"}}
InHand(labels) == {cur[l] : l \in {k \in Listeners : lpc[k] \in labels}}
Unanswered == InHand({"redis", "mysql", "callback"}) \union UNION {Elems(mainq[l]) : l \in Listeners}
Returning == InHand({"offer", "push"}) \union UNION {Elems(resp[r]) : r \in RespQueues}

Pending == ({Id(c) : c \in Unsent} \union {m.from : m \in Unanswered}) \ {NoId}
AnswerOf(m) == [id |-> m.from, results |-> Results(m)]
Service == INSTANCE QueryService WITH
    asking <- Asking, outcome <- ret, pending <- Pending, answers <- {AnswerOf(m) : m \in Returning}

(* The queues, numbers and threads implement QueryService: each command is  *)
(* run at most once, and a query returns its own outcome, a refusal of what *)
(* was never run, or a timeout after its time (queue.c 443-634).            *)
ImplementsService == Service!Spec

=============================================================================
