------------------------- MODULE DbCacheQueueProofs -------------------------
(* Theorems about DbCacheQueue, for every value of its constants that       *)
(* satisfies the assumptions it states.                                     *)
EXTENDS DbCacheQueue, FiniteSetTheorems, TLAPS

-----------------------------------------------------------------------------
(* Facts about the operators *)

LEMMA NoScanType == NoScan \in ScanRecord
BY SizesAssumption DEF NoScan, ScanRecord, Listeners

LEMMA FirstLookType ==
  ASSUME QueueTypeOK
  PROVE  FirstLook \in ScanRecord
<1>1. Len(mainq[0]) \in Nat
  BY SizesAssumption DEF QueueTypeOK, Listeners
<1>2. QED
  BY <1>1, SizesAssumption DEF FirstLook, ScanRecord, Listeners

LEMMA LookType ==
  ASSUME QueueTypeOK, NEW s \in ScanRecord
  PROVE  Look(s) \in ScanRecord
<1>1. /\ Len(mainq[s.i]) \in Nat
      /\ s.i \in Listeners /\ s.minindex \in Listeners /\ s.minsize \in Nat
  BY SizesAssumption DEF QueueTypeOK, ScanRecord
<1>2. QED
  BY <1>1, SizesAssumption DEF Look, ScanRecord, Listeners

LEMMA KeepAliveMsgType == KeepAliveMsg \in Msg
BY DEF Msg, KeepAliveMsg, Status

(* What a listener writes into a request changes neither its type nor where *)
(* it goes.                                                                 *)
LEMMA WithTypeMsg ==
  ASSUME NEW m \in Msg, NEW t \in {"ERROR", "REDIS", "MYSQL", "MYSQL_INSERT_ID"}
  PROVE  WithType(m, t) \in Msg /\ WithType(m, t).rq = m.rq
BY DEF Msg, WithType

LEMMA WithResMsg ==
  ASSUME NEW m \in Msg, NEW s \in Status
  PROVE  WithRes(m, s) \in Msg /\ WithRes(m, s).rq = m.rq
BY DEF Msg, WithRes

LEMMA ResultsType ==
  ASSUME NEW m \in Msg
  PROVE  Results(m) \subseteq Status
<1>1. CASE m.resptype = "ERROR"
  BY <1>1 DEF Results, Status
<1>2. CASE m.resptype = "REDIS"
  BY <1>2 DEF Results, Status
<1>3. CASE m.resptype \notin {"ERROR", "REDIS"}
  BY <1>3 DEF Results, Msg
<1>4. QED
  BY <1>1, <1>2, <1>3

-----------------------------------------------------------------------------
(* Type correctness *)

(* A caller inside a query has begun one, so that its requests name it ...  *)
Started == \A c \in Callers : pc[c] # "idle" => query[c] \in 1 .. MaxQueries

(* ... and it has a response queue between taking and releasing one.        *)
Holding ==
    \A c \in Callers :
        rq[c] # None <=> pc[c] \in {"seqread", "seqwrite", "respdata", "mainscan",
                                    "push", "wait", "release"}

(* An answer on its way to a response queue names one.                      *)
Addressed == \A l \in Listeners : lpc[l] \in {"offer", "push"} => cur[l].rq \in RespQueues

TypeInv == TypeOK /\ Started /\ Holding /\ Addressed

LEMMA RequestType ==
  ASSUME CallerTypeOK, Started, NEW c \in Callers, pc[c] # "idle"
  PROVE  Request(c) \in Msg
BY DEF Msg, Request, CallerTypeOK, Started, Id, Ids, Status

LEMMA InitTypeInv == Init => TypeInv
<1> SUFFICES ASSUME Init PROVE TypeInv
  OBVIOUS
<1> USE SizesAssumption DEF Init
<1>1. PoolTypeOK
  BY DEF PoolTypeOK, RespQueues
<1>2. CallerTypeOK
  BY NoScanType DEF CallerTypeOK, None, CallerTypes
<1>3. QueueTypeOK
  BY DEF QueueTypeOK
<1>4. ListenerTypeOK
  BY KeepAliveMsgType DEF ListenerTypeOK, None
<1>5. Started /\ Holding /\ Addressed
  BY DEF Started, Holding, Addressed, None
<1>6. QED
  BY <1>1, <1>2, <1>3, <1>4, <1>5 DEF TypeInv, TypeOK

LEMMA StepPoolType ==
  ASSUME TypeInv, [Next]_vars
  PROVE  PoolTypeOK'
<1> USE DEF TypeInv, TypeOK, PoolTypeOK
<1>1. ASSUME NEW c \in Callers, LockResp(c) PROVE PoolTypeOK'
  BY <1>1 DEF LockResp
<1>2. ASSUME NEW c \in Callers, ScanNext(c) \/ ScanFound(c) PROVE PoolTypeOK'
  BY <1>2, SizesAssumption DEF ScanNext, ScanFound, NextPos, RespQueues
<1>3. ASSUME NEW c \in Callers, ScanFailed(c) PROVE PoolTypeOK'
  BY <1>3 DEF ScanFailed
<1>4. ASSUME NEW c \in Callers, TakeResp(c) PROVE PoolTypeOK'
  BY <1>4 DEF TakeResp
<1>5. ASSUME NEW c \in Callers, SeqWrite(c) PROVE PoolTypeOK'
  BY <1>5 DEF SeqWrite, poolVars, CallerTypeOK
<1>6. ASSUME NEW c \in Callers, Release(c) PROVE PoolTypeOK'
  BY <1>6 DEF Release
<1>7. CASE UNCHANGED <<poolVars, counter>>
  BY <1>7 DEF poolVars
<1>8. QED
  BY <1>1, <1>2, <1>3, <1>4, <1>5, <1>6, <1>7
     DEF Next, vars, CallerStep, BeginQuery, SeqRead, GetRespData, ScanMain, Send, Receive,
         WaitTimeout, ListenerStep, Pop, RedisCommand, MysqlQuery, MysqlCallback, OfferAnswer,
         PushAnswer, KeepAliveCheck, KeepAliveSend, Elapse, Quiescent

LEMMA StepQueueType ==
  ASSUME TypeInv, [Next]_vars
  PROVE  QueueTypeOK'
<1>0. PoolTypeOK /\ CallerTypeOK /\ QueueTypeOK /\ ListenerTypeOK /\ Started /\ Holding /\ Addressed
  BY DEF TypeInv, TypeOK
<1>1. ASSUME NEW c \in Callers, Send(c) PROVE QueueTypeOK'
  <2>1. Request(c) \in Msg
    BY <1>0, <1>1, RequestType DEF Send
  <2>2. scan[c].minindex \in Listeners
    BY <1>0 DEF CallerTypeOK, ScanRecord
  <2>3. mainq' \in [Listeners -> Seq(Msg)]
    BY <1>0, <1>1, <2>1, <2>2 DEF Send, QueueTypeOK
  <2>4. QED
    BY <1>0, <1>1, <2>3 DEF Send, QueueTypeOK
<1>2. ASSUME NEW c \in Callers, Receive(c) PROVE QueueTypeOK'
  <2>1. rq[c] \in RespQueues
    BY <1>0, <1>2 DEF Receive, CallerTypeOK, Holding
  <2>2. Tail(resp[rq[c]]) \in Seq(Msg)
    BY <1>0, <1>2, <2>1 DEF Receive, QueueTypeOK
  <2>3. resp' \in [RespQueues -> Seq(Msg)]
    BY <1>0, <1>2, <2>2 DEF Receive, QueueTypeOK
  <2>4. QED
    BY <1>0, <1>2, <2>3 DEF Receive, QueueTypeOK
<1>3. ASSUME NEW l \in Listeners, Pop(l) PROVE QueueTypeOK'
  BY <1>0, <1>3 DEF Pop, QueueTypeOK
<1>4. ASSUME NEW l \in Listeners, PushAnswer(l) PROVE QueueTypeOK'
  <2>1. cur[l] \in Msg /\ cur[l].rq \in RespQueues
    BY <1>0, <1>4 DEF PushAnswer, ListenerTypeOK, Addressed
  <2>2. resp' \in [RespQueues -> Seq(Msg)]
    BY <1>0, <1>4, <2>1 DEF PushAnswer, QueueTypeOK
  <2>3. QED
    BY <1>0, <1>4, <2>2 DEF PushAnswer, QueueTypeOK
<1>5. CASE KeepAliveSend
  <2>1. mainq' \in [Listeners -> Seq(Msg)]
    BY <1>0, <1>5, KeepAliveMsgType DEF KeepAliveSend, QueueTypeOK, ListenerTypeOK
  <2>2. QED
    BY <1>0, <1>5, <2>1 DEF KeepAliveSend, QueueTypeOK
<1>6. CASE UNCHANGED <<resp, mainq>>
  BY <1>0, <1>6 DEF QueueTypeOK
<1>7. QED
  BY <1>1, <1>2, <1>3, <1>4, <1>5, <1>6
     DEF Next, vars, CallerStep, BeginQuery, LockResp, ScanNext, ScanFound, ScanFailed, TakeResp,
         SeqRead, SeqWrite, GetRespData, ScanMain, WaitTimeout, Release, ListenerStep,
         RedisCommand, MysqlQuery, MysqlCallback, OfferAnswer, KeepAliveCheck, Elapse, Quiescent

LEMMA StepListenerType ==
  ASSUME TypeInv, [Next]_vars
  PROVE  ListenerTypeOK' /\ Addressed'
<1> DEFINE Goal == ListenerTypeOK' /\ Addressed'
<1>0. QueueTypeOK /\ ListenerTypeOK /\ Addressed
  BY DEF TypeInv, TypeOK
<1>a. ASSUME NEW l \in Listeners, NEW m \in Msg, Answered(l, m), UNCHANGED <<katarget, late>>,
             ctx' \in [Listeners -> {"ok", "err"}]
      PROVE  Goal
  <2>1. CASE m.rq = None
    BY <1>0, <1>a, <2>1, KeepAliveMsgType DEF Answered, ListenerTypeOK, Addressed
  <2>2. CASE m.rq # None
    <3>1. m.rq \in RespQueues
      BY <2>2 DEF Msg
    <3>2. QED
      BY <1>0, <1>a, <2>2, <3>1 DEF Answered, ListenerTypeOK, Addressed
  <2>3. QED
    BY <2>1, <2>2
<1>1. ASSUME NEW l \in Listeners, Pop(l) PROVE Goal
  <2>1. Head(mainq[l]) \in Msg
    BY <1>0, <1>1 DEF Pop, QueueTypeOK
  <2>2. QED
    BY <1>0, <1>1, <2>1 DEF Pop, ListenerTypeOK, Addressed
<1>2. ASSUME NEW l \in Listeners, RedisCommand(l) PROVE Goal
  <2>1. ctx' \in [Listeners -> {"ok", "err"}]
    BY <1>0, <1>2 DEF RedisCommand, ListenerTypeOK
  <2>2. /\ WithRes(WithType(cur[l], "REDIS"), "SUCCESS") \in Msg
        /\ WithRes(cur[l], "FALSE") \in Msg
    BY <1>0, WithTypeMsg, WithResMsg DEF ListenerTypeOK, Status
  <2>3. CASE lpc' = [lpc EXCEPT ![l] = "mysql"] /\ UNCHANGED cur
    BY <1>0, <1>2, <2>1, <2>3 DEF RedisCommand, ListenerTypeOK, Addressed
  <2>4. QED
    BY <1>2, <1>a, <2>1, <2>2, <2>3 DEF RedisCommand
<1>3. ASSUME NEW l \in Listeners, MysqlQuery(l) PROVE Goal
  <2>1. /\ WithRes(WithType(cur[l], "MYSQL"), "TIMEOUT") \in Msg
        /\ WithRes(cur[l], "FALSE") \in Msg
        /\ WithType(cur[l], "MYSQL") \in Msg /\ WithType(cur[l], "MYSQL_INSERT_ID") \in Msg
    BY <1>0, WithTypeMsg, WithResMsg DEF ListenerTypeOK, Status
  <2>2. ASSUME NEW m \in Msg, lpc' = [lpc EXCEPT ![l] = "callback"], cur' = [cur EXCEPT ![l] = m]
        PROVE  Goal
    BY <1>0, <1>3, <2>2 DEF MysqlQuery, ListenerTypeOK, Addressed
  <2>3. UNCHANGED <<katarget, late>> /\ ctx' \in [Listeners -> {"ok", "err"}]
    BY <1>0, <1>3 DEF MysqlQuery, ListenerTypeOK
  <2>4. QED
    BY <1>3, <1>a, <2>1, <2>2, <2>3 DEF MysqlQuery
<1>4. ASSUME NEW l \in Listeners, MysqlCallback(l) PROVE Goal
  <2>1. \A s \in {"SUCCESS", "FALSE"} : WithRes(cur[l], s) \in Msg
    BY <1>0, WithResMsg DEF ListenerTypeOK, Status
  <2>2. QED
    BY <1>0, <1>4, <1>a, <2>1 DEF MysqlCallback, ListenerTypeOK
<1>5. ASSUME NEW l \in Listeners, OfferAnswer(l) PROVE Goal
  BY <1>0, <1>5, KeepAliveMsgType DEF OfferAnswer, ListenerTypeOK, Addressed
<1>6. ASSUME NEW l \in Listeners, PushAnswer(l) PROVE Goal
  BY <1>0, <1>6, KeepAliveMsgType DEF PushAnswer, ListenerTypeOK, Addressed
<1>7. ASSUME NEW l \in Listeners, KeepAliveCheck(l) PROVE Goal
  BY <1>0, <1>7 DEF KeepAliveCheck, listenerVars, ListenerTypeOK, Addressed
<1>8. CASE KeepAliveSend
  BY <1>0, <1>8 DEF KeepAliveSend, listenerVars, ListenerTypeOK, Addressed
<1>9. ASSUME NEW id \in Ids, Elapse(id) PROVE Goal
  BY <1>0, <1>9 DEF Elapse, listenerVars, ListenerTypeOK, Addressed
<1>10. CASE UNCHANGED <<listenerVars, katarget, late>>
  BY <1>0, <1>10 DEF listenerVars, ListenerTypeOK, Addressed
<1>11. QED
  BY <1>1, <1>2, <1>3, <1>4, <1>5, <1>6, <1>7, <1>8, <1>9, <1>10
     DEF Next, vars, CallerStep, BeginQuery, LockResp, ScanNext, ScanFound, ScanFailed, TakeResp,
         SeqRead, SeqWrite, GetRespData, ScanMain, Send, Receive, WaitTimeout, Release,
         ListenerStep, Quiescent

LEMMA StepCallerType ==
  ASSUME TypeInv, [Next]_vars
  PROVE  CallerTypeOK' /\ Started' /\ Holding'
<1> DEFINE Goal == CallerTypeOK' /\ Started' /\ Holding'
<1>0. PoolTypeOK /\ CallerTypeOK /\ QueueTypeOK /\ Started /\ Holding
  BY DEF TypeInv, TypeOK
<1>1. ASSUME NEW c \in Callers, BeginQuery(c) PROVE Goal
  <2>1. PICK t \in EventTypes : type' = [type EXCEPT ![c] = t]
    BY <1>1 DEF BeginQuery
  <2>2. CallerTypeOK'
    BY <1>0, <1>1, <2>1, EventsAssumption, SizesAssumption DEF BeginQuery, CallerTypeOK, Status
  <2>3. QED
    BY <1>0, <1>1, <2>2, SizesAssumption DEF BeginQuery, CallerTypeOK, Started, Holding
<1>2. ASSUME NEW c \in Callers, LockResp(c) PROVE Goal
  BY <1>0, <1>2 DEF LockResp, CallerTypeOK, Started, Holding
<1>3. ASSUME NEW c \in Callers, ScanFound(c) PROVE Goal
  BY <1>0, <1>3 DEF ScanFound, CallerTypeOK, Started, Holding
<1>4. ASSUME NEW c \in Callers, ScanFailed(c) PROVE Goal
  BY <1>0, <1>4 DEF ScanFailed, CallerTypeOK, Started, Holding, Status
<1>5. ASSUME NEW c \in Callers, TakeResp(c) PROVE Goal
  BY <1>0, <1>5 DEF TakeResp, PoolTypeOK, CallerTypeOK, Started, Holding, RespQueues, None
<1>6. ASSUME NEW c \in Callers, SeqRead(c) PROVE Goal
  BY <1>0, <1>6 DEF SeqRead, PoolTypeOK, CallerTypeOK, Started, Holding
<1>7. ASSUME NEW c \in Callers, SeqWrite(c) PROVE Goal
  BY <1>0, <1>7 DEF SeqWrite, CallerTypeOK, Started, Holding
<1>8. ASSUME NEW c \in Callers, GetRespData(c) PROVE Goal
  <2>1. FirstLook \in ScanRecord
    BY <1>0, FirstLookType
  <2>2. QED
    BY <1>0, <1>8, <2>1 DEF GetRespData, CallerTypeOK, Started, Holding, Status
<1>9. ASSUME NEW c \in Callers, ScanMain(c) PROVE Goal
  <2>1. Look(scan[c]) \in ScanRecord
    BY <1>0, LookType DEF CallerTypeOK
  <2>2. scan' \in [Callers -> ScanRecord]
    BY <1>0, <1>9, <2>1 DEF ScanMain, CallerTypeOK
  <2>3. CASE ~LastLook(scan[c])
    BY <1>0, <1>9, <2>2, <2>3 DEF ScanMain, CallerTypeOK, Started, Holding
  <2>4. CASE LastLook(scan[c]) /\ HasSpace(Look(scan[c]).minsize)
    BY <1>0, <1>9, <2>2, <2>4 DEF ScanMain, CallerTypeOK, Started, Holding
  <2>5. CASE LastLook(scan[c]) /\ ~HasSpace(Look(scan[c]).minsize)
    BY <1>0, <1>9, <2>2, <2>5 DEF ScanMain, CallerTypeOK, Started, Holding, Status
  <2>6. QED
    BY <2>3, <2>4, <2>5
<1>10. ASSUME NEW c \in Callers, Send(c) PROVE Goal
  BY <1>0, <1>10, NoScanType DEF Send, CallerTypeOK, Started, Holding
<1>11. ASSUME NEW c \in Callers, Receive(c) PROVE Goal
  <2>1. Results(Head(resp[rq[c]])) \subseteq Status
    <3>1. rq[c] \in RespQueues
      BY <1>0, <1>11 DEF Receive, CallerTypeOK, Holding
    <3>2. Head(resp[rq[c]]) \in Msg
      BY <1>0, <1>11, <3>1 DEF Receive, QueueTypeOK
    <3>3. QED
      BY <3>2, ResultsType
  <2>2. CASE Accepts(c, Head(resp[rq[c]]))
    <3>1. PICK s \in Status : ret' = [ret EXCEPT ![c] = s]
      BY <1>11, <2>1, <2>2 DEF Receive
    <3>2. QED
      BY <1>0, <1>11, <2>2, <3>1 DEF Receive, CallerTypeOK, Started, Holding
  <2>3. CASE ~Accepts(c, Head(resp[rq[c]]))
    BY <1>0, <1>11, <2>3 DEF Receive, CallerTypeOK, Started, Holding
  <2>4. QED
    BY <2>2, <2>3
<1>12. ASSUME NEW c \in Callers, WaitTimeout(c) PROVE Goal
  BY <1>0, <1>12 DEF WaitTimeout, CallerTypeOK, Started, Holding, Status
<1>13. ASSUME NEW c \in Callers, Release(c) PROVE Goal
  BY <1>0, <1>13, NoScanType DEF Release, CallerTypeOK, Started, Holding, None
<1>14. CASE UNCHANGED callerVars
  BY <1>0, <1>14 DEF callerVars, CallerTypeOK, Started, Holding
<1>15. QED
  BY <1>1, <1>2, <1>3, <1>4, <1>5, <1>6, <1>7, <1>8, <1>9, <1>10, <1>11, <1>12, <1>13, <1>14
     DEF Next, vars, CallerStep, ScanNext, ListenerStep, Pop, RedisCommand, MysqlQuery,
         MysqlCallback, OfferAnswer, PushAnswer, KeepAliveCheck, KeepAliveSend, Elapse, Quiescent

LEMMA StepTypeInv == TypeInv /\ [Next]_vars => TypeInv'
BY StepPoolType, StepQueueType, StepListenerType, StepCallerType DEF TypeInv, TypeOK

LEMMA TypeInvAlways == Spec => []TypeInv
BY InitTypeInv, StepTypeInv, PTL DEF Spec

(* Every variable keeps its type in every reachable state.                  *)
THEOREM TypeCorrect == Spec => []TypeOK
<1>1. TypeInv => TypeOK
  BY DEF TypeInv
<1>2. QED
  BY <1>1, TypeInvAlways, PTL

-----------------------------------------------------------------------------
(* The pool of response queues.  PoolExact is not inductive: that the slot  *)
(* a caller is about to take is still free rests on the mutex, which one    *)
(* caller at a time holds, from the search to the taking.                   *)

MutexOwner ==
    /\ \A c \in Callers : c \in mutex <=> pc[c] \in {"scan", "take"}
    /\ \A c, d \in mutex : c = d

SlotFree == \A c \in Callers : pc[c] = "take" => flag[pos] = "IDLE"

PoolInv == MutexOwner /\ SlotFree /\ PoolExact

LEMMA InitPoolInv == Init => PoolInv
BY DEF Init, PoolInv, MutexOwner, SlotFree, PoolExact, RespQueues, None

LEMMA StepPoolInv ==
  ASSUME TypeInv, PoolInv, [Next]_vars
  PROVE  PoolInv'
<1>0. PoolTypeOK /\ CallerTypeOK /\ Holding
  BY DEF TypeInv, TypeOK
<1> USE DEF PoolInv, MutexOwner, SlotFree, PoolExact
<1>1. ASSUME NEW c \in Callers, BeginQuery(c) PROVE PoolInv'
  BY <1>0, <1>1 DEF BeginQuery, poolVars, CallerTypeOK
<1>2. ASSUME NEW c \in Callers, LockResp(c) PROVE PoolInv'
  BY <1>0, <1>2 DEF LockResp, MutexFree, CallerTypeOK
<1>3. ASSUME NEW c \in Callers, ScanNext(c) PROVE PoolInv'
  BY <1>0, <1>3 DEF ScanNext, callerVars, CallerTypeOK
<1>4. ASSUME NEW c \in Callers, ScanFound(c) PROVE PoolInv'
  BY <1>0, <1>4 DEF ScanFound, CallerTypeOK
<1>5. ASSUME NEW c \in Callers, ScanFailed(c) PROVE PoolInv'
  BY <1>0, <1>5 DEF ScanFailed, CallerTypeOK
<1>6. ASSUME NEW c \in Callers, TakeResp(c) PROVE PoolInv'
  <2>1. MutexOwner' /\ SlotFree'
    BY <1>0, <1>6 DEF TakeResp, CallerTypeOK
  <2>2. rq[c] = None /\ \A d \in Callers : rq[d] # pos
    BY <1>0, <1>6 DEF TakeResp, PoolTypeOK, Holding
  <2>3. /\ \A r \in RespQueues : flag'[r] = IF r = pos THEN "BUSY" ELSE flag[r]
        /\ \A d \in Callers : rq'[d] = IF d = c THEN pos ELSE rq[d]
        /\ pos \in RespQueues
    BY <1>0, <1>6 DEF TakeResp, PoolTypeOK, CallerTypeOK
  <2>4. \A r \in RespQueues : flag'[r] = "BUSY" <=> \E d \in Callers : rq'[d] = r
    <3> SUFFICES ASSUME NEW r \in RespQueues
                 PROVE  flag'[r] = "BUSY" <=> \E d \in Callers : rq'[d] = r
      OBVIOUS
    <3>1. CASE r = pos
      BY <2>3, <3>1
    <3>2. CASE r # pos
      BY <2>2, <2>3, <3>2 DEF RespQueues, None
    <3>3. QED
      BY <3>1, <3>2
  <2>5. \A d, e \in Callers : rq'[d] = rq'[e] /\ d # e => rq'[d] = None
    BY <2>2, <2>3
  <2>6. QED
    BY <2>1, <2>4, <2>5
<1>7. ASSUME NEW c \in Callers, Release(c) PROVE PoolInv'
  <2>1. rq[c] \in RespQueues
    BY <1>0, <1>7 DEF Release, CallerTypeOK, Holding
  <2>2. MutexOwner' /\ SlotFree'
    BY <1>0, <1>7 DEF Release, PoolTypeOK, CallerTypeOK
  <2>3. /\ \A r \in RespQueues : flag'[r] = IF r = rq[c] THEN "IDLE" ELSE flag[r]
        /\ \A d \in Callers : rq'[d] = IF d = c THEN None ELSE rq[d]
        /\ rq[c] # None
    BY <1>0, <1>7, <2>1 DEF Release, PoolTypeOK, CallerTypeOK, RespQueues, None
  <2>4. ASSUME NEW r \in RespQueues
        PROVE  flag'[r] = "BUSY" <=> \E d \in Callers : rq'[d] = r
    <3>1. r # None
      BY DEF RespQueues, None
    <3>2. CASE r = rq[c]
      BY <2>3, <3>1, <3>2
    <3>3. CASE r # rq[c]
      BY <2>3, <3>1, <3>3
    <3>4. QED
      BY <3>2, <3>3
  <2>5. \A d, e \in Callers : rq'[d] = rq'[e] /\ d # e => rq'[d] = None
    BY <2>3
  <2>6. QED
    BY <2>2, <2>4, <2>5
<1>8. ASSUME NEW c \in Callers, UNCHANGED <<poolVars, rq>>, pc[c] \notin {"scan", "take"},
             \/ UNCHANGED pc
             \/ \E p \in {"seqwrite", "respdata", "mainscan", "push", "wait", "release"} :
                    pc' = [pc EXCEPT ![c] = p]
      PROVE  PoolInv'
  BY <1>0, <1>8 DEF poolVars, CallerTypeOK
<1>9. ASSUME NEW c \in Callers,
             SeqRead(c) \/ SeqWrite(c) \/ GetRespData(c) \/ ScanMain(c) \/ Send(c)
                \/ Receive(c) \/ WaitTimeout(c)
      PROVE  PoolInv'
  <2>1. UNCHANGED <<poolVars, rq>> /\ pc[c] \notin {"scan", "take"}
    BY <1>9 DEF SeqRead, SeqWrite, GetRespData, ScanMain, Send, Receive, WaitTimeout
  <2>2. \/ UNCHANGED pc
        \/ \E p \in {"seqwrite", "respdata", "mainscan", "push", "wait", "release"} :
               pc' = [pc EXCEPT ![c] = p]
    BY <1>9 DEF SeqRead, SeqWrite, GetRespData, ScanMain, Send, Receive, WaitTimeout
  <2>3. QED
    BY <1>8, <2>1, <2>2
<1>10. CASE UNCHANGED <<poolVars, rq, pc>>
  BY <1>10 DEF poolVars
<1>11. QED
  BY <1>1, <1>2, <1>3, <1>4, <1>5, <1>6, <1>7, <1>9, <1>10
     DEF Next, vars, callerVars, CallerStep, ListenerStep, Pop, RedisCommand, MysqlQuery,
         MysqlCallback, OfferAnswer, PushAnswer, KeepAliveCheck, KeepAliveSend, Elapse, Quiescent

(* The pool of response queues never leaks a queue and never lends one      *)
(* twice, for any number of callers and queues (queue.c 43-50, 647-693).    *)
THEOREM PoolIsExact == Spec => []PoolExact
<1>1. Init => PoolInv
  BY InitPoolInv
<1>2. TypeInv /\ PoolInv /\ [Next]_vars => PoolInv'
  BY StepPoolInv
<1>3. PoolInv => PoolExact
  BY DEF PoolInv
<1>4. QED
  BY <1>1, <1>2, <1>3, TypeInvAlways, PTL DEF Spec

-----------------------------------------------------------------------------
(* The overflow of the response queues.  A listener checks the size of the  *)
(* queue and pushes later; meanwhile the other listeners may have checked   *)
(* the same size.  Each of them has one answer at most to push, so the      *)
(* queue and the pushes pending on it stay together below RespMax + NMain.  *)

Pushers(r) == {l \in Listeners : lpc[l] = "push" /\ cur[l].rq = r}

RespBound ==
    \A r \in RespQueues : Len(resp[r]) + Cardinality(Pushers(r)) <= RespMax - 1 + NMain

LEMMA ListenersFinite == IsFiniteSet(Listeners) /\ Cardinality(Listeners) = NMain
BY FS_Interval, SizesAssumption DEF Listeners

LEMMA PushersFinite ==
  ASSUME NEW r
  PROVE  /\ IsFiniteSet(Pushers(r)) /\ Cardinality(Pushers(r)) \in Nat
         /\ Cardinality(Pushers(r)) <= NMain
<1>1. Pushers(r) \in SUBSET Listeners
  BY DEF Pushers
<1>2. QED
  BY <1>1, ListenersFinite, FS_Subset, FS_CardinalityType

LEMMA InitRespBound == Init => RespBound
<1> SUFFICES ASSUME Init, NEW r \in RespQueues
             PROVE  Len(resp[r]) + Cardinality(Pushers(r)) <= RespMax - 1 + NMain
  BY DEF RespBound
<1>1. Len(resp[r]) = 0
  BY DEF Init
<1>2. QED
  BY <1>1, PushersFinite, SizesAssumption

LEMMA StepRespBound ==
  ASSUME TypeInv, RespBound, [Next]_vars
  PROVE  RespBound'
<1>0. CallerTypeOK /\ QueueTypeOK /\ ListenerTypeOK /\ Holding /\ Addressed
  BY DEF TypeInv, TypeOK
<1>L. \A r \in RespQueues : Len(resp[r]) \in Nat
  BY <1>0 DEF QueueTypeOK
<1>1. ASSUME UNCHANGED resp, \A r \in RespQueues : Pushers(r)' = Pushers(r)
      PROVE  RespBound'
  BY <1>1 DEF RespBound
<1>2. ASSUME NEW l \in Listeners, OfferAnswer(l) PROVE RespBound'
  <2>1. CASE ~HasRoom(cur[l].rq)
    <3>1. \A r \in RespQueues : Pushers(r)' = Pushers(r)
      BY <1>0, <1>2, <2>1 DEF OfferAnswer, Pushers, ListenerTypeOK
    <3>2. QED
      BY <1>1, <1>2, <3>1 DEF OfferAnswer
  <2>2. CASE HasRoom(cur[l].rq)
    <3> SUFFICES ASSUME NEW r \in RespQueues
                 PROVE  Len(resp'[r]) + Cardinality(Pushers(r)') <= RespMax - 1 + NMain
      BY DEF RespBound
    <3>1. CASE r = cur[l].rq
      <4>1. Cardinality(Pushers(r)') \in Nat /\ Cardinality(Pushers(r)') <= NMain
        <5>1. ASSUME NEW S, S \subseteq Listeners
              PROVE  Cardinality(S) \in Nat /\ Cardinality(S) <= NMain
          BY <5>1, ListenersFinite, FS_Subset, FS_CardinalityType
        <5>2. QED
          BY <5>1 DEF Pushers
      <4>2. Len(resp'[r]) <= RespMax - 1
        BY <1>2, <2>2, <3>1, <1>L, SizesAssumption DEF OfferAnswer, HasRoom
      <4>3. Len(resp'[r]) \in Nat
        BY <1>2, <1>L DEF OfferAnswer
      <4>4. QED
        BY <4>1, <4>2, <4>3, SizesAssumption
    <3>2. CASE r # cur[l].rq
      <4>1. Pushers(r)' = Pushers(r)
        BY <1>0, <1>2, <2>2, <3>2 DEF OfferAnswer, Pushers, ListenerTypeOK
      <4>2. QED
        BY <1>2, <4>1 DEF OfferAnswer, RespBound
    <3>3. QED
      BY <3>1, <3>2
  <2>3. QED
    BY <2>1, <2>2
<1>3. ASSUME NEW l \in Listeners, PushAnswer(l) PROVE RespBound'
  <2> SUFFICES ASSUME NEW r \in RespQueues
               PROVE  Len(resp'[r]) + Cardinality(Pushers(r)') <= RespMax - 1 + NMain
    BY DEF RespBound
  <2>1. CASE r = cur[l].rq
    <3>1. Pushers(r)' = Pushers(r) \ {l} /\ l \in Pushers(r)
      BY <1>0, <1>3, <2>1 DEF PushAnswer, Pushers, ListenerTypeOK
    <3>2. Cardinality(Pushers(r)') = Cardinality(Pushers(r)) - 1
      BY <3>1, PushersFinite, FS_RemoveElement
    <3>3. Len(resp'[r]) = Len(resp[r]) + 1
      <4>1. resp'[r] = Append(resp[r], cur[l])
        BY <1>0, <1>3, <2>1 DEF PushAnswer, QueueTypeOK
      <4>2. QED
        BY <1>0, <4>1 DEF QueueTypeOK, ListenerTypeOK
    <3>4. QED
      BY <3>2, <3>3, <1>L, PushersFinite DEF RespBound
  <2>2. CASE r # cur[l].rq
    <3>1. Pushers(r)' = Pushers(r)
      BY <1>0, <1>3, <2>2 DEF PushAnswer, Pushers, ListenerTypeOK
    <3>2. resp'[r] = resp[r]
      BY <1>0, <1>3, <2>2 DEF PushAnswer, QueueTypeOK
    <3>3. QED
      BY <3>1, <3>2 DEF RespBound
  <2>3. QED
    BY <2>1, <2>2
<1>4. ASSUME NEW c \in Callers, Receive(c) PROVE RespBound'
  <2> SUFFICES ASSUME NEW r \in RespQueues
               PROVE  Len(resp'[r]) + Cardinality(Pushers(r)') <= RespMax - 1 + NMain
    BY DEF RespBound
  <2>1. Pushers(r)' = Pushers(r)
    BY <1>4 DEF Receive, listenerVars, Pushers
  <2>2. Len(resp'[r]) \in Nat /\ Len(resp'[r]) <= Len(resp[r])
    BY <1>0, <1>4, <1>L DEF Receive, QueueTypeOK
  <2>3. QED
    BY <2>1, <2>2, <1>L, PushersFinite, SizesAssumption DEF RespBound
<1>5. ASSUME NEW l \in Listeners, Pop(l) \/ RedisCommand(l) \/ MysqlQuery(l) \/ MysqlCallback(l)
      PROVE  RespBound'
  <2>1. /\ UNCHANGED resp
        /\ lpc[l] # "push" /\ lpc'[l] # "push"
        /\ \A k \in Listeners \ {l} : lpc'[k] = lpc[k] /\ cur'[k] = cur[k]
    BY <1>0, <1>5 DEF Pop, RedisCommand, MysqlQuery, MysqlCallback, Answered, ListenerTypeOK
  <2>2. \A r \in RespQueues : Pushers(r)' = Pushers(r)
    BY <2>1 DEF Pushers
  <2>3. QED
    BY <1>1, <2>1, <2>2
<1>6. CASE UNCHANGED <<resp, listenerVars>>
  BY <1>1, <1>6 DEF listenerVars, Pushers
<1>7. QED
  BY <1>2, <1>3, <1>4, <1>5, <1>6
     DEF Next, vars, CallerStep, BeginQuery, LockResp, ScanNext, ScanFound, ScanFailed, TakeResp,
         SeqRead, SeqWrite, GetRespData, ScanMain, Send, WaitTimeout, Release, ListenerStep,
         KeepAliveCheck, KeepAliveSend, Elapse, Quiescent

(* With an overflow for every listener but one, 16 for 16 in the code, no   *)
(* listener ever waits for room in a response queue (queue.c 158-161).      *)
THEOREM ListenersDoNotBlock ==
  ASSUME RespOverFlow >= NMain - 1
  PROVE  Spec => []ListenersNeverBlock
<1>1. Init => RespBound
  BY InitRespBound
<1>2. TypeInv /\ RespBound /\ [Next]_vars => RespBound'
  BY StepRespBound
<1>3. TypeInv /\ RespBound => ListenersNeverBlock
  <2> SUFFICES ASSUME TypeInv, RespBound, NEW l \in Listeners, lpc[l] = "push"
               PROVE  ~RespQueueFull(cur[l].rq)
    BY DEF ListenersNeverBlock
  <2> DEFINE r == cur[l].rq
  <2>1. r \in RespQueues
    BY DEF TypeInv, Addressed
  <2>2. Len(resp[r]) \in Nat
    BY <2>1 DEF TypeInv, TypeOK, QueueTypeOK
  <2>3. Cardinality(Pushers(r)) \in Nat /\ Cardinality(Pushers(r)) # 0
    <3>1. l \in Pushers(r)
      BY DEF Pushers
    <3>2. QED
      BY <3>1, PushersFinite, FS_EmptySet
  <2>4. Len(resp[r]) + Cardinality(Pushers(r)) <= RespMax - 1 + NMain
    BY <2>1 DEF RespBound
  <2>5. QED
    BY <2>2, <2>3, <2>4, SizesAssumption DEF RespQueueFull
<1>4. QED
  BY <1>1, <1>2, <1>3, TypeInvAlways, PTL DEF Spec

-----------------------------------------------------------------------------
(* The overflow of the main queues.  A caller that has seen queue l short   *)
(* enough is a reader of l until it has pushed; each caller is one reader   *)
(* at most, and the keep alive task one more pusher, of a queue it saw      *)
(* empty.                                                                   *)

Readers(l) == {c \in Callers : /\ pc[c] \in {"mainscan", "push"}
                               /\ scan[c].minindex = l /\ scan[c].minsize < MainMax}
KeepAlives(l) == IF katarget = l THEN 1 ELSE 0

MainBound ==
    /\ \A l \in Listeners :
         Len(mainq[l]) + Cardinality(Readers(l)) + KeepAlives(l) <= MainMax + Cardinality(Callers)
    /\ \A c \in Callers : pc[c] = "push" => scan[c].minsize < MainMax

LEMMA ReadersFinite ==
  ASSUME NEW S \in SUBSET Callers
  PROVE  /\ IsFiniteSet(S) /\ Cardinality(S) \in Nat /\ Cardinality(Callers) \in Nat
         /\ Cardinality(S) <= Cardinality(Callers)
BY CallersAssumption, FS_Subset, FS_CardinalityType

LEMMA InitMainBound == Init => MainBound
<1> SUFFICES ASSUME Init
             PROVE  MainBound
  OBVIOUS
<1>1. ASSUME NEW l \in Listeners
      PROVE  Len(mainq[l]) + Cardinality(Readers(l)) + KeepAlives(l) <= MainMax + Cardinality(Callers)
  <2>1. Len(mainq[l]) = 0 /\ KeepAlives(l) \in {0, 1}
    BY <1>1 DEF Init, KeepAlives
  <2>2. Readers(l) \in SUBSET Callers
    BY DEF Readers
  <2>3. QED
    BY <2>1, <2>2, ReadersFinite, SizesAssumption
<1>2. QED
  BY <1>1 DEF MainBound, Init

(* When a queue gets no longer, and a new reader has just seen it short,    *)
(* the bound is kept whatever the other readers do.                         *)
LEMMA ReadersBound ==
  ASSUME NEW n \in Nat, NEW n2 \in Nat, NEW ka \in {0, 1}, NEW S \in SUBSET Callers,
         NEW T \in SUBSET Callers, n2 <= n,
         n + Cardinality(S) + ka <= MainMax + Cardinality(Callers),
         T \subseteq S \/ n < MainMax
  PROVE  n2 + Cardinality(T) + ka <= MainMax + Cardinality(Callers)
<1>1. /\ Cardinality(S) \in Nat /\ Cardinality(T) \in Nat /\ Cardinality(Callers) \in Nat
      /\ Cardinality(T) <= Cardinality(Callers) /\ IsFiniteSet(S)
  BY ReadersFinite
<1>2. CASE T \subseteq S
  <2>1. Cardinality(T) <= Cardinality(S)
    BY <1>1, <1>2, FS_Subset
  <2>2. QED
    BY <1>1, <2>1, SizesAssumption
<1>3. CASE n < MainMax
  BY <1>1, <1>3, SizesAssumption
<1>4. QED
  BY <1>2, <1>3

LEMMA StepMainBound ==
  ASSUME TypeInv, MainBound, [Next]_vars
  PROVE  MainBound'
<1>0. CallerTypeOK /\ QueueTypeOK /\ ListenerTypeOK /\ Holding
  BY DEF TypeInv, TypeOK
<1>L. \A l \in Listeners : Len(mainq[l]) \in Nat /\ KeepAlives(l) \in {0, 1}
  BY <1>0 DEF QueueTypeOK, KeepAlives
<1>R. \A l \in Listeners : Readers(l) \in SUBSET Callers /\ Readers(l)' \in SUBSET Callers
  BY DEF Readers
<1>1. ASSUME UNCHANGED katarget,
             \A l \in Listeners : Len(mainq'[l]) \in Nat /\ Len(mainq'[l]) <= Len(mainq[l]),
             \A l \in Listeners : Readers(l)' \subseteq Readers(l) \/ Len(mainq[l]) < MainMax,
             \A c \in Callers : pc'[c] = "push" => scan'[c].minsize < MainMax
      PROVE  MainBound'
  <2> SUFFICES ASSUME NEW l \in Listeners
               PROVE  Len(mainq'[l]) + Cardinality(Readers(l)') + KeepAlives(l)'
                        <= MainMax + Cardinality(Callers)
    BY <1>1 DEF MainBound
  <2>1. KeepAlives(l)' = KeepAlives(l)
    BY <1>1 DEF KeepAlives
  <2>2. Len(mainq[l]) + Cardinality(Readers(l)) + KeepAlives(l) <= MainMax + Cardinality(Callers)
    BY DEF MainBound
  <2>3. QED
    BY <1>1, <1>L, <1>R, <2>1, <2>2, ReadersBound
<1>2. ASSUME NEW c \in Callers, GetRespData(c) PROVE MainBound'
  <2>1. UNCHANGED <<mainq, katarget>>
    BY <1>2 DEF GetRespData
  <2>2. \A d \in Callers : d # c => pc'[d] = pc[d] /\ scan'[d] = scan[d]
    BY <1>0, <1>2 DEF GetRespData, CallerTypeOK
  <2>3. pc'[c] # "push" /\ (pc'[c] = "mainscan" => scan'[c] = FirstLook)
    BY <1>0, <1>2 DEF GetRespData, CallerTypeOK
  <2>4. ASSUME NEW l \in Listeners PROVE Readers(l)' \subseteq Readers(l) \/ Len(mainq[l]) < MainMax
    <3>1. CASE c \in Readers(l)'
      BY <2>3, <3>1 DEF Readers, FirstLook
    <3>2. CASE c \notin Readers(l)'
      BY <2>2, <3>2 DEF Readers
    <3>3. QED
      BY <3>1, <3>2
  <2>5. \A d \in Callers : pc'[d] = "push" => scan'[d].minsize < MainMax
    BY <2>2, <2>3 DEF MainBound
  <2>6. QED
    BY <1>1, <1>L, <2>1, <2>4, <2>5
<1>3. ASSUME NEW c \in Callers, ScanMain(c) PROVE MainBound'
  <2>1. UNCHANGED <<mainq, katarget>>
    BY <1>3 DEF ScanMain
  <2>2. \A d \in Callers : d # c => pc'[d] = pc[d] /\ scan'[d] = scan[d]
    BY <1>0, <1>3 DEF ScanMain, CallerTypeOK
  <2>3. /\ pc[c] = "mainscan" /\ scan'[c] = Look(scan[c])
        /\ pc'[c] = "push" => HasSpace(Look(scan[c]).minsize)
    BY <1>0, <1>3 DEF ScanMain, CallerTypeOK
  <2>4. ASSUME NEW l \in Listeners PROVE Readers(l)' \subseteq Readers(l) \/ Len(mainq[l]) < MainMax
    <3>1. CASE c \in Readers(l)'
      <4>1. Look(scan[c]).minindex = l /\ Look(scan[c]).minsize < MainMax
        BY <2>3, <3>1 DEF Readers
      <4>2. CASE Len(mainq[scan[c].i]) = 0 \/ Len(mainq[scan[c].i]) < scan[c].minsize
        BY <4>1, <4>2 DEF Look
      <4>3. CASE ~(Len(mainq[scan[c].i]) = 0 \/ Len(mainq[scan[c].i]) < scan[c].minsize)
        <5>1. c \in Readers(l)
          BY <2>3, <4>1, <4>3 DEF Look, Readers
        <5>2. QED
          BY <2>2, <5>1 DEF Readers
      <4>4. QED
        BY <4>2, <4>3
    <3>2. CASE c \notin Readers(l)'
      BY <2>2, <3>2 DEF Readers
    <3>3. QED
      BY <3>1, <3>2
  <2>5. \A d \in Callers : pc'[d] = "push" => scan'[d].minsize < MainMax
    BY <2>2, <2>3 DEF MainBound, HasSpace
  <2>6. QED
    BY <1>1, <1>L, <2>1, <2>4, <2>5
<1>4. ASSUME NEW c \in Callers, Send(c) PROVE MainBound'
  <2> DEFINE k == scan[c].minindex
  <2>1. k \in Listeners /\ pc[c] = "push" /\ scan[c].minsize < MainMax
    BY <1>0, <1>4 DEF Send, CallerTypeOK, ScanRecord, MainBound
  <2>2. \A d \in Callers : d # c => pc'[d] = pc[d] /\ scan'[d] = scan[d]
    BY <1>0, <1>4 DEF Send, CallerTypeOK
  <2>3. pc'[c] = "wait" /\ UNCHANGED katarget
    BY <1>0, <1>4 DEF Send, CallerTypeOK
  <2>4. \A l \in Listeners : Readers(l)' = Readers(l) \ {c}
    BY <2>2, <2>3 DEF Readers
  <2>5. ASSUME NEW l \in Listeners
        PROVE  Len(mainq'[l]) + Cardinality(Readers(l)') + KeepAlives(l)'
                 <= MainMax + Cardinality(Callers)
    <3>1. KeepAlives(l)' = KeepAlives(l)
      BY <2>3 DEF KeepAlives
    <3>2. /\ IsFiniteSet(Readers(l)) /\ Cardinality(Readers(l)) \in Nat
          /\ Cardinality(Callers) \in Nat
      BY <1>R, ReadersFinite
    <3>3. Len(mainq[l]) + Cardinality(Readers(l)) + KeepAlives(l) <= MainMax + Cardinality(Callers)
      BY DEF MainBound
    <3>4. CASE l = k
      <4>1. c \in Readers(l)
        BY <2>1, <3>4 DEF Readers
      <4>2. Cardinality(Readers(l)') = Cardinality(Readers(l)) - 1
        BY <2>4, <3>2, <4>1, FS_RemoveElement
      <4>3. Len(mainq'[l]) = Len(mainq[l]) + 1
        <5>1. mainq'[l] = Append(mainq[l], Request(c))
          BY <1>0, <1>4, <2>1, <3>4 DEF Send, QueueTypeOK
        <5>2. Request(c) \in Msg /\ mainq[l] \in Seq(Msg)
          BY <1>0, <2>1, RequestType DEF TypeInv, QueueTypeOK
        <5>3. QED
          BY <5>1, <5>2
      <4>4. QED
        BY <1>L, <3>1, <3>2, <3>3, <4>2, <4>3
    <3>5. CASE l # k
      <4>1. mainq'[l] = mainq[l]
        BY <1>0, <1>4, <3>5 DEF Send, QueueTypeOK
      <4>2. Cardinality(Readers(l)') <= Cardinality(Readers(l)) /\ Cardinality(Readers(l)') \in Nat
        <5>1. Readers(l)' \in SUBSET Readers(l)
          BY <2>4
        <5>2. QED
          BY <3>2, <5>1, FS_Subset, FS_CardinalityType
      <4>3. QED
        BY <1>L, <3>1, <3>2, <3>3, <4>1, <4>2, SizesAssumption
    <3>6. QED
      BY <3>4, <3>5
  <2>6. \A d \in Callers : pc'[d] = "push" => scan'[d].minsize < MainMax
    BY <2>2, <2>3 DEF MainBound
  <2>7. QED
    BY <2>5, <2>6 DEF MainBound
<1>5. ASSUME NEW l \in Listeners, Pop(l) PROVE MainBound'
  <2>1. \A k \in Listeners : Len(mainq'[k]) \in Nat /\ Len(mainq'[k]) <= Len(mainq[k])
    BY <1>0, <1>5, <1>L DEF Pop, QueueTypeOK
  <2>2. UNCHANGED <<pc, scan, katarget>>
    BY <1>5 DEF Pop, callerVars
  <2>3. \A k \in Listeners : Readers(k)' = Readers(k)
    BY <2>2 DEF Readers
  <2>4. \A c \in Callers : pc'[c] = "push" => scan'[c].minsize < MainMax
    BY <2>2 DEF MainBound
  <2>5. QED
    BY <1>1, <2>1, <2>2, <2>3, <2>4
<1>6. ASSUME NEW l \in Listeners, KeepAliveCheck(l) PROVE MainBound'
  <2>1. /\ UNCHANGED <<pc, scan, mainq>> /\ katarget = None /\ katarget' = l
        /\ Len(mainq[l]) = 0
    BY <1>6 DEF KeepAliveCheck, callerVars
  <2>2. \A k \in Listeners : Readers(k)' = Readers(k)
    BY <2>1 DEF Readers
  <2>3. ASSUME NEW k \in Listeners
        PROVE  Len(mainq'[k]) + Cardinality(Readers(k)') + KeepAlives(k)'
                 <= MainMax + Cardinality(Callers)
    <3>1. /\ Cardinality(Readers(k)) \in Nat /\ Cardinality(Callers) \in Nat
          /\ Cardinality(Readers(k)) <= Cardinality(Callers)
      BY <1>R, ReadersFinite
    <3>2. CASE k = l
      <4>1. KeepAlives(k)' = 1
        BY <2>1, <3>2 DEF KeepAlives
      <4>2. QED
        BY <2>1, <2>2, <3>1, <3>2, <4>1, SizesAssumption
    <3>3. CASE k # l
      <4>1. KeepAlives(k)' = 0 /\ KeepAlives(k) = 0
        BY <2>1, <3>3 DEF KeepAlives, Listeners, None
      <4>2. QED
        BY <2>1, <2>2, <4>1 DEF MainBound
    <3>4. QED
      BY <3>2, <3>3
  <2>4. QED
    BY <2>1, <2>3 DEF MainBound
<1>7. CASE KeepAliveSend
  <2>1. /\ UNCHANGED <<pc, scan>> /\ katarget' = None /\ katarget \in Listeners
    BY <1>0, <1>7 DEF KeepAliveSend, callerVars, ListenerTypeOK
  <2>2. \A k \in Listeners : Readers(k)' = Readers(k)
    BY <2>1 DEF Readers
  <2>3. ASSUME NEW k \in Listeners
        PROVE  Len(mainq'[k]) + Cardinality(Readers(k)') + KeepAlives(k)'
                 <= MainMax + Cardinality(Callers)
    <3>1. KeepAlives(k)' = 0
      BY <2>1 DEF KeepAlives, Listeners, None
    <3>2. CASE k = katarget
      <4>1. KeepAlives(k) = 1
        BY <3>2 DEF KeepAlives
      <4>2. mainq'[k] = Append(mainq[k], KeepAliveMsg)
        BY <1>0, <1>7, <3>2 DEF KeepAliveSend, QueueTypeOK
      <4>3. Len(mainq'[k]) = Len(mainq[k]) + 1
        BY <1>0, <4>2, KeepAliveMsgType DEF QueueTypeOK
      <4>4. Cardinality(Readers(k)) \in Nat
        BY <1>R, ReadersFinite
      <4>5. Len(mainq[k]) + Cardinality(Readers(k)) + KeepAlives(k) <= MainMax + Cardinality(Callers)
        BY DEF MainBound
      <4>6. QED
        BY <1>L, <2>2, <3>1, <4>1, <4>3, <4>4, <4>5
    <3>3. CASE k # katarget
      <4>1. KeepAlives(k) = 0
        BY <3>3 DEF KeepAlives
      <4>2. mainq'[k] = mainq[k]
        BY <1>0, <1>7, <3>3 DEF KeepAliveSend, QueueTypeOK
      <4>3. QED
        BY <2>2, <3>1, <4>1, <4>2 DEF MainBound
    <3>4. QED
      BY <3>2, <3>3
  <2>4. QED
    BY <2>1, <2>3 DEF MainBound
<1>8. ASSUME UNCHANGED <<mainq, katarget>>, NEW c \in Callers,
             pc[c] \notin {"mainscan", "push"}, pc'[c] \notin {"mainscan", "push"},
             \A d \in Callers : d # c => pc'[d] = pc[d] /\ scan'[d] = scan[d]
      PROVE  MainBound'
  <2>1. \A k \in Listeners : Readers(k)' = Readers(k)
    BY <1>8 DEF Readers
  <2>2. \A d \in Callers : pc'[d] = "push" => scan'[d].minsize < MainMax
    BY <1>8 DEF MainBound
  <2>3. QED
    BY <1>1, <1>8, <1>L, <2>1, <2>2
<1>9. ASSUME NEW c \in Callers,
             \/ BeginQuery(c) \/ LockResp(c) \/ ScanNext(c) \/ ScanFound(c) \/ ScanFailed(c)
             \/ TakeResp(c) \/ SeqRead(c) \/ SeqWrite(c)
             \/ Receive(c) \/ WaitTimeout(c) \/ Release(c)
      PROVE  MainBound'
  <2>1. UNCHANGED <<mainq, katarget>>
    BY <1>9 DEF BeginQuery, LockResp, ScanNext, ScanFound, ScanFailed, TakeResp, SeqRead, SeqWrite,
                Receive, WaitTimeout, Release
  <2>2. pc[c] \notin {"mainscan", "push"}
    BY <1>9 DEF BeginQuery, LockResp, ScanNext, ScanFound, ScanFailed, TakeResp, SeqRead, SeqWrite,
                Receive, WaitTimeout, Release
  <2>3. pc'[c] \notin {"mainscan", "push"}
    BY <1>0, <1>9, <2>2 DEF CallerTypeOK, callerVars, BeginQuery, LockResp, ScanNext, ScanFound,
                ScanFailed, TakeResp, SeqRead, SeqWrite, Receive, WaitTimeout, Release
  <2>4. \A d \in Callers : d # c => pc'[d] = pc[d] /\ scan'[d] = scan[d]
    BY <1>0, <1>9 DEF CallerTypeOK, callerVars, BeginQuery, LockResp, ScanNext, ScanFound,
                ScanFailed, TakeResp, SeqRead, SeqWrite, Receive, WaitTimeout, Release
  <2>5. QED
    BY <1>8, <2>1, <2>2, <2>3, <2>4
<1>10. CASE UNCHANGED <<pc, scan, mainq, katarget>>
  <2>1. \A k \in Listeners : Readers(k)' = Readers(k) /\ KeepAlives(k)' = KeepAlives(k)
    BY <1>10 DEF Readers, KeepAlives
  <2>2. QED
    BY <1>10, <2>1 DEF MainBound
<1>11. QED
  BY <1>2, <1>3, <1>4, <1>5, <1>6, <1>7, <1>9, <1>10
     DEF Next, vars, callerVars, CallerStep, ListenerStep, RedisCommand, MysqlQuery, MysqlCallback,
         OfferAnswer, PushAnswer, Elapse, Quiescent

(* With an overflow for every caller there may be, no caller and no keep    *)
(* alive ever waits for room in a main queue, so that a query without an    *)
(* answer still reaches its timeout.  The code has an overflow of 128: the  *)
(* assumption is that no more session threads are inside a query at once.   *)
THEOREM CallersDoNotBlock ==
  ASSUME MainOverFlow >= Cardinality(Callers)
  PROVE  Spec => []CallersNeverBlock
<1>1. Init => MainBound
  BY InitMainBound
<1>2. TypeInv /\ MainBound /\ [Next]_vars => MainBound'
  BY StepMainBound
<1>3. TypeInv /\ MainBound => CallersNeverBlock
  <2> SUFFICES ASSUME TypeInv, MainBound
               PROVE  CallersNeverBlock
    OBVIOUS
  <2>0. CallerTypeOK /\ QueueTypeOK /\ ListenerTypeOK
    BY DEF TypeInv, TypeOK
  <2>1. ASSUME NEW l \in Listeners, Cardinality(Readers(l)) + KeepAlives(l) >= 1
        PROVE  ~MainQueueFull(l)
    <3>1. Len(mainq[l]) \in Nat /\ KeepAlives(l) \in {0, 1}
      BY <2>0 DEF QueueTypeOK, KeepAlives
    <3>2. Cardinality(Readers(l)) \in Nat /\ Cardinality(Callers) \in Nat
      <4>1. Readers(l) \in SUBSET Callers
        BY DEF Readers
      <4>2. QED
        BY <4>1, ReadersFinite
    <3>3. Len(mainq[l]) + Cardinality(Readers(l)) + KeepAlives(l) <= MainMax + Cardinality(Callers)
      BY DEF MainBound
    <3>4. QED
      BY <2>1, <3>1, <3>2, <3>3, SizesAssumption DEF MainQueueFull
  <2>2. ASSUME NEW c \in Callers, pc[c] = "push" PROVE ~MainQueueFull(scan[c].minindex)
    <3> DEFINE l == scan[c].minindex
    <3>1. l \in Listeners /\ c \in Readers(l)
      BY <2>0, <2>2 DEF CallerTypeOK, ScanRecord, Readers, MainBound
    <3>2. Cardinality(Readers(l)) \in Nat /\ Cardinality(Readers(l)) # 0
      <4>1. Readers(l) \in SUBSET Callers
        BY DEF Readers
      <4>2. QED
        BY <3>1, <4>1, ReadersFinite, FS_EmptySet
    <3>3. KeepAlives(l) \in {0, 1}
      BY DEF KeepAlives
    <3>4. QED
      BY <2>1, <3>1, <3>2, <3>3
  <2>3. ASSUME katarget # None PROVE ~MainQueueFull(katarget)
    <3>1. katarget \in Listeners /\ KeepAlives(katarget) = 1
      BY <2>0, <2>3 DEF ListenerTypeOK, KeepAlives
    <3>2. Cardinality(Readers(katarget)) \in Nat
      <4>1. Readers(katarget) \in SUBSET Callers
        BY DEF Readers
      <4>2. QED
        BY <4>1, ReadersFinite
    <3>3. QED
      BY <2>1, <3>1, <3>2
  <2>4. QED
    BY <2>2, <2>3 DEF CallersNeverBlock
<1>4. QED
  BY <1>1, <1>2, <1>3, TypeInvAlways, PTL DEF Spec

-----------------------------------------------------------------------------
(* The numbers of the requests.  A request keeps its number, its owner and  *)
(* its response queue on its whole way, whatever the listeners make of it.  *)

LEMMA AppendElems ==
  ASSUME NEW s \in Seq(Msg), NEW m \in Msg
  PROVE  Elems(Append(s, m)) \subseteq Elems(s) \union {m}
<1> DEFINE t == Append(s, m)
<1>1. /\ Len(t) = Len(s) + 1 /\ Len(s) \in Nat /\ t[Len(s) + 1] = m
      /\ \A k \in 1 .. Len(s) : t[k] = s[k]
  OBVIOUS
<1>2. ASSUME NEW k \in 1 .. Len(t) PROVE t[k] \in Elems(s) \union {m}
  <2>1. k = Len(s) + 1 \/ k \in 1 .. Len(s)
    BY <1>1
  <2>2. QED
    BY <1>1, <2>1 DEF Elems
<1>3. QED
  BY <1>2 DEF Elems

LEMMA TailElems ==
  ASSUME NEW s \in Seq(Msg), s # <<>>
  PROVE  Elems(Tail(s)) \subseteq Elems(s) /\ Head(s) \in Elems(s)
<1>1. /\ Len(s) \in Nat \ {0} /\ Len(Tail(s)) = Len(s) - 1 /\ Head(s) = s[1]
      /\ \A k \in 1 .. Len(Tail(s)) : Tail(s)[k] = s[k + 1]
  OBVIOUS
<1>2. 1 \in 1 .. Len(s) /\ \A k \in 1 .. Len(Tail(s)) : k + 1 \in 1 .. Len(s)
  BY <1>1
<1>3. QED
  BY <1>1, <1>2 DEF Elems

Contents ==
    {cur[l] : l \in Listeners} \union (UNION {Elems(mainq[l]) : l \in Listeners})
        \union (UNION {Elems(resp[r]) : r \in RespQueues})

LEMMA InContents ==
  /\ \A l \in Listeners : cur[l] \in Contents /\ Elems(mainq[l]) \subseteq Contents
  /\ \A r \in RespQueues : Elems(resp[r]) \subseteq Contents
<1>1. \A l \in Listeners : cur[l] \in Contents
  BY DEF Contents
<1>2. ASSUME NEW l \in Listeners, NEW x \in Elems(mainq[l]) PROVE x \in Contents
  BY DEF Contents
<1>3. ASSUME NEW r \in RespQueues, NEW x \in Elems(resp[r]) PROVE x \in Contents
  BY DEF Contents
<1>4. QED
  BY <1>1, <1>2, <1>3

(* m is what a step of listener l makes of the request it has in hand.      *)
MadeOf(m, l) ==
    /\ m.from = cur[l].from /\ m.rq = cur[l].rq /\ m.seq = cur[l].seq /\ m.type = cur[l].type
    /\ m.res = "TIMEOUT" =>
         \/ cur[l].res = "TIMEOUT"
         \/ lpc[l] = "mysql" /\ cur[l].type # "MYSQL_INSERT_ID" /\ DeadlinePassed(cur[l])

NewContent(m) ==
    \/ m \in Contents \/ m = KeepAliveMsg
    \/ \E c \in Callers : Send(c) /\ m = Request(c)
    \/ \E l \in Listeners : MadeOf(m, l)

(* Only the request that listener l has in hand changes.                    *)
LEMMA MovesCur ==
  ASSUME TypeInv, NEW l \in Listeners, NEW m, UNCHANGED <<mainq, resp>>,
         cur' \in {[cur EXCEPT ![l] = m], [cur EXCEPT ![l] = KeepAliveMsg], cur}, NewContent(m)
  PROVE  \A x \in Contents' : NewContent(x)
<1>1. cur \in [Listeners -> Msg]
  BY DEF TypeInv, TypeOK, ListenerTypeOK
<1>2. ASSUME NEW x \in {cur'[k] : k \in Listeners} PROVE NewContent(x)
  <2>1. x \in {m, KeepAliveMsg} \/ x \in Contents
    BY <1>1, <1>2 DEF Contents
  <2>2. QED
    BY <2>1 DEF NewContent
<1>3. \A x \in Contents' : x \in Contents \/ x \in {cur'[k] : k \in Listeners}
  BY DEF Contents
<1>4. QED
  BY <1>2, <1>3 DEF NewContent

LEMMA Moves ==
  ASSUME TypeInv, [Next]_vars
  PROVE  \A x \in Contents' : NewContent(x)
<1> DEFINE Goal == \A x \in Contents' : NewContent(x)
<1>0. /\ QueueTypeOK /\ ListenerTypeOK /\ CallerTypeOK /\ Addressed
      /\ mainq \in [Listeners -> Seq(Msg)] /\ resp \in [RespQueues -> Seq(Msg)] /\ cur \in [Listeners -> Msg]
  BY DEF TypeInv, TypeOK, QueueTypeOK, ListenerTypeOK
<1>K. ASSUME UNCHANGED <<mainq, resp, cur>> PROVE Goal
  BY <1>K DEF Contents, NewContent
<1>M. ASSUME NEW k \in Listeners, NEW s, mainq' = [mainq EXCEPT ![k] = s], UNCHANGED <<resp, cur>>,
             \A x \in Elems(s) : NewContent(x)
      PROVE  Goal
  <2>1. \A l \in Listeners : mainq'[l] = mainq[l] \/ mainq'[l] = s
    BY <1>0, <1>M
  <2>2. \A x \in Contents' : x \in Contents \/ x \in Elems(s)
    BY <1>M, <2>1 DEF Contents
  <2>3. QED
    BY <1>M, <2>2 DEF NewContent
<1>R. ASSUME NEW k \in RespQueues, NEW s, resp' = [resp EXCEPT ![k] = s], UNCHANGED mainq,
             \A x \in Elems(s) : x \in Contents,
             \A l \in Listeners : cur'[l] = cur[l] \/ cur'[l] = KeepAliveMsg
      PROVE  Goal
  <2>1. \A r \in RespQueues : resp'[r] = resp[r] \/ resp'[r] = s
    BY <1>0, <1>R
  <2>2. ASSUME NEW x \in Contents' PROVE x \in Contents \/ x = KeepAliveMsg
    <3>1. CASE x \in {cur'[l] : l \in Listeners}
      <4>1. PICK l \in Listeners : x = cur'[l]
        BY <3>1
      <4>2. cur'[l] = cur[l] \/ cur'[l] = KeepAliveMsg
        BY <1>R
      <4>3. QED
        BY <4>1, <4>2, InContents
    <3>2. CASE x \in UNION {Elems(mainq[l]) : l \in Listeners}
      BY <3>2, InContents
    <3>3. CASE x \in UNION {Elems(resp'[r]) : r \in RespQueues}
      <4>1. PICK r \in RespQueues : x \in Elems(resp'[r])
        BY <3>3
      <4>2. QED
        BY <1>R, <2>1, <4>1, InContents
    <3>4. QED
      BY <1>R, <3>1, <3>2, <3>3 DEF Contents
  <2>3. QED
    BY <2>2 DEF NewContent
<1>1. ASSUME NEW c \in Callers, Send(c) PROVE Goal
  <2> DEFINE k == scan[c].minindex
  <2>1. k \in Listeners /\ Request(c) \in Msg
    BY <1>0, <1>1, RequestType DEF Send, CallerTypeOK, ScanRecord, TypeInv
  <2>2. Elems(Append(mainq[k], Request(c))) \subseteq Elems(mainq[k]) \union {Request(c)}
    BY <1>0, <2>1, AppendElems
  <2>3. \A x \in Elems(Append(mainq[k], Request(c))) : NewContent(x)
    BY <1>1, <2>1, <2>2 DEF Contents, NewContent
  <2>4. UNCHANGED <<resp, cur>> /\ mainq' = [mainq EXCEPT ![k] = Append(mainq[k], Request(c))]
    BY <1>1 DEF Send, listenerVars
  <2>5. QED
    BY <1>M, <2>1, <2>3, <2>4
<1>2. ASSUME NEW c \in Callers, Receive(c) PROVE Goal
  <2>1. rq[c] \in RespQueues
    BY <1>0, <1>2 DEF Receive, CallerTypeOK, Holding, TypeInv
  <2>2. Elems(Tail(resp[rq[c]])) \subseteq Contents
    BY <1>0, <1>2, <2>1, TailElems, InContents DEF Receive
  <2>3. UNCHANGED <<mainq, cur>> /\ resp' = [resp EXCEPT ![rq[c]] = Tail(resp[rq[c]])]
    BY <1>2 DEF Receive, listenerVars
  <2>4. QED
    BY <1>R, <2>1, <2>2, <2>3
<1>3. ASSUME NEW l \in Listeners, Pop(l) PROVE Goal
  <2>1. Elems(Tail(mainq[l])) \subseteq Elems(mainq[l]) /\ Head(mainq[l]) \in Elems(mainq[l])
    BY <1>0, <1>3, TailElems DEF Pop
  <2>2. /\ UNCHANGED resp
        /\ \A k \in Listeners : cur'[k] = cur[k] \/ cur'[k] = Head(mainq[l])
        /\ \A k \in Listeners : mainq'[k] = mainq[k] \/ mainq'[k] = Tail(mainq[l])
    BY <1>0, <1>3 DEF Pop
  <2>3. \A x \in Contents' : x \in Contents
    BY <2>1, <2>2 DEF Contents
  <2>4. QED
    BY <2>3 DEF NewContent
<1>4. ASSUME NEW l \in Listeners, RedisCommand(l) PROVE Goal
  <2>1. PICK m \in {WithRes(WithType(cur[l], "REDIS"), "SUCCESS"), WithRes(cur[l], "FALSE")} :
            cur' \in {[cur EXCEPT ![l] = m], [cur EXCEPT ![l] = KeepAliveMsg], cur}
    BY <1>4 DEF RedisCommand, Answered
  <2>2. MadeOf(m, l)
    BY <1>0, <2>1 DEF WithRes, WithType, MadeOf, Msg
  <2>3. UNCHANGED <<mainq, resp>>
    BY <1>4 DEF RedisCommand
  <2>4. QED
    BY <2>1, <2>2, <2>3, MovesCur DEF NewContent
<1>5. ASSUME NEW l \in Listeners, MysqlQuery(l) PROVE Goal
  <2>1. PICK m : /\ \/ m \in {WithRes(cur[l], "FALSE"), WithType(cur[l], "MYSQL_INSERT_ID"), WithType(cur[l], "MYSQL")}
                    \/ /\ m = WithRes(WithType(cur[l], "MYSQL"), "TIMEOUT")
                       /\ cur[l].type # "MYSQL_INSERT_ID" /\ DeadlinePassed(cur[l])
                 /\ cur' \in {[cur EXCEPT ![l] = m], [cur EXCEPT ![l] = KeepAliveMsg], cur}
    BY <1>5 DEF MysqlQuery, Answered
  <2>2. MadeOf(m, l)
    BY <1>0, <1>5, <2>1 DEF MysqlQuery, WithRes, WithType, MadeOf, Msg
  <2>3. UNCHANGED <<mainq, resp>>
    BY <1>5 DEF MysqlQuery
  <2>4. QED
    BY <2>1, <2>2, <2>3, MovesCur DEF NewContent
<1>6. ASSUME NEW l \in Listeners, MysqlCallback(l) PROVE Goal
  <2>1. PICK m \in {WithRes(cur[l], "SUCCESS"), WithRes(cur[l], "FALSE")} :
            cur' \in {[cur EXCEPT ![l] = m], [cur EXCEPT ![l] = KeepAliveMsg], cur}
    BY <1>6 DEF MysqlCallback, Answered
  <2>2. MadeOf(m, l)
    BY <1>0, <2>1 DEF WithRes, MadeOf, Msg
  <2>3. UNCHANGED <<mainq, resp>>
    BY <1>6 DEF MysqlCallback
  <2>4. QED
    BY <2>1, <2>2, <2>3, MovesCur DEF NewContent
<1>7. ASSUME NEW l \in Listeners, OfferAnswer(l) PROVE Goal
  <2>1. UNCHANGED <<mainq, resp>> /\ cur' \in {[cur EXCEPT ![l] = KeepAliveMsg], cur}
    BY <1>7 DEF OfferAnswer
  <2>2. QED
    BY <2>1, MovesCur DEF NewContent
<1>8. ASSUME NEW l \in Listeners, PushAnswer(l) PROVE Goal
  <2>1. cur[l] \in Msg /\ cur[l].rq \in RespQueues
    BY <1>0, <1>8 DEF PushAnswer, Addressed
  <2>2. Elems(Append(resp[cur[l].rq], cur[l])) \subseteq Elems(resp[cur[l].rq]) \union {cur[l]}
    BY <1>0, <2>1, AppendElems
  <2>3. Elems(Append(resp[cur[l].rq], cur[l])) \subseteq Contents
    BY <2>1, <2>2, InContents
  <2>4. /\ UNCHANGED mainq /\ resp' = [resp EXCEPT ![cur[l].rq] = Append(resp[cur[l].rq], cur[l])]
        /\ \A k \in Listeners : cur'[k] = cur[k] \/ cur'[k] = KeepAliveMsg
    BY <1>0, <1>8 DEF PushAnswer
  <2>5. QED
    BY <1>R, <2>1, <2>3, <2>4
<1>9. CASE KeepAliveSend
  <2>1. katarget \in Listeners
    BY <1>0, <1>9 DEF KeepAliveSend, ListenerTypeOK
  <2>2. Elems(Append(mainq[katarget], KeepAliveMsg)) \subseteq Elems(mainq[katarget]) \union {KeepAliveMsg}
    BY <1>0, <2>1, AppendElems, KeepAliveMsgType
  <2>3. \A x \in Elems(Append(mainq[katarget], KeepAliveMsg)) : NewContent(x)
    BY <2>1, <2>2 DEF Contents, NewContent
  <2>4. UNCHANGED <<resp, cur>> /\ mainq' = [mainq EXCEPT ![katarget] = Append(mainq[katarget], KeepAliveMsg)]
    BY <1>9 DEF KeepAliveSend, listenerVars
  <2>5. QED
    BY <1>M, <2>1, <2>3, <2>4
<1>10. QED
  BY <1>1, <1>2, <1>3, <1>4, <1>5, <1>6, <1>7, <1>8, <1>9, <1>K
     DEF Next, vars, listenerVars, CallerStep, BeginQuery, LockResp, ScanNext, ScanFound, ScanFailed, TakeResp,
         SeqRead, SeqWrite, GetRespData, ScanMain, WaitTimeout, Release, ListenerStep,
         KeepAliveCheck, Elapse, Quiescent

(* The callers that hold a number, which no other of them holds, and which  *)
(* only their own request carries, on its way to a response queue.          *)
Numbered(c) == pc[c] \in {"respdata", "mainscan", "push", "wait", "release"}

CounterInv ==
    /\ \A c \in Callers : pc[c] = "seqwrite" => seq[c] = counter
    /\ \A c \in Callers : Numbered(c) => seq[c] < counter
    /\ \A c, d \in Callers : Numbered(c) /\ Numbered(d) /\ seq[c] = seq[d] => c = d

OwnNumber(m) ==
    m.rq # None => /\ m.seq < counter
                   /\ \A c \in Callers : Numbered(c) /\ seq[c] = m.seq => m.from = Id(c)

RespInv == \A r \in RespQueues : \A m \in Elems(resp[r]) : m.rq # None

NumberInv == CounterInv /\ RespInv /\ \A m \in Contents : OwnNumber(m)

(* Two callers never are between the read and the write of the counter at   *)
(* the same time, as if the increment were atomic.                          *)
OneIncrement == \A c, d \in Callers : pc[c] = "seqwrite" /\ pc[d] = "seqwrite" => c = d

LEMMA InitNumberInv == Init => NumberInv
<1> SUFFICES ASSUME Init PROVE NumberInv
  OBVIOUS
<1>1. CounterInv /\ RespInv
  BY DEF Init, CounterInv, Numbered, RespInv, Elems
<1>2. \A m \in Contents : m.rq = None
  BY DEF Init, Contents, Elems, KeepAliveMsg
<1>3. QED
  BY <1>1, <1>2 DEF NumberInv, OwnNumber

(* What the steps of the callers do to numbers.                             *)
LEMMA StepCounterInv ==
  ASSUME TypeInv, NumberInv, OneIncrement, [Next]_vars
  PROVE  CounterInv' /\ \A m \in Msg : OwnNumber(m) => OwnNumber(m)'
<1> DEFINE Goal == CounterInv' /\ \A m \in Msg : OwnNumber(m) => OwnNumber(m)'
<1>0. /\ CallerTypeOK /\ CounterInv /\ counter \in Nat
      /\ pc \in [Callers -> {"idle", "lock", "scan", "take", "seqread", "seqwrite",
                             "respdata", "mainscan", "push", "wait", "release"}]
      /\ seq \in [Callers -> Nat] /\ query \in [Callers -> 0 .. MaxQueries]
  BY DEF TypeInv, TypeOK, CallerTypeOK, PoolTypeOK, NumberInv
<1>N. \A m \in Msg : m.seq \in Nat
  BY DEF Msg
<1>C. ASSUME NEW c \in Callers, UNCHANGED counter, pc' = [pc EXCEPT ![c] = pc'[c]],
             pc'[c] # "seqwrite", Numbered(c)' => Numbered(c) /\ seq'[c] = seq[c] /\ query'[c] = query[c],
             \A d \in Callers \ {c} : seq'[d] = seq[d] /\ query'[d] = query[d]
      PROVE  Goal
  <2>1. \A d \in Callers : Numbered(d)' => Numbered(d) /\ seq'[d] = seq[d] /\ Id(d)' = Id(d)
    BY <1>0, <1>C DEF Numbered, Id
  <2>2. \A d \in Callers : pc'[d] = "seqwrite" => pc[d] = "seqwrite" /\ seq'[d] = seq[d]
    BY <1>0, <1>C
  <2>3. QED
    BY <1>0, <1>C, <2>1, <2>2 DEF CounterInv, OwnNumber
<1>1. ASSUME NEW c \in Callers, BeginQuery(c) PROVE Goal
  BY <1>0, <1>1, <1>C DEF BeginQuery, Numbered
<1>2. ASSUME NEW c \in Callers, LockResp(c) \/ ScanFound(c) \/ ScanFailed(c) \/ TakeResp(c) PROVE Goal
  BY <1>0, <1>2, <1>C DEF LockResp, ScanFound, ScanFailed, TakeResp, Numbered
<1>3. ASSUME NEW c \in Callers, SeqRead(c) PROVE Goal
  <2>1. /\ UNCHANGED <<counter, query>> /\ \A d \in Callers : Numbered(d)' <=> Numbered(d)
        /\ \A d \in Callers : seq'[d] = IF d = c THEN counter ELSE seq[d]
        /\ \A d \in Callers : pc'[d] = IF d = c THEN "seqwrite" ELSE pc[d]
        /\ ~Numbered(c)
    BY <1>0, <1>3 DEF SeqRead, Numbered
  <2>2. QED
    BY <1>0, <2>1 DEF CounterInv, OwnNumber, Id
<1>4. ASSUME NEW c \in Callers, SeqWrite(c) PROVE Goal
  <2>1. /\ counter' = counter + 1 /\ seq[c] = counter /\ UNCHANGED <<seq, query>>
        /\ \A d \in Callers : Numbered(d)' <=> Numbered(d) \/ d = c
        /\ \A d \in Callers : pc'[d] # "seqwrite"
        /\ ~Numbered(c)
    BY <1>0, <1>4 DEF SeqWrite, Numbered, CounterInv, OneIncrement
  <2>2. CounterInv'
    BY <1>0, <2>1 DEF CounterInv
  <2>3. ASSUME NEW m \in Msg, OwnNumber(m) PROVE OwnNumber(m)'
    BY <1>0, <1>N, <2>1, <2>3 DEF OwnNumber, Id
  <2>4. QED
    BY <2>2, <2>3
<1>5. ASSUME NEW c \in Callers, GetRespData(c) \/ Send(c) \/ WaitTimeout(c) PROVE Goal
  BY <1>0, <1>5, <1>C DEF GetRespData, Send, WaitTimeout, Numbered
<1>6. ASSUME NEW c \in Callers, ScanMain(c) PROVE Goal
  <2>1. pc'[c] \in {"mainscan", "push", "release"} /\ pc' = [pc EXCEPT ![c] = pc'[c]]
    BY <1>0, <1>6 DEF ScanMain
  <2>2. UNCHANGED <<counter, seq, query>> /\ pc[c] = "mainscan"
    BY <1>6 DEF ScanMain
  <2>3. QED
    BY <1>0, <1>C, <2>1, <2>2 DEF Numbered
<1>7. ASSUME NEW c \in Callers, Receive(c) PROVE Goal
  <2>1. pc'[c] \in {"wait", "release"} /\ pc' = [pc EXCEPT ![c] = pc'[c]]
    BY <1>0, <1>7 DEF Receive
  <2>2. UNCHANGED <<counter, seq, query>> /\ pc[c] = "wait"
    BY <1>7 DEF Receive
  <2>3. QED
    BY <1>0, <1>C, <2>1, <2>2 DEF Numbered
<1>8. ASSUME NEW c \in Callers, Release(c) PROVE Goal
  BY <1>0, <1>8, <1>C DEF Release, Numbered
<1>9. CASE UNCHANGED <<counter, seq, query, pc>>
  BY <1>9 DEF CounterInv, NumberInv, Numbered, OwnNumber, Id
<1>10. QED
  BY <1>1, <1>2, <1>3, <1>4, <1>5, <1>6, <1>7, <1>8, <1>9
     DEF Next, vars, callerVars, CallerStep, ScanNext, ListenerStep, Pop, RedisCommand, MysqlQuery,
         MysqlCallback, OfferAnswer, PushAnswer, KeepAliveCheck, KeepAliveSend, Elapse, Quiescent

LEMMA StepRespInv ==
  ASSUME TypeInv, RespInv, [Next]_vars
  PROVE  RespInv'
<1>0. QueueTypeOK /\ resp \in [RespQueues -> Seq(Msg)] /\ ListenerTypeOK /\ Addressed
  BY DEF TypeInv, TypeOK, QueueTypeOK
<1>1. ASSUME NEW c \in Callers, Receive(c) PROVE RespInv'
  <2>1. rq[c] \in RespQueues
    BY <1>1 DEF Receive, CallerTypeOK, Holding, TypeInv, TypeOK
  <2>2. Elems(Tail(resp[rq[c]])) \subseteq Elems(resp[rq[c]])
    BY <1>0, <1>1, <2>1, TailElems DEF Receive
  <2>3. \A r \in RespQueues : resp'[r] = resp[r] \/ (r = rq[c] /\ resp'[r] = Tail(resp[r]))
    BY <1>0, <1>1 DEF Receive
  <2>4. QED
    BY <2>2, <2>3 DEF RespInv
<1>2. ASSUME NEW l \in Listeners, PushAnswer(l) PROVE RespInv'
  <2>1. cur[l] \in Msg /\ cur[l].rq \in RespQueues /\ cur[l].rq # None
    BY <1>0, <1>2 DEF PushAnswer, Addressed, ListenerTypeOK, RespQueues, None
  <2>2. Elems(Append(resp[cur[l].rq], cur[l])) \subseteq Elems(resp[cur[l].rq]) \union {cur[l]}
    BY <1>0, <2>1, AppendElems
  <2>3. \A r \in RespQueues : resp'[r] = resp[r] \/ (r = cur[l].rq /\ resp'[r] = Append(resp[r], cur[l]))
    BY <1>0, <1>2 DEF PushAnswer
  <2>4. QED
    BY <2>1, <2>2, <2>3 DEF RespInv
<1>3. CASE UNCHANGED resp
  BY <1>3 DEF RespInv
<1>4. QED
  BY <1>1, <1>2, <1>3
     DEF Next, vars, CallerStep, BeginQuery, LockResp, ScanNext, ScanFound, ScanFailed, TakeResp,
         SeqRead, SeqWrite, GetRespData, ScanMain, Send, WaitTimeout, Release, ListenerStep, Pop,
         RedisCommand, MysqlQuery, MysqlCallback, OfferAnswer, KeepAliveCheck, KeepAliveSend, Elapse, Quiescent

LEMMA ContentsType == TypeInv => Contents \subseteq Msg
<1> SUFFICES ASSUME TypeInv PROVE Contents \subseteq Msg
  OBVIOUS
<1>1. /\ mainq \in [Listeners -> Seq(Msg)] /\ resp \in [RespQueues -> Seq(Msg)] /\ cur \in [Listeners -> Msg]
  BY DEF TypeInv, TypeOK, QueueTypeOK, ListenerTypeOK
<1>2. \A s \in Seq(Msg) : Elems(s) \subseteq Msg
  BY DEF Elems
<1>3. QED
  BY <1>1, <1>2 DEF Contents

LEMMA StepNumberInv ==
  ASSUME TypeInv, NumberInv, OneIncrement, [Next]_vars
  PROVE  NumberInv'
<1>1. CounterInv' /\ \A m \in Msg : OwnNumber(m) => OwnNumber(m)'
  BY StepCounterInv
<1>2. RespInv'
  BY StepRespInv DEF NumberInv
<1>3. ASSUME NEW m \in Contents' PROVE OwnNumber(m)'
  <2>1. NewContent(m)
    BY <1>3, Moves
  <2>2. CASE m \in Contents
    BY <1>1, <2>2, ContentsType DEF NumberInv
  <2>3. CASE m = KeepAliveMsg
    BY <2>3 DEF KeepAliveMsg, OwnNumber
  <2>4. ASSUME NEW c \in Callers, Send(c), m = Request(c) PROVE OwnNumber(m)'
    <3>1. /\ m.seq = seq[c] /\ m.from = Id(c) /\ Numbered(c) /\ pc[c] = "push"
      BY <2>4 DEF Request, Send, Numbered
    <3>2. m \in Msg
      BY <2>4, <3>1, RequestType DEF TypeInv, TypeOK
    <3>3. OwnNumber(m)
      BY <3>1 DEF OwnNumber, NumberInv, CounterInv
    <3>4. QED
      BY <1>1, <3>2, <3>3
  <2>5. ASSUME NEW l \in Listeners, MadeOf(m, l) PROVE OwnNumber(m)'
    <3>1. PICK x \in Contents : x = cur[l] /\ x \in Msg
      BY InContents, ContentsType
    <3>2. OwnNumber(x)'
      BY <1>1, <3>1 DEF NumberInv
    <3>3. m.rq = x.rq /\ m.seq = x.seq /\ m.from = x.from
      BY <2>5, <3>1 DEF MadeOf
    <3>4. QED
      BY <3>2, <3>3 DEF OwnNumber
  <2>6. QED
    BY <2>1, <2>2, <2>3, <2>4, <2>5 DEF NewContent
<1>4. QED
  BY <1>1, <1>2, <1>3 DEF NumberInv

LEMMA NumbersAreOwn == TypeInv /\ NumberInv => OwnAnswer
<1> SUFFICES ASSUME TypeInv, NumberInv, NEW c \in Callers, pc[c] = "wait", resp[rq[c]] # <<>>,
                    Accepts(c, Head(resp[rq[c]]))
             PROVE  Head(resp[rq[c]]).from = Id(c)
  BY DEF OwnAnswer
<1>1. rq[c] \in RespQueues /\ resp[rq[c]] \in Seq(Msg)
  BY DEF TypeInv, TypeOK, CallerTypeOK, Holding, QueueTypeOK
<1>2. Head(resp[rq[c]]) \in Elems(resp[rq[c]])
  BY <1>1, TailElems
<1>3. Head(resp[rq[c]]) \in Contents /\ Head(resp[rq[c]]).rq # None
  BY <1>1, <1>2, InContents DEF NumberInv, RespInv
<1>4. QED
  BY <1>3 DEF NumberInv, OwnNumber, Numbered, Accepts

(* Nothing but two overlapping increments of the counter can make a query   *)
(* accept the answer to another: with an atomic one, no late answer ever    *)
(* passes for a new one (queue.c 619, 802).                                 *)
THEOREM AtomicCounterSuffices == Spec /\ []OneIncrement => []OwnAnswer
<1>1. TypeInv /\ NumberInv /\ OneIncrement /\ [Next]_vars => NumberInv'
  BY StepNumberInv
<1>2. QED
  BY <1>1, InitNumberInv, NumbersAreOwn, TypeInvAlways, PTL DEF Spec

(* In particular, the answers of a single session thread are its own.       *)
THEOREM OneCallerOwnAnswer ==
  ASSUME \A c, d \in Callers : c = d
  PROVE  Spec => []OwnAnswer
<1>1. OneIncrement
  BY DEF OneIncrement
<1>2. QED
  BY <1>1, AtomicCounterSuffices, PTL

-----------------------------------------------------------------------------
(* Timeouts.  A request that says TIMEOUT has had its time, and so has a    *)
(* query that is about to say so.                                           *)
CallerKinds == \A c \in Callers : pc[c] # "idle" => type[c] # "REDIS_MYSQL"
MysqlKinds == \A l \in Listeners : lpc[l] = "mysql" => cur[l].type \in {"MYSQL", "MYSQL_INSERT_ID"}
Timely(m) == m.type # "REDIS_MYSQL" /\ (m.res = "TIMEOUT" => m.from \in late)
ToldInTime == \A c \in Callers : pc[c] = "release" /\ ret[c] = "TIMEOUT" => Id(c) \in late
TimeInv == CallerKinds /\ MysqlKinds /\ ToldInTime /\ \A m \in Contents : Timely(m)

LEMMA InitTimeInv == Init => TimeInv
<1> SUFFICES ASSUME Init PROVE TimeInv
  OBVIOUS
<1>1. CallerKinds /\ MysqlKinds /\ ToldInTime
  BY DEF Init, CallerKinds, MysqlKinds, ToldInTime
<1>2. \A m \in Contents : m = KeepAliveMsg
  BY DEF Init, Contents, Elems
<1>3. QED
  BY <1>1, <1>2 DEF TimeInv, Timely, KeepAliveMsg

(* What has had its time has had it for ever.                               *)
LEMMA LateStays ==
  ASSUME [Next]_vars
  PROVE  late \subseteq late'
BY DEF Next, vars, callerVars, poolVars, listenerVars, CallerStep, BeginQuery, LockResp, ScanNext, ScanFound,
       ScanFailed, TakeResp, SeqRead, SeqWrite, GetRespData, ScanMain, Send, Receive, WaitTimeout, Release,
       ListenerStep, Pop, RedisCommand, MysqlQuery, MysqlCallback, OfferAnswer, PushAnswer,
       KeepAliveCheck, KeepAliveSend, Elapse, Quiescent

LEMMA StepCallerTimes ==
  ASSUME TypeInv, TimeInv, OwnAnswer, "REDIS_MYSQL" \notin EventTypes, [Next]_vars
  PROVE  CallerKinds' /\ ToldInTime'
<1> DEFINE Goal == CallerKinds' /\ ToldInTime'
<1>0. /\ CallerTypeOK /\ Holding /\ late \subseteq late' /\ CallerKinds /\ ToldInTime
      /\ pc \in [Callers -> {"idle", "lock", "scan", "take", "seqread", "seqwrite",
                             "respdata", "mainscan", "push", "wait", "release"}]
      /\ type \in [Callers -> CallerTypes] /\ ret \in [Callers -> Status \union {"none"}]
  BY LateStays DEF TypeInv, TypeOK, CallerTypeOK, TimeInv
<1>C. ASSUME NEW c \in Callers, pc[c] # "idle", UNCHANGED <<type, query>>,
             \A d \in Callers \ {c} : pc'[d] = pc[d] /\ ret'[d] = ret[d],
             pc'[c] = "release" /\ ret'[c] = "TIMEOUT" => Id(c) \in late
      PROVE  Goal
  BY <1>0, <1>C DEF CallerKinds, ToldInTime, Id
<1>1. ASSUME NEW c \in Callers, BeginQuery(c) PROVE Goal
  <2>1. /\ type'[c] # "REDIS_MYSQL" /\ pc'[c] # "release"
        /\ \A d \in Callers \ {c} : /\ pc'[d] = pc[d] /\ ret'[d] = ret[d] /\ type'[d] = type[d]
                                    /\ query'[d] = query[d]
    BY <1>0, <1>1 DEF BeginQuery
  <2>2. QED
    BY <1>0, <2>1 DEF CallerKinds, ToldInTime, Id
<1>2. ASSUME NEW c \in Callers, LockResp(c) \/ ScanFound(c) \/ ScanFailed(c) \/ TakeResp(c) \/ SeqRead(c) PROVE Goal
  BY <1>0, <1>2, <1>C DEF LockResp, ScanFound, ScanFailed, TakeResp, SeqRead
<1>3. ASSUME NEW c \in Callers, SeqWrite(c) \/ GetRespData(c) \/ Send(c) \/ WaitTimeout(c) PROVE Goal
  BY <1>0, <1>3, <1>C DEF SeqWrite, GetRespData, Send, WaitTimeout
<1>4. ASSUME NEW c \in Callers, ScanMain(c) PROVE Goal
  <2>1. /\ pc[c] = "mainscan" /\ UNCHANGED <<type, query>>
        /\ \A d \in Callers \ {c} : pc'[d] = pc[d] /\ ret'[d] = ret[d]
        /\ pc'[c] = "release" => ret'[c] = "FALSE"
    BY <1>0, <1>4 DEF ScanMain
  <2>2. QED
    BY <1>C, <2>1
<1>5. ASSUME NEW c \in Callers, Receive(c) PROVE Goal
  <2>1. /\ pc[c] = "wait" /\ UNCHANGED <<type, query>>
        /\ \A d \in Callers \ {c} : pc'[d] = pc[d] /\ ret'[d] = ret[d]
    BY <1>0, <1>5 DEF Receive
  <2>2. ASSUME pc'[c] = "release", ret'[c] = "TIMEOUT" PROVE Id(c) \in late
    <3>1. rq[c] \in RespQueues /\ resp[rq[c]] \in Seq(Msg) /\ resp[rq[c]] # <<>>
      BY <1>5 DEF Receive, TypeInv, TypeOK, CallerTypeOK, Holding, QueueTypeOK
    <3> DEFINE m == Head(resp[rq[c]])
    <3>2. Accepts(c, m) /\ "TIMEOUT" \in Results(m)
      BY <1>0, <1>5, <2>2, <2>1 DEF Receive
    <3>3. m.from = Id(c)
      BY <2>1, <3>1, <3>2 DEF OwnAnswer
    <3>4. m \in Contents
      BY <3>1, TailElems, InContents
    <3>5. m.res = "TIMEOUT"
      BY <3>2 DEF Results
    <3>6. QED
      BY <3>3, <3>4, <3>5 DEF TimeInv, Timely
  <2>3. QED
    BY <1>C, <2>1, <2>2
<1>6. ASSUME NEW c \in Callers, Release(c) PROVE Goal
  BY <1>0, <1>6, <1>C DEF Release
<1>7. CASE UNCHANGED <<pc, ret, type, query>>
  BY <1>0, <1>7 DEF CallerKinds, ToldInTime, Id
<1>8. QED
  BY <1>1, <1>2, <1>3, <1>4, <1>5, <1>6, <1>7
     DEF Next, vars, callerVars, CallerStep, ScanNext, ListenerStep, Pop, RedisCommand, MysqlQuery,
         MysqlCallback, OfferAnswer, PushAnswer, KeepAliveCheck, KeepAliveSend, Elapse, Quiescent

LEMMA StepMysqlKinds ==
  ASSUME TypeInv, TimeInv, [Next]_vars
  PROVE  MysqlKinds'
<1>0. /\ ListenerTypeOK /\ QueueTypeOK /\ MysqlKinds /\ \A l \in Listeners : cur[l].type # "REDIS_MYSQL"
      /\ cur \in [Listeners -> Msg]
      /\ lpc \in [Listeners -> {"pop", "redis", "mysql", "callback", "offer", "push"}]
  BY InContents DEF TypeInv, TypeOK, TimeInv, Timely, ListenerTypeOK
<1>L. ASSUME NEW l \in Listeners, \A k \in Listeners \ {l} : lpc'[k] = lpc[k] /\ cur'[k] = cur[k],
             lpc'[l] # "mysql"
      PROVE  MysqlKinds'
  BY <1>0, <1>L DEF MysqlKinds
<1>1. ASSUME NEW l \in Listeners, Pop(l) PROVE MysqlKinds'
  <2>1. mainq[l] \in Seq(Msg) /\ mainq[l] # <<>> /\ Head(mainq[l]) \in Msg
    BY <1>0, <1>1 DEF Pop, QueueTypeOK
  <2>2. /\ \A k \in Listeners \ {l} : lpc'[k] = lpc[k] /\ cur'[k] = cur[k]
        /\ cur'[l] = Head(mainq[l])
        /\ lpc'[l] = "mysql" => Head(mainq[l]).type \notin RedisTypes \union {"REDIS_KEEP_ALIVE"}
    BY <1>0, <1>1 DEF Pop
  <2>3. lpc'[l] = "mysql" => cur'[l].type \in {"MYSQL", "MYSQL_INSERT_ID"}
    BY <2>1, <2>2 DEF Msg, CallerTypes, RedisTypes
  <2>4. QED
    BY <1>0, <2>2, <2>3 DEF MysqlKinds
<1>2. ASSUME NEW l \in Listeners, RedisCommand(l) PROVE MysqlKinds'
  BY <1>0, <1>2, <1>L DEF RedisCommand, Answered
<1>3. ASSUME NEW l \in Listeners, MysqlQuery(l) PROVE MysqlKinds'
  BY <1>0, <1>3, <1>L DEF MysqlQuery, Answered
<1>4. ASSUME NEW l \in Listeners, MysqlCallback(l) PROVE MysqlKinds'
  BY <1>0, <1>4, <1>L DEF MysqlCallback, Answered
<1>5. ASSUME NEW l \in Listeners, OfferAnswer(l) \/ PushAnswer(l) PROVE MysqlKinds'
  BY <1>0, <1>5, <1>L DEF OfferAnswer, PushAnswer
<1>6. CASE UNCHANGED <<lpc, cur>>
  BY <1>0, <1>6 DEF MysqlKinds
<1>7. QED
  BY <1>1, <1>2, <1>3, <1>4, <1>5, <1>6
     DEF Next, vars, listenerVars, CallerStep, BeginQuery, LockResp, ScanNext, ScanFound, ScanFailed, TakeResp,
         SeqRead, SeqWrite, GetRespData, ScanMain, Send, Receive, WaitTimeout, Release, ListenerStep,
         KeepAliveCheck, KeepAliveSend, Elapse, Quiescent

LEMMA StepTimeInv ==
  ASSUME TypeInv, TimeInv, OwnAnswer, "REDIS_MYSQL" \notin EventTypes, [Next]_vars
  PROVE  TimeInv'
<1>1. CallerKinds' /\ ToldInTime' /\ MysqlKinds' /\ late \subseteq late'
  BY StepCallerTimes, StepMysqlKinds, LateStays
<1>2. ASSUME NEW m \in Contents' PROVE Timely(m)'
  <2>1. NewContent(m)
    BY <1>2, Moves
  <2>2. CASE m \in Contents
    BY <1>1, <2>2 DEF TimeInv, Timely
  <2>3. CASE m = KeepAliveMsg
    BY <2>3 DEF KeepAliveMsg, Timely
  <2>4. ASSUME NEW c \in Callers, Send(c), m = Request(c) PROVE Timely(m)'
    BY <2>4 DEF Send, Request, TimeInv, CallerKinds, Timely
  <2>5. ASSUME NEW l \in Listeners, MadeOf(m, l) PROVE Timely(m)'
    <3>1. Timely(cur[l]) /\ (lpc[l] = "mysql" => cur[l].type \in {"MYSQL", "MYSQL_INSERT_ID"})
      BY InContents DEF TimeInv, MysqlKinds
    <3>2. m.type # "REDIS_MYSQL" /\ (m.res = "TIMEOUT" => m.from \in late)
      BY <2>5, <3>1 DEF MadeOf, Timely, DeadlinePassed
    <3>3. QED
      BY <1>1, <3>2 DEF Timely
  <2>6. QED
    BY <2>1, <2>2, <2>3, <2>4, <2>5 DEF NewContent
<1>3. QED
  BY <1>1, <1>2 DEF TimeInv

LEMMA TimesAreTold == TimeInv => TimeoutIsReal
BY DEF TimeInv, ToldInTime, TimeoutIsReal

(* As long as answers are not confused, a query that reports a timeout is   *)
(* past its deadline, except for the one kind of event whose deadline is never   *)
(* made a point in time (queue.c 583, 761).                                 *)
THEOREM TimeoutsAreReal ==
  ASSUME "REDIS_MYSQL" \notin EventTypes
  PROVE  Spec /\ []OwnAnswer => []TimeoutIsReal
<1>1. TypeInv /\ TimeInv /\ OwnAnswer /\ [Next]_vars => TimeInv'
  BY StepTimeInv
<1>2. QED
  BY <1>1, InitTimeInv, TimesAreTold, TypeInvAlways, PTL DEF Spec
=============================================================================
