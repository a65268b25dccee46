------------------------ MODULE DbCacheServiceProofs ------------------------
(***************************************************************************)
(* A request is in one place at a time, from its push to a main queue to   *)
(* the end of its answer.  So its command is run once, its callback starts *)
(* for a caller that waits, and the query service implements QueryService. *)
(***************************************************************************)
EXTENDS DbCacheQueueProofs

(* The places: main queues, the hands of the listeners, response queues.    *)
Kinds == {"main", "hand", "resp"}
Where(t) == IF t = "resp" THEN RespQueues ELSE Listeners
At(t, k) == CASE t = "main" -> mainq[k]
              [] t = "hand" -> IF lpc[k] = "pop" THEN <<>> ELSE <<cur[k]>>
              [] OTHER -> resp[k]

(* No two requests of the same query.                                       *)
Single ==
    \A t, u \in Kinds : \A k \in Where(t), n \in Where(u) :
        \A i \in 1 .. Len(At(t, k)), j \in 1 .. Len(At(u, n)) :
            /\ At(t, k)[i].from = At(u, n)[j].from
            /\ At(t, k)[i].from # NoId
            => t = u /\ k = n /\ i = j

(* The messages of a query have been sent, a keep alive has no query, and   *)
(* an idle listener has nothing in hand.                                    *)
Sent(m) ==
    IF m.from = NoId
      THEN m.rq = None /\ m.type = "REDIS_KEEP_ALIVE"
      ELSE /\ m.rq # None /\ m.type \in EventTypes
           /\ \E c \in Callers : \E n \in 1 .. query[c] :
                m.from = <<c, n>> /\ (n = query[c] => c \notin Unsent)
IdleHands == \A l \in Listeners : lpc[l] = "pop" => cur[l] = KeepAliveMsg
AskedKinds == \A c \in Callers : pc[c] # "idle" => type[c] \in EventTypes
NotKeepAlive == \A l \in Listeners : lpc[l] \in {"mysql", "callback", "offer", "push"} => cur[l].from # NoId
SentInv == (\A m \in Contents : Sent(m)) /\ IdleHands /\ AskedKinds /\ NotKeepAlive

(* Until its time has elapsed, a request not answered has a caller waiting. *)
Awaited(m) == m.from = NoId \/ m.from \in late \/ Waiting(m.from)
AwaitedInv == \A m \in Unanswered : Awaited(m)
-----------------------------------------------------------------------------
(* The first request leaves place t, k, or none does, and one of query f is *)
(* the h-th in place v, m, or none is new, and no other request of f is     *)
(* left.                                                                    *)
Shifted(t, k, v, m, h, f) ==
    /\ \A u \in Kinds : \A n \in Where(u) : \A i \in 1 .. Len(At(u, n))' :
            \/ u = v /\ n = m /\ i = h /\ At(u, n)'[i].from = f
            \/ /\ u = t /\ n = k /\ i + 1 \in 1 .. Len(At(u, n))
               /\ At(u, n)'[i].from = At(u, n)[i + 1].from
            \/ /\ ~(u = t /\ n = k) /\ i \in 1 .. Len(At(u, n))
               /\ At(u, n)'[i].from = At(u, n)[i].from
    /\ f # NoId => \A u \in Kinds : \A n \in Where(u) : \A i \in 1 .. Len(At(u, n)) :
                        At(u, n)[i].from = f => u = t /\ n = k /\ i = 1

LEMMA StepSingle ==
  ASSUME Single, NEW t, NEW k, NEW v, NEW m, NEW h, NEW f, Shifted(t, k, v, m, h, f)
  PROVE  Single'
<1>1. SUFFICES ASSUME NEW u \in Kinds, NEW w \in Kinds, NEW n \in Where(u), NEW p \in Where(w),
                      NEW i \in 1 .. Len(At(u, n))', NEW j \in 1 .. Len(At(w, p))',
                      At(u, n)'[i].from = At(w, p)'[j].from, At(u, n)'[i].from # NoId
               PROVE  u = w /\ n = p /\ i = j
  BY DEF Single, Where
<1>2. i \in Int /\ j \in Int
  BY <1>1
<1> DEFINE Moved(y, o, e) ==
        \/ /\ y = t /\ o = k /\ e + 1 \in 1 .. Len(At(y, o))
           /\ At(y, o)'[e].from = At(y, o)[e + 1].from
        \/ /\ ~(y = t /\ o = k) /\ e \in 1 .. Len(At(y, o))
           /\ At(y, o)'[e].from = At(y, o)[e].from
<1>3. (u = v /\ n = m /\ i = h /\ At(u, n)'[i].from = f) \/ Moved(u, n, i)
  BY DEF Shifted
<1>4. (w = v /\ p = m /\ j = h /\ At(w, p)'[j].from = f) \/ Moved(w, p, j)
  BY DEF Shifted
<1>5. Moved(u, n, i) => At(u, n)'[i].from # f
  BY <1>1, <1>2 DEF Shifted
<1>6. Moved(w, p, j) => At(w, p)'[j].from # f
  BY <1>1, <1>2 DEF Shifted
<1>7. CASE Moved(u, n, i) /\ Moved(w, p, j)
  BY <1>1, <1>2, <1>7 DEF Single
<1> QED
  BY <1>1, <1>3, <1>4, <1>5, <1>6, <1>7

LEMMA InitSentInv == Init => SentInv
<1> SUFFICES ASSUME Init PROVE SentInv
  OBVIOUS
<1>1. Contents = {cur[l] : l \in Listeners} /\ \A l \in Listeners : cur[l] = KeepAliveMsg
  BY DEF Init, Contents, Elems
<1>2. Sent(KeepAliveMsg)
  BY DEF Sent, KeepAliveMsg
<1>3. \A m \in Contents : Sent(m)
  BY <1>1, <1>2
<1>4. IdleHands /\ AskedKinds /\ NotKeepAlive
  BY DEF Init, IdleHands, AskedKinds, NotKeepAlive
<1> QED
  BY <1>3, <1>4 DEF SentInv

(* Callers begin queries and send them; no query becomes unsent again.      *)
LEMMA StepSent ==
  ASSUME TypeInv, AskedKinds, [Next]_vars
  PROVE  AskedKinds' /\ \A m : Sent(m) => Sent(m)'
<1> DEFINE Goal == \A c \in Callers : /\ query'[c] \in query[c] .. query[c] + 1
                                      /\ c \in Unsent' => c \in Unsent \/ query'[c] = query[c] + 1
                                      /\ pc'[c] # "idle" => type'[c] \in EventTypes
<1>0. /\ pc \in [Callers -> {"idle", "lock", "scan", "take", "seqread", "seqwrite",
                             "respdata", "mainscan", "push", "wait", "release"}]
      /\ query \in [Callers -> 0 .. MaxQueries] /\ type \in [Callers -> CallerTypes]
      /\ \A c \in Callers : query[c] \in Int
  BY SizesAssumption DEF TypeInv, TypeOK, CallerTypeOK
<1>1. ASSUME NEW c \in Callers, BeginQuery(c) PROVE Goal
  BY <1>0, <1>1 DEF BeginQuery, Unsent, AskedKinds
<1>2. ASSUME NEW c \in Callers, UNCHANGED <<query, type>>, pc[c] # "idle",
             pc' = [pc EXCEPT ![c] = pc'[c]], c \in Unsent' => c \in Unsent
      PROVE  Goal
  BY <1>0, <1>2 DEF Unsent, AskedKinds
<1>3. ASSUME NEW c \in Callers, LockResp(c) \/ ScanFound(c) \/ ScanFailed(c) \/ TakeResp(c) \/ SeqRead(c)
                                  \/ SeqWrite(c) \/ GetRespData(c) \/ Send(c) \/ WaitTimeout(c) \/ Release(c)
      PROVE  Goal
  <2>1. UNCHANGED <<query, type>> /\ pc[c] # "idle" /\ pc' = [pc EXCEPT ![c] = pc'[c]]
    BY <1>0, <1>3 DEF LockResp, ScanFound, ScanFailed, TakeResp, SeqRead, SeqWrite, GetRespData, Send, WaitTimeout, Release
  <2>2. c \in Unsent' => c \in Unsent
    BY <1>0, <1>3
       DEF Unsent, LockResp, ScanFound, ScanFailed, TakeResp, SeqRead, SeqWrite, GetRespData, Send, WaitTimeout, Release
  <2> QED
    BY <1>2, <2>1, <2>2
<1>4. ASSUME NEW c \in Callers, ScanMain(c) PROVE Goal
  <2>1. UNCHANGED <<query, type>> /\ pc[c] = "mainscan" /\ pc' = [pc EXCEPT ![c] = pc'[c]]
    BY <1>0, <1>4 DEF ScanMain
  <2> QED
    BY <1>2, <2>1 DEF Unsent
<1>5. ASSUME NEW c \in Callers, Receive(c) PROVE Goal
  <2>1. /\ UNCHANGED <<query, type>> /\ pc[c] = "wait" /\ pc' = [pc EXCEPT ![c] = pc'[c]]
        /\ pc'[c] \in {"wait", "release"}
    BY <1>0, <1>5 DEF Receive
  <2> QED
    BY <1>2, <2>1 DEF Unsent
<1>6. ASSUME UNCHANGED <<query, type, pc>> PROVE Goal
  BY <1>0, <1>6 DEF Unsent, AskedKinds
<1>7. Goal
  BY <1>1, <1>3, <1>4, <1>5, <1>6
     DEF Next, vars, callerVars, CallerStep, ScanNext, ListenerStep, Pop, RedisCommand, MysqlQuery,
         MysqlCallback, OfferAnswer, PushAnswer, KeepAliveCheck, KeepAliveSend, Elapse, Quiescent
<1>8. AskedKinds'
  BY <1>7 DEF AskedKinds
<1>9. ASSUME NEW m, Sent(m), m.from # NoId PROVE Sent(m)'
  <2>1. PICK c \in Callers : \E n \in 1 .. query[c] : m.from = <<c, n>> /\ (n = query[c] => c \notin Unsent)
    BY <1>9 DEF Sent
  <2>3. PICK n \in 1 .. query[c] : m.from = <<c, n>> /\ (n = query[c] => c \notin Unsent)
    BY <2>1
  <2>2. n \in 1 .. query'[c] /\ (n = query'[c] => c \notin Unsent')
    BY <1>0, <1>7, <2>3
  <2> QED
    BY <1>9, <2>2, <2>3 DEF Sent
<1> QED
  BY <1>8, <1>9 DEF Sent

(* What a listener notes in a request leaves it a request of its query.      *)
LEMMA ListenerMakes ==
  ASSUME NEW m \in Msg
  PROVE  /\ \A s \in Status : WithRes(m, s) \in Msg /\ WithRes(m, s).from = m.from /\ WithRes(m, s).rq = m.rq
         /\ \A t \in {"REDIS", "MYSQL", "MYSQL_INSERT_ID"} :
                WithType(m, t) \in Msg /\ WithType(m, t).from = m.from /\ WithType(m, t).rq = m.rq
BY DEF WithRes, WithType, Msg

LEMMA StepHands ==
  ASSUME TypeInv, SentInv, [Next]_vars
  PROVE  IdleHands' /\ NotKeepAlive'
<1> DEFINE Goal == IdleHands' /\ NotKeepAlive'
<1>0. /\ lpc \in [Listeners -> {"pop", "redis", "mysql", "callback", "offer", "push"}]
      /\ cur \in [Listeners -> Msg] /\ mainq \in [Listeners -> Seq(Msg)]
      /\ IdleHands /\ NotKeepAlive /\ \A l \in Listeners : Sent(cur[l])
  BY InContents DEF TypeInv, TypeOK, ListenerTypeOK, QueueTypeOK, SentInv
<1>1. ASSUME NEW l \in Listeners, NEW a, NEW m, lpc' = [lpc EXCEPT ![l] = a], cur' = [cur EXCEPT ![l] = m],
             a = "pop" => m = KeepAliveMsg,
             a \in {"mysql", "callback", "offer", "push"} => m.from # NoId
      PROVE  Goal
  BY <1>0, <1>1 DEF IdleHands, NotKeepAlive
<1>2. ASSUME NEW l \in Listeners, NEW m, Answered(l, m), m.from = cur[l].from, m.rq = cur[l].rq PROVE Goal
  <2>1. m.rq # None => m.from # NoId
    BY <1>0, <1>2 DEF Sent
  <2> QED
    BY <1>1, <1>2, <2>1 DEF Answered
<1>3. ASSUME NEW l \in Listeners, NEW a, lpc' = [lpc EXCEPT ![l] = a], UNCHANGED cur,
             a # "pop", a \in {"mysql", "callback", "offer", "push"} => cur[l].from # NoId
      PROVE  Goal
  BY <1>0, <1>3 DEF IdleHands, NotKeepAlive
<1>4. ASSUME NEW l \in Listeners, Pop(l) PROVE Goal
  <2>1. Sent(Head(mainq[l]))
    BY <1>0, <1>4, TailElems, InContents DEF Pop, SentInv
  <2> QED
    BY <1>1, <1>4, <2>1 DEF Pop, Sent
<1>5. ASSUME NEW l \in Listeners, RedisCommand(l) PROVE Goal
  <2>1. \A m \in {WithRes(WithType(cur[l], "REDIS"), "SUCCESS"), WithRes(cur[l], "FALSE")} :
            m.from = cur[l].from /\ m.rq = cur[l].rq
    BY <1>0, ListenerMakes DEF Status
  <2>2. cur[l].type = "REDIS_MYSQL" => cur[l].from # NoId
    BY <1>0 DEF Sent
  <2> QED
    BY <1>2, <1>3, <1>5, <2>1, <2>2 DEF RedisCommand
<1>6. ASSUME NEW l \in Listeners, MysqlQuery(l) PROVE Goal
  <2>1. \A m \in {WithRes(cur[l], "FALSE"), WithRes(WithType(cur[l], "MYSQL"), "TIMEOUT"),
                  WithType(cur[l], "MYSQL"), WithType(cur[l], "MYSQL_INSERT_ID")} :
            m.from = cur[l].from /\ m.rq = cur[l].rq
    BY <1>0, ListenerMakes DEF Status
  <2>2. cur[l].from # NoId
    BY <1>0, <1>6 DEF MysqlQuery, NotKeepAlive
  <2> QED
    BY <1>1, <1>2, <1>6, <2>1, <2>2 DEF MysqlQuery
<1>7. ASSUME NEW l \in Listeners, MysqlCallback(l) PROVE Goal
  <2>1. \A s \in Status : WithRes(cur[l], s).from = cur[l].from /\ WithRes(cur[l], s).rq = cur[l].rq
    BY <1>0, ListenerMakes
  <2> QED
    BY <1>2, <1>7, <2>1 DEF MysqlCallback, Status
<1>8. ASSUME NEW l \in Listeners, OfferAnswer(l) \/ PushAnswer(l) PROVE Goal
  <2>1. lpc[l] \in {"offer", "push"} => cur[l].from # NoId
    BY <1>0 DEF NotKeepAlive
  <2> QED
    BY <1>1, <1>3, <1>8, <2>1 DEF OfferAnswer, PushAnswer
<1>9. CASE UNCHANGED <<lpc, cur>>
  BY <1>0, <1>9 DEF IdleHands, NotKeepAlive
<1> QED
  BY <1>4, <1>5, <1>6, <1>7, <1>8, <1>9
     DEF Next, vars, listenerVars, CallerStep, BeginQuery, LockResp, ScanNext, ScanFound, ScanFailed, TakeResp,
         SeqRead, SeqWrite, GetRespData, ScanMain, Send, Receive, WaitTimeout, Release, ListenerStep,
         KeepAliveCheck, KeepAliveSend, Elapse, Quiescent

LEMMA StepSentInv ==
  ASSUME TypeInv, SentInv, [Next]_vars
  PROVE  SentInv'
<1>1. /\ IdleHands' /\ NotKeepAlive' /\ AskedKinds' /\ \A m : Sent(m) => Sent(m)'
  BY StepHands, StepSent DEF SentInv
<1>2. ASSUME NEW m \in Contents' PROVE Sent(m)'
  <2>1. NewContent(m)
    BY <1>2, Moves
  <2>2. CASE m \in Contents
    BY <1>1, <2>2 DEF SentInv
  <2>3. CASE m = KeepAliveMsg
    BY <2>3 DEF KeepAliveMsg, Sent
  <2>4. ASSUME NEW c \in Callers, Send(c), m = Request(c) PROVE Sent(m)'
    <3>1. m.from = <<c, query[c]>> /\ m.rq = rq[c] /\ m.type = type[c] /\ m.from # NoId
      BY <2>4 DEF Request, Id, NoId
    <3>2. rq[c] # None /\ type[c] \in EventTypes /\ query[c] \in 1 .. query[c] /\ UNCHANGED query
      BY <2>4 DEF Send, SentInv, AskedKinds, TypeInv, Holding, Started, RespQueues, None
    <3>3. c \notin Unsent'
      BY <2>4 DEF Send, Unsent, TypeInv, TypeOK, CallerTypeOK
    <3> QED
      BY <3>1, <3>2, <3>3 DEF Sent
  <2>5. ASSUME NEW l \in Listeners, MadeOf(m, l) PROVE Sent(m)'
    <3>1. PICK x \in Contents : x = cur[l]
      BY InContents
    <3>2. Sent(x)'
      BY <1>1 DEF SentInv
    <3>3. m.rq = x.rq /\ m.from = x.from /\ m.type = x.type
      BY <2>5, <3>1 DEF MadeOf
    <3> QED
      BY <3>2, <3>3 DEF Sent
  <2> QED
    BY <2>1, <2>2, <2>3, <2>4, <2>5 DEF NewContent
<1> QED
  BY <1>1, <1>2 DEF SentInv


-----------------------------------------------------------------------------
(* Requests stay single.                                                    *)
LEMMA AtType == TypeInv => \A u \in Kinds : \A n \in Where(u) : At(u, n) \in Seq(Msg)
<1> SUFFICES ASSUME TypeInv, NEW u \in Kinds, NEW n \in Where(u) PROVE At(u, n) \in Seq(Msg)
  OBVIOUS
<1>1. /\ mainq \in [Listeners -> Seq(Msg)] /\ resp \in [RespQueues -> Seq(Msg)] /\ cur \in [Listeners -> Msg]
  BY DEF TypeInv, TypeOK, QueueTypeOK, ListenerTypeOK
<1>2. CASE u = "main"
  BY <1>1, <1>2 DEF At, Where
<1>3. CASE u = "hand"
  BY <1>1, <1>3 DEF At, Where
<1>4. CASE u = "resp"
  BY <1>1, <1>4 DEF At, Where
<1> QED
  BY <1>2, <1>3, <1>4 DEF Kinds

LEMMA AtContents ==
  ASSUME TypeInv, NEW u \in Kinds, NEW n \in Where(u), NEW i \in 1 .. Len(At(u, n))
  PROVE  At(u, n)[i] \in Contents
<1>1. CASE u = "main"
  BY <1>1, InContents DEF At, Where, Elems
<1>2. CASE u = "hand"
  <2>1. lpc[n] # "pop" /\ At(u, n) = <<cur[n]>>
    BY <1>2 DEF At
  <2>2. At(u, n)[i] = cur[n]
    BY <2>1
  <2> QED
    BY <1>2, <2>2, InContents DEF Where
<1>3. CASE u = "resp"
  BY <1>3, InContents DEF At, Where, Elems
<1> QED
  BY <1>1, <1>2, <1>3 DEF Kinds

LEMMA TailAt ==
  ASSUME NEW s \in Seq(Msg), s # <<>>
  PROVE  /\ Len(s) \in Nat \ {0} /\ Len(Tail(s)) = Len(s) - 1 /\ Head(s) = s[1]
         /\ \A i \in 1 .. Len(Tail(s)) : Tail(s)[i] = s[i + 1] /\ i + 1 \in 1 .. Len(s)
OBVIOUS

LEMMA AppendAt ==
  ASSUME NEW s \in Seq(Msg), NEW x \in Msg
  PROVE  /\ Len(s) \in Nat /\ Len(Append(s, x)) = Len(s) + 1
         /\ \A i \in 1 .. Len(Append(s, x)) :
              (i = Len(s) + 1 /\ Append(s, x)[i] = x) \/ (i \in 1 .. Len(s) /\ Append(s, x)[i] = s[i])
OBVIOUS

LEMMA DropSingle ==
  ASSUME TypeInv, Single, NEW t \in Kinds, NEW k \in Where(t), At(t, k) # <<>>,
         At(t, k)' = Tail(At(t, k)),
         \A u \in Kinds : \A n \in Where(u) : ~(u = t /\ n = k) => At(u, n)' = At(u, n)
  PROVE  Single'
<1>1. \A i \in 1 .. Len(At(t, k))' : /\ i + 1 \in 1 .. Len(At(t, k))
                                     /\ At(t, k)'[i].from = At(t, k)[i + 1].from
  BY AtType, TailAt
<1>2. Shifted(t, k, "none", 0, 0, NoId)
  BY <1>1 DEF Shifted
<1> QED
  BY <1>2, StepSingle

LEMMA MoveSingle ==
  ASSUME TypeInv, Single, NEW t \in Kinds, NEW k \in Where(t), At(t, k) # <<>>,
         At(t, k)' = Tail(At(t, k)),
         NEW v \in Kinds, NEW m \in Where(v), NEW x \in Msg, x.from = Head(At(t, k)).from,
         At(v, m)' = Append(At(v, m), x), ~(v = t /\ m = k),
         \A u \in Kinds : \A n \in Where(u) :
            ~(u = t /\ n = k) /\ ~(u = v /\ n = m) => At(u, n)' = At(u, n)
  PROVE  Single'
<1>1. \A i \in 1 .. Len(At(t, k))' : /\ i + 1 \in 1 .. Len(At(t, k))
                                     /\ At(t, k)'[i].from = At(t, k)[i + 1].from
  BY AtType, TailAt
<1>2. \A i \in 1 .. Len(At(v, m))' :
            \/ i = Len(At(v, m)) + 1 /\ At(v, m)'[i].from = x.from
            \/ i \in 1 .. Len(At(v, m)) /\ At(v, m)'[i].from = At(v, m)[i].from
  BY AtType, AppendAt
<1>3. x.from = At(t, k)[1].from /\ 1 \in 1 .. Len(At(t, k))
  BY AtType, TailAt
<1>4. Shifted(t, k, v, m, Len(At(v, m)) + 1, x.from)
  <2>1. ASSUME NEW u \in Kinds, NEW n \in Where(u), NEW i \in 1 .. Len(At(u, n))'
        PROVE  \/ u = v /\ n = m /\ i = Len(At(v, m)) + 1 /\ At(u, n)'[i].from = x.from
               \/ /\ u = t /\ n = k /\ i + 1 \in 1 .. Len(At(u, n))
                  /\ At(u, n)'[i].from = At(u, n)[i + 1].from
               \/ /\ ~(u = t /\ n = k) /\ i \in 1 .. Len(At(u, n))
                  /\ At(u, n)'[i].from = At(u, n)[i].from
    <3>1. CASE u = t /\ n = k
      BY <1>1, <3>1
    <3>2. CASE u = v /\ n = m
      BY <1>2, <3>2
    <3>3. CASE ~(u = t /\ n = k) /\ ~(u = v /\ n = m)
      BY <3>3
    <3> QED
      BY <3>1, <3>2, <3>3
  <2>2. x.from # NoId => \A u \in Kinds : \A n \in Where(u) : \A i \in 1 .. Len(At(u, n)) :
            At(u, n)[i].from = x.from => u = t /\ n = k /\ i = 1
    BY <1>3 DEF Single
  <2> QED
    BY <2>1, <2>2 DEF Shifted
<1> QED
  BY <1>4, StepSingle

LEMMA PutSingle ==
  ASSUME TypeInv, Single, NEW v \in Kinds, NEW m \in Where(v), NEW x \in Msg,
         x.from = NoId \/ \A y \in Contents : y.from # x.from,
         At(v, m)' = Append(At(v, m), x),
         \A u \in Kinds : \A n \in Where(u) : ~(u = v /\ n = m) => At(u, n)' = At(u, n)
  PROVE  Single'
<1>1. \A i \in 1 .. Len(At(v, m))' :
            \/ i = Len(At(v, m)) + 1 /\ At(v, m)'[i].from = x.from
            \/ i \in 1 .. Len(At(v, m)) /\ At(v, m)'[i].from = At(v, m)[i].from
  BY AtType, AppendAt
<1>2. x.from = NoId \/ \A u \in Kinds : \A n \in Where(u) : \A i \in 1 .. Len(At(u, n)) :
                            At(u, n)[i].from # x.from
  BY AtContents
<1>3. "none" \notin Kinds
  BY DEF Kinds
<1>4. Shifted("none", 0, v, m, Len(At(v, m)) + 1, x.from)
  BY <1>1, <1>2, <1>3 DEF Shifted
<1> QED
  BY <1>4, StepSingle

LEMMA ChangeSingle ==
  ASSUME TypeInv, Single, NEW l \in Listeners, NEW x \in Msg, x.from = cur[l].from, lpc[l] # "pop",
         At("hand", l)' = <<x>>,
         \A u \in Kinds : \A n \in Where(u) : ~(u = "hand" /\ n = l) => At(u, n)' = At(u, n)
  PROVE  Single'
<1>1. At("hand", l) = <<cur[l]>> /\ "hand" \in Kinds /\ l \in Where("hand")
  BY DEF At, Kinds, Where
<1>2. \A i \in 1 .. Len(At("hand", l))' : i = 1 /\ At("hand", l)'[i].from = At("hand", l)[1].from
  BY <1>1
<1>3. Shifted("none", 0, "none", 0, 0, NoId)
  BY <1>1, <1>2 DEF Shifted, Kinds
<1> QED
  BY <1>3, StepSingle


LEMMA Places ==
  /\ "main" \in Kinds /\ Where("main") = Listeners /\ "hand" \in Kinds /\ Where("hand") = Listeners
  /\ "resp" \in Kinds /\ Where("resp") = RespQueues
BY DEF Kinds, Where

LEMMA MainAt == \A n : At("main", n) = mainq[n] /\ At("main", n)' = mainq'[n]
BY DEF At

LEMMA RespAt == \A n : At("resp", n) = resp[n] /\ At("resp", n)' = resp'[n]
BY DEF At

LEMMA HandAt == \A n : /\ At("hand", n) = IF lpc[n] = "pop" THEN <<>> ELSE <<cur[n]>>
                      /\ At("hand", n)' = IF lpc'[n] = "pop" THEN <<>> ELSE <<cur'[n]>>
BY DEF At

LEMMA OneInHand == \A m : <<m>> # <<>> /\ Head(<<m>>) = m /\ Tail(<<m>>) = <<>> /\ Append(<<>>, m) = <<m>>
OBVIOUS

(* A listener step that leaves the queues as they are.                      *)
LEMMA HandSingle ==
  ASSUME TypeInv, Single, NEW l \in Listeners, lpc[l] # "pop", UNCHANGED <<mainq, resp>>,
         NEW m \in Msg, m.from = cur[l].from, NEW a, lpc' = [lpc EXCEPT ![l] = a],
         a # "pop" => cur' = [cur EXCEPT ![l] = m],
         a = "pop" => \A n \in Listeners \ {l} : cur'[n] = cur[n]
  PROVE  Single'
<1>0. /\ lpc \in [Listeners -> {"pop", "redis", "mysql", "callback", "offer", "push"}]
      /\ cur \in [Listeners -> Msg]
  BY DEF TypeInv, TypeOK, ListenerTypeOK
<1>1. \A u \in Kinds : \A n \in Where(u) : ~(u = "hand" /\ n = l) => At(u, n)' = At(u, n)
  BY <1>0, Places, MainAt, RespAt, HandAt DEF Kinds
<1>2. CASE a = "pop"
  <2>1. At("hand", l)' = Tail(At("hand", l)) /\ At("hand", l) # <<>>
    BY <1>0, <1>2, HandAt, OneInHand
  <2> QED
    BY <1>1, <2>1, Places, DropSingle
<1>3. CASE a # "pop"
  <2>1. At("hand", l)' = <<m>>
    BY <1>0, <1>3, HandAt
  <2> QED
    BY <1>1, <2>1, Places, ChangeSingle
<1> QED
  BY <1>2, <1>3

LEMMA InitSingle == Init => Single
<1> SUFFICES ASSUME Init PROVE Single
  OBVIOUS
<1>1. \A u \in Kinds : \A n \in Where(u) : At(u, n) = <<>>
  BY DEF Init, At, Kinds, Where
<1> QED
  BY <1>1 DEF Single

LEMMA StepSingleInv ==
  ASSUME TypeInv, SentInv, Single, [Next]_vars
  PROVE  Single'
<1>0. /\ mainq \in [Listeners -> Seq(Msg)] /\ resp \in [RespQueues -> Seq(Msg)] /\ cur \in [Listeners -> Msg]
      /\ lpc \in [Listeners -> {"pop", "redis", "mysql", "callback", "offer", "push"}]
      /\ katarget \in Listeners \union {None} /\ CallerTypeOK /\ Addressed /\ Holding
  BY DEF TypeInv, TypeOK, QueueTypeOK, ListenerTypeOK
<1>1. ASSUME NEW c \in Callers, Send(c) PROVE Single'
  <2>0. PICK l \in Listeners : l = scan[c].minindex
    BY <1>0 DEF CallerTypeOK, ScanRecord
  <2>1. PICK m \in Msg : m = Request(c) /\ c \in Unsent /\ m.from = <<c, query[c]>>
    BY <1>0, <1>1, RequestType DEF Send, CallerTypeOK, Unsent, TypeInv, Request, Id
  <2>2. ASSUME NEW y \in Contents PROVE y.from # <<c, query[c]>>
    <3>1. Sent(y) /\ <<c, query[c]>> # NoId
      BY DEF SentInv, NoId
    <3> QED
      BY <2>1, <3>1 DEF Sent
  <2>3. /\ \A n \in Listeners : mainq'[n] = IF n = l THEN Append(mainq[n], m) ELSE mainq[n]
        /\ UNCHANGED <<resp, cur, lpc>>
    BY <1>0, <1>1, <2>0, <2>1 DEF Send, listenerVars
  <2>4. At("main", l)' = Append(At("main", l), m)
    BY <2>3, MainAt
  <2>5. \A u \in Kinds : \A n \in Where(u) : ~(u = "main" /\ n = l) => At(u, n)' = At(u, n)
    BY <2>3, Places, MainAt, RespAt, HandAt DEF Kinds
  <2> QED
    BY <2>1, <2>2, <2>4, <2>5, Places, PutSingle
<1>2. CASE KeepAliveSend
  <2>1. PICK l \in Listeners : l = katarget
    BY <1>0, <1>2 DEF KeepAliveSend
  <2>2. PICK m \in Msg : m = KeepAliveMsg
    BY KeepAliveMsgType
  <2>3. /\ UNCHANGED <<resp, cur, lpc>>
        /\ \A n \in Listeners : mainq'[n] = IF n = l THEN Append(mainq[n], m) ELSE mainq[n]
    BY <1>0, <1>2, <2>1, <2>2 DEF KeepAliveSend, listenerVars
  <2>4. At("main", l)' = Append(At("main", l), m)
    BY <2>3, MainAt
  <2>5. \A u \in Kinds : \A n \in Where(u) : ~(u = "main" /\ n = l) => At(u, n)' = At(u, n)
    BY <2>3, Places, MainAt, RespAt, HandAt DEF Kinds
  <2>6. m.from = NoId \/ \A y \in Contents : y.from # m.from
    BY <2>2 DEF KeepAliveMsg
  <2>7. "main" \in Kinds /\ l \in Where("main")
    BY Places
  <2> QED
    BY <2>4, <2>5, <2>6, <2>7, PutSingle
<1>3. ASSUME NEW c \in Callers, Receive(c) PROVE Single'
  <2>0. PICK r \in RespQueues : r = rq[c]
    BY <1>0, <1>3 DEF Receive, Holding, CallerTypeOK
  <2>1. resp[r] # <<>> /\ UNCHANGED <<mainq, cur, lpc>>
    BY <1>3, <2>0 DEF Receive, listenerVars
  <2>2. \A n \in RespQueues : resp'[n] = IF n = r THEN Tail(resp[n]) ELSE resp[n]
    BY <1>0, <1>3, <2>0 DEF Receive
  <2>3. At("resp", r)' = Tail(At("resp", r)) /\ At("resp", r) # <<>>
    BY <2>1, <2>2, RespAt
  <2>4. \A u \in Kinds : \A n \in Where(u) : ~(u = "resp" /\ n = r) => At(u, n)' = At(u, n)
    BY <2>1, <2>2, Places, MainAt, RespAt, HandAt DEF Kinds
  <2> QED
    BY <2>3, <2>4, Places, DropSingle
<1>4. ASSUME NEW l \in Listeners, Pop(l) PROVE Single'
  <2>0. PICK m \in Msg : m = Head(mainq[l])
    BY <1>0, <1>4, TailElems DEF Pop, Elems
  <2>1. /\ lpc[l] = "pop" /\ lpc'[l] # "pop" /\ cur'[l] = m /\ mainq'[l] = Tail(mainq[l]) /\ UNCHANGED resp
        /\ \A n \in Listeners \ {l} : lpc'[n] = lpc[n] /\ cur'[n] = cur[n] /\ mainq'[n] = mainq[n]
        /\ mainq[l] # <<>>
    BY <1>0, <1>4, <2>0 DEF Pop
  <2>2. At("main", l)' = Tail(At("main", l)) /\ At("main", l) # <<>> /\ m = Head(At("main", l))
    BY <2>0, <2>1, MainAt
  <2>3. At("hand", l)' = Append(At("hand", l), m)
    BY <2>1, HandAt, OneInHand
  <2>4. \A u \in Kinds : \A n \in Where(u) :
            ~(u = "main" /\ n = l) /\ ~(u = "hand" /\ n = l) => At(u, n)' = At(u, n)
    BY <2>1, Places, MainAt, RespAt, HandAt DEF Kinds
  <2> QED
    BY <2>2, <2>3, <2>4, Places, MoveSingle
<1>5. ASSUME NEW l \in Listeners, PushAnswer(l) PROVE Single'
  <2>0. PICK r \in RespQueues : r = cur[l].rq
    BY <1>0, <1>5 DEF PushAnswer, Addressed
  <2>1. PICK m \in Msg : m = cur[l]
    BY <1>0
  <2>2. /\ lpc[l] # "pop" /\ lpc'[l] = "pop" /\ resp'[r] = Append(resp[r], m)
        /\ UNCHANGED mainq /\ \A n \in RespQueues \ {r} : resp'[n] = resp[n]
        /\ \A n \in Listeners \ {l} : lpc'[n] = lpc[n] /\ cur'[n] = cur[n]
    BY <1>0, <1>5, <2>0, <2>1 DEF PushAnswer
  <2>3. /\ At("hand", l)' = Tail(At("hand", l)) /\ At("hand", l) # <<>>
        /\ m.from = Head(At("hand", l)).from
    <3>1. At("hand", l) = <<m>> /\ At("hand", l)' = <<>>
      BY <2>1, <2>2, HandAt
    <3> QED
      BY <3>1, OneInHand
  <2>4. At("resp", r)' = Append(At("resp", r), m)
    BY <2>2, RespAt
  <2>5. \A u \in Kinds : \A n \in Where(u) :
            ~(u = "hand" /\ n = l) /\ ~(u = "resp" /\ n = r) => At(u, n)' = At(u, n)
    BY <2>2, Places, MainAt, RespAt, HandAt DEF Kinds
  <2> QED
    BY <2>3, <2>4, <2>5, Places, MoveSingle
<1>6. ASSUME NEW l \in Listeners, lpc[l] # "pop", UNCHANGED <<mainq, resp>>,
             NEW m \in Msg, m.from = cur[l].from, Answered(l, m)
      PROVE  Single'
  BY <1>0, <1>6, HandSingle DEF Answered
<1>7. ASSUME NEW l \in Listeners, OfferAnswer(l) PROVE Single'
  <2>1. cur = [cur EXCEPT ![l] = cur[l]]
    BY <1>0
  <2> QED
    BY <1>0, <1>7, <2>1, HandSingle DEF OfferAnswer
<1>8. ASSUME NEW l \in Listeners, RedisCommand(l) PROVE Single'
  <2>1. \A m \in {WithRes(WithType(cur[l], "REDIS"), "SUCCESS"), WithRes(cur[l], "FALSE")} :
            m.from = cur[l].from /\ m \in Msg
    BY <1>0, ListenerMakes DEF Status
  <2>2. cur = [cur EXCEPT ![l] = cur[l]] /\ lpc[l] # "pop" /\ UNCHANGED <<mainq, resp>>
    BY <1>0, <1>8 DEF RedisCommand
  <2>3. ASSUME lpc' = [lpc EXCEPT ![l] = "mysql"], UNCHANGED cur PROVE Single'
    BY <1>0, <2>2, <2>3, HandSingle
  <2> QED
    BY <1>6, <1>8, <2>1, <2>2, <2>3 DEF RedisCommand
<1>9. ASSUME NEW l \in Listeners, MysqlQuery(l) PROVE Single'
  <2>1. \A m \in {WithRes(cur[l], "FALSE"), WithRes(WithType(cur[l], "MYSQL"), "TIMEOUT"),
                  WithType(cur[l], "MYSQL"), WithType(cur[l], "MYSQL_INSERT_ID")} :
            m.from = cur[l].from /\ m \in Msg
    BY <1>0, ListenerMakes DEF Status
  <2>2. lpc[l] # "pop" /\ UNCHANGED <<mainq, resp>>
    BY <1>9 DEF MysqlQuery
  <2>3. ASSUME NEW m \in Msg, m.from = cur[l].from, lpc' = [lpc EXCEPT ![l] = "callback"],
               cur' = [cur EXCEPT ![l] = m]
        PROVE  Single'
    BY <1>0, <2>2, <2>3, HandSingle
  <2> QED
    BY <1>6, <1>9, <2>1, <2>2, <2>3 DEF MysqlQuery
<1>10. ASSUME NEW l \in Listeners, MysqlCallback(l) PROVE Single'
  <2>1. \A s \in Status : WithRes(cur[l], s).from = cur[l].from /\ WithRes(cur[l], s) \in Msg
    BY <1>0, ListenerMakes
  <2>2. PICK s \in Status : Answered(l, WithRes(cur[l], s))
    BY <1>10 DEF MysqlCallback, Status
  <2> QED
    BY <1>6, <1>10, <2>1, <2>2 DEF MysqlCallback
<1>11. CASE UNCHANGED <<mainq, resp, lpc, cur>>
  <2>1. \A u, n : At(u, n)' = At(u, n)
    BY <1>11 DEF At
  <2> QED
    BY <2>1 DEF Single
<1> QED
  BY <1>1, <1>2, <1>3, <1>4, <1>5, <1>7, <1>8, <1>9, <1>10, <1>11
     DEF Next, vars, listenerVars, CallerStep, BeginQuery, LockResp, ScanNext, ScanFound, ScanFailed, TakeResp,
         SeqRead, SeqWrite, GetRespData, ScanMain, WaitTimeout, Release, ListenerStep,
         KeepAliveCheck, Elapse, Quiescent


-----------------------------------------------------------------------------
(* What each step does to the requests not answered and to the answers.     *)
Busy == {"redis", "mysql", "callback"}
Done == {"offer", "push"}
OtherHands(l, labels) == {cur[k] : k \in {n \in Listeners \ {l} : lpc[n] \in labels}}
OtherMain(l) == UNION {Elems(mainq[k]) : k \in Listeners \ {l}}
OtherResp(r) == UNION {Elems(resp[k]) : k \in RespQueues \ {r}}

LEMMA AppendIs ==
  ASSUME NEW s \in Seq(Msg), NEW m \in Msg
  PROVE  Elems(Append(s, m)) = Elems(s) \union {m}
<1>1. Elems(Append(s, m)) \subseteq Elems(s) \union {m}
  BY AppendElems
<1>2. /\ Len(Append(s, m)) = Len(s) + 1 /\ Len(s) \in Nat /\ Append(s, m)[Len(s) + 1] = m
      /\ \A k \in 1 .. Len(s) : Append(s, m)[k] = s[k] /\ k \in 1 .. Len(s) + 1
  OBVIOUS
<1>3. m \in Elems(Append(s, m)) /\ \A k \in 1 .. Len(s) : s[k] \in Elems(Append(s, m))
  BY <1>2 DEF Elems
<1> QED
  BY <1>1, <1>3 DEF Elems

LEMMA TailIs ==
  ASSUME NEW s \in Seq(Msg), s # <<>>
  PROVE  Elems(s) = {Head(s)} \union Elems(Tail(s))
<1>1. Elems(Tail(s)) \subseteq Elems(s) /\ Head(s) \in Elems(s)
  BY TailElems
<1>2. /\ Len(s) \in Nat \ {0} /\ Len(Tail(s)) = Len(s) - 1 /\ Head(s) = s[1]
      /\ \A k \in 1 .. Len(Tail(s)) : Tail(s)[k] = s[k + 1]
  OBVIOUS
<1>3. ASSUME NEW k \in 1 .. Len(s) PROVE s[k] \in {Head(s)} \union Elems(Tail(s))
  <2>1. CASE k = 1
    BY <1>2, <2>1
  <2>2. CASE k # 1
    <3>1. k - 1 \in 1 .. Len(Tail(s)) /\ Tail(s)[k - 1] = s[k]
      BY <1>2, <2>2
    <3> QED
      BY <3>1 DEF Elems
  <2> QED
    BY <2>1, <2>2
<1> QED
  BY <1>1, <1>3 DEF Elems

LEMMA InPlaces ==
  ASSUME TypeInv
  PROVE  /\ \A l \in Listeners : lpc[l] # "pop" => At("hand", l)[1] = cur[l] /\ 1 \in 1 .. Len(At("hand", l))
         /\ \A l \in Listeners : \A y \in Elems(mainq[l]) : \E i \in 1 .. Len(At("main", l)) : y = At("main", l)[i]
         /\ \A r \in RespQueues : \A y \in Elems(resp[r]) : \E i \in 1 .. Len(At("resp", r)) : y = At("resp", r)[i]
<1>1. ASSUME NEW l \in Listeners, lpc[l] # "pop"
      PROVE  At("hand", l)[1] = cur[l] /\ 1 \in 1 .. Len(At("hand", l))
  BY <1>1, HandAt
<1> QED
  BY <1>1, MainAt, RespAt DEF Elems

(* No other request than the one in hand is of its query.                   *)
LEMMA NoOther ==
  ASSUME TypeInv, Single, NEW l \in Listeners, lpc[l] # "pop", cur[l].from # NoId
  PROVE  /\ \A y \in OtherHands(l, Busy) \union OtherHands(l, Done) : y.from # cur[l].from
         /\ \A k \in Listeners : \A y \in Elems(mainq[k]) : y.from # cur[l].from
         /\ \A r \in RespQueues : \A y \in Elems(resp[r]) : y.from # cur[l].from
<1>0. /\ At("hand", l)[1].from # NoId /\ At("hand", l)[1] = cur[l] /\ 1 \in 1 .. Len(At("hand", l))
      /\ "hand" \in Kinds /\ l \in Where("hand")
  BY InPlaces, Places
<1>1. ASSUME NEW u \in Kinds, NEW k \in Where(u), NEW i \in 1 .. Len(At(u, k)), ~(u = "hand" /\ k = l)
      PROVE  At(u, k)[i].from # cur[l].from
  BY <1>0, <1>1 DEF Single
<1>2. ASSUME NEW k \in Listeners \ {l}, lpc[k] # "pop" PROVE cur[k].from # cur[l].from
  BY <1>1, <1>2, InPlaces, Places
<1>3. \A y \in OtherHands(l, Busy) \union OtherHands(l, Done) : y.from # cur[l].from
  BY <1>2 DEF OtherHands, Busy, Done
<1>4. ASSUME NEW k \in Listeners, NEW y \in Elems(mainq[k]) PROVE y.from # cur[l].from
  <2>1. PICK i \in 1 .. Len(At("main", k)) : y = At("main", k)[i]
    BY InPlaces
  <2>2. "main" \in Kinds /\ k \in Where("main")
    BY Places
  <2> QED
    BY <1>1, <2>1, <2>2
<1>5. ASSUME NEW r \in RespQueues, NEW y \in Elems(resp[r]) PROVE y.from # cur[l].from
  <2>1. PICK i \in 1 .. Len(At("resp", r)) : y = At("resp", r)[i]
    BY InPlaces
  <2>2. "resp" \in Kinds /\ r \in Where("resp") /\ "resp" # "hand"
    BY Places
  <2> QED
    BY <1>1, <2>1, <2>2
<1> QED
  BY <1>3, <1>4, <1>5

LEMMA NoOtherResp ==
  ASSUME TypeInv, Single, NEW r \in RespQueues, resp[r] # <<>>, Head(resp[r]).from # NoId
  PROVE  /\ \A y \in InHand(Done) \union Unanswered : y.from # Head(resp[r]).from
         /\ \A y \in OtherResp(r) \union Elems(Tail(resp[r])) : y.from # Head(resp[r]).from
<1> DEFINE h == Head(resp[r])
<1>0. /\ resp[r] \in Seq(Msg) /\ "resp" \in Kinds /\ r \in Where("resp")
      /\ h = At("resp", r)[1] /\ 1 \in 1 .. Len(At("resp", r))
  BY Places, RespAt, TailAt DEF TypeInv, TypeOK, QueueTypeOK
<1>1. ASSUME NEW u \in Kinds, NEW k \in Where(u), NEW i \in 1 .. Len(At(u, k)), ~(u = "resp" /\ k = r /\ i = 1)
      PROVE  At(u, k)[i].from # h.from
  BY <1>0, <1>1 DEF Single
<1> HIDE DEF h
<1>2. ASSUME NEW k \in Listeners, lpc[k] # "pop" PROVE cur[k].from # h.from
  BY <1>1, <1>2, InPlaces, Places
<1>3. ASSUME NEW k \in Listeners, NEW y \in Elems(mainq[k]) PROVE y.from # h.from
  <2>1. PICK i \in 1 .. Len(At("main", k)) : y = At("main", k)[i]
    BY InPlaces
  <2>2. "main" \in Kinds /\ k \in Where("main")
    BY Places
  <2> QED
    BY <1>1, <2>1, <2>2
<1>4. ASSUME NEW k \in RespQueues \ {r}, NEW y \in Elems(resp[k]) PROVE y.from # h.from
  <2>1. PICK i \in 1 .. Len(At("resp", k)) : y = At("resp", k)[i]
    BY InPlaces
  <2>2. k \in Where("resp")
    BY Places
  <2> QED
    BY <1>0, <1>1, <2>1, <2>2
<1>5. ASSUME NEW y \in Elems(Tail(resp[r])) PROVE y.from # h.from
  <2>1. PICK i \in 1 .. Len(Tail(resp[r])) : y = Tail(resp[r])[i]
    BY DEF Elems
  <2>2. y = At("resp", r)[i + 1] /\ i + 1 \in 1 .. Len(At("resp", r)) /\ i + 1 # 1
    BY <1>0, <2>1, RespAt, TailAt
  <2> QED
    BY <1>0, <1>1, <2>2
<1>6. \A y \in InHand(Done) \union Unanswered : y.from # h.from
  BY <1>2, <1>3 DEF InHand, Unanswered, Done
<1>7. \A y \in OtherResp(r) \union Elems(Tail(resp[r])) : y.from # h.from
  BY <1>4, <1>5 DEF OtherResp
<1> QED
  BY <1>6, <1>7 DEF h


LEMMA UnchangedEffect ==
  ASSUME UNCHANGED <<mainq, resp, lpc, cur>>
  PROVE  UNCHANGED <<Unanswered, Returning>>
BY DEF Unanswered, Returning, InHand, Elems

LEMMA PushEffect ==
  ASSUME TypeInv, NEW l \in Listeners, NEW m \in Msg, mainq' = [mainq EXCEPT ![l] = Append(@, m)],
         UNCHANGED <<resp, lpc, cur>>
  PROVE  Unanswered' = Unanswered \union {m} /\ Returning' = Returning
<1>0. mainq \in [Listeners -> Seq(Msg)]
  BY DEF TypeInv, TypeOK, QueueTypeOK
<1>1. mainq'[l] = Append(mainq[l], m) /\ \A k \in Listeners \ {l} : mainq'[k] = mainq[k]
  BY <1>0
<1>2. Elems(mainq'[l]) = Elems(mainq[l]) \union {m}
  BY <1>0, <1>1, AppendIs
<1>3. \A k \in Listeners \ {l} : Elems(mainq'[k]) = Elems(mainq[k])
  BY <1>1
<1>4. UNION {Elems(mainq'[k]) : k \in Listeners} = (UNION {Elems(mainq[k]) : k \in Listeners}) \union {m}
  BY <1>2, <1>3
<1>5. InHand(Busy)' = InHand(Busy)
  BY DEF InHand, Busy
<1>6. Unanswered' = Unanswered \union {m}
  BY <1>4, <1>5 DEF Unanswered, Busy
<1>7. Returning' = Returning
  BY DEF Returning, InHand, Elems
<1> QED
  BY <1>6, <1>7

(* A listener goes on with what it has in hand.                             *)
LEMMA HandEffect ==
  ASSUME TypeInv, NEW l \in Listeners, NEW a, lpc' = [lpc EXCEPT ![l] = a],
         \A k \in Listeners \ {l} : cur'[k] = cur[k]
  PROVE  /\ InHand(Busy)' = OtherHands(l, Busy) \union {x \in {cur'[l]} : a \in Busy}
         /\ InHand(Done)' = OtherHands(l, Done) \union {x \in {cur'[l]} : a \in Done}
<1>0. lpc \in [Listeners -> {"pop", "redis", "mysql", "callback", "offer", "push"}]
  BY DEF TypeInv, TypeOK, ListenerTypeOK
<1>1. lpc'[l] = a /\ \A k \in Listeners \ {l} : lpc'[k] = lpc[k]
  BY <1>0
<1> QED
  BY <1>1 DEF InHand, OtherHands

LEMMA HandNow ==
  ASSUME NEW l \in Listeners
  PROVE  /\ InHand(Busy) = OtherHands(l, Busy) \union {x \in {cur[l]} : lpc[l] \in Busy}
         /\ InHand(Done) = OtherHands(l, Done) \union {x \in {cur[l]} : lpc[l] \in Done}
BY DEF InHand, OtherHands

LEMMA BusyOrDone ==
  ASSUME NEW a
  PROVE  /\ a \in {"pop", "offer", "push"} => a \notin Busy
         /\ a \in Busy \union {"pop"} => a \notin Done
         /\ a \in {"redis", "mysql", "callback"} => a \in Busy
         /\ a \in {"offer", "push"} => a \in Done
BY DEF Busy, Done

LEMMA PopEffect ==
  ASSUME TypeInv, NEW l \in Listeners, Pop(l)
  PROVE  Unanswered' = Unanswered /\ Returning' = Returning
<1> DEFINE m == Head(mainq[l])
<1>0. /\ mainq \in [Listeners -> Seq(Msg)] /\ cur \in [Listeners -> Msg]
      /\ lpc \in [Listeners -> {"pop", "redis", "mysql", "callback", "offer", "push"}]
  BY DEF TypeInv, TypeOK, QueueTypeOK, ListenerTypeOK
<1>1. PICK a \in {"redis", "mysql"} : lpc' = [lpc EXCEPT ![l] = a]
  BY <1>0 DEF Pop
<1>2. cur'[l] = m /\ lpc[l] = "pop" /\ \A k \in Listeners \ {l} : cur'[k] = cur[k]
  BY <1>0 DEF Pop
<1>3. /\ InHand(Busy)' = OtherHands(l, Busy) \union {x \in {cur'[l]} : a \in Busy}
      /\ InHand(Done)' = OtherHands(l, Done) \union {x \in {cur'[l]} : a \in Done}
  BY <1>1, <1>2, HandEffect
<1>4. mainq[l] # <<>> /\ mainq'[l] = Tail(mainq[l]) /\ \A k \in Listeners \ {l} : mainq'[k] = mainq[k]
  BY <1>0 DEF Pop
<1>5. Elems(mainq[l]) = {m} \union Elems(mainq'[l])
  BY <1>0, <1>4, TailIs
<1>6. OtherMain(l)' = OtherMain(l)
  BY <1>4 DEF OtherMain
<1>7. InHand(Busy)' = InHand(Busy) \union {m}
  BY <1>1, <1>2, <1>3, HandNow, BusyOrDone
<1>8. InHand(Done)' = InHand(Done)
  BY <1>1, <1>2, <1>3, HandNow, BusyOrDone
<1>9. Unanswered' = Unanswered
  <2>1. /\ UNION {Elems(mainq[k]) : k \in Listeners} = OtherMain(l) \union Elems(mainq[l])
        /\ UNION {Elems(mainq'[k]) : k \in Listeners} = OtherMain(l) \union Elems(mainq'[l])
    BY <1>6 DEF OtherMain
  <2> HIDE DEF m
  <2> QED
    BY <1>5, <1>7, <2>1 DEF Unanswered, Busy
<1>10. Returning' = Returning
  <2>1. UNCHANGED resp
    BY DEF Pop
  <2> QED
    BY <1>8, <2>1 DEF Returning, Done
<1> QED
  BY <1>9, <1>10

(* A listener finishes with the request in hand, or passes it on.           *)
LEMMA AnsweredEffect ==
  ASSUME TypeInv, SentInv, Single, NEW l \in Listeners, lpc[l] \in Busy, UNCHANGED <<mainq, resp>>,
         NEW m \in Msg, m.from = cur[l].from, m.rq = cur[l].rq, Answered(l, m)
  PROVE  /\ Unanswered = Unanswered' \union {cur[l]}
         /\ IF cur[l].from = NoId
              THEN Returning' = Returning
              ELSE /\ Returning' = Returning \union {m}
                   /\ \A y \in Unanswered' : y.from # cur[l].from
<1>0. /\ cur \in [Listeners -> Msg] /\ Sent(cur[l]) /\ lpc[l] # "pop"
      /\ lpc \in [Listeners -> {"pop", "redis", "mysql", "callback", "offer", "push"}]
  BY InContents DEF TypeInv, TypeOK, ListenerTypeOK, SentInv, Busy
<1>1. PICK a \in {"pop", "offer"} :
        /\ lpc' = [lpc EXCEPT ![l] = a]
        /\ \A k \in Listeners \ {l} : cur'[k] = cur[k]
        /\ IF m.rq = None THEN a = "pop" ELSE a = "offer" /\ cur'[l] = m
  BY <1>0 DEF Answered
<1>2. /\ InHand(Busy)' = OtherHands(l, Busy) \union {x \in {cur'[l]} : a \in Busy}
      /\ InHand(Done)' = OtherHands(l, Done) \union {x \in {cur'[l]} : a \in Done}
  BY <1>1, HandEffect
<1>3. InHand(Busy)' = OtherHands(l, Busy) /\ InHand(Busy) = OtherHands(l, Busy) \union {cur[l]}
  BY <1>1, <1>2, HandNow, BusyOrDone
<1>4. InHand(Done) = OtherHands(l, Done)
  BY HandNow, BusyOrDone
<1>5. InHand(Done)' = IF m.rq = None THEN OtherHands(l, Done) ELSE OtherHands(l, Done) \union {m}
  <2>1. CASE m.rq = None
    BY <1>1, <1>2, <2>1, BusyOrDone
  <2>2. CASE m.rq # None
    BY <1>1, <1>2, <2>2, BusyOrDone
  <2> QED
    BY <2>1, <2>2
<1>6. m.rq = None <=> cur[l].from = NoId
  BY <1>0 DEF Sent
<1>7. Unanswered = Unanswered' \union {cur[l]}
  BY <1>3 DEF Unanswered, Busy
<1>8. Returning' = IF cur[l].from = NoId THEN Returning ELSE Returning \union {m}
  BY <1>4, <1>5, <1>6 DEF Returning, Done
<1>9. ASSUME cur[l].from # NoId, NEW y \in Unanswered' PROVE y.from # cur[l].from
  <2>1. y \in OtherHands(l, Busy) \/ \E k \in Listeners : y \in Elems(mainq[k])
    BY <1>3, <1>9 DEF Unanswered, Busy
  <2> QED
    BY <1>0, <1>9, <2>1, NoOther
<1> QED
  BY <1>7, <1>8, <1>9


LEMMA StayEffect ==
  ASSUME TypeInv, NEW l \in Listeners, lpc[l] \in Busy, UNCHANGED <<mainq, resp>>,
         NEW m \in Msg, m.from = cur[l].from, NEW a \in Busy,
         lpc' = [lpc EXCEPT ![l] = a], cur' = [cur EXCEPT ![l] = m]
  PROVE  /\ Returning' = Returning
         /\ \A y \in Unanswered' : \E x \in Unanswered : y.from = x.from
         /\ \A x \in Unanswered : \E y \in Unanswered' : y.from = x.from
<1>0. cur \in [Listeners -> Msg]
  BY DEF TypeInv, TypeOK, ListenerTypeOK
<1>1. cur'[l] = m /\ \A k \in Listeners \ {l} : cur'[k] = cur[k]
  BY <1>0
<1>2. /\ InHand(Busy)' = OtherHands(l, Busy) \union {x \in {cur'[l]} : a \in Busy}
      /\ InHand(Done)' = OtherHands(l, Done) \union {x \in {cur'[l]} : a \in Done}
  BY <1>1, HandEffect
<1>3. /\ InHand(Busy)' = OtherHands(l, Busy) \union {m} /\ InHand(Busy) = OtherHands(l, Busy) \union {cur[l]}
      /\ InHand(Done)' = InHand(Done)
  BY <1>1, <1>2, HandNow, BusyOrDone
<1>4. Returning' = Returning
  BY <1>3 DEF Returning, Done
<1>5. \A y \in Unanswered' : y \in Unanswered \/ y = m
  BY <1>3 DEF Unanswered, Busy
<1>6. \A y \in Unanswered : y \in Unanswered' \/ y = cur[l]
  BY <1>3 DEF Unanswered, Busy
<1>7. m \in Unanswered' /\ cur[l] \in Unanswered
  BY <1>3 DEF Unanswered, Busy
<1> QED
  BY <1>4, <1>5, <1>6, <1>7

LEMMA OfferEffect ==
  ASSUME TypeInv, SentInv, Single, NEW l \in Listeners, OfferAnswer(l)
  PROVE  /\ Unanswered' = Unanswered
         /\ \/ Returning' = Returning
            \/ /\ Returning = Returning' \union {cur[l]} /\ cur[l].from # NoId
               /\ \A y \in Returning' : y.from # cur[l].from
<1>0. /\ cur \in [Listeners -> Msg] /\ lpc[l] = "offer" /\ UNCHANGED <<mainq, resp>> /\ cur[l].from # NoId
  BY DEF TypeInv, TypeOK, ListenerTypeOK, OfferAnswer, SentInv, NotKeepAlive
<1>1. PICK a \in {"pop", "push"} :
        /\ lpc' = [lpc EXCEPT ![l] = a]
        /\ \A k \in Listeners \ {l} : cur'[k] = cur[k]
        /\ a = "push" => cur'[l] = cur[l]
  BY <1>0 DEF OfferAnswer
<1>2. /\ InHand(Busy)' = OtherHands(l, Busy) \union {x \in {cur'[l]} : a \in Busy}
      /\ InHand(Done)' = OtherHands(l, Done) \union {x \in {cur'[l]} : a \in Done}
  BY <1>1, HandEffect
<1>3. InHand(Busy)' = InHand(Busy)
  BY <1>0, <1>1, <1>2, HandNow, BusyOrDone
<1>4. Unanswered' = Unanswered
  BY <1>0, <1>3 DEF Unanswered, Busy
<1>5. InHand(Done) = OtherHands(l, Done) \union {cur[l]}
  BY <1>0, HandNow, BusyOrDone
<1>6. CASE a = "push"
  <2>1. InHand(Done)' = InHand(Done)
    BY <1>1, <1>2, <1>5, <1>6, BusyOrDone
  <2> QED
    BY <1>0, <1>4, <2>1 DEF Returning, Done
<1>7. CASE a = "pop"
  <2>1. InHand(Done)' = OtherHands(l, Done)
    BY <1>2, <1>7, BusyOrDone
  <2>2. Returning = Returning' \union {cur[l]}
    BY <1>0, <1>5, <2>1 DEF Returning, Done
  <2>3. ASSUME NEW y \in Returning' PROVE y.from # cur[l].from
    <3>1. y \in OtherHands(l, Done) \/ \E r \in RespQueues : y \in Elems(resp[r])
      BY <1>0, <2>1 DEF Returning, Done
    <3> QED
      BY <1>0, <3>1, NoOther
  <2> QED
    BY <1>0, <1>4, <2>2, <2>3
<1> QED
  BY <1>1, <1>6, <1>7

LEMMA DeliverEffect ==
  ASSUME TypeInv, NEW l \in Listeners, PushAnswer(l)
  PROVE  Unanswered' = Unanswered /\ Returning' = Returning
<1>0. /\ cur \in [Listeners -> Msg] /\ resp \in [RespQueues -> Seq(Msg)] /\ lpc[l] = "push" /\ UNCHANGED mainq
      /\ lpc' = [lpc EXCEPT ![l] = "pop"] /\ \A k \in Listeners \ {l} : cur'[k] = cur[k]
  BY DEF TypeInv, TypeOK, ListenerTypeOK, QueueTypeOK, PushAnswer
<1>1. PICK r \in RespQueues : r = cur[l].rq
  BY DEF PushAnswer, TypeInv, Addressed
<1>2. resp'[r] = Append(resp[r], cur[l]) /\ \A k \in RespQueues \ {r} : resp'[k] = resp[k]
  BY <1>0, <1>1 DEF PushAnswer
<1>3. /\ InHand(Busy)' = OtherHands(l, Busy) \union {x \in {cur'[l]} : "pop" \in Busy}
      /\ InHand(Done)' = OtherHands(l, Done) \union {x \in {cur'[l]} : "pop" \in Done}
  BY <1>0, HandEffect
<1>4. /\ InHand(Busy)' = InHand(Busy) /\ InHand(Done) = InHand(Done)' \union {cur[l]}
  BY <1>0, <1>3, HandNow, BusyOrDone
<1>5. Elems(resp'[r]) = Elems(resp[r]) \union {cur[l]}
  BY <1>0, <1>2, AppendIs
<1>6. UNION {Elems(resp'[k]) : k \in RespQueues} = (UNION {Elems(resp[k]) : k \in RespQueues}) \union {cur[l]}
  <2>1. \A k \in RespQueues \ {r} : Elems(resp'[k]) = Elems(resp[k])
    BY <1>2
  <2> QED
    BY <1>5, <2>1
<1>7. Unanswered' = Unanswered
  BY <1>0, <1>4 DEF Unanswered, Busy
<1>8. Returning' = Returning
  BY <1>4, <1>6 DEF Returning, Done
<1> QED
  BY <1>7, <1>8

LEMMA ReceiveEffect ==
  ASSUME TypeInv, SentInv, RespInv, Single, NEW c \in Callers, Receive(c)
  PROVE  LET h == Head(resp[rq[c]]) IN
         /\ Unanswered' = Unanswered /\ Returning = Returning' \union {h} /\ h.from # NoId
         /\ \A y \in Unanswered \union Returning' : y.from # h.from
<1>0. resp \in [RespQueues -> Seq(Msg)] /\ UNCHANGED <<mainq, lpc, cur>>
  BY DEF TypeInv, TypeOK, QueueTypeOK, Receive, listenerVars
<1>1. PICK r \in RespQueues : r = rq[c]
  BY DEF Receive, TypeInv, TypeOK, CallerTypeOK, Holding
<1>2. PICK h \in Msg : h = Head(resp[r])
  BY <1>0, <1>1, TailElems DEF Receive, Elems
<1>3. resp[r] # <<>> /\ resp'[r] = Tail(resp[r]) /\ \A k \in RespQueues \ {r} : resp'[k] = resp[k]
  BY <1>0, <1>1 DEF Receive
<1>4. h.from # NoId
  <2>1. h \in Elems(resp[r]) /\ h \in Contents
    BY <1>0, <1>2, <1>3, TailElems, InContents
  <2>2. h.rq # None /\ Sent(h)
    BY <2>1 DEF RespInv, SentInv
  <2> QED
    BY <2>2 DEF Sent
<1>5. InHand(Busy)' = InHand(Busy) /\ InHand(Done)' = InHand(Done)
  BY <1>0 DEF InHand, Busy, Done
<1>6. Unanswered' = Unanswered
  BY <1>0, <1>5 DEF Unanswered, Busy
<1>7. OtherResp(r)' = OtherResp(r)
  <2>1. \A k \in RespQueues \ {r} : Elems(resp'[k]) = Elems(resp[k])
    BY <1>3
  <2> QED
    BY <2>1 DEF OtherResp
<1>8. /\ UNION {Elems(resp[k]) : k \in RespQueues} = OtherResp(r) \union Elems(resp[r])
      /\ UNION {Elems(resp'[k]) : k \in RespQueues} = OtherResp(r) \union Elems(Tail(resp[r]))
  BY <1>3, <1>7 DEF OtherResp
<1>9. Elems(resp[r]) = {h} \union Elems(Tail(resp[r]))
  BY <1>0, <1>2, <1>3, TailIs
<1>10. Returning = Returning' \union {h}
  BY <1>5, <1>8, <1>9 DEF Returning, Done
<1>11. Returning' = InHand(Done) \union OtherResp(r) \union Elems(Tail(resp[r]))
  BY <1>5, <1>8 DEF Returning, Done
<1>12. \A y \in Unanswered \union Returning' : y.from # h.from
  BY <1>2, <1>3, <1>4, <1>11, NoOtherResp
<1> QED
  BY <1>1, <1>2, <1>4, <1>6, <1>10, <1>12


-----------------------------------------------------------------------------
(* A caller waits until its time has elapsed or its own answer is taken.    *)
LEMMA StepWaiting ==
  ASSUME TypeInv, NEW id, Waiting(id), [Next]_vars
  PROVE  \/ Waiting(id)' \/ id \in late'
         \/ \E c \in Callers : Receive(c) /\ Accepts(c, Head(resp[rq[c]])) /\ Id(c) = id
<1>0. PICK c \in Callers : Id(c) = id /\ pc[c] = "wait"
  BY DEF Waiting
<1>1. pc \in [Callers -> {"idle", "lock", "scan", "take", "seqread", "seqwrite",
                         "respdata", "mainscan", "push", "wait", "release"}]
      /\ query \in [Callers -> 0 .. MaxQueries]
  BY DEF TypeInv, TypeOK, CallerTypeOK
<1>2. ASSUME pc'[c] = "wait", query'[c] = query[c] PROVE Waiting(id)'
  BY <1>0, <1>2 DEF Waiting, Id
<1>3. ASSUME NEW d \in Callers, BeginQuery(d) PROVE Waiting(id)'
  BY <1>0, <1>1, <1>2, <1>3 DEF BeginQuery
<1>4. ASSUME NEW d \in Callers, LockResp(d) \/ ScanFound(d) \/ ScanFailed(d) \/ TakeResp(d) \/ SeqRead(d)
                                  \/ SeqWrite(d) \/ GetRespData(d) \/ Send(d) \/ Release(d)
      PROVE  Waiting(id)'
  BY <1>0, <1>1, <1>2, <1>4
     DEF LockResp, ScanFound, ScanFailed, TakeResp, SeqRead, SeqWrite, GetRespData, Send, Release
<1>5. ASSUME NEW d \in Callers, ScanMain(d) PROVE Waiting(id)'
  <2>1. pc[d] = "mainscan" /\ pc' = [pc EXCEPT ![d] = pc'[d]] /\ UNCHANGED query
    BY <1>1, <1>5 DEF ScanMain
  <2> QED
    BY <1>0, <1>1, <1>2, <2>1
<1>6. ASSUME NEW d \in Callers, Receive(d) PROVE Waiting(id)' \/ (Accepts(d, Head(resp[rq[d]])) /\ d = c)
  <2>1. /\ pc[d] = "wait" /\ pc' = [pc EXCEPT ![d] = pc'[d]] /\ UNCHANGED query
        /\ Accepts(d, Head(resp[rq[d]])) \/ pc'[d] = "wait"
    BY <1>1, <1>6 DEF Receive
  <2> QED
    BY <1>0, <1>1, <1>2, <2>1
<1>7. ASSUME NEW d \in Callers, WaitTimeout(d) PROVE Waiting(id)' \/ id \in late'
  BY <1>0, <1>1, <1>2, <1>7 DEF WaitTimeout
<1>8. CASE UNCHANGED <<pc, query>>
  BY <1>0, <1>2, <1>8
<1> QED
  BY <1>0, <1>3, <1>4, <1>5, <1>6, <1>7, <1>8
     DEF Next, vars, callerVars, CallerStep, ScanNext, ListenerStep, Pop, RedisCommand, MysqlQuery,
         MysqlCallback, OfferAnswer, PushAnswer, KeepAliveCheck, KeepAliveSend, Elapse, Quiescent

(* What the listeners have not answered was so before, or has just been sent.*)
LEMMA StepUnanswered ==
  ASSUME TypeInv, SentInv, RespInv, Single, [Next]_vars, NEW y \in Unanswered'
  PROVE  \/ y.from = NoId \/ \E x \in Unanswered : y.from = x.from
         \/ \E c \in Callers : Send(c) /\ y.from = Id(c)
<1> DEFINE Goal == \/ y.from = NoId \/ \E x \in Unanswered : y.from = x.from
                   \/ \E c \in Callers : Send(c) /\ y.from = Id(c)
<1>0. /\ cur \in [Listeners -> Msg] /\ katarget \in Listeners \union {None} /\ CallerTypeOK
  BY DEF TypeInv, TypeOK, ListenerTypeOK
<1>1. ASSUME y \in Unanswered PROVE Goal
  BY <1>1
<1>2. ASSUME NEW c \in Callers, Send(c) PROVE Goal
  <2>1. PICK l \in Listeners : l = scan[c].minindex
    BY <1>0 DEF CallerTypeOK, ScanRecord
  <2>2. PICK m \in Msg : m = Request(c)
    BY <1>0, <1>2, RequestType DEF Send, TypeInv
  <2>3. mainq' = [mainq EXCEPT ![l] = Append(@, m)] /\ UNCHANGED <<resp, lpc, cur>>
    BY <1>2, <2>1, <2>2 DEF Send, listenerVars
  <2>4. Unanswered' = Unanswered \union {m}
    BY <2>3, PushEffect
  <2> QED
    BY <1>1, <1>2, <2>2, <2>4 DEF Request
<1>3. CASE KeepAliveSend
  <2>1. PICK l \in Listeners : l = katarget
    BY <1>0, <1>3 DEF KeepAliveSend
  <2>2. PICK m \in Msg : m = KeepAliveMsg
    BY KeepAliveMsgType
  <2>3. mainq' = [mainq EXCEPT ![l] = Append(@, m)] /\ UNCHANGED <<resp, lpc, cur>>
    BY <1>3, <2>1, <2>2 DEF KeepAliveSend, listenerVars
  <2>4. Unanswered' = Unanswered \union {m}
    BY <2>3, PushEffect
  <2> QED
    BY <1>1, <2>2, <2>4 DEF KeepAliveMsg
<1>4. ASSUME NEW c \in Callers, Receive(c) PROVE Goal
  BY <1>1, <1>4, ReceiveEffect
<1>5. ASSUME NEW l \in Listeners, Pop(l) \/ OfferAnswer(l) \/ PushAnswer(l) PROVE Goal
  BY <1>1, <1>5, PopEffect, OfferEffect, DeliverEffect
<1>6. ASSUME NEW l \in Listeners, lpc[l] \in Busy, UNCHANGED <<mainq, resp>>, NEW m \in Msg,
             m.from = cur[l].from, m.rq = cur[l].rq, Answered(l, m)
      PROVE  Goal
  <2>1. Unanswered = Unanswered' \union {cur[l]}
    BY <1>6, AnsweredEffect
  <2> QED
    BY <1>1, <2>1
<1>7. ASSUME NEW l \in Listeners, lpc[l] \in Busy, UNCHANGED <<mainq, resp>>, NEW m \in Msg,
             m.from = cur[l].from, NEW a \in Busy, lpc' = [lpc EXCEPT ![l] = a], cur' = [cur EXCEPT ![l] = m]
      PROVE  Goal
  BY <1>7, StayEffect
<1>8. ASSUME NEW l \in Listeners, RedisCommand(l) PROVE Goal
  <2>1. /\ \A m \in {WithRes(WithType(cur[l], "REDIS"), "SUCCESS"), WithRes(cur[l], "FALSE")} :
            m \in Msg /\ m.from = cur[l].from /\ m.rq = cur[l].rq
        /\ lpc[l] \in Busy /\ UNCHANGED <<mainq, resp>> /\ "mysql" \in Busy
    BY <1>0, <1>8, ListenerMakes, BusyOrDone DEF RedisCommand, Status
  <2>2. cur = [cur EXCEPT ![l] = cur[l]]
    BY <1>0
  <2>3. ASSUME lpc' = [lpc EXCEPT ![l] = "mysql"], UNCHANGED cur PROVE Goal
    BY <1>0, <1>7, <2>1, <2>2, <2>3
  <2> QED
    BY <1>6, <1>8, <2>1, <2>3 DEF RedisCommand
<1>9. ASSUME NEW l \in Listeners, MysqlQuery(l) PROVE Goal
  <2>1. /\ \A m \in {WithRes(cur[l], "FALSE"), WithRes(WithType(cur[l], "MYSQL"), "TIMEOUT"),
                     WithType(cur[l], "MYSQL"), WithType(cur[l], "MYSQL_INSERT_ID")} :
            m \in Msg /\ m.from = cur[l].from /\ m.rq = cur[l].rq
        /\ lpc[l] \in Busy /\ UNCHANGED <<mainq, resp>> /\ "callback" \in Busy
    BY <1>0, <1>9, ListenerMakes, BusyOrDone DEF MysqlQuery, Status
  <2> QED
    BY <1>6, <1>7, <1>9, <2>1 DEF MysqlQuery
<1>10. ASSUME NEW l \in Listeners, MysqlCallback(l) PROVE Goal
  <2>1. PICK s \in Status : Answered(l, WithRes(cur[l], s))
    BY <1>10 DEF MysqlCallback, Status
  <2>2. lpc[l] \in Busy /\ UNCHANGED <<mainq, resp>>
    BY <1>10, BusyOrDone DEF MysqlCallback
  <2> QED
    BY <1>0, <1>6, <2>1, <2>2, ListenerMakes
<1>11. CASE UNCHANGED <<mainq, resp, lpc, cur>>
  BY <1>1, <1>11, UnchangedEffect
<1> QED
  BY <1>2, <1>3, <1>4, <1>5, <1>8, <1>9, <1>10, <1>11
     DEF Next, vars, listenerVars, CallerStep, BeginQuery, LockResp, ScanNext, ScanFound, ScanFailed, TakeResp,
         SeqRead, SeqWrite, GetRespData, ScanMain, WaitTimeout, Release, ListenerStep,
         KeepAliveCheck, Elapse, Quiescent


LEMMA StepAwaited ==
  ASSUME TypeInv, SentInv, RespInv, Single, AwaitedInv, OwnAnswer, [Next]_vars
  PROVE  AwaitedInv'
<1> SUFFICES ASSUME NEW y \in Unanswered', y.from # NoId PROVE y.from \in late' \/ Waiting(y.from)'
  BY DEF AwaitedInv, Awaited
<1>1. ASSUME NEW x \in Unanswered, y.from = x.from PROVE y.from \in late' \/ Waiting(y.from)'
  <2>1. x.from \in late \/ Waiting(x.from)
    BY <1>1 DEF AwaitedInv, Awaited
  <2>2. ASSUME NEW c \in Callers, Receive(c), Accepts(c, Head(resp[rq[c]])), Id(c) = x.from PROVE FALSE
    <3>1. Head(resp[rq[c]]).from = Id(c)
      BY <2>2 DEF OwnAnswer, Receive
    <3> QED
      BY <2>2, <3>1, ReceiveEffect
  <2> QED
    BY <1>1, <2>1, <2>2, StepWaiting, LateStays
<1>2. ASSUME NEW c \in Callers, Send(c), y.from = Id(c) PROVE Waiting(y.from)'
  BY <1>2 DEF Send, Waiting, Id, TypeInv, TypeOK, CallerTypeOK
<1> QED
  BY <1>1, <1>2, StepUnanswered

ServiceInv == SentInv /\ RespInv /\ Single /\ AwaitedInv

LEMMA InitServiceInv == Init => ServiceInv
<1> SUFFICES ASSUME Init PROVE AwaitedInv
  BY InitSentInv, InitNumberInv, InitSingle DEF ServiceInv, NumberInv
<1> QED
  BY DEF Init, AwaitedInv, Unanswered, InHand, Elems

LEMMA StepServiceInv == TypeInv /\ ServiceInv /\ OwnAnswer /\ [Next]_vars => ServiceInv'
BY StepSentInv, StepRespInv, StepSingleInv, StepAwaited DEF ServiceInv

LEMMA CallbackStep ==
  ASSUME TypeInv, ServiceInv, "MYSQL_INSERT_ID" \notin EventTypes, Next, NEW l \in Listeners,
         lpc[l] # "callback", lpc'[l] = "callback"
  PROVE  Waiting(cur[l].from)
<1>0. lpc \in [Listeners -> {"pop", "redis", "mysql", "callback", "offer", "push"}]
  BY DEF TypeInv, TypeOK, ListenerTypeOK
<1>1. MysqlQuery(l)
  <2>1. ASSUME NEW k \in Listeners, ListenerStep(k), ~MysqlQuery(k) PROVE FALSE
    BY <1>0, <2>1
       DEF ListenerStep, Pop, RedisCommand, Answered, MysqlCallback, OfferAnswer, PushAnswer
  <2>2. ASSUME NEW k \in Listeners, MysqlQuery(k) PROVE k = l
    BY <1>0, <2>2 DEF MysqlQuery, Answered
  <2> QED
    BY <2>1, <2>2
       DEF Next, vars, listenerVars, CallerStep, BeginQuery, LockResp, ScanNext, ScanFound, ScanFailed, TakeResp,
           SeqRead, SeqWrite, GetRespData, ScanMain, Send, Receive, WaitTimeout, Release,
           KeepAliveCheck, KeepAliveSend, Elapse, Quiescent
<1>2. cur[l].from # NoId /\ Sent(cur[l])
  BY <1>1, InContents DEF MysqlQuery, ServiceInv, SentInv, NotKeepAlive
<1>3. cur[l].type # "MYSQL_INSERT_ID"
  BY <1>2 DEF Sent
<1>4. cur[l].from \notin late
  BY <1>0, <1>1, <1>3 DEF MysqlQuery, Answered, DeadlinePassed
<1>5. cur[l] \in Unanswered
  BY <1>1 DEF MysqlQuery, Unanswered, InHand
<1> QED
  BY <1>2, <1>4, <1>5 DEF ServiceInv, AwaitedInv, Awaited

(* As long as answers are not confused, no plain mysql callback passes the  *)
(* check for a caller that has given up; that of MYSQL_INSERT_ID, started   *)
(* with no look at the time, is left out (mysql.c 338, 366-378).            *)
THEOREM CallbacksStartInTime ==
  ASSUME "MYSQL_INSERT_ID" \notin EventTypes
  PROVE  Spec /\ []OwnAnswer => CallbackStartsInTime
<1>1. TypeInv /\ ServiceInv /\ [Next]_vars =>
        [\A l \in Listeners : lpc[l] # "callback" /\ lpc'[l] = "callback" => Waiting(cur[l].from)]_vars
  BY CallbackStep
<1> QED
  BY <1>1, InitServiceInv, StepServiceInv, TypeInvAlways, PTL DEF Spec, CallbackStartsInTime


-----------------------------------------------------------------------------
(* QueryService is implemented.  First the callers.                         *)
InContentsToo == Unanswered \subseteq Contents /\ Returning \subseteq Contents

LEMMA Sets == InContentsToo
BY InContents DEF InContentsToo, Unanswered, Returning, InHand

LEMMA OwnIds ==
  ASSUME TypeInv, SentInv, NEW c \in Unsent
  PROVE  /\ c \in Callers /\ Id(c) # NoId /\ Id(c) \in Pending
         /\ \A m \in Unanswered \union Returning : m.from # Id(c)
         /\ \A d \in Unsent : Id(d) = Id(c) => d = c
<1>1. c \in Callers /\ Id(c) # NoId /\ \A d \in Unsent : Id(d) = Id(c) => d = c
  BY DEF Unsent, Id, NoId
<1>2. ASSUME NEW m \in Unanswered \union Returning PROVE m.from # Id(c)
  <2>1. Sent(m)
    BY Sets DEF InContentsToo, SentInv
  <2> QED
    BY <1>1, <2>1 DEF Sent, Id
<1> QED
  BY <1>1, <1>2 DEF Pending

LEMMA SameService ==
  ASSUME UNCHANGED <<query, Asking, ret, Pending, Returning, late>>
  PROVE  UNCHANGED Service!vars
BY DEF Service!vars, AnswerOf, Results

LEMMA SamePending ==
  ASSUME UNCHANGED <<query, Unsent, Unanswered>>
  PROVE  Pending' = Pending
BY DEF Pending, Id

(* A caller that goes on with its search, or returns.                       *)
LEMMA CallerStutters ==
  ASSUME TypeInv, NEW c \in Callers, UNCHANGED <<query, ret, late, mainq, resp, lpc, cur>>,
         pc' = [pc EXCEPT ![c] = pc'[c]],
         pc[c] \in {"idle", "release"} <=> pc'[c] \in {"idle", "release"},
         pc[c] # "wait" /\ pc'[c] # "wait"
  PROVE  UNCHANGED Service!vars
<1>0. pc \in [Callers -> {"idle", "lock", "scan", "take", "seqread", "seqwrite",
                         "respdata", "mainscan", "push", "wait", "release"}]
  BY DEF TypeInv, TypeOK, CallerTypeOK
<1>1. Asking' = Asking /\ Unsent' = Unsent
  BY <1>0 DEF Asking, Unsent
<1>2. UNCHANGED <<Unanswered, Returning>>
  BY UnchangedEffect
<1> QED
  BY <1>1, <1>2, SamePending, SameService

LEMMA CallerRefused ==
  ASSUME TypeInv, SentInv, NEW c \in Callers, UNCHANGED <<query, late, mainq, resp, lpc, cur>>,
         pc' = [pc EXCEPT ![c] = pc'[c]], ret' = [ret EXCEPT ![c] = "FALSE"],
         pc[c] \notin {"idle", "wait", "release"}, pc'[c] \in {"idle", "release"}
  PROVE  Service!Refuse(c)
<1>0. pc \in [Callers -> {"idle", "lock", "scan", "take", "seqread", "seqwrite",
                         "respdata", "mainscan", "push", "wait", "release"}]
  BY DEF TypeInv, TypeOK, CallerTypeOK
<1>1. Asking' = Asking \ {c} /\ Unsent' = Unsent \ {c} /\ c \in Asking /\ c \in Unsent
  BY <1>0 DEF Asking, Unsent
<1>2. UNCHANGED <<Unanswered, Returning>>
  BY UnchangedEffect
<1>3. \A d : Id(d)' = Id(d)
  BY DEF Id
<1>4. Id(c) \in Pending /\ Pending' = Pending \ {Id(c)}
  BY <1>1, <1>2, <1>3, OwnIds DEF Pending
<1> QED
  BY <1>1, <1>2, <1>4 DEF Service!Refuse, Service!Return, Service!Id, Id

LEMMA CallerAsks ==
  ASSUME TypeInv, NEW c \in Callers, BeginQuery(c)
  PROVE  Service!Ask(c)
<1>0. /\ pc \in [Callers -> {"idle", "lock", "scan", "take", "seqread", "seqwrite",
                             "respdata", "mainscan", "push", "wait", "release"}]
      /\ query \in [Callers -> 0 .. MaxQueries]
  BY DEF TypeInv, TypeOK, CallerTypeOK
<1>1. c \notin Asking /\ c \notin Unsent /\ query[c] < MaxQueries /\ query' = [query EXCEPT ![c] = @ + 1]
  BY DEF BeginQuery, Asking, Unsent
<1>2. UNCHANGED <<Unanswered, Returning, late>>
  BY UnchangedEffect DEF BeginQuery, listenerVars
<1>3. \A d \in Unsent : Id(d)' = Id(d)
  BY <1>0, <1>1 DEF Id, Unsent
<1>4. CASE pc' = [pc EXCEPT ![c] = "lock"] /\ ret' = [ret EXCEPT ![c] = "none"]
  <2>1. Asking' = Asking \union {c} /\ Unsent' = Unsent \union {c}
    BY <1>0, <1>4 DEF Asking, Unsent
  <2>2. Id(c)' = <<c, query[c] + 1>> /\ <<c, query[c] + 1>> # NoId
    BY <1>0, <1>1 DEF Id, NoId
  <2>3. Pending' = Pending \union {<<c, query[c] + 1>>}
    BY <1>2, <1>3, <2>1, <2>2 DEF Pending
  <2> QED
    BY <1>1, <1>2, <1>4, <2>1, <2>3 DEF Service!Ask
<1>5. CASE UNCHANGED pc /\ ret' = [ret EXCEPT ![c] = "FALSE"]
  <2>1. Asking' = Asking /\ Unsent' = Unsent
    BY <1>5 DEF Asking, Unsent
  <2>2. Pending' = Pending
    BY <1>2, <1>3, <2>1 DEF Pending
  <2> QED
    BY <1>1, <1>2, <1>5, <2>1, <2>2 DEF Service!Ask
<1> QED
  BY <1>4, <1>5 DEF BeginQuery

LEMMA CallerGivesUp ==
  ASSUME TypeInv, NEW c \in Callers, WaitTimeout(c)
  PROVE  Service!GiveUp(c)
<1>0. pc \in [Callers -> {"idle", "lock", "scan", "take", "seqread", "seqwrite",
                         "respdata", "mainscan", "push", "wait", "release"}]
  BY DEF TypeInv, TypeOK, CallerTypeOK
<1>1. Asking' = Asking \ {c} /\ Unsent' = Unsent /\ c \in Asking
  BY <1>0 DEF WaitTimeout, Asking, Unsent
<1>2. UNCHANGED <<Unanswered, Returning, late, query>>
  BY UnchangedEffect DEF WaitTimeout, listenerVars
<1>3. Pending' = Pending
  BY <1>1, <1>2, SamePending
<1> QED
  BY <1>1, <1>2, <1>3 DEF WaitTimeout, Service!GiveUp, Service!Return, Service!Id, Id

LEMMA CallerSends ==
  ASSUME TypeInv, NEW c \in Callers, Send(c)
  PROVE  UNCHANGED Service!vars
<1>0. /\ pc \in [Callers -> {"idle", "lock", "scan", "take", "seqread", "seqwrite",
                             "respdata", "mainscan", "push", "wait", "release"}]
      /\ CallerTypeOK
  BY DEF TypeInv, TypeOK, CallerTypeOK
<1>1. PICK l \in Listeners : l = scan[c].minindex
  BY <1>0 DEF CallerTypeOK, ScanRecord
<1>2. PICK m \in Msg : m = Request(c)
  BY <1>0, RequestType DEF Send, TypeInv
<1>3. mainq' = [mainq EXCEPT ![l] = Append(@, m)] /\ UNCHANGED <<resp, lpc, cur, late, query, ret>>
  BY <1>1, <1>2 DEF Send, listenerVars
<1>4. Unanswered' = Unanswered \union {m} /\ Returning' = Returning /\ m.from = Id(c)
  BY <1>2, <1>3, PushEffect DEF Request
<1>5. Asking' = Asking /\ Unsent' = Unsent \ {c} /\ c \in Unsent
  BY <1>0 DEF Send, Asking, Unsent
<1>6. \A d : Id(d)' = Id(d)
  BY <1>3 DEF Id
<1>7. Pending' = Pending
  BY <1>4, <1>5, <1>6 DEF Pending
<1> QED
  BY <1>3, <1>4, <1>5, <1>7, SameService

(* An answer that is taken by its caller, or freed.                         *)
LEMMA Differ ==
  ASSUME NEW A, NEW B, NEW h, A = B \union {h}, \A y \in B : y.from # h.from
  PROVE  {AnswerOf(m) : m \in B} = {AnswerOf(m) : m \in A} \ {AnswerOf(h)}
<1>1. \A y \in B : AnswerOf(y) # AnswerOf(h)
  BY DEF AnswerOf
<1> QED
  BY <1>1

LEMMA CallerReceives ==
  ASSUME TypeInv, ServiceInv, OwnAnswer, NEW c \in Callers, Receive(c)
  PROVE  \E a \in {AnswerOf(m) : m \in Returning} : Service!Lose(a) \/ Service!Answer(c, a)
<1> DEFINE h == Head(resp[rq[c]])
<1>0. /\ pc \in [Callers -> {"idle", "lock", "scan", "take", "seqread", "seqwrite",
                             "respdata", "mainscan", "push", "wait", "release"}]
  BY DEF TypeInv, TypeOK, CallerTypeOK
<1>1. /\ Unanswered' = Unanswered /\ Returning = Returning' \union {h}
      /\ \A y \in Returning' : y.from # h.from
  BY ReceiveEffect DEF ServiceInv
<1>2. {AnswerOf(m) : m \in Returning'} = {AnswerOf(m) : m \in Returning} \ {AnswerOf(h)}
  <2> HIDE DEF h
  <2> QED
    BY <1>1, Differ
<1>3. AnswerOf(h) \in {AnswerOf(m) : m \in Returning}
  BY <1>1
<1>4. UNCHANGED <<late, query>>
  BY DEF Receive
<1>5. CASE Accepts(c, h)
  <2>1. Asking' = Asking \ {c} /\ Unsent' = Unsent /\ c \in Asking
    BY <1>0, <1>5 DEF Receive, Asking, Unsent
  <2>2. Pending' = Pending
    BY <1>1, <1>4, <2>1, SamePending
  <2>3. h.from = Id(c)
    BY <1>5 DEF OwnAnswer, Receive
  <2>4. PICK s \in Results(h) : ret' = [ret EXCEPT ![c] = s]
    BY <1>5 DEF Receive
  <2>5. s \in AnswerOf(h).results /\ AnswerOf(h).id = Id(c)
    BY <2>3, <2>4 DEF AnswerOf
  <2> HIDE DEF h
  <2>6. Service!Answer(c, AnswerOf(h))
    BY <1>2, <1>3, <1>4, <2>1, <2>2, <2>4, <2>5 DEF Service!Answer, Service!Return, Service!Id, Id
  <2> QED
    BY <1>3, <2>6
<1>6. CASE ~Accepts(c, h)
  <2>1. UNCHANGED <<pc, ret>>
    BY <1>6 DEF Receive
  <2>2. Asking' = Asking /\ Unsent' = Unsent
    BY <2>1 DEF Asking, Unsent
  <2>3. Pending' = Pending
    BY <1>1, <1>4, <2>2, SamePending
  <2> HIDE DEF h
  <2>4. Service!Lose(AnswerOf(h))
    BY <1>2, <1>3, <1>4, <2>1, <2>2, <2>3 DEF Service!Lose
  <2> QED
    BY <1>3, <2>4
<1> QED
  BY <1>5, <1>6


(* The listeners leave the callers as they are.                             *)
LEMMA ListenerKeeps ==
  ASSUME UNCHANGED <<callerVars, late>>
  PROVE  UNCHANGED <<query, ret, late, Asking, Unsent>> /\ \A d : Id(d)' = Id(d)
BY DEF callerVars, Asking, Unsent, Id

LEMMA ListenerStutters ==
  ASSUME UNCHANGED <<callerVars, late>>, Returning' = Returning,
         \A y \in Unanswered' : \E x \in Unanswered : y.from = x.from,
         \A x \in Unanswered : \E y \in Unanswered' : y.from = x.from
  PROVE  UNCHANGED Service!vars
<1>1. UNCHANGED <<query, ret, late, Asking, Unsent>> /\ \A d : Id(d)' = Id(d)
  BY ListenerKeeps
<1>2. {m.from : m \in Unanswered'} = {m.from : m \in Unanswered}
  OBVIOUS
<1>3. Pending' = Pending
  BY <1>1, <1>2 DEF Pending
<1> QED
  BY <1>1, <1>3, SameService

LEMMA ListenerRuns ==
  ASSUME TypeInv, ServiceInv, TimeInv', NEW l \in Listeners, lpc[l] \in Busy,
         UNCHANGED <<mainq, resp, callerVars, late>>,
         NEW m \in Msg, m.from = cur[l].from, m.rq = cur[l].rq, Answered(l, m)
  PROVE  UNCHANGED Service!vars \/ Service!Next
<1>1. /\ Unanswered = Unanswered' \union {cur[l]}
      /\ IF cur[l].from = NoId
           THEN Returning' = Returning
           ELSE /\ Returning' = Returning \union {m}
                /\ \A y \in Unanswered' : y.from # cur[l].from
  BY AnsweredEffect DEF ServiceInv
<1>2. UNCHANGED <<query, ret, late, Asking, Unsent>> /\ \A d : Id(d)' = Id(d)
  BY ListenerKeeps
<1>3. CASE cur[l].from = NoId
  <2>1. Pending' = Pending
    BY <1>1, <1>2, <1>3 DEF Pending
  <2> QED
    BY <1>1, <1>2, <1>3, <2>1, SameService
<1>4. CASE cur[l].from # NoId
  <2>1. \A d \in Unsent : Id(d) # cur[l].from
    BY <1>1, OwnIds DEF ServiceInv
  <2>2. cur[l].from \in Pending /\ Pending' = Pending \ {cur[l].from}
    BY <1>1, <1>2, <1>4, <2>1 DEF Pending
  <2>3. {AnswerOf(x) : x \in Returning'} = {AnswerOf(x) : x \in Returning} \union {AnswerOf(m)}
    BY <1>1, <1>4
  <2>4. "TIMEOUT" \in Results(m) => m.from \in late
    <3>1. Sent(cur[l])
      BY InContents DEF ServiceInv, SentInv
    <3>2. m.rq # None
      BY <1>4, <3>1 DEF Sent
    <3>3. cur'[l] = m
      BY <3>2 DEF Answered, TypeInv, TypeOK, ListenerTypeOK
    <3>4. m \in Contents'
      BY <3>3 DEF Contents
    <3>5. m.res = "TIMEOUT" => m.from \in late
      BY <3>4 DEF TimeInv, Timely
    <3> QED
      BY <3>5 DEF Results
  <2>5. Results(m) \in SUBSET Service!Status
    BY DEF Results, Service!Status, Msg, Status
  <2>6. Service!Run(cur[l].from, Results(m))
    BY <1>2, <2>2, <2>3, <2>4 DEF Service!Run, AnswerOf
  <2> QED
    BY <2>2, <2>5, <2>6 DEF Service!Next
<1> QED
  BY <1>3, <1>4

LEMMA ListenerLoses ==
  ASSUME TypeInv, ServiceInv, NEW l \in Listeners, OfferAnswer(l)
  PROVE  UNCHANGED Service!vars \/ Service!Next
<1>1. /\ Unanswered' = Unanswered
      /\ \/ Returning' = Returning
         \/ Returning = Returning' \union {cur[l]} /\ \A y \in Returning' : y.from # cur[l].from
  BY OfferEffect DEF ServiceInv
<1>2. UNCHANGED <<query, ret, late, Asking, Unsent>> /\ \A d : Id(d)' = Id(d)
  BY ListenerKeeps DEF OfferAnswer
<1>3. Pending' = Pending
  BY <1>1, <1>2, SamePending
<1>4. CASE Returning' = Returning
  BY <1>2, <1>3, <1>4, SameService
<1>5. CASE Returning = Returning' \union {cur[l]} /\ \A y \in Returning' : y.from # cur[l].from
  <2>1. {AnswerOf(m) : m \in Returning'} = {AnswerOf(m) : m \in Returning} \ {AnswerOf(cur[l])}
    <3> DEFINE A == Returning
               B == Returning'
               h == cur[l]
    <3>1. A = B \union {h} /\ \A y \in B : y.from # h.from
      BY <1>5
    <3> HIDE DEF A, B, h
    <3>2. {AnswerOf(m) : m \in B} = {AnswerOf(m) : m \in A} \ {AnswerOf(h)}
      BY <3>1, Differ
    <3> QED
      BY <3>2 DEF A, B, h
  <2>2. AnswerOf(cur[l]) \in {AnswerOf(m) : m \in Returning}
    BY <1>5
  <2>3. Service!Lose(AnswerOf(cur[l]))
    BY <1>2, <1>3, <2>1, <2>2 DEF Service!Lose
  <2> QED
    BY <2>2, <2>3 DEF Service!Next
<1> QED
  BY <1>1, <1>4, <1>5

LEMMA TimePasses ==
  ASSUME TypeInv, ServiceInv, NEW id \in Ids, Elapse(id)
  PROVE  Service!Next
<1>1. UNCHANGED <<Unanswered, Returning>>
  BY UnchangedEffect DEF Elapse, listenerVars
<1>2. UNCHANGED <<query, ret, Asking, Unsent>>
  BY DEF Elapse, callerVars, Asking, Unsent
<1>3. Pending' = Pending
  BY <1>1, <1>2, SamePending
<1>4. Service!Elapse(id)
  BY <1>1, <1>2, <1>3 DEF Service!Elapse, Elapse
<1>5. ASSUME NEW m \in Contents, m.from = id PROVE id \in Service!Asked
  <2>1. Sent(m)
    BY <1>5 DEF ServiceInv, SentInv
  <2>2. PICK d \in Callers, k \in 1 .. MaxQueries : id = <<d, k>>
    BY DEF Ids
  <2>3. m.from # NoId
    BY <1>5, <2>2 DEF NoId
  <2>4. PICK c \in Callers : \E n \in 1 .. query[c] : id = <<c, n>>
    BY <1>5, <2>1, <2>3 DEF Sent
  <2> QED
    BY <2>4 DEF Service!Asked
<1>6. ASSUME InFlight(id) PROVE id \in Service!Asked
  BY <1>5, <1>6, InContents DEF InFlight, Elems
<1>7. ASSUME NEW c \in Callers, Id(c) = id, pc[c] \in {"push", "wait"} PROVE id \in Service!Asked
  BY <1>7 DEF Id, TypeInv, Started, Service!Asked
<1>8. id \in Service!Asked \ late
  BY <1>6, <1>7 DEF Elapse
<1> QED
  BY <1>4, <1>8 DEF Service!Next

-----------------------------------------------------------------------------
LEMMA ServiceInit == Init => Service!Init
<1> SUFFICES ASSUME Init PROVE Service!Init
  OBVIOUS
<1>1. Asking = {} /\ Unsent = {}
  BY DEF Init, Asking, Unsent
<1>2. Unanswered = {} /\ Returning = {}
  BY DEF Init, Unanswered, Returning, InHand, Elems
<1>3. Pending = {} /\ {AnswerOf(m) : m \in Returning} = {}
  BY <1>1, <1>2 DEF Pending
<1> QED
  BY <1>1, <1>3 DEF Init, Service!Init

LEMMA CallerService ==
  ASSUME TypeInv, ServiceInv, OwnAnswer, NEW c \in Callers, BeginQuery(c) \/ CallerStep(c)
  PROVE  UNCHANGED Service!vars \/ Service!Next
<1> DEFINE Goal == UNCHANGED Service!vars \/ Service!Next
<1>0. /\ pc \in [Callers -> {"idle", "lock", "scan", "take", "seqread", "seqwrite",
                             "respdata", "mainscan", "push", "wait", "release"}]
      /\ SentInv
  BY DEF TypeInv, TypeOK, CallerTypeOK, ServiceInv
<1>1. CASE BeginQuery(c)
  BY <1>1, CallerAsks DEF Service!Next
<1>2. CASE LockResp(c) \/ ScanFound(c) \/ TakeResp(c) \/ SeqRead(c) \/ SeqWrite(c) \/ Release(c)
  <2>1. /\ UNCHANGED <<query, ret, late, mainq, resp, lpc, cur>> /\ pc' = [pc EXCEPT ![c] = pc'[c]]
        /\ pc[c] \in {"idle", "release"} <=> pc'[c] \in {"idle", "release"}
        /\ pc[c] # "wait" /\ pc'[c] # "wait"
    BY <1>0, <1>2 DEF LockResp, ScanFound, TakeResp, SeqRead, SeqWrite, Release, listenerVars
  <2> QED
    BY <2>1, CallerStutters
<1>3. CASE ScanFailed(c) \/ GetRespData(c) \/ ScanMain(c)
  <2>1. /\ UNCHANGED <<query, late, mainq, resp, lpc, cur>>
        /\ pc[c] \notin {"idle", "wait", "release"}
    BY <1>3 DEF ScanFailed, GetRespData, ScanMain, listenerVars
  <2>2. \/ /\ pc' = [pc EXCEPT ![c] = pc'[c]] /\ ret' = [ret EXCEPT ![c] = "FALSE"]
           /\ pc'[c] \in {"idle", "release"}
        \/ /\ UNCHANGED ret /\ pc' = [pc EXCEPT ![c] = pc'[c]]
           /\ pc'[c] \notin {"idle", "wait", "release"}
    BY <1>0, <1>3 DEF ScanFailed, GetRespData, ScanMain
  <2>3. CASE UNCHANGED ret /\ pc' = [pc EXCEPT ![c] = pc'[c]] /\ pc'[c] \notin {"idle", "wait", "release"}
    BY <2>1, <2>3, CallerStutters
  <2>4. CASE /\ pc' = [pc EXCEPT ![c] = pc'[c]] /\ ret' = [ret EXCEPT ![c] = "FALSE"]
             /\ pc'[c] \in {"idle", "release"}
    BY <1>0, <2>1, <2>4, CallerRefused DEF Service!Next
  <2> QED
    BY <2>2, <2>3, <2>4
<1>4. CASE ScanNext(c)
  <2>1. UNCHANGED <<mainq, resp, lpc, cur, pc, query, ret, late>>
    BY <1>4 DEF ScanNext, listenerVars, callerVars
  <2>2. UNCHANGED <<Unanswered, Returning, Asking, Unsent>>
    BY <2>1, UnchangedEffect DEF Asking, Unsent
  <2> QED
    BY <2>1, <2>2, SamePending, SameService
<1>5. CASE Send(c)
  BY <1>5, CallerSends
<1>6. CASE Receive(c)
  BY <1>6, CallerReceives DEF Service!Next
<1>7. CASE WaitTimeout(c)
  BY <1>7, CallerGivesUp DEF Service!Next
<1> QED
  BY <1>1, <1>2, <1>3, <1>4, <1>5, <1>6, <1>7 DEF CallerStep

LEMMA ListenerService ==
  ASSUME TypeInv, ServiceInv, TimeInv', NEW l \in Listeners, ListenerStep(l)
  PROVE  UNCHANGED Service!vars \/ Service!Next
<1> DEFINE Goal == UNCHANGED Service!vars \/ Service!Next
<1>0. cur \in [Listeners -> Msg]
  BY DEF TypeInv, TypeOK, ListenerTypeOK
<1>1. CASE Pop(l)
  <2>1. UNCHANGED <<callerVars, late>>
    BY <1>1 DEF Pop
  <2> QED
    BY <1>1, <2>1, PopEffect, ListenerStutters
<1>2. CASE PushAnswer(l)
  <2>1. UNCHANGED <<callerVars, late>>
    BY <1>2 DEF PushAnswer
  <2> QED
    BY <1>2, <2>1, DeliverEffect, ListenerStutters DEF ServiceInv
<1>3. CASE OfferAnswer(l)
  BY <1>3, ListenerLoses
<1>4. ASSUME lpc[l] \in Busy, UNCHANGED <<mainq, resp, callerVars, late>>, NEW m \in Msg,
             m.from = cur[l].from, m.rq = cur[l].rq, Answered(l, m)
      PROVE  Goal
  BY <1>4, ListenerRuns
<1>5. ASSUME lpc[l] \in Busy, UNCHANGED <<mainq, resp, callerVars, late>>, NEW m \in Msg,
             m.from = cur[l].from, NEW a \in Busy, lpc' = [lpc EXCEPT ![l] = a], cur' = [cur EXCEPT ![l] = m]
      PROVE  Goal
  BY <1>5, StayEffect, ListenerStutters
<1>6. CASE RedisCommand(l)
  <2>1. /\ \A m \in {WithRes(WithType(cur[l], "REDIS"), "SUCCESS"), WithRes(cur[l], "FALSE")} :
            m \in Msg /\ m.from = cur[l].from /\ m.rq = cur[l].rq
        /\ lpc[l] \in Busy /\ UNCHANGED <<mainq, resp, callerVars, late>> /\ "mysql" \in Busy
    BY <1>0, <1>6, ListenerMakes, BusyOrDone DEF RedisCommand, Status
  <2>2. cur = [cur EXCEPT ![l] = cur[l]]
    BY <1>0
  <2>3. ASSUME lpc' = [lpc EXCEPT ![l] = "mysql"], UNCHANGED cur PROVE Goal
    BY <1>0, <1>5, <2>1, <2>2, <2>3
  <2> QED
    BY <1>4, <1>6, <2>1, <2>3 DEF RedisCommand
<1>7. CASE MysqlQuery(l)
  <2>1. /\ \A m \in {WithRes(cur[l], "FALSE"), WithRes(WithType(cur[l], "MYSQL"), "TIMEOUT"),
                     WithType(cur[l], "MYSQL"), WithType(cur[l], "MYSQL_INSERT_ID")} :
            m \in Msg /\ m.from = cur[l].from /\ m.rq = cur[l].rq
        /\ lpc[l] \in Busy /\ UNCHANGED <<mainq, resp, callerVars, late>> /\ "callback" \in Busy
    BY <1>0, <1>7, ListenerMakes, BusyOrDone DEF MysqlQuery, Status
  <2> QED
    BY <1>4, <1>5, <1>7, <2>1 DEF MysqlQuery
<1>8. CASE MysqlCallback(l)
  <2>1. PICK s \in Status : Answered(l, WithRes(cur[l], s))
    BY <1>8 DEF MysqlCallback, Status
  <2>2. lpc[l] \in Busy /\ UNCHANGED <<mainq, resp, callerVars, late>>
    BY <1>8, BusyOrDone DEF MysqlCallback
  <2> QED
    BY <1>0, <1>4, <2>1, <2>2, ListenerMakes
<1> QED
  BY <1>1, <1>2, <1>3, <1>6, <1>7, <1>8 DEF ListenerStep

(* A keep alive belongs to no query.                                        *)
LEMMA KeepAliveService ==
  ASSUME TypeInv, KeepAliveSend
  PROVE  UNCHANGED Service!vars
<1>1. PICK l \in Listeners : l = katarget
  BY DEF KeepAliveSend, TypeInv, TypeOK, ListenerTypeOK
<1>2. PICK m \in Msg : m = KeepAliveMsg
  BY KeepAliveMsgType
<1>3. mainq' = [mainq EXCEPT ![l] = Append(@, m)] /\ UNCHANGED <<resp, lpc, cur, callerVars, late>>
  BY <1>1, <1>2 DEF KeepAliveSend, listenerVars
<1>4. Unanswered' = Unanswered \union {m} /\ Returning' = Returning /\ m.from = NoId
  BY <1>2, <1>3, PushEffect DEF KeepAliveMsg
<1>5. UNCHANGED <<query, ret, late, Asking, Unsent>> /\ \A d : Id(d)' = Id(d)
  BY <1>3, ListenerKeeps
<1>6. Pending' = Pending
  BY <1>4, <1>5 DEF Pending
<1> QED
  BY <1>4, <1>5, <1>6, SameService

LEMMA ServiceStep ==
  TypeInv /\ ServiceInv /\ OwnAnswer /\ TimeInv' /\ [Next]_vars => [Service!Next]_Service!vars
<1> SUFFICES ASSUME TypeInv, ServiceInv, OwnAnswer, TimeInv', [Next]_vars
             PROVE  UNCHANGED Service!vars \/ Service!Next
  OBVIOUS
<1>1. ASSUME UNCHANGED <<callerVars, mainq, resp, lpc, cur, late>> PROVE UNCHANGED Service!vars
  <2>1. UNCHANGED <<Unanswered, Returning>>
    BY <1>1, UnchangedEffect
  <2>2. UNCHANGED <<query, ret, late, Asking, Unsent>>
    BY <1>1, ListenerKeeps
  <2> QED
    BY <2>1, <2>2, SamePending, SameService
<1>2. CASE UNCHANGED vars
  BY <1>1, <1>2 DEF vars, listenerVars
<1>3. CASE Quiescent
  BY <1>1, <1>3 DEF Quiescent, vars, listenerVars
<1>4. ASSUME NEW c \in Callers, BeginQuery(c) \/ CallerStep(c) PROVE UNCHANGED Service!vars \/ Service!Next
  BY <1>4, CallerService
<1>5. ASSUME NEW l \in Listeners, ListenerStep(l) PROVE UNCHANGED Service!vars \/ Service!Next
  BY <1>5, ListenerService
<1>6. ASSUME NEW l \in Listeners, KeepAliveCheck(l) PROVE UNCHANGED Service!vars
  BY <1>1, <1>6 DEF KeepAliveCheck, listenerVars
<1>7. CASE KeepAliveSend
  BY <1>7, KeepAliveService
<1>8. ASSUME NEW id \in Ids, Elapse(id) PROVE Service!Next
  BY <1>8, TimePasses
<1> QED
  BY <1>2, <1>3, <1>4, <1>5, <1>6, <1>7, <1>8 DEF Next

(* As long as answers are not confused, the main queues, the listeners, the *)
(* response queues and their numbers do what QueryService promises: a       *)
(* command is run at most once and never after its query was refused, and a *)
(* query returns the outcome of its own command, a refusal of one that was  *)
(* not run, or TIMEOUT after its time (queue.c 443-634, 744-834).  The type *)
(* REDIS_MYSQL, whose timeout is not a point in time, is left out.          *)
THEOREM ServiceIsImplemented ==
  ASSUME "REDIS_MYSQL" \notin EventTypes
  PROVE  Spec /\ []OwnAnswer => ImplementsService
<1>1. TypeInv /\ ServiceInv /\ OwnAnswer /\ TimeInv' /\ [Next]_vars => [Service!Next]_Service!vars
  BY ServiceStep
<1>2. TypeInv /\ TimeInv /\ OwnAnswer /\ [Next]_vars => TimeInv'
  BY StepTimeInv
<1> QED
  BY <1>1, <1>2, ServiceInit, InitServiceInv, StepServiceInv, InitTimeInv, TypeInvAlways, PTL
     DEF Spec, ImplementsService, Service!Spec

(* With one session thread there is nobody to confuse answers with, and the *)
(* promise is kept without a condition on the behaviour (queue.c 443-634).  *)
THEOREM OneCallerService ==
  ASSUME \A c, d \in Callers : c = d, "REDIS_MYSQL" \notin EventTypes
  PROVE  Spec => ImplementsService
BY ServiceIsImplemented, OneCallerOwnAnswer, PTL

=============================================================================
