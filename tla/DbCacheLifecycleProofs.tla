------------------------ MODULE DbCacheLifecycleProofs ------------------------
(***************************************************************************)
(* Theorems about the loads and unloads of mod_as_dbcache in               *)
(* DbCacheLifecycle, for any numbers of callers, queues, retries and loads. *)
(***************************************************************************)
EXTENDS DbCacheLifecycle, TLAPS

(* Where the host is tells which pool there is and which loop i belongs to; *)
(* where a caller is, that it holds a slot.                                 *)
HostOK ==
    /\ host # "unloaded" => loads # 0
    /\ pool = IF host \in {"unloaded", "pool", "failed"} THEN Null ELSE loads
    /\ host \in {"main", "thread", "push", "join", "clear"} => i \in Listeners
    /\ host \in {"resp", "busy"} => i \in RespQueues

CallerOK ==
    \A c \in Callers :
        /\ pc[c] \in {"choose", "push", "recv", "wait", "release"} => slot[c] \in RespQueues
        /\ pc[c] # "idle" => made[c] # 0

TypeInv == TypeOK /\ HostOK /\ CallerOK

LEMMA Sizes ==
  /\ NMain \in Nat \ {0} /\ NResp \in Nat \ {0} /\ MaxLoads \in Nat /\ MaxQueries \in Nat
  /\ Listeners \subseteq Nat /\ RespQueues \subseteq Nat /\ 0 \in Listeners /\ 0 \in RespQueues
BY SizesAssumption DEF Listeners, RespQueues

LEMMA Items ==
  /\ KeepAlive \in Item /\ Stop \in Item /\ KeepAlive # Stop
  /\ \A c \in Callers : made \in [Callers -> 0 .. MaxQueries] /\ made[c] # 0 /\ slot[c] \in RespQueues => Request(c) \in Item
  /\ \A c \in Callers : Request(c) # Stop /\ Request(c) # KeepAlive
<1>1. KeepAlive \in Item /\ Stop \in Item /\ KeepAlive # Stop
  BY DEF Item, KeepAlive, Stop
<1>2. ASSUME NEW c \in Callers, made \in [Callers -> 0 .. MaxQueries], made[c] # 0, slot[c] \in RespQueues
      PROVE  Request(c) \in Item
  <2>1. made[c] \in 1 .. MaxQueries
    BY <1>2, Sizes
  <2>2. QED
    BY <1>2, <2>1 DEF Item, Request
<1>3. \A c \in Callers : Request(c) # Stop /\ Request(c) # KeepAlive
  BY DEF Request, Stop, KeepAlive
<1>4. QED
  BY <1>1, <1>2, <1>3

LEMMA InitType == Init => TypeInv
<1> SUFFICES ASSUME Init PROVE TypeInv
  OBVIOUS
<1>1. HostTypeOK /\ HostOK
  <2>1. isinit = FALSE /\ pool = 0 /\ mutex = 0 /\ loads = 0 /\ host = "unloaded" /\ i = 0
    BY DEF Init, Null
  <2>2. 0 \in 0 .. MaxLoads
    BY Sizes
  <2>3. QED
    BY <2>1, <2>2, Sizes DEF HostTypeOK, HostOK, HostLabels, Null
<1>2. QueueTypeOK
  BY DEF Init, QueueTypeOK, Null
<1>3. ThreadTypeOK
  BY Sizes, Items DEF Init, ThreadTypeOK
<1>4. CallerTypeOK /\ CallerOK
  BY Sizes DEF Init, CallerTypeOK, CallerOK
<1>5. CrashTypeOK
  BY DEF Init, CrashTypeOK, NoCrash
<1>6. QED
  BY <1>1, <1>2, <1>3, <1>4, <1>5 DEF TypeInv, TypeOK
-----------------------------------------------------------------------------
(* The host leaves the callers alone.                                       *)
LEMMA HostLeaves ==
  ASSUME HostStep
  PROVE  UNCHANGED <<answers, job, target, alive, seen, pc, made, tries, slot, to, born, behind>>
BY DEF HostStep, BeginInit, MakePool, MakeMutex, MakeResp, MakeMain, StartListener, InitFails, InitFailed,
       BeginUninit, PushNull, Join, ClearMain, ClearResp, DestroyMutex, DestroyPool, unchangedByHost, callerVars

LEMMA HostType ==
  ASSUME TypeInv, HostStep
  PROVE  TypeInv'
<1>0. HostTypeOK /\ QueueTypeOK /\ ThreadTypeOK /\ CallerTypeOK /\ CrashTypeOK /\ HostOK /\ CallerOK
  BY DEF TypeInv, TypeOK
<1>1. CallerTypeOK' /\ CallerOK'
  BY <1>0, HostLeaves DEF CallerTypeOK, CallerOK
<1>2. UNCHANGED <<job, target, alive, seen>>
  BY HostLeaves
<1>3. CASE BeginInit
  <2>1. HostTypeOK' /\ HostOK'
    BY <1>0, <1>3, Sizes DEF BeginInit, HostTypeOK, HostOK, HostLabels
  <2>2. QueueTypeOK' /\ ThreadTypeOK' /\ CrashTypeOK'
    BY <1>0, <1>2, <1>3 DEF BeginInit, QueueTypeOK, ThreadTypeOK, CrashTypeOK, mainVars
  <2>3. QED
    BY <1>1, <2>1, <2>2 DEF TypeInv, TypeOK
<1>4. CASE MakePool \/ MakeMutex
  <2>1. HostTypeOK' /\ HostOK'
    BY <1>0, <1>4, Sizes DEF MakePool, MakeMutex, HostTypeOK, HostOK, HostLabels, Null
  <2>2. QueueTypeOK' /\ ThreadTypeOK' /\ CrashTypeOK'
    BY <1>0, <1>2, <1>4 DEF MakePool, MakeMutex, QueueTypeOK, ThreadTypeOK, CrashTypeOK, mainVars
  <2>3. QED
    BY <1>1, <2>1, <2>2 DEF TypeInv, TypeOK
<1>5. CASE MakeResp \/ ClearResp
  <2>1. HostTypeOK' /\ HostOK' /\ pool \in Nat
    BY <1>0, <1>5, Sizes DEF MakeResp, ClearResp, HostTypeOK, HostOK, HostLabels, Null, RespQueues
  <2>2. QueueTypeOK'
    <3>1. PICK f \in {"IDLE", "BUSY"}, q \in Nat :
              flag' = [flag EXCEPT ![i] = f] /\ respq' = [respq EXCEPT ![i] = q]
      BY <1>5, <2>1 DEF MakeResp, ClearResp, Null
    <3>2. UNCHANGED <<mainq, items>>
      BY <1>5 DEF MakeResp, ClearResp, mainVars
    <3>3. QED
      BY <1>0, <3>1, <3>2 DEF QueueTypeOK
  <2>3. ThreadTypeOK' /\ CrashTypeOK'
    BY <1>0, <1>2, <1>5 DEF MakeResp, ClearResp, ThreadTypeOK, CrashTypeOK
  <2>4. QED
    BY <1>1, <2>1, <2>2, <2>3 DEF TypeInv, TypeOK
<1>6. CASE MakeMain
  <2>1. HostTypeOK' /\ HostOK' /\ pool \in Nat
    BY <1>0, <1>6, Sizes DEF MakeMain, HostTypeOK, HostOK, HostLabels, Null
  <2>2. <<>> \in Seq(Item)
    OBVIOUS
  <2>3. QueueTypeOK'
    BY <1>0, <1>6, <2>1, <2>2 DEF MakeMain, QueueTypeOK
  <2>4. ThreadTypeOK' /\ CrashTypeOK'
    BY <1>0, <1>2, <1>6 DEF MakeMain, ThreadTypeOK, CrashTypeOK
  <2>5. QED
    BY <1>1, <2>1, <2>3, <2>4 DEF TypeInv, TypeOK
<1>7. CASE StartListener
  <2>1. HostTypeOK' /\ HostOK'
    BY <1>0, <1>7, Sizes DEF StartListener, HostTypeOK, HostOK, HostLabels, Listeners
  <2>2. QueueTypeOK' /\ ThreadTypeOK' /\ CrashTypeOK'
    BY <1>0, <1>2, <1>7 DEF StartListener, QueueTypeOK, ThreadTypeOK, CrashTypeOK, mainVars
  <2>3. QED
    BY <1>1, <2>1, <2>2 DEF TypeInv, TypeOK
<1>8. CASE InitFails \/ DestroyPool
  <2>1. HostTypeOK' /\ HostOK'
    BY <1>0, <1>8, Sizes DEF InitFails, DestroyPool, HostTypeOK, HostOK, HostLabels, FreePool
  <2>2. QueueTypeOK' /\ ThreadTypeOK'
    BY <1>0, <1>2, <1>8 DEF InitFails, DestroyPool, QueueTypeOK, ThreadTypeOK, mainVars
  <2>3. loads \in Nat /\ \A c \in Waiting : born[c] \in Nat
    BY <1>0, Sizes DEF Waiting, CallerTypeOK, HostTypeOK
  <2>4. CrashTypeOK'
    BY <1>0, <1>8, <2>3 DEF InitFails, DestroyPool, FreePool, Crash, CrashTypeOK
  <2>5. QED
    BY <1>1, <2>1, <2>2, <2>4 DEF TypeInv, TypeOK
<1>9. CASE InitFailed \/ BeginUninit \/ DestroyMutex
  <2>1. HostTypeOK' /\ HostOK'
    BY <1>0, <1>9, Sizes DEF InitFailed, BeginUninit, DestroyMutex, HostTypeOK, HostOK, HostLabels, Null
  <2>2. QueueTypeOK' /\ ThreadTypeOK' /\ CrashTypeOK'
    BY <1>0, <1>2, <1>9 DEF InitFailed, BeginUninit, DestroyMutex, QueueTypeOK, ThreadTypeOK, CrashTypeOK, mainVars
  <2>3. QED
    BY <1>1, <2>1, <2>2 DEF TypeInv, TypeOK
<1>10. CASE PushNull
  <2>1. HostTypeOK' /\ HostOK' /\ i \in Listeners
    BY <1>0, <1>10, Sizes DEF PushNull, HostTypeOK, HostOK, HostLabels, Listeners
  <2>2. Append(items[i], Stop) \in Seq(Item)
    BY <1>0, <2>1, Items DEF QueueTypeOK
  <2>3. QueueTypeOK'
    BY <1>0, <1>10, <2>2 DEF PushNull, QueueTypeOK
  <2>4. ThreadTypeOK' /\ CrashTypeOK'
    BY <1>0, <1>2, <1>10 DEF PushNull, ThreadTypeOK, CrashTypeOK
  <2>5. QED
    BY <1>1, <2>1, <2>3, <2>4 DEF TypeInv, TypeOK
<1>11. CASE Join \/ ClearMain
  <2>1. HostTypeOK' /\ HostOK'
    BY <1>0, <1>11, Sizes DEF Join, ClearMain, HostTypeOK, HostOK, HostLabels, Listeners
  <2>2. mainq' \in {mainq, [mainq EXCEPT ![i] = 0]} /\ UNCHANGED <<flag, respq, items, lpc, tpc, crash>>
    BY <1>11 DEF Join, ClearMain, mainVars, Null
  <2>3. QueueTypeOK' /\ ThreadTypeOK' /\ CrashTypeOK'
    BY <1>0, <1>2, <2>2 DEF QueueTypeOK, ThreadTypeOK, CrashTypeOK
  <2>4. QED
    BY <1>1, <2>1, <2>3 DEF TypeInv, TypeOK
<1>12. QED
  BY <1>3, <1>4, <1>5, <1>6, <1>7, <1>8, <1>9, <1>10, <1>11 DEF HostStep

(* The callers, each of which changes only its own part of the state.       *)
LEMMA CallerType ==
  ASSUME TypeInv, NEW c \in Callers, CallerStep(c)
  PROVE  TypeInv'
<1>0. HostTypeOK /\ QueueTypeOK /\ ThreadTypeOK /\ CallerTypeOK /\ CrashTypeOK /\ HostOK /\ CallerOK /\ loads \in Nat
  BY Sizes DEF TypeInv, TypeOK, HostTypeOK
<1>1. UNCHANGED <<isinit, pool, mutex, loads, host, i, respq, mainq, lpc, job, tpc, target, alive, seen>>
  BY DEF CallerStep, BeginQuery, GetNothing, GetResp, GetCrash, Choose, ChooseNothing, ChooseCrash, Send, SendCrash,
         Wait, Return, Release, unchangedByCaller, hostVars, respVars, mainVars, listenerVars, taskVars
<1>2. HostTypeOK' /\ ThreadTypeOK' /\ HostOK'
  BY <1>0, <1>1 DEF HostTypeOK, ThreadTypeOK, HostOK
<1>3. CASE BeginQuery(c)
  <2>1. CallerTypeOK' /\ CallerOK'
    BY <1>0, <1>3, Sizes DEF BeginQuery, Goto, CallerTypeOK, CallerOK, respVars
  <2>2. QueueTypeOK' /\ CrashTypeOK'
    BY <1>0, <1>1, <1>3 DEF BeginQuery, QueueTypeOK, CrashTypeOK, respVars, mainVars
  <2>3. QED
    BY <1>2, <2>1, <2>2 DEF TypeInv, TypeOK
<1>4. CASE GetNothing(c) \/ GetResp(c)
  <2>1. CallerTypeOK' /\ CallerOK'
    BY <1>0, <1>4 DEF GetNothing, GetResp, Goto, CallerTypeOK, CallerOK, unchangedByCaller
  <2>2. QueueTypeOK' /\ CrashTypeOK'
    BY <1>0, <1>1, <1>4 DEF GetNothing, GetResp, QueueTypeOK, CrashTypeOK
  <2>3. QED
    BY <1>2, <2>1, <2>2 DEF TypeInv, TypeOK
<1>5. CASE GetCrash(c) \/ ChooseCrash(c) \/ SendCrash(c)
  <2>1. CallerTypeOK' /\ CallerOK'
    BY <1>0, <1>5 DEF GetCrash, ChooseCrash, SendCrash, CallerTypeOK, CallerOK, unchangedByCaller
  <2>2. QueueTypeOK' /\ CrashTypeOK'
    BY <1>0, <1>1, <1>5 DEF GetCrash, ChooseCrash, SendCrash, Crash, QueueTypeOK, CrashTypeOK, CallerTypeOK
  <2>3. QED
    BY <1>2, <2>1, <2>2 DEF TypeInv, TypeOK
<1>6. CASE Choose(c) \/ ChooseNothing(c) \/ Wait(c) \/ Return(c)
  <2>1. CallerTypeOK' /\ CallerOK'
    BY <1>0, <1>6 DEF Choose, ChooseNothing, Wait, Return, Goto, CallerTypeOK, CallerOK, unchangedByCaller
  <2>2. QueueTypeOK' /\ CrashTypeOK'
    BY <1>0, <1>1, <1>6 DEF Choose, ChooseNothing, Wait, Return, Crash, QueueTypeOK, CrashTypeOK, CallerTypeOK
  <2>3. QED
    BY <1>2, <2>1, <2>2 DEF TypeInv, TypeOK
<1>7. CASE Send(c)
  <2>1. CallerTypeOK' /\ CallerOK'
    BY <1>0, <1>7 DEF Send, Goto, CallerTypeOK, CallerOK, unchangedByCaller
  <2>2. to[c] \in Listeners /\ Request(c) \in Item
    BY <1>0, <1>7, Items DEF Send, CallerTypeOK, CallerOK
  <2>3. Append(items[to[c]], Request(c)) \in Seq(Item)
    BY <1>0, <2>2 DEF QueueTypeOK
  <2>4. QueueTypeOK' /\ CrashTypeOK'
    BY <1>0, <1>1, <1>7, <2>3 DEF Send, QueueTypeOK, CrashTypeOK
  <2>5. QED
    BY <1>2, <2>1, <2>4 DEF TypeInv, TypeOK
<1>8. CASE Release(c)
  <2>1. CallerTypeOK' /\ CallerOK'
    BY <1>0, <1>8, Sizes DEF Release, Goto, CallerTypeOK, CallerOK, unchangedByCaller
  <2>2. QueueTypeOK' /\ CrashTypeOK'
    BY <1>0, <1>1, <1>8 DEF Release, QueueTypeOK, CrashTypeOK
  <2>3. QED
    BY <1>2, <2>1, <2>2 DEF TypeInv, TypeOK
<1>9. QED
  BY <1>3, <1>4, <1>5, <1>6, <1>7, <1>8 DEF CallerStep

LEMMA ListenerType ==
  ASSUME TypeInv, NEW l \in Listeners, ListenerStep(l)
  PROVE  TypeInv'
<1>0. HostTypeOK /\ QueueTypeOK /\ ThreadTypeOK /\ CallerTypeOK /\ CrashTypeOK /\ HostOK /\ CallerOK
  BY DEF TypeInv, TypeOK
<1>1. UNCHANGED unchangedByListener
  BY DEF ListenerStep, Pop, Work
<1>2. HostTypeOK' /\ HostOK' /\ CallerOK' /\ CrashTypeOK'
  BY <1>0, <1>1 DEF unchangedByListener, hostVars, callerVars, HostTypeOK, HostOK, CallerOK, CrashTypeOK
<1>3. answers' \subseteq Callers
  BY <1>0 DEF ListenerStep, Pop, Work, Asked, CallerTypeOK
<1>4. CallerTypeOK'
  BY <1>0, <1>1, <1>3 DEF unchangedByListener, callerVars, CallerTypeOK
<1>5. items[l] # <<>> => Head(items[l]) \in Item /\ Tail(items[l]) \in Seq(Item)
  BY <1>0 DEF QueueTypeOK
<1>6. QueueTypeOK'
  BY <1>0, <1>1, <1>5 DEF unchangedByListener, ListenerStep, Pop, Work, QueueTypeOK
<1>7. ThreadTypeOK'
  <2>1. PICK label \in {"pop", "work", "stopped"}, m \in Item : Listen(l, label, m)
    BY <1>5, Items DEF ListenerStep, Pop, Work
  <2>2. UNCHANGED <<tpc, target, alive, seen>>
    BY <1>1 DEF unchangedByListener, taskVars
  <2>3. QED
    BY <1>0, <2>1, <2>2 DEF Listen, ThreadTypeOK
<1>8. QED
  BY <1>2, <1>4, <1>6, <1>7 DEF TypeInv, TypeOK

LEMMA TaskType ==
  ASSUME TypeInv, NEW n \in Loads, TaskStep(n)
  PROVE  TypeInv'
<1>0. HostTypeOK /\ QueueTypeOK /\ ThreadTypeOK /\ CallerTypeOK /\ CrashTypeOK /\ HostOK /\ CallerOK /\ loads \in Nat
  BY Sizes DEF TypeInv, TypeOK, HostTypeOK
<1>1. UNCHANGED unchangedByTask
  BY DEF TaskStep, Visit, FindIdle, FindBusy, SendKeepAlive, TaskCrash
<1>2. HostTypeOK' /\ HostOK' /\ CallerOK' /\ CallerTypeOK'
  BY <1>0, <1>1 DEF unchangedByTask, hostVars, respVars, callerVars, HostTypeOK, HostOK, CallerOK, CallerTypeOK
<1>3. CrashTypeOK'
  BY <1>0 DEF TaskStep, Visit, FindIdle, FindBusy, SendKeepAlive, TaskCrash, Crash, CrashTypeOK, ThreadTypeOK
<1>4. target[n] \in Listeners /\ Append(items[target[n]], KeepAlive) \in Seq(Item)
  BY <1>0, Items DEF ThreadTypeOK, QueueTypeOK
<1>5. QueueTypeOK'
  BY <1>0, <1>1, <1>4 DEF unchangedByTask, respVars, TaskStep, Visit, FindIdle, FindBusy, SendKeepAlive, TaskCrash,
                          QueueTypeOK
<1>6. ThreadTypeOK'
  <2>1. UNCHANGED <<lpc, job>>
    BY <1>1 DEF unchangedByTask, listenerVars
  <2>2. /\ alive' \in {alive, alive + 1}
        /\ tpc' = tpc \/ \E t \in {"sleep", "size", "push", "ended"} : tpc' = [tpc EXCEPT ![n] = t]
        /\ target' = target \/ \E l \in Listeners : target' = [target EXCEPT ![n] = l]
        /\ seen' = seen \/ \E s \in Nat : seen' = [seen EXCEPT ![n] = s]
    BY <1>0, Sizes DEF TaskStep, Visit, FindIdle, FindBusy, SendKeepAlive, TaskCrash, Sleep, taskVars
  <2>3. QED
    BY <1>0, <2>1, <2>2 DEF ThreadTypeOK
<1>7. QED
  BY <1>2, <1>3, <1>5, <1>6 DEF TypeInv, TypeOK

LEMMA StutterType ==
  ASSUME TypeInv, UNCHANGED vars
  PROVE  TypeInv'
BY DEF vars, hostVars, respVars, mainVars, listenerVars, taskVars, callerVars, TypeInv, TypeOK, HostTypeOK, QueueTypeOK,
       ThreadTypeOK, CallerTypeOK, CrashTypeOK, HostOK, CallerOK

LEMMA TypeStep ==
  ASSUME TypeInv, [Next]_vars
  PROVE  TypeInv'
BY HostType, CallerType, ListenerType, TaskType, StutterType DEF Next, Running, Ended, Idle

(* All variables keep their types, through any loads, failures and unloads. *)
THEOREM TypeCorrect == Spec => []TypeOK
<1>1. TypeInv => TypeOK
  BY DEF TypeInv
<1>2. QED
  BY <1>1, InitType, TypeStep, PTL DEF Spec
-----------------------------------------------------------------------------
(* What a load has built so far, and what an unload has not taken down yet. *)
BuiltInv ==
    /\ host \in {"resp", "main", "thread"} \union Standing => mutex = loads
    /\ \A r \in RespQueues :
        host \in {"main", "thread"} \union Standing \/ (host = "resp" /\ r < i) => respq[r] = loads
    /\ \A l \in Listeners :
        host \in Standing \/ (host = "main" /\ l < i) \/ (host = "thread" /\ l <= i) => mainq[l] = loads

(* A queue is as new as the load that made it.                              *)
FreshInv ==
    /\ \A c \in Callers : born[c] <= loads
    /\ \A l \in Listeners :
        /\ mainq[l] <= loads
        /\ (mainq[l] = loads /\ loads # 0) => host \notin {"pool", "mutex", "resp"}
        /\ (mainq[l] = loads /\ loads # 0 /\ host = "main") => l < i
        /\ (mainq[l] = loads /\ loads # 0 /\ host = "thread") => l <= i

(* Listeners run from their start to their NULL.                            *)
ListenInv ==
    \A l \in Listeners :
        /\ lpc[l] \in {"pop", "work"} =>
              \/ host \in {"up", "push", "join"}
              \/ host \in {"main", "thread"} /\ l < i
        /\ host \in Joined \/ (host = "join" /\ l < i) => lpc[l] = "stopped"

LEMMA InitBuilt == Init => BuiltInv /\ FreshInv /\ ListenInv
BY DEF Init, BuiltInv, FreshInv, ListenInv, Standing, Joined, Null

(* Everybody else leaves alone what the host builds.                        *)
LEMMA OthersLeave ==
  ASSUME \/ \E c \in Callers : CallerStep(c)
         \/ \E l \in Listeners : ListenerStep(l)
         \/ \E n \in Loads : TaskStep(n)
  PROVE  UNCHANGED <<isinit, pool, mutex, loads, host, i, respq, mainq>>
<1>1. ASSUME NEW c \in Callers, CallerStep(c) PROVE UNCHANGED <<isinit, pool, mutex, loads, host, i, respq, mainq>>
  BY <1>1 DEF CallerStep, BeginQuery, GetNothing, GetResp, GetCrash, Choose, ChooseNothing, ChooseCrash, Send,
         SendCrash, Wait, Return, Release, unchangedByCaller, hostVars, respVars, mainVars
<1>2. ASSUME NEW l \in Listeners, ListenerStep(l) PROVE UNCHANGED <<isinit, pool, mutex, loads, host, i, respq, mainq>>
  BY <1>2 DEF ListenerStep, Pop, Work, unchangedByListener, hostVars
<1>3. ASSUME NEW n \in Loads, TaskStep(n) PROVE UNCHANGED <<isinit, pool, mutex, loads, host, i, respq, mainq>>
  BY <1>3 DEF TaskStep, Visit, FindIdle, FindBusy, SendKeepAlive, TaskCrash, unchangedByTask, hostVars, respVars
<1>4. QED
  BY <1>1, <1>2, <1>3

LEMMA BuiltStep ==
  ASSUME TypeInv, BuiltInv, HostStep
  PROVE  BuiltInv'
<1>0. /\ HostOK /\ respq \in [RespQueues -> Nat] /\ mainq \in [Listeners -> Nat]
      /\ loads \in Nat /\ i \in Nat
  BY Sizes DEF TypeInv, TypeOK, HostTypeOK, QueueTypeOK
<1>1. CASE MakeMutex
  BY <1>0, <1>1 DEF MakeMutex, BuiltInv, HostOK, Standing, RespQueues
<1>2. CASE MakeResp
  <2>1. i \in RespQueues /\ respq' = [respq EXCEPT ![i] = loads] /\ mutex' = loads /\ UNCHANGED loads
    BY <1>0, <1>2 DEF MakeResp, BuiltInv, HostOK
  <2>2. (host' = "resp" /\ i' = i + 1) \/ (host' = "main" /\ i' = 0 /\ ~(i + 1 < NResp))
    BY <1>2 DEF MakeResp
  <2>3. \A r \in RespQueues : host' = "main" \/ r < i' => r <= i
    BY <1>0, <2>1, <2>2, Sizes DEF RespQueues
  <2>4. \A r \in RespQueues : r < i => respq[r] = loads
    BY <1>2 DEF MakeResp, BuiltInv
  <2>5. QED
    BY <1>0, <2>1, <2>2, <2>3, <2>4, Sizes DEF BuiltInv, Standing
<1>3. CASE MakeMain
  BY <1>0, <1>3, Sizes DEF MakeMain, BuiltInv, HostOK, Standing
<1>4. CASE StartListener
  <2>1. i \in Listeners /\ UNCHANGED <<mutex, respq, mainq, loads>>
    BY <1>0, <1>4 DEF StartListener, HostOK, mainVars
  <2>2. (host' = "main" /\ i' = i + 1) \/ (host' = "up" /\ i' = 0 /\ ~(i + 1 < NMain))
    BY <1>4 DEF StartListener
  <2>3. \A l \in Listeners : host' = "up" \/ l < i' => l <= i
    BY <1>0, <2>1, <2>2, Sizes DEF Listeners
  <2>4. QED
    BY <1>0, <1>4, <2>1, <2>2, <2>3, Sizes DEF StartListener, BuiltInv, Standing
<1>5. CASE BeginUninit \/ PushNull \/ Join
  BY <1>5 DEF BeginUninit, PushNull, Join, BuiltInv, Standing, mainVars
<1>6. CASE BeginInit \/ MakePool \/ InitFails \/ InitFailed \/ ClearMain \/ ClearResp \/ DestroyMutex \/ DestroyPool
  <2>1. host' \notin {"resp", "main", "thread"} \union Standing
    BY <1>6 DEF BeginInit, MakePool, InitFails, InitFailed, ClearMain, ClearResp, DestroyMutex, DestroyPool, Standing
  <2>2. QED
    BY <2>1 DEF BuiltInv
<1>7. QED
  BY <1>1, <1>2, <1>3, <1>4, <1>5, <1>6 DEF HostStep

LEMMA FreshStep ==
  ASSUME TypeInv, FreshInv, Running
  PROVE  FreshInv'
<1>0. /\ HostOK /\ mainq \in [Listeners -> Nat] /\ loads \in Nat /\ i \in Nat /\ born \in [Callers -> Nat]
  BY Sizes DEF TypeInv, TypeOK, HostTypeOK, QueueTypeOK, CallerTypeOK
<1>1. CASE HostStep
  <2>0. UNCHANGED born
    BY <1>1, HostLeaves
  <2>1. CASE BeginInit
    BY <1>0, <2>0, <2>1 DEF BeginInit, FreshInv, mainVars
  <2>2. CASE MakeMain
    <3>1. /\ host = "main" /\ host' = "thread" /\ UNCHANGED <<loads, i>> /\ loads # 0
          /\ mainq' = [mainq EXCEPT ![i] = loads]
      BY <1>0, <2>2 DEF MakeMain, HostOK
    <3>2. \A l \in Listeners : mainq'[l] = mainq[l] \/ (l = i /\ mainq'[l] = loads)
      BY <1>0, <3>1
    <3>3. QED
      BY <1>0, <2>0, <3>1, <3>2, Sizes DEF FreshInv
  <2>3. CASE ClearMain
    BY <1>0, <2>0, <2>3 DEF ClearMain, FreshInv, HostOK, Null
  <2>4. CASE MakeResp \/ StartListener
    <3>1. UNCHANGED <<mainq, loads>> /\ host \in {"resp", "thread"}
      BY <2>4 DEF MakeResp, StartListener, mainVars
    <3>2. \/ host = "resp"
          \/ host = "thread" /\ host' = "main" /\ i' = i + 1
          \/ host' = "up"
      BY <2>4 DEF MakeResp, StartListener
    <3>3. \A l \in Listeners : mainq[l] = loads /\ loads # 0 => host = "thread" /\ l <= i
      BY <3>1 DEF FreshInv
    <3>4. QED
      BY <1>0, <2>0, <3>1, <3>2, <3>3, Sizes DEF FreshInv
  <2>5. CASE MakePool \/ MakeMutex \/ InitFails \/ InitFailed \/ BeginUninit \/ PushNull \/ Join \/ ClearResp
              \/ DestroyMutex \/ DestroyPool
    BY <1>0, <2>0, <2>5 DEF MakePool, MakeMutex, InitFails, InitFailed, BeginUninit, PushNull, Join, ClearResp,
         DestroyMutex, DestroyPool, FreshInv, HostOK, mainVars
  <2>6. QED
    BY <1>1, <2>1, <2>2, <2>3, <2>4, <2>5 DEF HostStep
<1>2. ASSUME NEW c \in Callers, CallerStep(c) PROVE FreshInv'
  <2>1. \A d \in Callers : born'[d] \in {born[d], loads, 0}
    BY <1>0, <1>2 DEF CallerStep, BeginQuery, GetNothing, GetResp, GetCrash, Choose, ChooseNothing, ChooseCrash, Send,
         SendCrash, Wait, Return, Release
  <2>2. QED
    BY <1>0, <1>2, <2>1, OthersLeave DEF FreshInv
<1>3. ASSUME NEW l \in Listeners, ListenerStep(l) PROVE FreshInv'
  BY <1>3, OthersLeave DEF FreshInv, ListenerStep, Pop, Work, unchangedByListener, callerVars
<1>4. ASSUME NEW n \in Loads, TaskStep(n) PROVE FreshInv'
  BY <1>4, OthersLeave DEF FreshInv, TaskStep, Visit, FindIdle, FindBusy, SendKeepAlive, TaskCrash, unchangedByTask,
       callerVars
<1>5. QED
  BY <1>1, <1>2, <1>3, <1>4 DEF Running

LEMMA ListenStep ==
  ASSUME TypeInv, ListenInv, crash = NoCrash, Running
  PROVE  crash'.by = "listener" \/ ListenInv'
<1> DEFINE Goal == crash'.by = "listener" \/ ListenInv'
<1>0. /\ HostOK /\ loads \in Nat /\ i \in Nat
      /\ lpc \in [Listeners -> {"none", "pop", "work", "stopped"}]
  BY Sizes DEF TypeInv, TypeOK, HostTypeOK, ThreadTypeOK
<1>1. CASE HostStep
  <2>1. CASE StartListener
    <3>1. i \in Listeners /\ lpc' = [lpc EXCEPT ![i] = "pop"] /\ host = "thread"
      BY <1>0, <2>1 DEF StartListener, HostOK
    <3>2. (host' = "main" /\ i' = i + 1) \/ host' = "up"
      BY <2>1 DEF StartListener
    <3>3. QED
      BY <1>0, <3>1, <3>2, Sizes DEF ListenInv, Joined
  <2>2. CASE Join
    <3>1. i \in Listeners /\ lpc[i] = "stopped" /\ UNCHANGED lpc /\ host = "join"
      BY <1>0, <2>2 DEF Join, HostOK
    <3>2. (host' = "join" /\ i' = i + 1) \/ (host' = "clear" /\ ~(i + 1 < NMain))
      BY <2>2 DEF Join
    <3>3. \A l \in Listeners : host' = "clear" \/ l < i' => l <= i
      BY <1>0, <3>1, <3>2, Sizes DEF Listeners
    <3>4. \A l \in Listeners : l <= i => lpc[l] = "stopped"
      BY <1>0, <3>1, Sizes DEF ListenInv
    <3>5. QED
      BY <1>0, <3>1, <3>2, <3>3, <3>4, Sizes DEF ListenInv, Joined
  <2>3. CASE InitFails \/ DestroyPool
    <3>1. UNCHANGED lpc /\ host' \in {"failed", "unloaded"} /\ FreePool
      BY <2>3 DEF InitFails, DestroyPool
    <3>2. CASE Listening # {}
      BY <3>1, <3>2 DEF FreePool, Crash
    <3>3. CASE Listening = {}
      BY <3>1, <3>3 DEF Listening, ListenInv, Joined
    <3>4. QED
      BY <3>2, <3>3
  <2>4. CASE BeginUninit \/ PushNull
    BY <1>0, <2>4, Sizes DEF BeginUninit, PushNull, ListenInv, Joined, HostOK, Listeners
  <2>5. CASE MakeMain \/ ClearMain \/ ClearResp \/ DestroyMutex
    BY <1>0, <2>5 DEF MakeMain, ClearMain, ClearResp, DestroyMutex, ListenInv, Joined
  <2>6. CASE BeginInit \/ MakePool \/ MakeMutex \/ MakeResp \/ InitFailed
    BY <1>0, <2>6 DEF BeginInit, MakePool, MakeMutex, MakeResp, InitFailed, ListenInv, Joined
  <2>7. QED
    BY <1>1, <2>1, <2>2, <2>3, <2>4, <2>5, <2>6 DEF HostStep
<1>2. ASSUME NEW c \in Callers, CallerStep(c) PROVE Goal
  <2>1. UNCHANGED lpc
    BY <1>2 DEF CallerStep, BeginQuery, GetNothing, GetResp, GetCrash, Choose, ChooseNothing, ChooseCrash, Send,
         SendCrash, Wait, Return, Release, unchangedByCaller, listenerVars
  <2>2. QED
    BY <1>2, <2>1, OthersLeave DEF ListenInv
<1>3. ASSUME NEW l \in Listeners, ListenerStep(l) PROVE Goal
  <2>1. /\ lpc[l] \in {"pop", "work"} /\ UNCHANGED <<host, i>>
        /\ \A k \in Listeners \ {l} : lpc'[k] = lpc[k]
    BY <1>0, <1>3, OthersLeave DEF ListenerStep, Pop, Work, Listen
  <2>2. QED
    BY <1>0, <2>1 DEF ListenInv, Joined
<1>4. ASSUME NEW n \in Loads, TaskStep(n) PROVE Goal
  <2>1. UNCHANGED lpc
    BY <1>4 DEF TaskStep, Visit, FindIdle, FindBusy, SendKeepAlive, TaskCrash, unchangedByTask, listenerVars
  <2>2. QED
    BY <1>4, <2>1, OthersLeave DEF ListenInv
<1>5. QED
  BY <1>1, <1>2, <1>3, <1>4 DEF Running

(* Between a finished init and the joins of an unload everything exists; a  *)
(* pool that is destroyed after the joins has no listeners.                 *)
LEMMA DeadUseStep ==
  ASSUME TypeInv, BuiltInv, ListenInv, crash = NoCrash, Running
  PROVE  DeadUseExplained'
<1>0. HostOK /\ loads \in Nat
  BY Sizes DEF TypeInv, TypeOK, HostTypeOK
<1>S. host \in Standing => Exists(mutex) /\ (\A l \in Listeners : Exists(mainq[l]))
                             /\ (\A r \in RespQueues : Exists(respq[r]))
  BY <1>0 DEF BuiltInv, HostOK, Standing, Exists, Null
<1>1. CASE HostStep
  <2>1. CASE InitFails
    BY <2>1 DEF InitFails, FreePool, Crash, NoCrash, DeadUseExplained, Standing
  <2>2. CASE DestroyPool
    <3>1. Listening = {} /\ host' = "unloaded" /\ FreePool
      BY <2>2 DEF DestroyPool, Listening, ListenInv, Joined
    <3>2. crash'.by # "listener"
      BY <3>1 DEF FreePool, Crash, NoCrash
    <3>3. QED
      BY <3>1, <3>2 DEF DeadUseExplained, Standing
  <2>3. CASE ~InitFails /\ ~DestroyPool
    <3>1. crash' = NoCrash
      BY <1>1, <2>3 DEF HostStep, BeginInit, MakePool, MakeMutex, MakeResp, MakeMain, StartListener, InitFailed,
           BeginUninit, PushNull, Join, ClearMain, ClearResp, DestroyMutex
    <3>2. QED
      BY <3>1 DEF DeadUseExplained, NoCrash
  <2>4. QED
    BY <2>1, <2>2, <2>3
<1>2. ASSUME NEW c \in Callers, CallerStep(c) PROVE DeadUseExplained'
  <2>1. CASE GetCrash(c) \/ ChooseCrash(c) \/ SendCrash(c) \/ Wait(c)
    <3>1. pc[c] = "push" => to[c] \in Listeners
      BY DEF TypeInv, TypeOK, CallerTypeOK
    <3>2. pc[c] = "recv" => slot[c] \in RespQueues
      BY DEF TypeInv, CallerOK
    <3>3. crash' = NoCrash \/ (crash'.by = "query" /\ host \notin Standing)
      BY <1>S, <2>1, <3>1, <3>2 DEF GetCrash, ChooseCrash, SendCrash, Wait, Crash
    <3>4. QED
      BY <1>2, <3>3, OthersLeave DEF DeadUseExplained, NoCrash
  <2>2. CASE ~(GetCrash(c) \/ ChooseCrash(c) \/ SendCrash(c) \/ Wait(c))
    <3>1. crash' = NoCrash
      BY <1>2, <2>2 DEF CallerStep, BeginQuery, GetNothing, GetResp, Choose, ChooseNothing, Send, Return, Release
    <3>2. QED
      BY <3>1 DEF DeadUseExplained, NoCrash
  <2>3. QED
    BY <2>1, <2>2
<1>3. ASSUME NEW l \in Listeners, ListenerStep(l) PROVE DeadUseExplained'
  <2>1. crash' = NoCrash
    BY <1>3 DEF ListenerStep, Pop, Work, unchangedByListener
  <2>2. QED
    BY <2>1 DEF DeadUseExplained, NoCrash
<1>4. ASSUME NEW n \in Loads, TaskStep(n) PROVE DeadUseExplained'
  <2>1. target[n] \in Listeners
    BY DEF TypeInv, TypeOK, ThreadTypeOK
  <2>2. crash' = NoCrash \/ (crash'.by = "task" /\ host \notin Standing)
    BY <1>4, <1>S, <2>1 DEF TaskStep, Visit, FindIdle, FindBusy, SendKeepAlive, TaskCrash, Crash
  <2>3. QED
    BY <1>4, <2>2, OthersLeave DEF DeadUseExplained, NoCrash
<1>5. QED
  BY <1>1, <1>2, <1>3, <1>4 DEF Running

LifeInv == TypeInv /\ BuiltInv /\ FreshInv /\ (crash.by = "listener" \/ ListenInv) /\ DeadUseExplained

LEMMA InitLife == Init => LifeInv
<1> SUFFICES ASSUME Init PROVE LifeInv
  OBVIOUS
<1>1. DeadUseExplained
  BY DEF Init, NoCrash, DeadUseExplained
<1>2. QED
  BY <1>1, InitType, InitBuilt DEF LifeInv

LEMMA StepLife ==
  ASSUME LifeInv, [Next]_vars
  PROVE  LifeInv'
<1>1. CASE crash = NoCrash /\ Running
  <2>1. TypeInv' /\ FreshInv' /\ DeadUseExplained' /\ ListenInv
    BY <1>1, TypeStep, FreshStep, DeadUseStep DEF LifeInv, NoCrash
  <2>2. crash'.by = "listener" \/ ListenInv'
    BY <1>1, <2>1, ListenStep DEF LifeInv
  <2>3. BuiltInv'
    <3>1. CASE HostStep
      BY <3>1, BuiltStep DEF LifeInv
    <3>2. CASE ~HostStep
      BY <1>1, <3>2, OthersLeave DEF Running, LifeInv, BuiltInv
    <3>3. QED
      BY <3>1, <3>2
  <2>4. QED
    BY <2>1, <2>2, <2>3 DEF LifeInv
<1>2. CASE UNCHANGED vars
  <2>1. TypeInv'
    BY <1>2, StutterType DEF LifeInv
  <2>2. UNCHANGED <<crash, host, i, loads, mutex, respq, mainq, lpc, born>>
    BY <1>2 DEF vars, hostVars, respVars, mainVars, listenerVars, callerVars
  <2>3. QED
    BY <2>1, <2>2 DEF LifeInv, BuiltInv, FreshInv, ListenInv, DeadUseExplained
<1>3. QED
  BY <1>1, <1>2 DEF Next, Ended, Idle

(* While a load is up and until an unload has joined its listeners, nothing *)
(* begun in it meets freed memory, and no listener ever does unless an init *)
(* failed after starting it (queue.c 250, 366, 405-435).                    *)
THEOREM DeadUseIsExplained == Spec => []DeadUseExplained
<1>1. LifeInv => DeadUseExplained
  BY DEF LifeInv
<1>2. QED
  BY <1>1, InitLife, StepLife, PTL DEF Spec
-----------------------------------------------------------------------------
(* Where the request of a waiting caller is: with a listener, or in a queue *)
(* of this load before any NULL.                                            *)
InHand(c) == \E l \in Listeners : lpc[l] = "work" /\ job[l] = Request(c)

Before(l, k) == \A j \in 1 .. k - 1 : items[l][j] # Stop
Queued(c, l) ==
    /\ mainq[l] = loads /\ lpc[l] # "stopped"
    /\ \E k \in 1 .. Len(items[l]) : items[l][k] = Request(c) /\ Before(l, k)

Asking(c) == pc[c] \in {"recv", "wait"} /\ born[c] = loads /\ c \notin behind
Served(c) == c \in answers \/ InHand(c) \/ \E l \in Listeners : Queued(c, l)
RequestInv == \A c \in Callers : Asking(c) => Served(c)

LEMMA InitRequests == Init => RequestInv
BY DEF Init, RequestInv, Asking

(* A queue that grows at its end keeps what it had, NULLs in place.         *)
LEMMA QueuedStays ==
  ASSUME QueueTypeOK, NEW c \in Callers, NEW l \in Listeners, Queued(c, l), NEW x \in Item,
         items' \in {items, [items EXCEPT ![l] = Append(items[l], x)]},
         UNCHANGED <<mainq, loads, lpc>>, Request(c)' = Request(c)
  PROVE  Queued(c, l)'
<1>1. items[l] \in Seq(Item) /\ items \in [Listeners -> Seq(Item)]
  BY DEF QueueTypeOK
<1>2. PICK k \in 1 .. Len(items[l]) : items[l][k] = Request(c) /\ \A j \in 1 .. k - 1 : items[l][j] # Stop
  BY DEF Queued, Before
<1>3. /\ Len(items'[l]) >= Len(items[l]) /\ Len(items'[l]) \in Nat
      /\ \A j \in 1 .. Len(items[l]) : items'[l][j] = items[l][j]
  BY <1>1
<1>4. /\ k \in 1 .. Len(items'[l]) /\ items'[l][k] = Request(c)'
      /\ \A j \in 1 .. k - 1 : items'[l][j] # Stop
  BY <1>1, <1>2, <1>3
<1>5. QED
  BY <1>4 DEF Queued, Before

(* What is appended behind no NULL, to a queue whose listener has not       *)
(* stopped, is before any.                                                  *)
LEMMA QueuedAtEnd ==
  ASSUME QueueTypeOK, NEW c \in Callers, NEW l \in Listeners, Request(c) \in Item, ~Ending(l), mainq[l] = loads,
         items' = [items EXCEPT ![l] = Append(items[l], Request(c))],
         UNCHANGED <<mainq, loads, lpc>>, Request(c)' = Request(c)
  PROVE  Queued(c, l)'
<1>1. items[l] \in Seq(Item) /\ items \in [Listeners -> Seq(Item)]
  BY DEF QueueTypeOK
<1> DEFINE n == Len(items[l]) + 1
<1>2. /\ n \in 1 .. Len(items'[l]) /\ items'[l][n] = Request(c)
      /\ \A j \in 1 .. n - 1 : items'[l][j] = items[l][j] /\ items[l][j] # Stop
  BY <1>1 DEF Ending
<1>3. lpc'[l] # "stopped"
  BY DEF Ending
<1>4. QED
  BY <1>2, <1>3 DEF Queued, Before

(* A listener takes a request in hand, or it is one place nearer to it.     *)
LEMMA QueuedPops ==
  ASSUME QueueTypeOK, NEW c \in Callers, NEW l \in Listeners, Queued(c, l), Pop(l), Request(c)' = Request(c),
         lpc \in [Listeners -> {"none", "pop", "work", "stopped"}], job \in [Listeners -> Item]
  PROVE  InHand(c)' \/ Queued(c, l)'
<1>1. items[l] \in Seq(Item) /\ items \in [Listeners -> Seq(Item)] /\ items[l] # <<>>
      /\ items' = [items EXCEPT ![l] = Tail(items[l])]
  BY DEF QueueTypeOK, Pop
<1>2. PICK k \in 1 .. Len(items[l]) : items[l][k] = Request(c) /\ \A j \in 1 .. k - 1 : items[l][j] # Stop
  BY DEF Queued, Before
<1>3. Head(items[l]) = items[l][1] /\ Head(items[l]) # Stop
  BY <1>1, <1>2, Items
<1>4. lpc'[l] = "work" /\ job'[l] = Head(items[l]) /\ UNCHANGED <<mainq, loads>>
  BY <1>3 DEF Pop, Listen, unchangedByListener, hostVars
<1>5. CASE k = 1
  BY <1>2, <1>3, <1>4, <1>5 DEF InHand
<1>6. CASE k # 1
  <2>1. /\ k - 1 \in 1 .. Len(items'[l]) /\ items'[l][k - 1] = Request(c)'
        /\ \A j \in 1 .. (k - 1) - 1 : items'[l][j] # Stop
    BY <1>1, <1>2, <1>6
  <2>2. QED
    BY <1>4, <2>1 DEF Queued, Before
<1>7. QED
  BY <1>5, <1>6

(* Requests, answers and what a caller waits for belong to the callers.     *)
LEMMA HostRequests ==
  ASSUME TypeInv, FreshInv, ListenInv, RequestInv, HostStep
  PROVE  RequestInv'
<1>0. /\ HostOK /\ QueueTypeOK /\ loads \in Nat /\ i \in Nat /\ born \in [Callers -> Nat]
      /\ mainq \in [Listeners -> Nat] /\ items \in [Listeners -> Seq(Item)]
      /\ lpc \in [Listeners -> {"none", "pop", "work", "stopped"}]
  BY Sizes DEF TypeInv, TypeOK, HostTypeOK, QueueTypeOK, CallerTypeOK, ThreadTypeOK
<1>1. UNCHANGED <<answers, job, pc, made, slot, born, behind>>
  BY HostLeaves
<1>2. \A c \in Callers : Request(c)' = Request(c)
  BY <1>1 DEF Request
<1>3. CASE BeginInit
  <2>1. \A c \in Callers : born'[c] # loads'
    BY <1>0, <1>1, <1>3 DEF BeginInit, FreshInv
  <2>2. QED
    BY <2>1 DEF RequestInv, Asking
<1>4. ASSUME UNCHANGED loads, NEW c \in Callers, Asking(c)' PROVE Served(c)'
  <2>1. Asking(c) /\ Served(c)
    BY <1>1, <1>4 DEF Asking, RequestInv
  <2>2. CASE c \in answers
    BY <1>1, <2>2 DEF Served
  <2>3. CASE InHand(c)
    <3>1. PICK l \in Listeners : lpc[l] = "work" /\ job[l] = Request(c)
      BY <2>3 DEF InHand
    <3>2. lpc'[l] = lpc[l]
      <4>1. CASE StartListener
        BY <1>0, <3>1, <4>1 DEF StartListener, ListenInv
      <4>2. CASE ~StartListener
        BY <4>2 DEF HostStep, BeginInit, MakePool, MakeMutex, MakeResp, MakeMain, InitFails, InitFailed,
             BeginUninit, PushNull, Join, ClearMain, ClearResp, DestroyMutex, DestroyPool
      <4>3. QED
        BY <4>1, <4>2
    <3>3. QED
      BY <1>1, <1>2, <3>1, <3>2 DEF InHand, Served
  <2>4. ASSUME NEW l \in Listeners, Queued(c, l) PROVE Served(c)'
    <3>1. CASE StartListener
      <4>1. UNCHANGED <<items, mainq>> /\ lpc' = [lpc EXCEPT ![i] = "pop"]
        BY <3>1 DEF StartListener, mainVars
      <4>2. QED
        BY <1>0, <1>2, <1>4, <2>4, <4>1 DEF Queued, Before, Served
    <3>2. CASE MakeMain
      <4>1. l # i
        BY <1>0, <2>4, <3>2 DEF MakeMain, FreshInv, Queued, HostOK
      <4>2. UNCHANGED lpc /\ mainq'[l] = mainq[l] /\ items'[l] = items[l]
        BY <1>0, <3>2, <4>1 DEF MakeMain
      <4>3. QED
        BY <1>2, <1>4, <2>4, <4>2 DEF Queued, Before, Served
    <3>3. CASE ClearMain
      BY <2>4, <3>3 DEF ClearMain, ListenInv, Joined, Queued
    <3>4. CASE PushNull
      <4>1. i \in Listeners /\ UNCHANGED <<mainq, lpc>> /\ items' = [items EXCEPT ![i] = Append(items[i], Stop)]
        BY <1>0, <3>4 DEF PushNull, HostOK
      <4>2. CASE l = i
        BY <1>0, <1>2, <1>4, <2>4, <4>1, <4>2, QueuedStays, Items DEF Served
      <4>3. CASE l # i
        <5>1. items'[l] = items[l]
          BY <1>0, <4>1, <4>3
        <5>2. QED
          BY <1>2, <1>4, <2>4, <4>1, <5>1 DEF Queued, Before, Served
      <4>4. QED
        BY <4>2, <4>3
    <3>5. CASE UNCHANGED <<items, mainq, lpc>>
      BY <1>2, <1>4, <2>4, <3>5 DEF Queued, Before, Served
    <3>6. QED
      BY <1>4, <3>1, <3>2, <3>3, <3>4, <3>5 DEF HostStep, BeginInit, MakePool, MakeMutex, MakeResp, InitFails,
         InitFailed, BeginUninit, Join, ClearResp, DestroyMutex, DestroyPool, mainVars
  <2>5. QED
    BY <2>1, <2>2, <2>3, <2>4 DEF Served
<1>5. QED
  BY <1>3, <1>4 DEF RequestInv, HostStep, MakePool, MakeMutex, MakeResp, MakeMain, StartListener, InitFails, InitFailed,
     BeginUninit, PushNull, Join, ClearMain, ClearResp, DestroyMutex, DestroyPool

LEMMA CallerRequests ==
  ASSUME TypeInv, RequestInv, NEW c \in Callers, CallerStep(c)
  PROVE  RequestInv'
<1>0. /\ HostOK /\ QueueTypeOK /\ CallerTypeOK /\ CallerOK
      /\ mainq \in [Listeners -> Nat] /\ items \in [Listeners -> Seq(Item)]
      /\ pc \in [Callers -> {"idle", "get", "choose", "push", "recv", "wait", "release"}]
      /\ made \in [Callers -> 0 .. MaxQueries] /\ born \in [Callers -> Nat]
      /\ slot \in [Callers -> RespQueues \union {NoSlot}] /\ to \in [Callers -> Listeners]
  BY DEF TypeInv, TypeOK, QueueTypeOK, CallerTypeOK
<1>1. UNCHANGED <<loads, mainq, lpc, job>>
  BY OthersLeave DEF CallerStep, BeginQuery, GetNothing, GetResp, GetCrash, Choose, ChooseNothing, ChooseCrash, Send,
     SendCrash, Wait, Return, Release, unchangedByCaller, listenerVars
<1>2. ASSUME NEW d \in Callers, d # c
      PROVE  /\ pc'[d] = pc[d] /\ made'[d] = made[d] /\ slot'[d] = slot[d] /\ born'[d] = born[d]
             /\ (d \in behind' <=> d \in behind) /\ (d \in answers' <=> d \in answers)
  BY <1>0, <1>2 DEF CallerStep, BeginQuery, GetNothing, GetResp, GetCrash, Choose, ChooseNothing, ChooseCrash, Send,
     SendCrash, Wait, Return, Release, unchangedByCaller, Goto, respVars
<1>3. CASE Send(c)
  <2>1. /\ to[c] \in Listeners /\ mainq[to[c]] = loads /\ Request(c) \in Item
        /\ items' = [items EXCEPT ![to[c]] = Append(items[to[c]], Request(c))]
        /\ UNCHANGED <<made, slot>>
    BY <1>0, <1>3, Items DEF Send, Exists, HostOK, Null, CallerOK, unchangedByCaller
  <2>2. Request(c)' = Request(c)
    BY <2>1 DEF Request
  <2>3. ASSUME Asking(c)' PROVE Served(c)'
    <3>1. PICK l \in Listeners : l = to[c] /\ ~Ending(l)
      BY <1>3, <2>1, <2>3 DEF Send, Asking
    <3>2. Queued(c, l)'
      BY <1>0, <1>1, <2>1, <2>2, <3>1, QueuedAtEnd
    <3>3. QED
      BY <3>2 DEF Served
  <2>4. ASSUME NEW d \in Callers, d # c, Asking(d)' PROVE Served(d)'
    <3>1. Asking(d) /\ Served(d) /\ Request(d)' = Request(d)
      BY <1>1, <1>2, <2>4 DEF Asking, RequestInv, Request
    <3>2. ASSUME NEW l \in Listeners, Queued(d, l) PROVE Queued(d, l)'
      <4>1. CASE l = to[c]
        BY <1>0, <1>1, <2>1, <3>1, <3>2, <4>1, QueuedStays
      <4>2. CASE l # to[c]
        <5>1. items'[l] = items[l]
          BY <1>0, <2>1, <4>2
        <5>2. QED
          BY <1>1, <3>1, <3>2, <5>1 DEF Queued, Before
      <4>3. QED
        BY <4>1, <4>2
    <3>3. QED
      BY <1>1, <1>2, <2>4, <3>1, <3>2 DEF Served, InHand
  <2>5. QED
    BY <2>3, <2>4 DEF RequestInv
<1>4. CASE ~Send(c)
  <2>1. UNCHANGED items
    BY <1>4 DEF CallerStep, BeginQuery, GetNothing, GetResp, GetCrash, Choose, ChooseNothing, ChooseCrash, SendCrash,
         Wait, Return, Release, mainVars
  <2>2. Asking(c)' => /\ Asking(c) /\ UNCHANGED <<made, slot>> /\ (c \in answers => c \in answers')
    BY <1>0, <1>1, <1>4 DEF Asking, CallerStep, BeginQuery, GetNothing, GetResp, GetCrash, Choose, ChooseNothing,
       ChooseCrash, SendCrash, Wait, Return, Release, unchangedByCaller, Goto, respVars
  <2>3. ASSUME NEW d \in Callers, Asking(d)' PROVE Served(d)'
    <3>1. Asking(d) /\ Served(d) /\ Request(d)' = Request(d) /\ (d \in answers => d \in answers')
      BY <1>1, <1>2, <2>2, <2>3 DEF Asking, RequestInv, Request
    <3>2. QED
      BY <1>1, <2>1, <3>1 DEF Served, InHand, Queued, Before
  <2>4. QED
    BY <2>3 DEF RequestInv
<1>5. QED
  BY <1>3, <1>4

LEMMA ListenerRequests ==
  ASSUME TypeInv, RequestInv, NEW l \in Listeners, ListenerStep(l)
  PROVE  RequestInv'
<1>0. /\ QueueTypeOK /\ items \in [Listeners -> Seq(Item)] /\ job \in [Listeners -> Item]
      /\ lpc \in [Listeners -> {"none", "pop", "work", "stopped"}]
  BY DEF TypeInv, TypeOK, QueueTypeOK, ThreadTypeOK
<1>1. UNCHANGED <<loads, mainq, pc, made, slot, born, behind>>
  BY DEF ListenerStep, Pop, Work, unchangedByListener, hostVars, callerVars
<1>2. /\ answers \subseteq answers'
      /\ \A k \in Listeners \ {l} : lpc'[k] = lpc[k] /\ job'[k] = job[k] /\ items'[k] = items[k]
  BY <1>0 DEF ListenerStep, Pop, Work, Listen
<1>3. ASSUME NEW c \in Callers, Asking(c)' PROVE Served(c)'
  <2>1. Asking(c) /\ Served(c) /\ Request(c)' = Request(c)
    BY <1>1, <1>3 DEF Asking, RequestInv, Request
  <2>2. CASE c \in answers
    BY <1>2, <2>2 DEF Served
  <2>3. ASSUME NEW k \in Listeners, lpc[k] = "work", job[k] = Request(c) PROVE Served(c)'
    <3>1. CASE k = l
      <4>1. Work(l)
        BY <2>3, <3>1 DEF ListenerStep, Pop
      <4>2. c \in answers'
        BY <2>1, <2>3, <3>1, <4>1 DEF Work, Asked, Asking
      <4>3. QED
        BY <4>2 DEF Served
    <3>2. CASE k # l
      BY <1>2, <2>1, <2>3, <3>2 DEF Served, InHand
    <3>3. QED
      BY <3>1, <3>2
  <2>4. ASSUME NEW k \in Listeners, Queued(c, k) PROVE Served(c)'
    <3>1. CASE k # l
      BY <1>1, <1>2, <2>1, <2>4, <3>1 DEF Served, Queued, Before
    <3>2. CASE k = l /\ Pop(l)
      BY <1>0, <2>1, <2>4, <3>2, QueuedPops DEF Served
    <3>3. CASE k = l /\ Work(l)
      <4>1. UNCHANGED items /\ lpc'[l] = "pop"
        BY <1>0, <3>3 DEF Work, Listen
      <4>2. QED
        BY <1>1, <2>1, <2>4, <3>3, <4>1 DEF Served, Queued, Before
    <3>4. QED
      BY <3>1, <3>2, <3>3 DEF ListenerStep
  <2>5. QED
    BY <2>1, <2>2, <2>3, <2>4 DEF Served, InHand
<1>4. QED
  BY <1>3 DEF RequestInv

LEMMA TaskRequests ==
  ASSUME TypeInv, RequestInv, NEW n \in Loads, TaskStep(n)
  PROVE  RequestInv'
<1>0. /\ QueueTypeOK /\ items \in [Listeners -> Seq(Item)] /\ target[n] \in Listeners
  BY DEF TypeInv, TypeOK, QueueTypeOK, ThreadTypeOK
<1>1. UNCHANGED <<loads, mainq, lpc, job, pc, made, slot, born, behind, answers>>
  BY DEF TaskStep, Visit, FindIdle, FindBusy, SendKeepAlive, TaskCrash, unchangedByTask, hostVars, respVars,
         listenerVars, callerVars
<1>2. items' \in {items, [items EXCEPT ![target[n]] = Append(items[target[n]], KeepAlive)]}
  BY DEF TaskStep, Visit, FindIdle, FindBusy, SendKeepAlive, TaskCrash
<1>3. ASSUME NEW c \in Callers, Asking(c)' PROVE Served(c)'
  <2>1. Asking(c) /\ Served(c) /\ Request(c)' = Request(c)
    BY <1>1, <1>3 DEF Asking, RequestInv, Request
  <2>2. ASSUME NEW l \in Listeners, Queued(c, l) PROVE Queued(c, l)'
    <3>1. CASE l = target[n]
      BY <1>0, <1>1, <1>2, <2>1, <2>2, <3>1, QueuedStays, Items
    <3>2. CASE l # target[n]
      <4>1. items'[l] = items[l]
        BY <1>0, <1>2, <3>2
      <4>2. QED
        BY <1>1, <2>1, <2>2, <4>1 DEF Queued, Before
    <3>3. QED
      BY <3>1, <3>2
  <2>3. QED
    BY <1>1, <2>1, <2>2 DEF Served, InHand
<1>4. QED
  BY <1>3 DEF RequestInv

LEMMA StepRequests ==
  ASSUME LifeInv, RequestInv, [Next]_vars
  PROVE  RequestInv'
<1>1. CASE crash = NoCrash /\ Running
  BY <1>1, HostRequests, CallerRequests, ListenerRequests, TaskRequests DEF LifeInv, Running, NoCrash
<1>2. CASE UNCHANGED vars
  <2>1. UNCHANGED <<loads, mainq, items, lpc, job, pc, made, slot, born, behind, answers>>
    BY <1>2 DEF vars, hostVars, respVars, mainVars, listenerVars, callerVars
  <2>2. \A c \in Callers : Request(c)' = Request(c) /\ (Asking(c)' <=> Asking(c))
    BY <2>1 DEF Request, Asking
  <2>3. \A c \in Callers : Served(c) => Served(c)'
    BY <2>1, <2>2 DEF Served, InHand, Queued, Before
  <2>4. QED
    BY <2>2, <2>3 DEF RequestInv
<1>3. QED
  BY <1>1, <1>2 DEF Next, Ended, Idle

LEMMA JoinedAreServed == LifeInv /\ RequestInv => Drained
<1> SUFFICES ASSUME LifeInv, RequestInv, host \in Joined, NEW c \in Callers,
                    pc[c] = "wait", born[c] = loads, c \notin behind
             PROVE  c \in answers
  BY DEF Drained
<1>1. crash.by # "listener"
  BY DEF LifeInv, DeadUseExplained, Joined
<1>2. \A l \in Listeners : lpc[l] = "stopped"
  BY <1>1 DEF LifeInv, ListenInv
<1>3. QED
  BY <1>2 DEF RequestInv, Asking, Served, InHand, Queued

(* Every query that was queued before the NULL of its queue has its answer  *)
(* when an unload has joined the listeners (queue.c 394-402).               *)
THEOREM UnloadAnswers == Spec => []Drained
<1>1. LifeInv /\ RequestInv /\ [Next]_vars => LifeInv' /\ RequestInv'
  BY StepLife, StepRequests
<1>2. QED
  BY <1>1, InitLife, InitRequests, JoinedAreServed, PTL DEF Spec
=============================================================================
