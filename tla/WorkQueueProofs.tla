--------------------------- MODULE WorkQueueProofs ---------------------------
(* Theorems about WorkQueue, for every value of its constants that satisfies *)
(* the assumptions it states.                                                *)
EXTENDS WorkQueue, FiniteSetTheorems, TLAPS

-----------------------------------------------------------------------------
(* Facts about queues *)

Elems(s) == {s[k] : k \in 1 .. Len(s)}
NoDup(s) == \A j, k \in 1 .. Len(s) : s[j] = s[k] /\ s[j] # NULL => j = k

LEMMA AppendElems ==
  ASSUME NEW T, NEW s \in Seq(T), NEW x \in T
  PROVE  /\ Elems(Append(s, x)) = Elems(s) \union {x}
         /\ NoDup(s) /\ (x \notin Elems(s) \/ x = NULL) => NoDup(Append(s, x))
<1> DEFINE t == Append(s, x)
<1>1. /\ Len(t) = Len(s) + 1 /\ Len(s) \in Nat /\ t[Len(s) + 1] = x
      /\ \A k \in 1 .. Len(s) : t[k] = s[k]
  OBVIOUS
<1>2. Elems(t) = Elems(s) \union {x}
  BY <1>1 DEF Elems
<1>3. ASSUME NoDup(s), x \notin Elems(s) \/ x = NULL PROVE NoDup(t)
  BY <1>1, <1>3 DEF Elems, NoDup
<1>4. QED
  BY <1>2, <1>3

LEMMA TailElems ==
  ASSUME NEW T, NEW s \in Seq(T), s # <<>>
  PROVE  /\ Elems(Tail(s)) \subseteq Elems(s) /\ Head(s) \in Elems(s)
         /\ Elems(s) \subseteq Elems(Tail(s)) \union {Head(s)}
         /\ NoDup(s) => NoDup(Tail(s)) /\ (Head(s) # NULL => Head(s) \notin Elems(Tail(s)))
<1> DEFINE t == Tail(s)
<1>1. /\ Len(s) \in Nat \ {0} /\ Len(t) = Len(s) - 1 /\ Head(s) = s[1]
      /\ \A k \in 1 .. Len(t) : t[k] = s[k + 1]
  OBVIOUS
<1>2. Elems(t) \subseteq Elems(s) /\ Head(s) \in Elems(s)
  BY <1>1 DEF Elems
<1>3. ASSUME NoDup(s) PROVE NoDup(t)
  BY <1>1, <1>3 DEF NoDup
<1>4. ASSUME NoDup(s), Head(s) # NULL PROVE Head(s) \notin Elems(t)
  BY <1>1, <1>4 DEF NoDup, Elems
<1>5. ASSUME NEW k \in 1 .. Len(s) PROVE s[k] \in Elems(t) \union {Head(s)}
  <2>1. CASE k = 1
    BY <1>1, <2>1
  <2>2. CASE k # 1
    <3>1. k - 1 \in 1 .. Len(t) /\ t[k - 1] = s[k]
      BY <1>1, <2>2
    <3>2. QED
      BY <3>1 DEF Elems
  <2>3. QED
    BY <2>1, <2>2
<1>6. Elems(s) \subseteq Elems(t) \union {Head(s)}
  BY <1>5 DEF Elems
<1>7. QED
  BY <1>2, <1>3, <1>4, <1>6

-----------------------------------------------------------------------------
(* Type correctness *)

(* A worker that goes on has room in its batch, and has a deduction in hand *)
(* just while it executes one ...                                           *)
CountInv == \A w \in Workers : pc[w] \in {"pop", "start", "update"} => insertcount[w] < Batch
HandInv == \A w \in Workers : cur[w] # NULL <=> pc[w] \in {"start", "update"}

(* ... and a writer in a call has the deduction of that call.               *)
WriterInv ==
    \A p \in Writers : wpc[p] # "idle" =>
        data[p] \in Deduction /\ data[p].by = p /\ data[p].n = written[p]

TypeInv == TypeOK /\ CountInv /\ HandInv /\ WriterInv

LEMMA NewDeduction ==
  ASSUME NEW p \in Writers, NEW u \in Users, written \in [Writers -> 0 .. MaxWrites],
         written[p] < MaxWrites
  PROVE  [by |-> p, n |-> written[p] + 1, user |-> u] \in Deduction
BY QueuesAssumption DEF Deduction

LEMMA ChargeType ==
  ASSUME DbTypeOK, NEW S, Charge(S)
  PROVE  charged' \in [Deduction -> Nat]
BY DEF DbTypeOK, Charge

(* A worker that executes a deduction has one.                              *)
LEMMA InHandType ==
  ASSUME TypeInv, NEW w \in Workers, pc[w] \in {"start", "update"}
  PROVE  cur[w] \in Deduction
BY DEF TypeInv, TypeOK, WorkerTypeOK, HandInv, Known

LEMMA InitTypeInv == Init => TypeInv
<1> SUFFICES ASSUME Init PROVE TypeInv
  OBVIOUS
<1> USE QueuesAssumption DEF Init
<1>1. WriterTypeOK /\ WriterInv
  BY DEF WriterTypeOK, WriterInv, Workers, Known
<1>2. WorkerTypeOK /\ CountInv /\ HandInv
  BY DEF WorkerTypeOK, CountInv, HandInv, Known
<1>3. DbTypeOK
  BY DEF DbTypeOK
<1>4. QED
  BY <1>1, <1>2, <1>3 DEF TypeInv, TypeOK

LEMMA StepWriterType ==
  ASSUME TypeInv, [Next]_vars
  PROVE  WriterTypeOK' /\ WriterInv'
<1> USE DEF TypeInv, TypeOK
<1>1. ASSUME NEW p \in Writers, ReadIndex(p) PROVE WriterTypeOK' /\ WriterInv'
  <2>1. PICK u \in Users : data' = [data EXCEPT ![p] = [by |-> p, n |-> written[p] + 1, user |-> u]]
    BY <1>1 DEF ReadIndex
  <2> DEFINE d == [by |-> p, n |-> written[p] + 1, user |-> u]
  <2>2. d \in Deduction /\ d.by = p /\ d.n = written[p] + 1
    BY <1>1, NewDeduction DEF ReadIndex, WriterTypeOK
  <2>3. NextSlot(index) \in Workers /\ written[p] + 1 \in 0 .. MaxWrites
    BY <1>1, QueuesAssumption DEF ReadIndex, WriterTypeOK, NextSlot, Workers
  <2> HIDE DEF d
  <2>4. WriterTypeOK'
    BY <1>1, <2>1, <2>2, <2>3 DEF ReadIndex, WriterTypeOK, Known, d
  <2>5. WriterInv'
    BY <1>1, <2>1, <2>2, <2>3 DEF ReadIndex, WriterTypeOK, WriterInv, d
  <2>6. QED
    BY <2>4, <2>5
<1>2. ASSUME NEW p \in Writers, WriteIndex(p) PROVE WriterTypeOK' /\ WriterInv'
  BY <1>2 DEF WriteIndex, WriterTypeOK, WriterInv
<1>3. ASSUME NEW p \in Writers, Push(p) PROVE WriterTypeOK' /\ WriterInv'
  <2>1. data[p] \in Deduction
    BY <1>3 DEF Push, WriterInv
  <2>2. WriterTypeOK'
    BY <1>3, <2>1 DEF Push, WriterTypeOK, Known
  <2>3. WriterInv'
    BY <1>3 DEF Push, WriterTypeOK, WriterInv
  <2>4. QED
    BY <2>2, <2>3
<1>4. CASE UNCHANGED writerVars
  BY <1>4 DEF writerVars, WriterTypeOK, WriterInv
<1>5. QED
  BY <1>1, <1>2, <1>3, <1>4
     DEF Next, vars, WriterStep, WorkerStep, Answered, PopDeduction, PopNull, PopTimeout,
         StartTransaction, Update, UpdateRefused, UpdateUnanswered, UpdateDeadlocked, Updated,
         Commit, BeginUninit, PushNull, Destroy, Unloaded

WorkerInv == WorkerTypeOK /\ CountInv /\ HandInv

LEMMA UpdatedType ==
  ASSUME TypeInv, NEW w \in Workers, pc[w] = "update", Updated(w)
  PROVE  WorkerInv'
<1> USE DEF WorkerInv, TypeInv, TypeOK
<1>1. /\ insertcount[w] + 1 \in 0 .. Batch
      /\ ~BatchFull(insertcount[w] + 1) => insertcount[w] + 1 < Batch
  BY QueuesAssumption DEF WorkerTypeOK, CountInv, BatchFull
<1>2. /\ pc' = [pc EXCEPT ![w] = IF BatchFull(insertcount[w] + 1) THEN "commit" ELSE "pop"]
      /\ insertcount' = [insertcount EXCEPT ![w] = insertcount[w] + 1]
      /\ cur' = [cur EXCEPT ![w] = NULL] /\ UNCHANGED <<queue, stop>>
  BY DEF Updated, Goto
<1>3. CASE BatchFull(insertcount[w] + 1)
  BY <1>1, <1>2, <1>3 DEF WorkerTypeOK, CountInv, HandInv, Known
<1>4. CASE ~BatchFull(insertcount[w] + 1)
  BY <1>1, <1>2, <1>4 DEF WorkerTypeOK, CountInv, HandInv, Known
<1>5. QED
  BY <1>3, <1>4

LEMMA StepWorkerType ==
  ASSUME TypeInv, [Next]_vars
  PROVE  WorkerInv'
<1> USE DEF WorkerInv, TypeInv, TypeOK
<1>1. ASSUME NEW p \in Writers, Push(p) PROVE WorkerInv'
  <2>1. data[p] \in Known /\ slot[p] \in Workers
    BY <1>1 DEF WriterTypeOK
  <2>2. queue' \in [Workers -> Seq(Known)]
    BY <1>1, <2>1 DEF Push, WorkerTypeOK
  <2>3. QED
    BY <1>1, <2>2 DEF Push, WorkerTypeOK, CountInv, HandInv, workerVars
<1>2. ASSUME NEW w \in Workers, PopDeduction(w) PROVE WorkerInv'
  <2>1. Head(queue[w]) \in Known \ {NULL} /\ Tail(queue[w]) \in Seq(Known)
    BY <1>2 DEF PopDeduction, WorkerTypeOK
  <2>2. CASE insertcount[w] = 0
    BY <1>2, <2>1, <2>2 DEF PopDeduction, Goto, WorkerTypeOK, CountInv, HandInv
  <2>3. CASE insertcount[w] # 0
    BY <1>2, <2>1, <2>3 DEF PopDeduction, Goto, WorkerTypeOK, CountInv, HandInv
  <2>4. QED
    BY <2>2, <2>3
<1>3. ASSUME NEW w \in Workers, PopNull(w) PROVE WorkerInv'
  <2>1. Tail(queue[w]) \in Seq(Known)
    BY <1>3 DEF PopNull, WorkerTypeOK
  <2>2. CASE insertcount[w] > 0
    BY <1>3, <2>1, <2>2 DEF PopNull, Goto, WorkerTypeOK, CountInv, HandInv
  <2>3. CASE ~(insertcount[w] > 0)
    BY <1>3, <2>1, <2>3 DEF PopNull, Goto, WorkerTypeOK, CountInv, HandInv
  <2>4. QED
    BY <2>2, <2>3
<1>4. ASSUME NEW w \in Workers, PopTimeout(w) PROVE WorkerInv'
  BY <1>4 DEF PopTimeout, Goto, WorkerTypeOK, CountInv, HandInv
<1>5. ASSUME NEW w \in Workers, StartTransaction(w) PROVE WorkerInv'
  <2>1. pc[w] = "start" /\ pc' = [pc EXCEPT ![w] = "update"] /\ UNCHANGED <<queue, cur, insertcount, stop>>
    BY <1>5 DEF StartTransaction, Goto
  <2>2. QED
    BY <2>1 DEF WorkerTypeOK, CountInv, HandInv
<1>6. ASSUME NEW w \in Workers,
             Update(w) \/ UpdateRefused(w) \/ UpdateUnanswered(w) \/ UpdateDeadlocked(w)
      PROVE  WorkerInv'
  BY <1>6, UpdatedType DEF Update, UpdateRefused, UpdateUnanswered, UpdateDeadlocked
<1>7. ASSUME NEW w \in Workers, Commit(w) PROVE WorkerInv'
  <2>1. /\ pc[w] \in {"commit", "lastcommit"}
        /\ insertcount' = [insertcount EXCEPT ![w] = 0]
        /\ UNCHANGED <<queue, cur, stop>>
    BY <1>7 DEF Commit, Committing
  <2>2. CASE pc[w] = "commit"
    <3>1. pc' = [pc EXCEPT ![w] = "pop"]
      BY <1>7, <2>2 DEF Commit, Goto
    <3>2. QED
      BY <2>1, <3>1, QueuesAssumption DEF WorkerTypeOK, CountInv, HandInv
  <2>3. CASE pc[w] # "commit"
    <3>1. pc' = [pc EXCEPT ![w] = "stopped"]
      BY <1>7, <2>3 DEF Commit, Goto
    <3>2. QED
      BY <2>1, <3>1, QueuesAssumption DEF WorkerTypeOK, CountInv, HandInv
  <2>4. QED
    BY <2>2, <2>3
<1>8. CASE PushNull
  BY <1>8, QueuesAssumption DEF PushNull, Workers, WorkerTypeOK, CountInv, HandInv, workerVars, Known
<1>9. CASE BeginUninit \/ Destroy
  BY <1>9, QueuesAssumption DEF BeginUninit, Destroy, WorkerTypeOK, CountInv, HandInv, workerVars
<1>10. CASE UNCHANGED <<queue, workerVars, stop>>
  BY <1>10 DEF workerVars, WorkerTypeOK, CountInv, HandInv
<1>11. QED
  BY <1>1, <1>2, <1>3, <1>4, <1>5, <1>6, <1>7, <1>8, <1>9, <1>10
     DEF Next, vars, WriterStep, ReadIndex, WriteIndex, WorkerStep, Answered, Unloaded

LEMMA StepDbType ==
  ASSUME TypeInv, [Next]_vars
  PROVE  DbTypeOK'
<1> USE DEF TypeInv, TypeOK
<1>1. ASSUME NEW w \in Workers, StartTransaction(w) PROVE DbTypeOK'
  <2>1. open' \in [Workers -> BOOLEAN]
    BY <1>1 DEF StartTransaction, DbTypeOK
  <2>2. errors' \in Nat
    BY <1>1 DEF StartTransaction, MayFail, Fails, DbTypeOK
  <2>3. QED
    BY <1>1, <2>1, <2>2 DEF StartTransaction, DbTypeOK
<1>2. ASSUME NEW w \in Workers, Update(w) PROVE DbTypeOK'
  <2>1. CASE open[w]
    <3>1. cur[w] \in Deduction
      BY <1>2, InHandType DEF Update
    <3>2. /\ done' = [done EXCEPT ![w] = done[w] \union {cur[w]}]
          /\ UNCHANGED <<open, charged, errors>>
      BY <1>2, <2>1 DEF Update
    <3>3. QED
      BY <3>1, <3>2 DEF DbTypeOK
  <2>2. CASE ~open[w]
    <3>1. Charge({cur[w]}) /\ UNCHANGED <<open, done, errors>>
      BY <1>2, <2>2 DEF Update
    <3>2. QED
      BY <3>1, ChargeType DEF DbTypeOK
  <2>3. QED
    BY <2>1, <2>2
<1>3. ASSUME NEW w \in Workers, UpdateRefused(w) PROVE DbTypeOK'
  BY <1>3 DEF UpdateRefused, MayFail, Fails, DbTypeOK
<1>4. ASSUME NEW w \in Workers, Rollback(w), errors' \in Nat,
             UNCHANGED charged \/ \E S : Charge(S)
      PROVE  DbTypeOK'
  <2>1. charged' \in [Deduction -> Nat]
    BY <1>4, ChargeType DEF DbTypeOK
  <2>2. QED
    BY <1>4, <2>1 DEF Rollback, DbTypeOK
<1>5. ASSUME NEW w \in Workers, UpdateUnanswered(w) PROVE DbTypeOK'
  <2>1. Rollback(w) /\ errors' \in Nat
    BY <1>5 DEF UpdateUnanswered, MayFail, Fails, DbTypeOK
  <2>2. UNCHANGED charged \/ Charge({cur[w]})
    BY <1>5 DEF UpdateUnanswered
  <2>3. QED
    BY <1>4, <2>1, <2>2
<1>6. ASSUME NEW w \in Workers, UpdateDeadlocked(w) PROVE DbTypeOK'
  BY <1>6 DEF UpdateDeadlocked, Rollback, Fails, DbTypeOK
<1>7. ASSUME NEW w \in Workers, Commit(w) PROVE DbTypeOK'
  <2>1. Rollback(w) /\ errors' \in Nat
    BY <1>7 DEF Commit, MayFail, Fails, DbTypeOK
  <2>2. UNCHANGED charged \/ Charge(done[w])
    BY <1>7 DEF Commit
  <2>3. QED
    BY <1>4, <2>1, <2>2
<1>8. CASE UNCHANGED dbVars
  BY <1>8 DEF dbVars, DbTypeOK
<1>9. QED
  BY <1>1, <1>2, <1>3, <1>5, <1>6, <1>7, <1>8
     DEF Next, vars, WriterStep, ReadIndex, WriteIndex, Push, WorkerStep, Answered, PopDeduction,
         PopNull, PopTimeout, BeginUninit, PushNull, Destroy, Unloaded

LEMMA StepTypeInv == TypeInv /\ [Next]_vars => TypeInv'
BY StepWriterType, StepWorkerType, StepDbType DEF TypeInv, TypeOK, WorkerInv

(* Every variable of the deduction workers keeps its type; in particular a  *)
(* worker never counts more than Batch updates without a COMMIT.            *)
THEOREM TypeCorrect == Spec => []TypeOK
<1>1. TypeInv => TypeOK
  BY DEF TypeInv
<1>2. QED
  BY <1>1, InitTypeInv, StepTypeInv, PTL DEF Spec

-----------------------------------------------------------------------------
(* A deduction is in one place: on its way with one worker, or charged      *)

Holds(w) == (Elems(queue[w]) \union {cur[w]} \union done[w]) \ {NULL}

(* What a worker has, it has once.                                          *)
Once(w) ==
    /\ NoDup(queue[w])
    /\ cur[w] \in Elems(queue[w]) => cur[w] = NULL
    /\ Elems(queue[w]) \intersect done[w] = {}
    /\ cur[w] \notin done[w]
OnceInv == \A w \in Workers : Once(w)

(* No two workers have the same, and nobody has what is charged.            *)
ApartInv ==
    /\ \A v, w \in Workers : v # w => Holds(v) \intersect Holds(w) = {}
    /\ \A w \in Workers : Holds(w) \subseteq accepted
    /\ \A d \in Deduction : charged[d] <= 1
    /\ \A d \in Deduction : charged[d] = 1 => d \in accepted /\ \A w \in Workers : d \notin Holds(w)

(* What a writer is about to queue is new.                                  *)
FreshInv ==
    \A d \in accepted :
        d.n <= written[d.by] /\ (wpc[d.by] # "idle" => d.n < written[d.by])

PlaceInv == TypeInv /\ OnceInv /\ ApartInv /\ FreshInv

LEMMA InitPlaceInv == Init => PlaceInv
<1> SUFFICES ASSUME Init PROVE PlaceInv
  OBVIOUS
<1>1. TypeInv
  BY InitTypeInv
<1>2. \A w \in Workers : Holds(w) = {} /\ Elems(queue[w]) = {} /\ NoDup(queue[w]) /\ done[w] = {}
  BY DEF Init, Holds, Elems, NoDup
<1>3. OnceInv
  BY <1>2 DEF OnceInv, Once
<1>4. ApartInv
  BY <1>2 DEF ApartInv, Init
<1>5. FreshInv
  BY DEF FreshInv, Init
<1>6. QED
  BY <1>1, <1>3, <1>4, <1>5 DEF PlaceInv

LEMMA StepFreshInv ==
  ASSUME PlaceInv, [Next]_vars
  PROVE  FreshInv'
<1> USE DEF PlaceInv, TypeInv, TypeOK
<1>0. \A d \in accepted : d.by \in Writers /\ d.n \in Nat
  BY DEF WriterTypeOK, Deduction
<1>1. ASSUME NEW p \in Writers, ReadIndex(p) PROVE FreshInv'
  <2>1. /\ written[p] \in Nat /\ written' = [written EXCEPT ![p] = written[p] + 1] /\ wpc[p] = "idle"
        /\ wpc' = [wpc EXCEPT ![p] = "index"] /\ accepted' = accepted
    BY <1>1 DEF ReadIndex, WriterTypeOK
  <2>2. QED
    BY <1>0, <2>1 DEF FreshInv, WriterTypeOK
<1>2. ASSUME NEW p \in Writers, WriteIndex(p) PROVE FreshInv'
  BY <1>0, <1>2 DEF WriteIndex, FreshInv, WriterTypeOK
<1>3. ASSUME NEW p \in Writers, Push(p) PROVE FreshInv'
  <2>1. /\ wpc[p] = "push" /\ wpc' = [wpc EXCEPT ![p] = "idle"] /\ written' = written
        /\ accepted' = accepted \union {data[p]}
    BY <1>3 DEF Push
  <2>2. data[p].by = p /\ data[p].n = written[p] /\ written[p] \in Nat
    BY <2>1 DEF WriterInv, WriterTypeOK
  <2>3. QED
    BY <1>0, <2>1, <2>2 DEF FreshInv, WriterTypeOK
<1>4. CASE UNCHANGED writerVars
  BY <1>4 DEF writerVars, FreshInv
<1>5. QED
  BY <1>1, <1>2, <1>3, <1>4
     DEF Next, vars, WriterStep, WorkerStep, Answered, PopDeduction, PopNull, PopTimeout,
         StartTransaction, Update, UpdateRefused, UpdateUnanswered, UpdateDeadlocked, Updated,
         Commit, BeginUninit, PushNull, Destroy, Unloaded

(* The steps of a worker, as far as places go: it charges S, which it had   *)
(* and has no longer, and gets nothing new.                                 *)
LEMMA WorkerApart ==
  ASSUME PlaceInv, NEW w \in Workers, NEW S \in SUBSET Holds(w),
         accepted' = accepted,
         \A v \in Workers \ {w} : Holds(v)' = Holds(v),
         Holds(w)' \subseteq Holds(w) \ S,
         \A d \in Deduction : charged'[d] = IF d \in S THEN charged[d] + 1 ELSE charged[d]
  PROVE  ApartInv'
<1> USE DEF PlaceInv
<1>1. \A v \in Workers : Holds(v)' \subseteq Holds(v)
  OBVIOUS
<1>2. \A d \in S : d \in accepted /\ charged[d] = 0
  <2>1. \A d \in S : d \in accepted /\ d \in Deduction
    BY DEF ApartInv, TypeInv, TypeOK, WriterTypeOK
  <2>2. \A d \in S : charged[d] \in Nat /\ charged[d] <= 1 /\ charged[d] # 1
    BY <2>1 DEF ApartInv, TypeInv, TypeOK, DbTypeOK
  <2>3. QED
    BY <2>1, <2>2
<1>3. \A u, v \in Workers : u # v => Holds(u)' \intersect Holds(v)' = {}
  BY <1>1 DEF ApartInv
<1>4. \A v \in Workers : Holds(v)' \subseteq accepted'
  BY <1>1 DEF ApartInv
<1>5. \A d \in Deduction : charged'[d] <= 1
  BY <1>2 DEF ApartInv
<1>6. \A d \in Deduction : charged'[d] = 1 => d \in accepted' /\ \A v \in Workers : d \notin Holds(v)'
  <2> SUFFICES ASSUME NEW d \in Deduction, charged'[d] = 1
               PROVE  d \in accepted /\ \A v \in Workers : d \notin Holds(v)'
    OBVIOUS
  <2>1. CASE d \in S
    <3>1. \A v \in Workers \ {w} : d \notin Holds(v)
      BY <2>1 DEF ApartInv
    <3>2. QED
      BY <1>1, <1>2, <2>1, <3>1
  <2>2. CASE d \notin S
    BY <1>1, <2>2 DEF ApartInv
  <2>3. QED
    BY <2>1, <2>2
<1>7. QED
  BY <1>3, <1>4, <1>5, <1>6 DEF ApartInv

LEMMA NullNotDone == ASSUME TypeInv, NEW w \in Workers PROVE NULL \notin done[w]
BY NullAssumption DEF TypeInv, TypeOK, DbTypeOK

(* Only w, and nobody's calls, moves.                                       *)
Others(w) ==
    /\ accepted' = accepted
    /\ \A v \in Workers \ {w} : queue'[v] = queue[v] /\ cur'[v] = cur[v] /\ done'[v] = done[v]

LEMMA OthersStay ==
  ASSUME OnceInv, NEW w \in Workers, Others(w)
  PROVE  \A v \in Workers \ {w} : Holds(v)' = Holds(v) /\ Once(v)'
BY DEF Others, Holds, Once, OnceInv, Elems, NoDup

(* The three ways to charge: nothing, S, or nothing because of an error.    *)
ChargedIn(S) ==
    \A d \in Deduction : charged'[d] = IF d \in S THEN charged[d] + 1 ELSE charged[d]

LEMMA WorkerPlaces ==
  ASSUME PlaceInv, NEW w \in Workers, NEW S \in SUBSET Holds(w), Others(w), ChargedIn(S),
         Holds(w)' \subseteq Holds(w) \ S, Once(w)'
  PROVE  OnceInv' /\ ApartInv'
<1>1. \A v \in Workers \ {w} : Holds(v)' = Holds(v) /\ Once(v)'
  BY OthersStay DEF PlaceInv
<1>2. OnceInv'
  BY <1>1 DEF OnceInv
<1>3. ApartInv'
  BY <1>1, WorkerApart DEF Others, ChargedIn
<1>4. QED
  BY <1>2, <1>3

LEMMA PopPlaces ==
  ASSUME PlaceInv, NEW w \in Workers, PopDeduction(w) \/ PopNull(w)
  PROVE  OnceInv' /\ ApartInv'
<1> DEFINE h == Head(queue[w])
<1> DEFINE t == Tail(queue[w])
<1>1. /\ Others(w) /\ ChargedIn({}) /\ queue'[w] = t /\ done'[w] = done[w]
      /\ cur'[w] = h \/ cur'[w] = cur[w]
      /\ cur[w] = NULL
  BY DEF PlaceInv, TypeInv, TypeOK, WorkerTypeOK, HandInv, PopDeduction, PopNull, writerVars, dbVars,
         Others, ChargedIn
<1>2. /\ Elems(t) \subseteq Elems(queue[w]) /\ h \in Elems(queue[w])
      /\ NoDup(t) /\ (h # NULL => h \notin Elems(t))
  <2>1. queue[w] \in Seq(Known) /\ queue[w] # <<>> /\ NoDup(queue[w])
    BY DEF PlaceInv, TypeInv, TypeOK, WorkerTypeOK, OnceInv, Once, PopDeduction, PopNull
  <2>2. QED
    BY <2>1, TailElems
<1> HIDE DEF h, t
<1>3. /\ Elems(queue[w]) \intersect done[w] = {} /\ cur[w] \notin done[w]
  BY DEF PlaceInv, OnceInv, Once
<1>4. Holds(w)' \subseteq Holds(w) \ {}
  BY <1>1, <1>2 DEF Holds, Elems
<1>5. Once(w)'
  <2>1. NoDup(queue[w])' /\ Elems(queue[w])' = Elems(t)
    BY <1>1, <1>2 DEF NoDup, Elems
  <2>2. QED
    BY <1>1, <1>2, <1>3, <2>1 DEF Once
<1>6. QED
  BY <1>1, <1>4, <1>5, WorkerPlaces

(* The end of a statement: cur becomes NULL, what was done stays, grows by  *)
(* cur or is gone.                                                          *)
LEMMA UpdatePlaces ==
  ASSUME PlaceInv, NEW w \in Workers,
         Update(w) \/ UpdateRefused(w) \/ UpdateUnanswered(w) \/ UpdateDeadlocked(w)
  PROVE  OnceInv' /\ ApartInv'
<1>1. /\ queue' = queue /\ accepted' = accepted /\ cur' = [cur EXCEPT ![w] = NULL]
      /\ pc[w] = "update"
  BY DEF Update, UpdateRefused, UpdateUnanswered, UpdateDeadlocked, Updated, writerVars
<1>2. cur[w] \in Deduction /\ cur[w] # NULL
  BY <1>1, InHandType, NullAssumption DEF PlaceInv
<1>3. \/ done' = [done EXCEPT ![w] = done[w] \union {cur[w]}] /\ ChargedIn({})
      \/ (done' = done \/ done' = [done EXCEPT ![w] = {}]) /\ ChargedIn({})
      \/ (done' = done \/ done' = [done EXCEPT ![w] = {}]) /\ ChargedIn({cur[w]})
  <2>1. CASE Update(w)
    <3>1. CASE open[w]
      BY <2>1, <3>1 DEF Update, ChargedIn
    <3>2. CASE ~open[w]
      BY <2>1, <3>2 DEF Update, Charge, ChargedIn
    <3>3. QED
      BY <3>1, <3>2
  <2>2. CASE UpdateRefused(w)
    BY <2>2 DEF UpdateRefused, ChargedIn
  <2>3. CASE UpdateUnanswered(w)
    BY <2>3 DEF UpdateUnanswered, Rollback, Charge, ChargedIn
  <2>4. CASE UpdateDeadlocked(w)
    BY <2>4 DEF UpdateDeadlocked, Rollback, ChargedIn
  <2>5. QED
    BY <2>1, <2>2, <2>3, <2>4
<1>4. PICK S : /\ S \subseteq {cur[w]} /\ ChargedIn(S)
               /\ \/ S = {} /\ done' = [done EXCEPT ![w] = done[w] \union {cur[w]}]
                  \/ done' = done \/ done' = [done EXCEPT ![w] = {}]
  BY <1>3
<1>5. Once(w) /\ done \in [Workers -> SUBSET Deduction] /\ cur \in [Workers -> Known]
  BY DEF PlaceInv, OnceInv, TypeInv, TypeOK, DbTypeOK, WorkerTypeOK
<1>6. NoDup(queue[w])' /\ Elems(queue[w])' = Elems(queue[w]) /\ cur'[w] = NULL
  BY <1>1, <1>5 DEF Once, NoDup, Elems
<1>7. done'[w] \subseteq done[w] \union ({cur[w]} \ S)
  BY <1>4, <1>5
<1>8. Others(w)
  BY <1>1, <1>4, <1>5 DEF Others
<1>9. Holds(w)' \subseteq Holds(w) \ S
  BY <1>2, <1>4, <1>5, <1>6, <1>7 DEF Holds, Once
<1>10. NULL \notin done[w]
  BY NullNotDone DEF PlaceInv
<1>11. Once(w)'
  BY <1>2, <1>5, <1>6, <1>7, <1>10 DEF Once
<1>12. S \subseteq Holds(w)
  BY <1>2, <1>4 DEF Holds
<1>13. QED
  BY <1>4, <1>8, <1>9, <1>11, <1>12, WorkerPlaces

LEMMA CommitPlaces ==
  ASSUME PlaceInv, NEW w \in Workers, Commit(w)
  PROVE  OnceInv' /\ ApartInv'
<1>1. /\ queue' = queue /\ accepted' = accepted /\ cur' = cur /\ done' = [done EXCEPT ![w] = {}]
  BY DEF Commit, Rollback, writerVars
<1>2. PICK S : (S = {} \/ S = done[w]) /\ ChargedIn(S)
  <2>1. Charge(done[w]) \/ UNCHANGED charged
    BY DEF Commit
  <2>2. CASE Charge(done[w])
    BY <2>2 DEF Charge, ChargedIn
  <2>3. CASE UNCHANGED charged
    <3>1. ChargedIn({})
      BY <2>3 DEF ChargedIn
    <3>2. QED
      BY <3>1
  <2>4. QED
    BY <2>1, <2>2, <2>3
<1>3. Once(w) /\ done \in [Workers -> SUBSET Deduction]
  BY DEF PlaceInv, OnceInv, TypeInv, TypeOK, DbTypeOK
<1>4. NULL \notin done[w]
  BY NullNotDone DEF PlaceInv
<1>5. NoDup(queue[w])' /\ Elems(queue[w])' = Elems(queue[w]) /\ cur'[w] = cur[w] /\ done'[w] = {}
  BY <1>1, <1>3 DEF Once, NoDup, Elems
<1>6. Others(w)
  BY <1>1 DEF Others
<1>7. S \subseteq Holds(w) /\ Holds(w)' \subseteq Holds(w) \ S
  BY <1>2, <1>3, <1>4, <1>5 DEF Holds, Once
<1>8. Once(w)'
  BY <1>3, <1>5 DEF Once
<1>9. QED
  BY <1>2, <1>6, <1>7, <1>8, WorkerPlaces

(* A queue grows by a new deduction or by NULL.                             *)
LEMMA PushPlaces ==
  ASSUME PlaceInv, NEW q \in Workers, NEW x \in Known, x = NULL \/ x \notin accepted,
         queue' = [queue EXCEPT ![q] = Append(queue[q], x)],
         accepted' = accepted \union ({x} \ {NULL}), UNCHANGED <<cur, done, charged>>
  PROVE  OnceInv' /\ ApartInv'
<1> USE DEF PlaceInv
<1>1. queue[q] \in Seq(Known) /\ queue'[q] = Append(queue[q], x) /\ \A w \in Workers : Once(w)
  BY DEF TypeInv, TypeOK, WorkerTypeOK, OnceInv
<1>2. \A w \in Workers \ {q} : queue'[w] = queue[w]
  BY DEF TypeInv, TypeOK, WorkerTypeOK
<1>3. x \in Elems(queue[q]) => x = NULL
  BY DEF ApartInv, Holds
<1>4. Elems(queue[q])' = Elems(queue[q]) \union {x} /\ NoDup(queue[q])'
  <2>1. Elems(Append(queue[q], x)) = Elems(queue[q]) \union {x} /\ NoDup(Append(queue[q], x))
    BY <1>1, <1>3, AppendElems DEF Once
  <2>2. QED
    BY <1>1, <2>1 DEF Elems, NoDup
<1>5. \A w \in Workers \ {q} : Elems(queue[w])' = Elems(queue[w]) /\ NoDup(queue[w])'
  BY <1>1, <1>2 DEF Elems, NoDup, Once
<1>6. Holds(q)' = Holds(q) \union ({x} \ {NULL}) /\ \A w \in Workers \ {q} : Holds(w)' = Holds(w)
  BY <1>4, <1>5 DEF Holds
<1>7. \A w \in Workers : (x # NULL => x \notin Holds(w)) /\ NULL \notin done[w]
  BY NullNotDone DEF ApartInv
<1>8. ApartInv'
  <2>1. \A v, w \in Workers : v # w => Holds(v)' \intersect Holds(w)' = {}
    BY <1>6, <1>7 DEF ApartInv
  <2>2. \A w \in Workers : Holds(w)' \subseteq accepted'
    BY <1>6 DEF ApartInv
  <2>3. \A d \in Deduction : charged[d] = 1 => \A w \in Workers : d \notin Holds(w)'
    BY <1>6 DEF ApartInv
  <2>4. QED
    BY <2>1, <2>2, <2>3 DEF ApartInv
<1>9. ASSUME NEW w \in Workers PROVE Once(w)'
  <2>1. CASE w = q
    BY <1>1, <1>4, <1>7, <2>1 DEF Once, Holds
  <2>2. CASE w # q
    BY <1>1, <1>5, <2>2 DEF Once
  <2>3. QED
    BY <2>1, <2>2
<1>10. QED
  BY <1>8, <1>9 DEF OnceInv

LEMMA StepPlaceInv == PlaceInv /\ [Next]_vars => PlaceInv'
<1> SUFFICES ASSUME PlaceInv, [Next]_vars PROVE PlaceInv'
  OBVIOUS
<1>1. TypeInv' /\ FreshInv'
  BY StepTypeInv, StepFreshInv DEF PlaceInv
<1>2. ASSUME NEW p \in Writers, Push(p) PROVE OnceInv' /\ ApartInv'
  <2>1. /\ slot[p] \in Workers /\ data[p] \in Deduction /\ data[p].by = p
        /\ data[p].n = written[p] /\ wpc[p] # "idle" /\ written[p] \in Nat
    BY <1>2 DEF Push, PlaceInv, TypeInv, TypeOK, WriterTypeOK, WriterInv
  <2>2. data[p] \notin accepted
    BY <2>1 DEF PlaceInv, FreshInv
  <2>3. /\ queue' = [queue EXCEPT ![slot[p]] = Append(queue[slot[p]], data[p])]
        /\ accepted' = accepted \union ({data[p]} \ {NULL}) /\ UNCHANGED <<cur, done, charged>>
    BY <1>2, <2>1, NullAssumption DEF Push, workerVars, dbVars
  <2>4. data[p] \in Known
    BY <2>1 DEF Known
  <2>5. QED
    BY <2>1, <2>2, <2>3, <2>4, PushPlaces
<1>3. ASSUME PushNull PROVE OnceInv' /\ ApartInv'
  <2>1. /\ stop \in Workers /\ NULL \in Known /\ queue' = [queue EXCEPT ![stop] = Append(queue[stop], NULL)]
        /\ accepted' = accepted \union ({NULL} \ {NULL}) /\ UNCHANGED <<cur, done, charged>>
    BY <1>3 DEF PushNull, Known, writerVars, workerVars, dbVars
  <2>2. QED
    BY <2>1, PushPlaces
<1>4. ASSUME UNCHANGED <<queue, cur, done, charged, accepted>> PROVE OnceInv' /\ ApartInv'
  <2>1. \A w \in Workers : Holds(w)' = Holds(w) /\ (Once(w) => Once(w)')
    BY <1>4 DEF Holds, Once, Elems, NoDup
  <2>2. QED
    BY <1>4, <2>1 DEF PlaceInv, OnceInv, ApartInv
<1>5. OnceInv' /\ ApartInv'
  BY <1>2, <1>3, <1>4, PopPlaces, UpdatePlaces, CommitPlaces
     DEF Next, vars, writerVars, workerVars, dbVars, WriterStep, ReadIndex, WriteIndex, WorkerStep,
         Answered, PopTimeout, StartTransaction, BeginUninit, Destroy, Unloaded
<1>6. QED
  BY <1>1, <1>5 DEF PlaceInv

(* No user is charged twice for one deduction, whatever statements fail and *)
(* however many writers, workers and users there are.                       *)
THEOREM ChargedAtMostOnce == Spec => []ChargedOnce
<1>1. PlaceInv => ChargedOnce
  BY DEF PlaceInv, ApartInv, ChargedOnce
<1>2. QED
  BY <1>1, InitPlaceInv, StepPlaceInv, PTL DEF Spec

-----------------------------------------------------------------------------
(* What a failure costs *)

(* A transaction holds no more than the worker counts.                      *)
SizeInv == \A w \in Workers : IsFiniteSet(done[w]) /\ Cardinality(done[w]) <= insertcount[w]

LossInv == IsFiniteSet(Lost) /\ Cardinality(Lost) <= Batch * errors

LEMMA StepSizeInv ==
  ASSUME PlaceInv, SizeInv, [Next]_vars
  PROVE  SizeInv'
<1> USE DEF PlaceInv, TypeInv, TypeOK
<1>1. ASSUME NEW w \in Workers,
             done' = done \/ done' = [done EXCEPT ![w] = done[w] \union {cur[w]}]
                \/ done' = [done EXCEPT ![w] = {}],
             insertcount' = [insertcount EXCEPT ![w] = insertcount[w] + 1]
      PROVE  SizeInv'
  <2>1. insertcount[w] \in Nat
    BY QueuesAssumption DEF WorkerTypeOK
  <2>2. /\ IsFiniteSet(done[w] \union {cur[w]})
        /\ Cardinality(done[w] \union {cur[w]}) <= insertcount[w] + 1
    <3>1. IsFiniteSet(done[w]) /\ Cardinality(done[w]) \in Nat /\ Cardinality(done[w]) <= insertcount[w]
      BY FS_CardinalityType DEF SizeInv
    <3>2. /\ IsFiniteSet(done[w] \union {cur[w]})
          /\ \/ Cardinality(done[w] \union {cur[w]}) = Cardinality(done[w])
             \/ Cardinality(done[w] \union {cur[w]}) = Cardinality(done[w]) + 1
      BY <3>1, FS_AddElement
    <3>3. QED
      BY <2>1, <3>1, <3>2
  <2>3. IsFiniteSet({}) /\ Cardinality({}) = 0
    BY FS_EmptySet
  <2>4. IsFiniteSet(done'[w]) /\ Cardinality(done'[w]) <= insertcount[w] + 1
    <3>1. CASE done' = done
      BY <2>1, <3>1, FS_CardinalityType DEF SizeInv
    <3>2. CASE done' = [done EXCEPT ![w] = done[w] \union {cur[w]}]
      BY <2>2, <3>2 DEF DbTypeOK
    <3>3. CASE done' = [done EXCEPT ![w] = {}]
      BY <2>1, <2>3, <3>3 DEF DbTypeOK
    <3>4. QED
      BY <1>1, <3>1, <3>2, <3>3
  <2>5. \A v \in Workers \ {w} : done'[v] = done[v] /\ insertcount'[v] = insertcount[v]
    BY <1>1 DEF DbTypeOK, WorkerTypeOK
  <2>6. insertcount'[w] = insertcount[w] + 1
    BY <1>1 DEF WorkerTypeOK
  <2>7. QED
    BY <2>4, <2>5, <2>6 DEF SizeInv
<1>2. ASSUME NEW w \in Workers, Update(w) PROVE SizeInv'
  <2>1. done' = done \/ done' = [done EXCEPT ![w] = done[w] \union {cur[w]}]
    BY <1>2 DEF Update
  <2>2. insertcount' = [insertcount EXCEPT ![w] = insertcount[w] + 1]
    BY <1>2 DEF Update, Updated
  <2>3. QED
    BY <1>1, <2>1, <2>2
<1>3. ASSUME NEW w \in Workers, UpdateRefused(w) \/ UpdateUnanswered(w) \/ UpdateDeadlocked(w)
      PROVE  SizeInv'
  <2>1. done' = done \/ done' = [done EXCEPT ![w] = {}]
    BY <1>3 DEF UpdateRefused, UpdateUnanswered, UpdateDeadlocked, Rollback
  <2>2. insertcount' = [insertcount EXCEPT ![w] = insertcount[w] + 1]
    BY <1>3 DEF UpdateRefused, UpdateUnanswered, UpdateDeadlocked, Updated
  <2>3. QED
    BY <1>1, <2>1, <2>2
<1>4. ASSUME NEW w \in Workers, Commit(w) PROVE SizeInv'
  <2>1. done' = [done EXCEPT ![w] = {}] /\ insertcount' = [insertcount EXCEPT ![w] = 0]
    BY <1>4 DEF Commit, Rollback
  <2>2. QED
    BY <2>1, FS_EmptySet DEF SizeInv, DbTypeOK, WorkerTypeOK
<1>5. CASE UNCHANGED <<done, insertcount>>
  BY <1>5 DEF SizeInv
<1>6. QED
  BY <1>2, <1>3, <1>4, <1>5
     DEF Next, vars, workerVars, dbVars, WriterStep, ReadIndex, WriteIndex, Push, WorkerStep, Answered,
         PopDeduction, PopNull, PopTimeout, StartTransaction, BeginUninit, PushNull, Destroy, Unloaded

LostSet == {d \in accepted : charged[d] = 0 /\ \A w \in Workers : d \notin Holds(w)}

LEMMA LostByHolds == TypeInv => Lost = LostSet
<1> SUFFICES ASSUME TypeInv PROVE Lost = LostSet
  OBVIOUS
<1>1. ASSUME NEW d \in accepted
      PROVE  Queued(d) \/ InHand(d) <=> \E w \in Workers : d \in Holds(w)
  <2>1. d # NULL
    BY NullAssumption DEF TypeInv, TypeOK, WriterTypeOK
  <2>2. QED
    BY <2>1 DEF Queued, InHand, Holds, Elems
<1>2. QED
  BY <1>1 DEF Lost, LostSet

LEMMA LostByHoldsNext == (TypeInv => Lost = LostSet)'
BY LostByHolds, PTL

LEMMA StepLost ==
  ASSUME PlaceInv, TypeInv', NEW w \in Workers, NEW T,
         \A v \in Workers \ {w} : Holds(v) \subseteq Holds(v)',
         Holds(w) \subseteq Holds(w)' \union T \union {d \in Deduction : charged'[d] # 0},
         \A d \in Deduction : charged[d] = 0 \/ charged'[d] # 0,
         \A d \in accepted' : d \in accepted \/ d \in Holds(w)'
  PROVE  Lost' \subseteq Lost \union T
<1>1. Lost' = {d \in accepted' : charged'[d] = 0 /\ \A v \in Workers : d \notin Holds(v)'}
  BY LostByHoldsNext DEF LostSet
<1>2. Lost = {d \in accepted : charged[d] = 0 /\ \A v \in Workers : d \notin Holds(v)}
  BY LostByHolds DEF PlaceInv, LostSet
<1>3. accepted \subseteq Deduction
  BY DEF PlaceInv, TypeInv, TypeOK, WriterTypeOK
<1>4. ASSUME NEW d \in Lost', d \notin T PROVE d \in Lost
  <2>1. d \in accepted' /\ charged'[d] = 0 /\ \A v \in Workers : d \notin Holds(v)'
    BY <1>1, <1>4
  <2>2. d \in accepted /\ d \in Deduction
    BY <1>3, <2>1
  <2>3. charged[d] = 0 /\ \A v \in Workers : d \notin Holds(v)
    BY <1>4, <2>1, <2>2
  <2>4. QED
    BY <1>2, <2>2, <2>3
<1>5. QED
  BY <1>4

(* No failure, no loss; a failure loses at most T.                          *)
LEMMA LossGrows ==
  ASSUME LossInv, errors \in Nat, NEW T, IsFiniteSet(T), Cardinality(T) <= Batch,
         \/ Lost' \subseteq Lost /\ errors' \in {errors, errors + 1}
         \/ Lost' \subseteq Lost \union T /\ errors' = errors + 1
  PROVE  LossInv'
<1>1. Batch * (errors + 1) = Batch * errors + Batch /\ Batch * errors \in Nat /\ Batch \in Nat
  BY QueuesAssumption
<1>2. IsFiniteSet(Lost) /\ Cardinality(Lost) \in Nat /\ Cardinality(Lost) <= Batch * errors
  BY FS_CardinalityType DEF LossInv
<1>3. CASE Lost' \subseteq Lost /\ errors' \in {errors, errors + 1}
  <2>1. IsFiniteSet(Lost') /\ Cardinality(Lost') <= Cardinality(Lost) /\ Cardinality(Lost') \in Nat
    BY <1>2, <1>3, FS_Subset, FS_CardinalityType
  <2>2. Cardinality(Lost') <= Batch * errors'
    BY <1>1, <1>2, <1>3, <2>1
  <2>3. QED
    BY <2>1, <2>2 DEF LossInv
<1>4. CASE Lost' \subseteq Lost \union T /\ errors' = errors + 1
  <2>1. Cardinality(T) \in Nat /\ Cardinality(Lost \intersect T) \in Nat
    BY <1>2, FS_CardinalityType, FS_Intersection
  <2>2. /\ IsFiniteSet(Lost \union T)
        /\ Cardinality(Lost \union T) = Cardinality(Lost) + Cardinality(T) - Cardinality(Lost \intersect T)
    BY <1>2, FS_Union
  <2>3. Cardinality(Lost \union T) <= Batch * errors + Batch
    BY <1>1, <1>2, <2>1, <2>2
  <2>4. IsFiniteSet(Lost') /\ Cardinality(Lost') <= Cardinality(Lost \union T)
    BY <1>4, <2>2, FS_Subset
  <2>5. Cardinality(Lost') \in Nat /\ Cardinality(Lost \union T) \in Nat
    BY <2>2, <2>4, FS_CardinalityType
  <2>6. Cardinality(Lost') <= Batch * errors'
    BY <1>1, <1>4, <2>3, <2>4, <2>5
  <2>7. QED
    BY <2>4, <2>6 DEF LossInv
<1>5. QED
  BY <1>3, <1>4

(* The end of a statement.                                                  *)
LEMMA UpdateLoss ==
  ASSUME PlaceInv, TypeInv', SizeInv, LossInv, NEW w \in Workers,
         Update(w) \/ UpdateRefused(w) \/ UpdateUnanswered(w) \/ UpdateDeadlocked(w)
  PROVE  LossInv'
<1> USE DEF PlaceInv, TypeInv, TypeOK
<1> DEFINE T == done[w] \union {cur[w]}
<1>1. /\ queue' = queue /\ accepted' = accepted /\ cur' = [cur EXCEPT ![w] = NULL]
      /\ pc[w] = "update"
  BY DEF Update, UpdateRefused, UpdateUnanswered, UpdateDeadlocked, Updated, writerVars
<1>2. \A v \in Workers \ {w} : done'[v] = done[v]
  BY DEF Update, UpdateRefused, UpdateUnanswered, UpdateDeadlocked, Rollback, DbTypeOK
<1>3. \A d \in Deduction : charged[d] = 0 \/ charged'[d] # 0
  <2>1. charged' = charged \/ Charge({cur[w]})
    BY DEF Update, UpdateRefused, UpdateUnanswered, UpdateDeadlocked
  <2>2. QED
    BY <2>1 DEF Charge, DbTypeOK
<1>4. \A v \in Workers \ {w} : Holds(v) \subseteq Holds(v)'
  BY <1>1, <1>2 DEF Holds, Elems
<1>5. Elems(queue[w])' = Elems(queue[w])
  BY <1>1 DEF Elems
<1>6. CASE Update(w)
  <2>1. errors' = errors
    BY <1>6 DEF Update
  <2>2. Holds(w) \subseteq Holds(w)' \union {} \union {d \in Deduction : charged'[d] # 0}
    <3>1. cur[w] \in Deduction
      BY <1>1, InHandType
    <3>2. CASE open[w]
      <4>1. done'[w] = done[w] \union {cur[w]}
        BY <1>6, <3>2 DEF Update, DbTypeOK
      <4>2. QED
        BY <1>1, <1>5, <4>1 DEF Holds
    <3>3. CASE ~open[w]
      <4>1. Charge({cur[w]}) /\ done' = done
        BY <1>6, <3>3 DEF Update
      <4>2. charged'[cur[w]] # 0
        BY <3>1, <4>1 DEF Charge, DbTypeOK
      <4>3. QED
        BY <1>1, <1>5, <3>1, <4>1, <4>2 DEF Holds
    <3>4. QED
      BY <3>2, <3>3
  <2>3. Lost' \subseteq Lost \union {}
    BY <1>1, <1>3, <1>4, <2>2, StepLost
  <2>4. Cardinality({}) <= Batch /\ IsFiniteSet({})
    BY FS_EmptySet, QueuesAssumption
  <2>5. QED
    BY <2>1, <2>3, <2>4, LossGrows DEF DbTypeOK
<1>7. CASE UpdateRefused(w) \/ UpdateUnanswered(w) \/ UpdateDeadlocked(w)
  <2>1. errors' = errors + 1
    BY <1>7 DEF UpdateRefused, UpdateUnanswered, UpdateDeadlocked, MayFail, Fails
  <2>2. Holds(w) \subseteq Holds(w)' \union T \union {d \in Deduction : charged'[d] # 0}
    BY <1>5 DEF Holds
  <2>3. Lost' \subseteq Lost \union T
    <3> HIDE DEF T
    <3>1. QED
      BY <1>1, <1>3, <1>4, <2>2, StepLost
  <2>4. IsFiniteSet(T) /\ Cardinality(T) <= Batch
    <3>1. IsFiniteSet(done[w]) /\ Cardinality(done[w]) \in Nat /\ Cardinality(done[w]) <= insertcount[w]
      BY FS_CardinalityType DEF SizeInv
    <3>2. insertcount[w] \in Nat /\ insertcount[w] < Batch
      BY <1>1, QueuesAssumption DEF CountInv, WorkerTypeOK
    <3>3. /\ IsFiniteSet(T)
          /\ Cardinality(T) = Cardinality(done[w]) \/ Cardinality(T) = Cardinality(done[w]) + 1
      BY <3>1, FS_AddElement
    <3>4. QED
      BY <3>1, <3>2, <3>3, QueuesAssumption
  <2>5. QED
    <3> HIDE DEF T
    <3>1. QED
      BY <2>1, <2>3, <2>4, LossGrows DEF DbTypeOK
<1>8. QED
  BY <1>6, <1>7

LEMMA CommitLoss ==
  ASSUME PlaceInv, TypeInv', SizeInv, LossInv, NEW w \in Workers, Commit(w)
  PROVE  LossInv'
<1> USE DEF PlaceInv, TypeInv, TypeOK
<1>1. /\ queue' = queue /\ accepted' = accepted /\ cur' = cur /\ done' = [done EXCEPT ![w] = {}]
  BY DEF Commit, Rollback, writerVars
<1>2. \A v \in Workers \ {w} : Holds(v) \subseteq Holds(v)'
  BY <1>1 DEF Holds, Elems
<1>3. \A d \in Deduction : charged[d] = 0 \/ charged'[d] # 0
  <2>1. charged' = charged \/ Charge(done[w])
    BY DEF Commit
  <2>2. QED
    BY <2>1 DEF Charge, DbTypeOK
<1>4. Holds(w) \subseteq Holds(w)' \union done[w]
  BY <1>1 DEF Holds, Elems
<1>5. CASE Charge(done[w]) /\ (errors' = errors \/ errors' = errors + 1)
  <2>1. done[w] \subseteq {d \in Deduction : charged'[d] # 0}
    BY <1>5 DEF Charge, DbTypeOK
  <2>2. Lost' \subseteq Lost \union {}
    BY <1>1, <1>2, <1>3, <1>4, <2>1, StepLost
  <2>3. Cardinality({}) <= Batch /\ IsFiniteSet({})
    BY FS_EmptySet, QueuesAssumption
  <2>4. QED
    BY <1>5, <2>2, <2>3, LossGrows DEF DbTypeOK
<1>6. CASE errors' = errors + 1
  <2>1. Lost' \subseteq Lost \union done[w]
    BY <1>1, <1>2, <1>3, <1>4, StepLost
  <2>2. IsFiniteSet(done[w]) /\ Cardinality(done[w]) \in Nat /\ Cardinality(done[w]) <= insertcount[w]
    BY FS_CardinalityType DEF SizeInv
  <2>3. insertcount[w] \in Nat /\ insertcount[w] <= Batch
    BY QueuesAssumption DEF WorkerTypeOK
  <2>4. Cardinality(done[w]) <= Batch
    BY <2>2, <2>3, QueuesAssumption
  <2>5. QED
    BY <1>6, <2>1, <2>2, <2>4, LossGrows DEF DbTypeOK
<1>7. QED
  BY <1>5, <1>6 DEF Commit, MayFail, Fails

(* Every other step keeps what the workers have.                            *)
LEMMA QuietLoss ==
  ASSUME PlaceInv, TypeInv', LossInv, NEW w \in Workers,
         \A v \in Workers : Holds(v) \subseteq Holds(v)',
         charged' = charged, errors' \in {errors, errors + 1},
         \A d \in accepted' : d \in accepted \/ d \in Holds(w)'
  PROVE  LossInv'
<1>1. Lost' \subseteq Lost \union {}
  BY StepLost
<1>2. Cardinality({}) <= Batch /\ IsFiniteSet({})
  BY FS_EmptySet, QueuesAssumption
<1>3. QED
  BY <1>1, <1>2, LossGrows DEF PlaceInv, TypeInv, TypeOK, DbTypeOK

CostInv == PlaceInv /\ SizeInv /\ LossInv

LEMMA StepCostInv == CostInv /\ [Next]_vars => CostInv'
<1> SUFFICES ASSUME CostInv, [Next]_vars PROVE CostInv'
  OBVIOUS
<1> USE DEF CostInv
<1>1. PlaceInv' /\ TypeInv' /\ SizeInv'
  BY StepPlaceInv, StepSizeInv DEF PlaceInv
<1>2. 0 \in Workers
  BY QueuesAssumption DEF Workers
<1>3. ASSUME NEW q \in Workers, NEW x \in Known, queue' = [queue EXCEPT ![q] = Append(queue[q], x)],
             accepted' = accepted \union ({x} \ {NULL}), UNCHANGED <<cur, done, charged, errors>>
      PROVE  LossInv'
  <2>1. queue[q] \in Seq(Known) /\ queue \in [Workers -> Seq(Known)]
    BY DEF PlaceInv, TypeInv, TypeOK, WorkerTypeOK
  <2>2. Elems(Append(queue[q], x)) = Elems(queue[q]) \union {x}
    BY <2>1, AppendElems
  <2>3. Elems(queue[q])' = Elems(queue[q]) \union {x}
    BY <1>3, <2>1, <2>2 DEF Elems
  <2>4. \A v \in Workers \ {q} : Elems(queue[v])' = Elems(queue[v])
    BY <1>3, <2>1 DEF Elems
  <2>5. ASSUME NEW v \in Workers PROVE Holds(v) \subseteq Holds(v)'
    <3>1. Elems(queue[v]) \subseteq Elems(queue[v])'
      BY <2>3, <2>4
    <3>2. QED
      BY <1>3, <3>1 DEF Holds
  <2>6. x # NULL => x \in Holds(q)'
    BY <2>3 DEF Holds
  <2>7. QED
    BY <1>1, <1>3, <2>5, <2>6, QuietLoss
<1>4. ASSUME NEW p \in Writers, Push(p) PROVE LossInv'
  <2>1. slot[p] \in Workers /\ data[p] \in Deduction /\ data[p] \in Known /\ data[p] # NULL
    BY <1>4, NullAssumption DEF Push, PlaceInv, TypeInv, TypeOK, WriterTypeOK, WriterInv, Known
  <2>2. /\ queue' = [queue EXCEPT ![slot[p]] = Append(queue[slot[p]], data[p])]
        /\ accepted' = accepted \union ({data[p]} \ {NULL}) /\ UNCHANGED <<cur, done, charged, errors>>
    BY <1>4, <2>1 DEF Push, workerVars, dbVars
  <2>3. QED
    BY <1>3, <2>1, <2>2
<1>5. ASSUME PushNull PROVE LossInv'
  <2>1. /\ stop \in Workers /\ NULL \in Known /\ queue' = [queue EXCEPT ![stop] = Append(queue[stop], NULL)]
        /\ accepted' = accepted \union ({NULL} \ {NULL}) /\ UNCHANGED <<cur, done, charged, errors>>
    BY <1>5 DEF PushNull, Known, writerVars, workerVars, dbVars
  <2>2. QED
    BY <1>3, <2>1
<1>6. ASSUME NEW w \in Workers, PopDeduction(w) \/ PopNull(w) PROVE LossInv'
  <2>1. queue[w] \in Seq(Known) /\ queue[w] # <<>> /\ cur[w] = NULL
    BY <1>6 DEF PlaceInv, TypeInv, TypeOK, WorkerTypeOK, HandInv, PopDeduction, PopNull
  <2>2. Elems(queue[w]) \subseteq Elems(Tail(queue[w])) \union {Head(queue[w])}
    BY <2>1, TailElems
  <2>3. /\ UNCHANGED <<done, charged, errors, accepted>>
        /\ \A v \in Workers \ {w} : queue'[v] = queue[v] /\ cur'[v] = cur[v]
        /\ queue'[w] = Tail(queue[w])
        /\ cur'[w] = Head(queue[w]) \/ Head(queue[w]) = NULL
    BY <1>6 DEF PlaceInv, TypeInv, TypeOK, WorkerTypeOK, PopDeduction, PopNull, writerVars, dbVars
  <2>4. Holds(w) \subseteq Holds(w)'
    <3>1. Elems(queue[w])' = Elems(Tail(queue[w]))
      BY <2>3 DEF Elems
    <3>2. QED
      BY <2>1, <2>2, <2>3, <3>1 DEF Holds
  <2>5. \A v \in Workers \ {w} : Holds(v) \subseteq Holds(v)'
    BY <2>3 DEF Holds, Elems
  <2>6. QED
    BY <1>1, <2>3, <2>4, <2>5, QuietLoss
<1>7. ASSUME UNCHANGED <<queue, cur, done, charged, accepted>>, errors' \in {errors, errors + 1}
      PROVE  LossInv'
  <2>1. \A v \in Workers : Holds(v)' = Holds(v)
    BY <1>7 DEF Holds, Elems
  <2>2. QED
    BY <1>1, <1>2, <1>7, <2>1, QuietLoss
<1>8. ASSUME NEW w \in Workers, StartTransaction(w) PROVE LossInv'
  <2>1. errors' \in {errors, errors + 1}
    BY <1>8 DEF StartTransaction, MayFail, Fails
  <2>2. QED
    BY <1>7, <1>8, <2>1 DEF StartTransaction, writerVars
<1>9. LossInv'
  BY <1>1, <1>4, <1>5, <1>6, <1>7, <1>8, UpdateLoss, CommitLoss
     DEF Next, vars, writerVars, workerVars, dbVars, WriterStep, ReadIndex, WriteIndex, WorkerStep,
         Answered, PopTimeout, BeginUninit, Destroy, Unloaded
<1>10. QED
  BY <1>1, <1>9

LEMMA InitCostInv == Init => CostInv
<1> SUFFICES ASSUME Init PROVE CostInv
  OBVIOUS
<1>1. IsFiniteSet({}) /\ Cardinality({}) = 0
  BY FS_EmptySet
<1>2. SizeInv
  BY <1>1 DEF Init, SizeInv
<1>3. Lost = {} /\ errors = 0
  BY DEF Lost, Init
<1>4. LossInv
  BY <1>1, <1>3, QueuesAssumption DEF LossInv
<1>5. QED
  BY <1>2, <1>4, InitPlaceInv DEF CostInv

(* A failed statement costs at most a batch of deductions, and without one  *)
(* no accepted deduction is ever lost.                                      *)
THEOREM LossIsBounded == Spec => []LossBounded
<1>1. CostInv => LossBounded
  BY DEF CostInv, LossInv, LossBounded
<1>2. QED
  BY <1>1, InitCostInv, StepCostInv, PTL DEF Spec

-----------------------------------------------------------------------------
(* The workers implement the ledger: queueing a deduction accepts it, an    *)
(* UPDATE outside of a transaction or a COMMIT charges, any other step      *)
(* leaves the ledger as it was.                                             *)

LEMMA LedgerCardinality ==
  ASSUME NEW S
  PROVE  /\ IsFiniteSet(S) => Ledger!IsFiniteSet(S)
         /\ Ledger!Cardinality(S) = Cardinality(S)
BY DEF IsFiniteSet, Ledger!IsFiniteSet, Cardinality, Ledger!Cardinality

LEMMA LedgerCharge ==
  ASSUME PlaceInv, NEW w \in Workers, NEW S \in SUBSET Holds(w), Charge(S),
         IsFiniteSet(S), Cardinality(S) <= Batch, accepted' = accepted
  PROVE  Ledger!Charge(S)
<1>1. S \subseteq accepted /\ S \subseteq Deduction
  BY DEF PlaceInv, ApartInv, TypeInv, TypeOK, WriterTypeOK
<1>2. \A d \in S : charged[d] = 0
  <2>1. \A d \in S : charged[d] \in Nat /\ charged[d] <= 1 /\ charged[d] # 1
    BY <1>1 DEF PlaceInv, ApartInv, TypeInv, TypeOK, DbTypeOK
  <2>2. QED
    BY <2>1
<1>3. charged' = [d \in Deduction |-> IF d \in S THEN 1 ELSE charged[d]]
  BY <1>2 DEF Charge
<1>4. UNCHANGED accepted
  OBVIOUS
<1>5. IsFiniteSet(S) /\ Cardinality(S) <= Batch
  OBVIOUS
<1> HIDE DEF Charge
<1>6. QED
  BY <1>1, <1>2, <1>3, <1>4, <1>5, LedgerCardinality DEF Ledger!Charge

LEMMA LedgerStep == CostInv /\ [Next]_vars => [Ledger!Next]_<<accepted, charged>>
<1> SUFFICES ASSUME CostInv, [Next]_vars PROVE Ledger!Next \/ UNCHANGED <<accepted, charged>>
  OBVIOUS
<1> USE DEF CostInv
<1>1. ASSUME NEW p \in Writers, Push(p) PROVE Ledger!Next
  <2>1. /\ data[p] \in Deduction /\ data[p].by = p /\ data[p].n = written[p] /\ wpc[p] # "idle"
        /\ written[p] \in Nat
    BY <1>1 DEF Push, PlaceInv, TypeInv, TypeOK, WriterTypeOK, WriterInv
  <2>2. data[p] \notin accepted
    BY <2>1 DEF PlaceInv, FreshInv
  <2>3. Ledger!Accept(data[p])
    BY <1>1 DEF Push, dbVars, Ledger!Accept
  <2>4. QED
    BY <2>1, <2>2, <2>3 DEF Ledger!Next
<1>2. ASSUME NEW w \in Workers, NEW S \in SUBSET Holds(w), Charge(S), accepted' = accepted,
             IsFiniteSet(S), Cardinality(S) <= Batch
      PROVE  Ledger!Next
  <2>1. Ledger!Charge(S)
    BY <1>2, LedgerCharge
  <2>2. S \in SUBSET Deduction
    BY <1>2 DEF PlaceInv, ApartInv, TypeInv, TypeOK, WriterTypeOK
  <2>3. QED
    BY <2>1, <2>2 DEF Ledger!Next
<1>3. ASSUME NEW w \in Workers, pc[w] = "update", Charge({cur[w]}), accepted' = accepted
      PROVE  Ledger!Next
  <2>1. cur[w] \in Holds(w)
    BY <1>3, InHandType, NullAssumption DEF PlaceInv, Holds
  <2>2. IsFiniteSet({cur[w]}) /\ Cardinality({cur[w]}) <= Batch
    <3>1. IsFiniteSet({cur[w]}) /\ Cardinality({cur[w]}) = 1
      BY FS_Singleton
    <3>2. QED
      BY <3>1, QueuesAssumption
  <2>3. QED
    BY <1>2, <1>3, <2>1, <2>2
<1>4. ASSUME NEW w \in Workers, Update(w) \/ UpdateRefused(w) \/ UpdateUnanswered(w) \/ UpdateDeadlocked(w)
      PROVE  Ledger!Next \/ UNCHANGED <<accepted, charged>>
  <2>1. pc[w] = "update" /\ accepted' = accepted /\ (charged' = charged \/ Charge({cur[w]}))
    BY <1>4 DEF Update, UpdateRefused, UpdateUnanswered, UpdateDeadlocked, Updated, writerVars
  <2>2. QED
    BY <1>3, <2>1
<1>5. ASSUME NEW w \in Workers, Commit(w)
      PROVE  Ledger!Next \/ UNCHANGED <<accepted, charged>>
  <2>1. accepted' = accepted /\ (charged' = charged \/ Charge(done[w]))
    BY <1>5 DEF Commit, writerVars
  <2>2. IsFiniteSet(done[w]) /\ Cardinality(done[w]) \in Nat /\ Cardinality(done[w]) <= insertcount[w]
    BY FS_CardinalityType DEF SizeInv
  <2>3. insertcount[w] \in Nat /\ insertcount[w] <= Batch
    BY QueuesAssumption DEF PlaceInv, TypeInv, TypeOK, WorkerTypeOK
  <2>4. Cardinality(done[w]) <= Batch
    BY <2>2, <2>3, QueuesAssumption
  <2>5. done[w] \subseteq Holds(w)
    BY NullNotDone DEF PlaceInv, Holds
  <2>6. QED
    BY <1>2, <2>1, <2>2, <2>4, <2>5
<1>6. QED
  BY <1>1, <1>4, <1>5
     DEF Next, vars, writerVars, workerVars, dbVars, WriterStep, ReadIndex, WriteIndex, WorkerStep,
         Answered, PopDeduction, PopNull, PopTimeout, StartTransaction, BeginUninit, PushNull,
         Destroy, Unloaded

(* What the callers of blacklist_manage_deduction_write can rely on is the  *)
(* ledger: charges in batches, once, of what was accepted.                  *)
THEOREM WorkersImplementLedger == Spec => ImplementsLedger
<1>1. Init => Ledger!Init
  BY DEF Init, Ledger!Init
<1>2. QED
  BY <1>1, InitCostInv, StepCostInv, LedgerStep, PTL DEF Spec, ImplementsLedger, Ledger!Spec

-----------------------------------------------------------------------------
(* What an unload leaves *)

(* Nobody writes once uninit has begun, so the NULL of a queue is its last  *)
(* item, and a worker that has found it has nothing left but its last       *)
(* transaction, nor that once it has stopped.                               *)
QuietInv == stop >= 0 => \A p \in Writers : wpc[p] = "idle"

NullInv ==
    \A w \in Workers : \A k \in 1 .. Len(queue[w]) :
        queue[w][k] = NULL => k = Len(queue[w]) /\ w < stop

EndInv ==
    \A w \in Workers : pc[w] \in {"lastcommit", "stopped"} =>
        /\ queue[w] = <<>> /\ w < stop
        /\ pc[w] = "stopped" => done[w] = {}

FlushInv == QuietInv /\ NullInv /\ EndInv /\ (Destroyed => Joined)

LEMMA InitFlushInv == Init => FlushInv
BY QueuesAssumption DEF Init, FlushInv, QuietInv, NullInv, EndInv, Destroyed

(* A step that leaves the queues, the writers and the end of uninit alone.  *)
LEMMA FlushKept ==
  ASSUME FlushInv, UNCHANGED <<wpc, queue, stop>>,
         NEW w \in Workers, pc[w] # "stopped", \A v \in Workers \ {w} : pc'[v] = pc[v] /\ done'[v] = done[v],
         pc'[w] \in {"lastcommit", "stopped"} => pc[w] = "lastcommit" /\ done'[w] = {}
  PROVE  FlushInv'
<1>1. QuietInv' /\ NullInv'
  BY DEF FlushInv, QuietInv, NullInv
<1>2. EndInv'
  BY DEF FlushInv, EndInv
<1>3. ~Destroyed'
  BY DEF FlushInv, Joined, Destroyed
<1>4. QED
  BY <1>1, <1>2, <1>3 DEF FlushInv

LEMMA StepFlushInv ==
  ASSUME CostInv, FlushInv, [Next]_vars
  PROVE  FlushInv'
<1> USE DEF CostInv, PlaceInv, TypeInv, TypeOK
<1>S. stop \in Int /\ \A w \in Workers : w \in Int /\ w >= 0
  BY QueuesAssumption DEF WorkerTypeOK, Workers
<1>1. ASSUME NEW p \in Writers, ReadIndex(p) \/ WriteIndex(p) PROVE FlushInv'
  <2>1. UNCHANGED <<queue, stop, pc, done>> /\ ~(stop >= 0)
    BY <1>1, <1>S DEF FlushInv, QuietInv, ReadIndex, WriteIndex, workerVars, dbVars
  <2>2. QED
    BY <2>1 DEF FlushInv, QuietInv, NullInv, EndInv, Destroyed, Joined
<1>2. ASSUME NEW p \in Writers, Push(p) PROVE FlushInv'
  <2>1. /\ UNCHANGED <<stop, pc, done>> /\ ~(stop >= 0) /\ slot[p] \in Workers /\ data[p] \in Deduction
        /\ queue' = [queue EXCEPT ![slot[p]] = Append(@, data[p])]
    BY <1>2, <1>S DEF FlushInv, QuietInv, Push, workerVars, dbVars, WriterTypeOK, WriterInv
  <2>2. \A w \in Workers : pc[w] \notin {"lastcommit", "stopped"}
    BY <2>1, <1>S DEF FlushInv, EndInv
  <2>3. \A w \in Workers : \A k \in 1 .. Len(queue'[w]) : queue'[w][k] # NULL
    <3> SUFFICES ASSUME NEW w \in Workers, NEW k \in 1 .. Len(queue'[w]) PROVE queue'[w][k] # NULL
      OBVIOUS
    <3>1. queue[w] \in Seq(Known) /\ \A j \in 1 .. Len(queue[w]) : queue[w][j] # NULL
      BY <2>1, <1>S DEF FlushInv, NullInv, WorkerTypeOK
    <3>2. CASE w = slot[p]
      <4>1. queue'[w] = Append(queue[w], data[p]) /\ data[p] # NULL
        BY <2>1, <3>2, NullAssumption DEF WorkerTypeOK
      <4>2. QED
        BY <3>1, <4>1 DEF Known
    <3>3. CASE w # slot[p]
      BY <2>1, <3>1, <3>3 DEF WorkerTypeOK
    <3>4. QED
      BY <3>2, <3>3
  <2>4. ~Destroyed'
    BY <2>1, QueuesAssumption DEF Destroyed
  <2>5. QED
    BY <2>1, <2>2, <2>3, <2>4 DEF FlushInv, QuietInv, NullInv, EndInv
<1>3. ASSUME NEW w \in Workers, PopDeduction(w) \/ PopNull(w) PROVE FlushInv'
  <2>1. /\ UNCHANGED <<wpc, stop, done>> /\ pc[w] = "pop" /\ queue[w] \in Seq(Known) /\ queue[w] # <<>>
        /\ queue' = [queue EXCEPT ![w] = Tail(@)]
        /\ \A v \in Workers \ {w} : pc'[v] = pc[v]
        /\ pc'[w] \in {"lastcommit", "stopped"} => Head(queue[w]) = NULL
        /\ pc'[w] = "stopped" => ~(insertcount[w] > 0)
    BY <1>3 DEF PopDeduction, PopNull, Goto, writerVars, dbVars, WorkerTypeOK
  <2>2. /\ Len(queue[w]) \in Nat \ {0} /\ Len(Tail(queue[w])) = Len(queue[w]) - 1 /\ Head(queue[w]) = queue[w][1]
        /\ \A k \in 1 .. Len(Tail(queue[w])) : Tail(queue[w])[k] = queue[w][k + 1]
    BY <2>1
  <2>3. NullInv'
    <3> SUFFICES ASSUME NEW v \in Workers, NEW k \in 1 .. Len(queue'[v]), queue'[v][k] = NULL
                 PROVE  k = Len(queue'[v]) /\ v < stop'
      BY DEF NullInv
    <3>1. CASE v = w
      <4>1. queue'[w] = Tail(queue[w])
        BY <2>1 DEF WorkerTypeOK
      <4>2. k + 1 \in 1 .. Len(queue[w]) /\ queue[w][k + 1] = NULL
        BY <2>2, <3>1, <4>1
      <4>3. k + 1 = Len(queue[w]) /\ w < stop
        BY <4>2 DEF FlushInv, NullInv
      <4>4. Len(queue'[w]) = Len(queue[w]) - 1 /\ Len(queue[w]) \in Nat /\ stop' = stop
        BY <2>1, <2>2, <4>1
      <4>5. k = Len(queue'[w])
        BY <3>1, <4>3, <4>4
      <4>6. QED
        BY <3>1, <4>3, <4>4, <4>5
    <3>2. CASE v # w
      BY <2>1, <3>2 DEF FlushInv, NullInv, WorkerTypeOK
    <3>3. QED
      BY <3>1, <3>2
  <2>4. EndInv'
    <3> SUFFICES ASSUME NEW v \in Workers, pc'[v] \in {"lastcommit", "stopped"}
                 PROVE  queue'[v] = <<>> /\ v < stop' /\ (pc'[v] = "stopped" => done'[v] = {})
      BY DEF EndInv
    <3>1. CASE v = w
      <4>0. 1 \in 1 .. Len(queue[w]) /\ queue[w][1] = NULL
        BY <2>1, <2>2, <3>1
      <4>1. 1 = Len(queue[w]) /\ w < stop
        BY <4>0 DEF FlushInv, NullInv
      <4>2. queue'[w] = <<>>
        BY <2>1, <2>2, <4>1 DEF WorkerTypeOK
      <4>3. ASSUME pc'[w] = "stopped" PROVE done[w] = {}
        <5>1. insertcount[w] = 0
          BY <2>1, <4>3, QueuesAssumption DEF WorkerTypeOK
        <5>2. IsFiniteSet(done[w]) /\ Cardinality(done[w]) <= 0 /\ Cardinality(done[w]) \in Nat
          BY <5>1, FS_CardinalityType DEF SizeInv
        <5>3. QED
          BY <5>2, FS_EmptySet
      <4>4. QED
        BY <2>1, <3>1, <4>1, <4>2, <4>3
    <3>2. CASE v # w
      BY <2>1, <3>2 DEF FlushInv, EndInv, WorkerTypeOK
    <3>3. QED
      BY <3>1, <3>2
  <2>5. ~Destroyed'
    BY <2>1 DEF FlushInv, Joined, Destroyed
  <2>6. QED
    BY <2>1, <2>3, <2>4, <2>5 DEF FlushInv, QuietInv
<1>4. ASSUME NEW w \in Workers, PopTimeout(w) \/ StartTransaction(w) PROVE FlushInv'
  BY <1>4, FlushKept DEF PopTimeout, StartTransaction, Goto, writerVars, dbVars, WorkerTypeOK, DbTypeOK
<1>5. ASSUME NEW w \in Workers, Update(w) \/ UpdateRefused(w) \/ UpdateUnanswered(w) \/ UpdateDeadlocked(w)
      PROVE  FlushInv'
  <2>1. /\ UNCHANGED <<wpc, queue, stop>> /\ pc[w] = "update" /\ pc'[w] \in {"commit", "pop"}
        /\ \A v \in Workers \ {w} : pc'[v] = pc[v]
    BY <1>5 DEF Update, UpdateRefused, UpdateUnanswered, UpdateDeadlocked, Updated, Goto, writerVars, WorkerTypeOK
  <2>2. \A v \in Workers \ {w} : done'[v] = done[v]
    BY <1>5 DEF Update, UpdateRefused, UpdateUnanswered, UpdateDeadlocked, Rollback, DbTypeOK
  <2>3. QED
    BY <2>1, <2>2, FlushKept
<1>6. ASSUME NEW w \in Workers, Commit(w) PROVE FlushInv'
  <2>1. /\ UNCHANGED <<wpc, queue, stop>> /\ pc[w] \in Committing /\ done'[w] = {}
        /\ \A v \in Workers \ {w} : pc'[v] = pc[v] /\ done'[v] = done[v]
        /\ pc'[w] \in {"lastcommit", "stopped"} => pc[w] = "lastcommit"
    BY <1>6 DEF Commit, Committing, Rollback, Goto, writerVars, WorkerTypeOK, DbTypeOK
  <2>2. QED
    BY <2>1, FlushKept DEF Committing
<1>7. CASE BeginUninit
  <2>1. UNCHANGED <<queue, pc, done>> /\ wpc' = wpc /\ stop = -1 /\ stop' = 0 /\ \A p \in Writers : wpc[p] = "idle"
    BY <1>7 DEF BeginUninit, writerVars, workerVars, dbVars
  <2>2. \A w \in Workers : ~(w < stop)
    BY <2>1, <1>S
  <2>3. ~Destroyed'
    BY <2>1, QueuesAssumption DEF Destroyed
  <2>4. QED
    BY <2>1, <2>2, <2>3 DEF FlushInv, QuietInv, NullInv, EndInv
<1>8. CASE PushNull
  <2>1. /\ UNCHANGED <<wpc, pc, done>> /\ stop \in Workers /\ stop' = stop + 1
        /\ queue' = [queue EXCEPT ![stop] = Append(@, NULL)] /\ queue[stop] \in Seq(Known)
    BY <1>8 DEF PushNull, writerVars, workerVars, dbVars, WorkerTypeOK
  <2>2. NullInv'
    <3> SUFFICES ASSUME NEW v \in Workers, NEW k \in 1 .. Len(queue'[v]), queue'[v][k] = NULL
                 PROVE  k = Len(queue'[v]) /\ v < stop'
      BY DEF NullInv
    <3>1. CASE v = stop
      <4>1. queue'[v] = Append(queue[v], NULL) /\ queue[v] \in Seq(Known)
        BY <2>1, <3>1 DEF WorkerTypeOK
      <4>2. \A j \in 1 .. Len(queue[v]) : queue[v][j] # NULL
        BY <1>S, <3>1 DEF FlushInv, NullInv
      <4>3. QED
        BY <1>S, <2>1, <3>1, <4>1, <4>2
    <3>2. CASE v # stop
      <4>1. queue'[v] = queue[v]
        BY <2>1, <3>2 DEF WorkerTypeOK
      <4>2. k = Len(queue[v]) /\ v < stop
        BY <4>1 DEF FlushInv, NullInv
      <4>3. QED
        BY <1>S, <2>1, <4>1, <4>2
    <3>3. QED
      BY <3>1, <3>2
  <2>3. EndInv'
    <3> SUFFICES ASSUME NEW v \in Workers, pc[v] \in {"lastcommit", "stopped"}
                 PROVE  queue'[v] = <<>> /\ v < stop' /\ (pc[v] = "stopped" => done[v] = {})
      BY <2>1 DEF EndInv
    <3>1. queue[v] = <<>> /\ v < stop /\ (pc[v] = "stopped" => done[v] = {})
      BY DEF FlushInv, EndInv
    <3>2. queue'[v] = queue[v]
      BY <1>S, <2>1, <3>1 DEF WorkerTypeOK
    <3>3. QED
      BY <1>S, <2>1, <3>1, <3>2
  <2>4. ~Destroyed'
    BY <2>1, QueuesAssumption DEF Destroyed, Workers
  <2>5. QED
    BY <2>1, <2>2, <2>3, <2>4, <1>S DEF FlushInv, QuietInv
<1>9. CASE Destroy
  <2>1. UNCHANGED <<wpc, queue, pc, done>> /\ stop = NQueues /\ stop' = NQueues + 1 /\ Joined
    BY <1>9 DEF Destroy, writerVars, workerVars, dbVars
  <2>2. \A w \in Workers : w < stop => w < stop'
    BY <1>S, <2>1
  <2>3. QED
    BY <2>1, <2>2, QueuesAssumption DEF FlushInv, QuietInv, NullInv, EndInv, Joined
<1>10. CASE UNCHANGED vars
  BY <1>10 DEF vars, writerVars, workerVars, dbVars, FlushInv, QuietInv, NullInv, EndInv, Destroyed, Joined
<1>11. QED
  BY <1>1, <1>2, <1>3, <1>4, <1>5, <1>6, <1>7, <1>8, <1>9, <1>10
     DEF Next, WriterStep, WorkerStep, Answered, Unloaded

(* An unload leaves no deduction in a queue, in hand or in a transaction,   *)
(* for any number of writers, queues and failures.                          *)
THEOREM UnloadFlushes == Spec => []FlushedAtUnload
<1>1. CostInv /\ FlushInv => FlushedAtUnload
  BY DEF CostInv, PlaceInv, TypeInv, HandInv, FlushInv, EndInv, Joined, FlushedAtUnload
<1>2. CostInv /\ FlushInv /\ [Next]_vars => FlushInv'
  BY StepFlushInv
<1>3. QED
  BY <1>1, <1>2, InitCostInv, StepCostInv, InitFlushInv, PTL DEF Spec
=============================================================================
