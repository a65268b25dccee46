------------------------------ MODULE WorkQueue ------------------------------
(***************************************************************************)
(* The deduction workers of mod_blacklist_manage                           *)
(* (mod_blacklist_manage_deduction.cpp), between a successful              *)
(* blacklist_manage_deduction_init and the end of                          *)
(* blacklist_manage_deduction_uninit.                                      *)
(*                                                                         *)
(* A session thread (a writer) that has checked a call queues a deduction  *)
(* on one of a few queues, round robin.  Each queue has a worker thread    *)
(* with a mysql connection of its own, which turns the deductions into     *)
(* UPDATE statements inside a transaction and commits after Batch of them, *)
(* after a second without any, and on the NULL that stops it.  Every       *)
(* failure of a statement is logged and otherwise ignored.                 *)
(*                                                                         *)
(* The database is external and is modelled by what mysql does for these   *)
(* statements: an UPDATE locks the row of its user until the end of its    *)
(* transaction; the victim of a deadlock, like a lost connection, loses    *)
(* the whole transaction, and what follows is committed statement by       *)
(* statement; a COMMIT whose answer is lost has happened or not.           *)
(*                                                                         *)
(* The workers of mod_blacklist_manage_record.cpp are the same thread over *)
(* INSERT statements, with a larger batch and a longer wait.               *)
(***************************************************************************)
EXTENDS Integers, Sequences, FiniteSets

CONSTANTS
    Writers,    \* session threads that queue deductions
    Users,      \* the rows of user_info
    NULL,       \* the null pointer, which uninit pushes to stop a worker
    NQueues,    \* QUEUE_MAX_NUMBER: queues, each with its worker
    QueueMax,   \* QUEUE_MAX_SIZE
    Batch,      \* updates in a transaction
    MaxWrites,  \* bound: deductions each writer queues
    MaxErrors   \* bound: failed statements, deadlocks apart

ASSUME QueuesAssumption ==
    /\ NQueues \in Nat \ {0} /\ QueueMax \in Nat \ {0} /\ Batch \in Nat \ {0}
    /\ MaxWrites \in Nat /\ MaxErrors \in Nat

Workers == 0 .. NQueues - 1

(* QUEUE_DATA_DEDUCTION.  The writer and the ordinal tell two deductions    *)
(* apart; feeflag selects a column of the same row and is left out.         *)
Deduction == [by : Writers, n : 1 .. MaxWrites, user : Users]

ASSUME NullAssumption == NULL \notin Deduction

VARIABLES
    index,      \* queue_index
    wpc,        \* where each writer is in blacklist_manage_deduction_write
    slot,       \* the queue it has selected
    data,       \* the deduction it is writing
    written,    \* how many it has written or is writing
    accepted,   \* history: those for which SWITCH_STATUS_SUCCESS was returned
    queue,      \* work_queue_info[q].pqueue
    pc,         \* where each worker is in work_thread
    cur,        \* pqueuedata
    insertcount,
    stop,       \* where uninit is: -1 not begun, else the NULLs pushed, then one more
    open,       \* external: whether the connection of a worker is in a transaction
    done,       \* external: the deductions of that transaction
    charged,    \* external: how many times user_info has been charged for each
    errors      \* the failures the workers have logged

writerVars == <<index, wpc, slot, data, written, accepted>>
workerVars == <<pc, cur, insertcount>>
dbVars == <<open, done, charged, errors>>
vars == <<writerVars, queue, workerVars, stop, dbVars>>

Init ==
    /\ index = 0
    /\ wpc = [p \in Writers |-> "idle"] /\ slot = [p \in Writers |-> 0]
    /\ data = [p \in Writers |-> NULL] /\ written = [p \in Writers |-> 0]
    /\ accepted = {}
    /\ queue = [q \in Workers |-> <<>>]
    /\ pc = [w \in Workers |-> "pop"] /\ cur = [w \in Workers |-> NULL]
    /\ insertcount = [w \in Workers |-> 0]
    /\ stop = -1
    /\ open = [w \in Workers |-> FALSE] /\ done = [w \in Workers |-> {}]
    /\ charged = [d \in Deduction |-> 0] /\ errors = 0
-----------------------------------------------------------------------------
(* The writer: blacklist_manage_deduction_write.  queue_index is static and *)
(* not protected: the increment is a read and a write.                      *)

NextSlot(i) == IF i + 1 >= NQueues THEN 0 ELSE i + 1

(* The module interface is withdrawn before uninit runs: no write starts.   *)
ReadIndex(p) ==
    /\ wpc[p] = "idle" /\ written[p] < MaxWrites /\ stop = -1
    /\ written' = [written EXCEPT ![p] = @ + 1]
    /\ \E u \in Users : data' = [data EXCEPT ![p] = [by |-> p, n |-> written[p] + 1, user |-> u]]
    /\ slot' = [slot EXCEPT ![p] = NextSlot(index)]
    /\ wpc' = [wpc EXCEPT ![p] = "index"]
    /\ UNCHANGED <<index, accepted, queue, workerVars, stop, dbVars>>

WriteIndex(p) ==
    /\ wpc[p] = "index"
    /\ index' = slot[p]
    /\ wpc' = [wpc EXCEPT ![p] = "push"]
    /\ UNCHANGED <<slot, data, written, accepted, queue, workerVars, stop, dbVars>>

Room(q) == Len(queue[q]) < QueueMax

Push(p) ==
    /\ wpc[p] = "push" /\ Room(slot[p])
    /\ queue' = [queue EXCEPT ![slot[p]] = Append(@, data[p])]
    /\ accepted' = accepted \union {data[p]}
    /\ data' = [data EXCEPT ![p] = NULL]
    /\ wpc' = [wpc EXCEPT ![p] = "idle"]
    /\ UNCHANGED <<index, slot, written, workerVars, stop, dbVars>>
-----------------------------------------------------------------------------
(* The worker: work_thread *)

Goto(w, label) == pc' = [pc EXCEPT ![w] = label]

(* A deduction: the first of a batch starts a transaction.                  *)
PopDeduction(w) ==
    /\ pc[w] = "pop" /\ queue[w] # <<>> /\ Head(queue[w]) # NULL
    /\ cur' = [cur EXCEPT ![w] = Head(queue[w])]
    /\ queue' = [queue EXCEPT ![w] = Tail(@)]
    /\ Goto(w, IF insertcount[w] = 0 THEN "start" ELSE "update")
    /\ UNCHANGED <<writerVars, insertcount, stop, dbVars>>

(* Leaving the loop without the COMMIT. *)
PopNullNoCommitMutant(w) ==
    /\ pc[w] = "pop" /\ queue[w] # <<>> /\ Head(queue[w]) = NULL
    /\ queue' = [queue EXCEPT ![w] = Tail(@)]
    /\ Goto(w, "stopped")
    /\ UNCHANGED <<writerVars, cur, insertcount, stop, dbVars>>

(* A NULL that is looked at but left in the queue. *)
PopNullPeekMutant(w) ==
    /\ pc[w] = "pop" /\ queue[w] # <<>> /\ Head(queue[w]) = NULL
    /\ UNCHANGED vars

(* NULL: commit what is left of the batch and leave the loop.               *)
PopNull(w) ==
    /\ pc[w] = "pop" /\ queue[w] # <<>> /\ Head(queue[w]) = NULL
    /\ queue' = [queue EXCEPT ![w] = Tail(@)]
    /\ Goto(w, IF insertcount[w] > 0 THEN "lastcommit" ELSE "stopped")
    /\ UNCHANGED <<writerVars, cur, insertcount, stop, dbVars>>

(* A timeout that commits full batches only. *)
PopTimeoutMutant(w) ==
    /\ pc[w] = "pop" /\ queue[w] = <<>> /\ insertcount[w] >= Batch
    /\ Goto(w, "commit")
    /\ UNCHANGED <<writerVars, queue, cur, insertcount, stop, dbVars>>

(* Nothing for the timeout: commit what is left of the batch.               *)
PopTimeout(w) ==
    /\ pc[w] = "pop" /\ queue[w] = <<>> /\ insertcount[w] > 0
    /\ Goto(w, "commit")
    /\ UNCHANGED <<writerVars, queue, cur, insertcount, stop, dbVars>>

(* What the server does with a statement *)
Fails == errors' = errors + 1
MayFail == errors < MaxErrors /\ Fails
Rollback(w) == open' = [open EXCEPT ![w] = FALSE] /\ done' = [done EXCEPT ![w] = {}]
Charge(S) == charged' = [d \in Deduction |-> IF d \in S THEN charged[d] + 1 ELSE charged[d]]

StartTransaction(w) ==
    /\ pc[w] = "start"
    /\ \/ open' = [open EXCEPT ![w] = TRUE] /\ UNCHANGED errors
       \/ MayFail /\ UNCHANGED open
    /\ Goto(w, "update")
    /\ UNCHANGED <<writerVars, queue, cur, insertcount, stop, done, charged>>

(* A batch off by one. *)
BatchFullMutant(n) == n > Batch

(* The end of an iteration: insertcount++ and, at Batch, a COMMIT.          *)
BatchFull(n) == n >= Batch

Updated(w) ==
    /\ insertcount' = [insertcount EXCEPT ![w] = @ + 1]
    /\ Goto(w, IF BatchFull(insertcount[w] + 1) THEN "commit" ELSE "pop")
    /\ cur' = [cur EXCEPT ![w] = NULL]
    /\ UNCHANGED <<writerVars, queue, stop>>

(* w waits for the lock on the row of its user, which v holds.              *)
WaitsFor(w, v) ==
    /\ pc[w] = "update" /\ v # w
    /\ \E d \in done[v] : d.user = cur[w].user
RowFree(w) == \A v \in Workers : ~WaitsFor(w, v)

(* A cycle of waits: each of C waits for one of C, and for each one waits.  *)
Deadlocked(w) ==
    \E C \in SUBSET Workers :
        /\ w \in C
        /\ \A v \in C : (\E x \in C : WaitsFor(v, x)) /\ (\E x \in C : WaitsFor(x, v))

Update(w) ==
    /\ pc[w] = "update" /\ RowFree(w)
    /\ IF open[w] THEN done' = [done EXCEPT ![w] = @ \union {cur[w]}] /\ UNCHANGED charged
                  ELSE Charge({cur[w]}) /\ UNCHANGED done
    /\ Updated(w) /\ UNCHANGED <<open, errors>>

(* An error that leaves the transaction as it was, such as the end of the   *)
(* wait for a lock.                                                         *)
UpdateRefused(w) ==
    /\ pc[w] = "update" /\ MayFail
    /\ Updated(w) /\ UNCHANGED <<open, done, charged>>

(* A statement that is tried again when there was no answer. *)
UpdateUnansweredMutant(w) ==
    /\ pc[w] = "update" /\ MayFail
    /\ \/ UNCHANGED charged
       \/ ~open[w] /\ RowFree(w) /\ Charge({cur[w]})
    /\ Rollback(w) /\ UNCHANGED <<writerVars, queue, workerVars, stop>>

(* The connection breaks.  The transaction is gone; a statement outside of  *)
(* one may have been executed all the same.                                 *)
UpdateUnanswered(w) ==
    /\ pc[w] = "update" /\ MayFail
    /\ \/ UNCHANGED charged
       \/ ~open[w] /\ RowFree(w) /\ Charge({cur[w]})
    /\ Rollback(w) /\ Updated(w)

UpdateDeadlocked(w) ==
    /\ pc[w] = "update" /\ Deadlocked(w)
    /\ Fails /\ Rollback(w) /\ Updated(w) /\ UNCHANGED charged

(* COMMIT.  Whatever comes of it, insertcount starts again from 0.          *)
Committing == {"commit", "lastcommit"}

Commit(w) ==
    /\ pc[w] \in Committing
    /\ \/ Charge(done[w]) /\ UNCHANGED errors
       \/ Charge(done[w]) /\ MayFail                \* the answer is lost
       \/ MayFail /\ UNCHANGED charged
    /\ Rollback(w)
    /\ insertcount' = [insertcount EXCEPT ![w] = 0]
    /\ Goto(w, IF pc[w] = "commit" THEN "pop" ELSE "stopped")
    /\ UNCHANGED <<writerVars, queue, cur, stop>>
-----------------------------------------------------------------------------
(* blacklist_manage_deduction_uninit: a NULL for each queue in turn, then   *)
(* all threads are joined, then connections and queues go.  The host has    *)
(* waited for the calls in progress.                                        *)
BeginUninit ==
    /\ stop = -1 /\ \A p \in Writers : wpc[p] = "idle"
    /\ stop' = 0
    /\ UNCHANGED <<writerVars, queue, workerVars, dbVars>>

PushNull ==
    /\ stop \in Workers /\ Room(stop)
    /\ queue' = [queue EXCEPT ![stop] = Append(@, NULL)]
    /\ stop' = stop + 1
    /\ UNCHANGED <<writerVars, workerVars, dbVars>>

Joined == \A w \in Workers : pc[w] = "stopped"

Destroy ==
    /\ stop = NQueues /\ Joined
    /\ stop' = NQueues + 1
    /\ UNCHANGED <<writerVars, queue, workerVars, dbVars>>

Destroyed == stop = NQueues + 1

(* The module has been unloaded: not a deadlock.                            *)
Unloaded == Destroyed /\ UNCHANGED vars
-----------------------------------------------------------------------------
WriterStep(p) == ReadIndex(p) \/ WriteIndex(p) \/ Push(p)
Answered(w) == Update(w) \/ UpdateDeadlocked(w)
WorkerStep(w) ==
    \/ PopDeduction(w) \/ PopNull(w) \/ PopTimeout(w) \/ StartTransaction(w)
    \/ Answered(w) \/ UpdateRefused(w) \/ UpdateUnanswered(w) \/ Commit(w)

Next ==
    \/ \E p \in Writers : WriterStep(p)
    \/ \E w \in Workers : WorkerStep(w)
    \/ BeginUninit \/ PushNull \/ Destroy \/ Unloaded

Spec == Init /\ [][Next]_vars

(* Fairness: threads are scheduled, and mysql answers, finding deadlocks.   *)
(* Nobody has to unload the module.                                         *)
FairSpec ==
    /\ Spec
    /\ \A p \in Writers : WF_vars(WriteIndex(p) \/ Push(p))
    /\ \A w \in Workers : WF_vars(WorkerStep(w))
    /\ WF_vars(PushNull \/ Destroy)
-----------------------------------------------------------------------------
(* Properties *)

Known == Deduction \union {NULL}

(* Each variable has its type; the one shallow invariant.                   *)
WriterTypeOK ==
    /\ index \in Workers /\ slot \in [Writers -> Workers]
    /\ wpc \in [Writers -> {"idle", "index", "push"}]
    /\ data \in [Writers -> Known] /\ written \in [Writers -> 0 .. MaxWrites]
    /\ accepted \subseteq Deduction
WorkerTypeOK ==
    /\ queue \in [Workers -> Seq(Known)] /\ stop \in -1 .. NQueues + 1
    /\ pc \in [Workers -> {"pop", "start", "update", "commit", "lastcommit", "stopped"}]
    /\ cur \in [Workers -> Known] /\ insertcount \in [Workers -> 0 .. Batch]
DbTypeOK ==
    /\ open \in [Workers -> BOOLEAN] /\ done \in [Workers -> SUBSET Deduction]
    /\ charged \in [Deduction -> Nat] /\ errors \in Nat
TypeOK == WriterTypeOK /\ WorkerTypeOK /\ DbTypeOK

(* A user is never charged twice for one check, and never for a deduction   *)
(* that was refused, whatever fails: no statement is repeated               *)
(* (deduction.cpp 88-126).                                                  *)
ChargedOnce ==
    \A d \in Deduction : charged[d] <= 1 /\ (charged[d] = 1 => d \in accepted)

(* A deduction on its way: queued, popped, or executed and not committed.   *)
Queued(d) == \E q \in Workers : \E k \in 1 .. Len(queue[q]) : queue[q][k] = d
InHand(d) == \E w \in Workers : cur[w] = d \/ d \in done[w]
Lost == {d \in accepted : charged[d] = 0 /\ ~Queued(d) /\ ~InHand(d)}

(* A failure costs at most the batch it hits: although errors are ignored,  *)
(* a worker that has lost its transaction does not go on as if it still had *)
(* it.  Without an error nothing is lost (deduction.cpp 88-126).            *)
LossBounded == Cardinality(Lost) <= Batch * errors

(* When uninit closes the connections and frees the queues, nothing is left *)
(* in them: the NULL is behind every deduction, and the last batch is       *)
(* committed (deduction.cpp 67-80, 197-220).                                *)
FlushedAtUnload ==
    Destroyed => \A w \in Workers : queue[w] = <<>> /\ cur[w] = NULL /\ done[w] = {}

(* The service as its callers see it: charges are atomic in batches, each   *)
(* deduction at most once, and may be lost.                                 *)
Ledger == INSTANCE ChargeLedger WITH
    Deduction <- Deduction, Batch <- Batch, accepted <- accepted, charged <- charged
ImplementsLedger == Ledger!Spec

(* Every deduction queued is charged in the end if no statement fails, the  *)
(* last ones without others to fill their batch.                            *)
EventuallyCharged == \A d \in Deduction : d \in accepted ~> (charged[d] = 1 \/ errors > 0)

(* No row stays locked: a worker that waits for a row while it holds others *)
(* does not wait forever, nor does one with nothing to do keep its locks.   *)
LocksReleased == \A w \in Workers : done[w] # {} ~> done[w] = {}

(* Unloading the module terminates: every worker finds its NULL and is      *)
(* joined (deduction.cpp 201-209).                                          *)
UninitReturns == stop = 0 ~> Destroyed
=============================================================================
