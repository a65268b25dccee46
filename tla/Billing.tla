------------------------------- MODULE Billing -------------------------------
(***************************************************************************)
(* What one user pays: the call check (mod_blacklist_manage_app.cpp) over  *)
(* the account in memory (mod_blacklist_manage_user.cpp), the commands     *)
(* that pay into it or change its fee (mod_blacklist_manage_data.cpp), the *)
(* reload, and the row of the user in the database, which deduction        *)
(* workers charge.                                                         *)
(*                                                                         *)
(* The workers are those of ChargeLedger, which WorkQueue implements: what *)
(* a call has queued is charged in batches, once, or lost.  The pools and  *)
(* their life are in UserCache; here a reload fills the table that is not  *)
(* in use and redirects the two pointers to it.                            *)
(*                                                                         *)
(* Nothing is locked.  The check copies the account column by column, the  *)
(* deduction and the payment read a column and store it later, and the fee *)
(* is read anew by each of check, deduction and UPDATE.  Amounts are whole *)
(* numbers of the smallest unit.                                           *)
(***************************************************************************)
EXTENDS Integers, FiniteSets

CONSTANTS
    Sessions,   \* session threads with a call of this user
    Consoles,   \* threads in a bl_user balance, credit or fee
    Fees,       \* the fees the user may have; 0 for a user that must not call
    MinFee, MaxFee, \* the least and the largest of them, 0 apart
    Commands,   \* the commands the consoles give: "balance", "credit", "fee"
    Money,      \* the sums that are paid in
    Opening,    \* what the columns may hold at first
    Batch,      \* deductions in a transaction
    MaxCalls,   \* bound: calls
    MaxPaid,    \* bound: commands
    MaxReloads, \* bound: reloads
    MaxLost     \* bound: deductions lost

ASSUME FeesAssumption ==
    /\ MinFee \in Nat \ {0} /\ MaxFee \in Nat /\ MinFee <= MaxFee
    /\ Fees \subseteq Nat /\ \A f \in Fees \ {0} : MinFee <= f /\ f <= MaxFee
ASSUME MoneyAssumption == Commands \subseteq {"balance", "credit", "fee"} /\ Money \subseteq Nat /\ Opening \subseteq [{"balance", "credit"} -> Nat]
ASSUME SessionsAssumption ==
    IsFiniteSet(Sessions) /\ Sessions # {} /\ IsFiniteSet(Consoles) /\ Sessions \cap Consoles = {}
ASSUME BoundsAssumption == Batch \in Nat \ {0} /\ MaxCalls \in Nat /\ MaxPaid \in Nat /\ MaxReloads \in Nat

Column == {"balance", "credit"}
Tables == {1, 2}

Other(p) == 3 - p

(* A queued deduction: the call that queued it, and the column it is taken  *)
(* from, which is feeflag.                                                  *)
Deduction == [call : 1 .. MaxCalls, from : Column]

(* An UPDATE that a command sends: what it changes, and its argument.       *)
Statement == [col : Commands \ {"fee"}, sum : Money] \union [col : Commands \intersect {"fee"}, sum : Fees]

VARIABLES
    acct, fee,      \* the account in each table: its two columns, its fee
    hnum, huser,    \* phandlehash_num and phandlehash_user, by table
    pc,             \* where each session and console is
    ptr,            \* the table in which each has found the account
    seen,           \* the columns copied to userinfo
    col,            \* feeflag; what the command of a console changes
    sum,            \* the argument of that command
    value,          \* what each will store
    call,           \* the call of each session
    reload,         \* where the reload is: "idle", "select", "user", "num"
    accepted, charged,  \* the ledger: deductions queued; charged how often
    lost,           \* external: deductions a failed statement has lost
    db, dbfee,      \* external: the row of user_info
    late,           \* external: how many of each statement a timeout has given
                    \* up that are still to be executed
    done,           \* how many calls, commands and reloads were begun
    over,           \* history: the most that memory has shown in excess
    read,           \* history: what a column held when it was read to be changed
    disturbed,      \* history: whether memory may disagree with the database
    quiet           \* history: whether nothing has met the reload so far

Ledger == INSTANCE ChargeLedger WITH
    Deduction <- Deduction, Batch <- Batch, accepted <- accepted, charged <- charged

memory == <<acct, fee>>
handles == <<hnum, huser>>
locals == <<ptr, seen, col, sum, value, call>>
ledger == <<accepted, charged, lost>>
row == <<db, dbfee, late>>
history == <<read, disturbed, quiet>>
vars == <<memory, handles, pc, locals, reload, ledger, row, done, over, history>>

Threads == Sessions \union Consoles
NoCopy == [c \in Column |-> 0]

Init ==
    /\ db \in Opening /\ dbfee \in Fees /\ late = [j \in Statement |-> 0]
    /\ acct = [p \in Tables |-> db] /\ fee = [p \in Tables |-> dbfee]
    /\ hnum = 1 /\ huser = 1
    /\ pc = [t \in Threads |-> "idle"] /\ ptr = [t \in Threads |-> 0]
    /\ seen = [s \in Sessions |-> NoCopy] /\ col = [t \in Threads |-> "none"]
    /\ sum = [k \in Consoles |-> 0] /\ value = [t \in Threads |-> 0]
    /\ call = [t \in Threads |-> 0]
    /\ reload = "idle" /\ done = [calls |-> 0, commands |-> 0, reloads |-> 0]
    /\ accepted = {} /\ charged = [d \in Deduction |-> 0] /\ lost = {}
    /\ over = [c \in Column |-> 0] /\ read = [t \in Threads |-> 0]
    /\ disturbed = [c \in Column |-> FALSE] /\ quiet = FALSE

Goto(t, label) == pc' = [pc EXCEPT ![t] = label]

Pending == {d \in accepted : charged[d] = 0 /\ d \notin lost}
Take(S, c) == {d \in S : d.from = c}

Disturb(c) == disturbed' = [disturbed EXCEPT ![c] = TRUE]
-----------------------------------------------------------------------------
(* The call: blacklist_manage_check.  The account is found by number, then  *)
(* copied by blacklist_manage_user_get.                                     *)

unchangedByCalls == <<handles, sum, reload, charged, lost, row, done>>

BeginCall(s) ==
    /\ pc[s] = "idle" /\ done.calls < MaxCalls
    /\ done' = [done EXCEPT !.calls = @ + 1]
    /\ call' = [call EXCEPT ![s] = done.calls + 1]
    /\ ptr' = [ptr EXCEPT ![s] = hnum]
    /\ Goto(s, "balance")
    /\ UNCHANGED <<handles, sum, reload, charged, lost, row, memory, seen, col, value, accepted, history>>

Copy(s, c) ==
    /\ pc[s] = c
    /\ seen' = [seen EXCEPT ![s][c] = acct[ptr[s]][c]]
    /\ Goto(s, IF c = "balance" THEN "credit" ELSE "fee")
    /\ UNCHANGED <<unchangedByCalls, memory, ptr, col, value, call, accepted, history>>

(* A check that asks for a fee only. *)
EnoughMutant(f, a) == f > 0

(* What the check asks of a copy: some money, a fee, and a column to cover  *)
(* it.                                                                      *)
Enough(f, a) ==
    /\ a["balance"] > 0 \/ a["credit"] > 0
    /\ f > 0
    /\ f <= a["balance"] \/ f <= a["credit"]

Admit(s) ==
    /\ pc[s] = "fee"
    /\ LET f == fee[ptr[s]] IN
           /\ Enough(f, seen[s])
           /\ col' = [col EXCEPT ![s] = IF f > seen[s]["balance"] THEN "credit" ELSE "balance"]
    /\ seen' = [seen EXCEPT ![s] = NoCopy] /\ ptr' = [ptr EXCEPT ![s] = 0]
    /\ Goto(s, "deduct")
    /\ UNCHANGED <<unchangedByCalls, memory, value, call, accepted, history>>

(* The locals go when a function returns.                                   *)
Return(t) ==
    /\ Goto(t, "idle")
    /\ ptr' = [ptr EXCEPT ![t] = 0] /\ col' = [col EXCEPT ![t] = "none"] /\ call' = [call EXCEPT ![t] = 0]

(* Refused for want of money or for the status; or, later, the blacklist    *)
(* does not answer or the record cannot be queued.                          *)
Refuse(s) ==
    /\ pc[s] \in {"fee", "deduct"}
    /\ Return(s) /\ seen' = [seen EXCEPT ![s] = NoCopy]
    /\ UNCHANGED <<unchangedByCalls, memory, value, accepted, history>>

(* bm_user_deduction: first the queue, then the account, which is looked up *)
(* again, by user.                                                          *)
QueueDeduction(s) ==
    /\ pc[s] = "deduct"
    /\ Ledger!Accept([call |-> call[s], from |-> col[s]])
    /\ quiet' = FALSE
    /\ Goto(s, "find")
    /\ UNCHANGED <<handles, reload, lost, row, done, memory, locals, read, disturbed>>

Find(t) ==
    /\ pc[t] = "find"
    /\ ptr' = [ptr EXCEPT ![t] = huser]
    /\ Goto(t, "read")
    /\ UNCHANGED <<unchangedByCalls, memory, seen, col, value, call, accepted, history>>

(* What a thread makes of the column it changes.                            *)
Changed(t, x) == IF t \in Sessions THEN x - fee[ptr[t]] ELSE x + sum[t]

Read(t) ==
    /\ pc[t] = "read" /\ col[t] \in Column
    /\ LET x == acct[ptr[t]][col[t]] IN
           read' = [read EXCEPT ![t] = x] /\ value' = [value EXCEPT ![t] = Changed(t, x)]
    /\ Goto(t, "store")
    /\ UNCHANGED <<unchangedByCalls, memory, ptr, seen, col, call, accepted, disturbed, quiet>>

Store(t) ==
    /\ pc[t] = "store"
    /\ acct' = [acct EXCEPT ![ptr[t]][col[t]] = value[t]]
    /\ IF ptr[t] = huser /\ acct[huser][col[t]] = read[t] THEN UNCHANGED disturbed ELSE Disturb(col[t])
    /\ value' = [value EXCEPT ![t] = 0] /\ read' = [read EXCEPT ![t] = 0]
    /\ Return(t)
    /\ UNCHANGED <<unchangedByCalls, fee, seen, accepted, quiet>>
-----------------------------------------------------------------------------
(* The commands: bm_user_balance, bm_user_credit and bm_user_fee, a         *)
(* statement and then a change in memory.  Sums are paid in, not taken out. *)

Arguments(kind) == IF kind = "fee" THEN Fees ELSE Money

BeginCommand(k) ==
    /\ pc[k] = "idle" /\ done.commands < MaxPaid
    /\ \E kind \in Commands : \E x \in Arguments(kind) :
           col' = [col EXCEPT ![k] = kind] /\ sum' = [sum EXCEPT ![k] = x]
    /\ done' = [done EXCEPT !.commands = @ + 1]
    /\ quiet' = FALSE
    /\ Goto(k, "query")
    /\ UNCHANGED <<memory, handles, ptr, seen, value, call, reload, ledger, row, read, disturbed>>

Execute(c, x) ==
    /\ db' = [b \in Column |-> IF b = c THEN db[b] + x ELSE db[b]]
    /\ dbfee' = IF c = "fee" THEN x ELSE dbfee

DisturbedBy(c) == [b \in Column |-> disturbed[b] \/ c \in {b, "fee"}]

QuerySucceeds(k) ==
    /\ pc[k] = "query" /\ Execute(col[k], sum[k])
    /\ disturbed' = IF col[k] = "fee" THEN DisturbedBy("fee") ELSE disturbed
    /\ Goto(k, "find")
    /\ UNCHANGED <<memory, handles, locals, reload, ledger, late, done, read, quiet>>

(* An error; or a timeout, and the statement has been executed all the      *)
(* same, or will be.                                                        *)
QueryFails(k) ==
    /\ pc[k] = "query"
    /\ \/ UNCHANGED <<row, disturbed>>
       \/ Execute(col[k], sum[k]) /\ disturbed' = DisturbedBy(col[k]) /\ UNCHANGED late
       \/ late' = [late EXCEPT ![[col |-> col[k], sum |-> sum[k]]] = @ + 1]
          /\ UNCHANGED <<db, dbfee, disturbed>>
    /\ Return(k)
    /\ UNCHANGED <<memory, handles, seen, sum, value, reload, ledger, done, read, quiet>>

(* A statement whose command has given up is executed in the end, whatever  *)
(* reload has met neither of them.                                          *)
LateStatement(j) ==
    /\ late[j] > 0 /\ Execute(j.col, j.sum)
    /\ late' = [late EXCEPT ![j] = @ - 1]
    /\ disturbed' = DisturbedBy(j.col) /\ quiet' = FALSE
    /\ UNCHANGED <<memory, handles, pc, locals, reload, ledger, done, read>>

ChangeFee(k) ==
    /\ pc[k] = "read" /\ col[k] = "fee"
    /\ fee' = [fee EXCEPT ![ptr[k]] = sum[k]]
    /\ Return(k)
    /\ UNCHANGED <<unchangedByCalls, acct, seen, value, accepted, history>>
-----------------------------------------------------------------------------
(* The database.  A batch is committed: each UPDATE takes the fee that the  *)
(* row has then.  A failed statement loses a deduction.                     *)

Charge(S) ==
    /\ S # {} /\ S \subseteq Pending /\ Ledger!Charge(S)
    /\ db' = [c \in Column |-> db[c] - dbfee * Cardinality(Take(S, c))]
    /\ UNCHANGED <<memory, handles, pc, locals, reload, lost, dbfee, late, done, history>>

Lose(d) ==
    /\ d \in Pending /\ Cardinality(lost) < MaxLost
    /\ lost' = lost \union {d} /\ Disturb(d.from)
    /\ UNCHANGED <<memory, handles, pc, locals, reload, accepted, charged, row, done, read, quiet>>
-----------------------------------------------------------------------------
(* The reload: blacklist_manage_user_update.  The table that is not in use  *)
(* is made anew; 60 seconds after the last reload nobody is left in it.     *)

Holding == {t \in Threads : pc[t] \in {"balance", "credit", "fee", "read", "store"}}

BeginReload ==
    /\ reload = "idle" /\ done.reloads < MaxReloads
    /\ \A t \in Holding : ptr[t] = huser
    /\ reload' = "select"
    /\ done' = [done EXCEPT !.reloads = @ + 1]
    /\ UNCHANGED <<memory, handles, pc, locals, ledger, row, history>>

(* Threads that have begun what they have not finished in memory.           *)
Unfinished == {t \in Threads : pc[t] \in {"query", "find", "read", "store"}}

(* A reload taken for quiet while deductions are still queued.              *)
LoadMutant ==
    /\ reload = "select" /\ reload' = "user" /\ quiet' = (Unfinished = {})
    /\ acct' = [acct EXCEPT ![Other(huser)] = db] /\ fee' = [fee EXCEPT ![Other(huser)] = dbfee]
    /\ UNCHANGED <<handles, pc, locals, ledger, row, done, read, disturbed>>

(* The SELECT sees what has been committed.                                 *)
Load ==
    /\ reload = "select"
    /\ acct' = [acct EXCEPT ![Other(huser)] = db] /\ fee' = [fee EXCEPT ![Other(huser)] = dbfee]
    /\ quiet' = (Pending = {} /\ Unfinished = {})
    /\ reload' = "user"
    /\ UNCHANGED <<handles, pc, locals, ledger, row, done, read, disturbed>>

LoadFails ==
    /\ reload \in {"select", "user"}
    /\ reload' = "idle"
    /\ UNCHANGED <<memory, handles, pc, locals, ledger, row, done, history>>

(* A reload that redirects one pointer and returns.                         *)
SwitchUserMutant ==
    /\ reload = "user" /\ huser' = Other(huser) /\ reload' = "idle"
    /\ disturbed' = [c \in Column |-> ~quiet]
    /\ UNCHANGED <<memory, hnum, pc, locals, ledger, row, done, read, quiet>>

SwitchUser ==
    /\ reload = "user"
    /\ huser' = Other(huser)
    /\ disturbed' = [c \in Column |-> ~quiet]
    /\ reload' = "num"
    /\ UNCHANGED <<memory, hnum, pc, locals, ledger, row, done, read, quiet>>

SwitchNum ==
    /\ reload = "num"
    /\ hnum' = huser
    /\ reload' = "idle"
    /\ UNCHANGED <<memory, huser, pc, locals, ledger, row, done, history>>
-----------------------------------------------------------------------------
(* What the account is worth once all that is queued has been charged, at   *)
(* the highest fee; the calls that are queued and not yet taken off memory; *)
(* and by how much a table in use shows more than that.                     *)
Worth(c) == db[c] - MaxFee * Cardinality(Take(Pending, c))
Unstored(c) == {s \in Sessions : pc[s] \in {"find", "read", "store"} /\ col[s] = c}
Copying(p) == \E s \in Sessions : pc[s] \in Column /\ ptr[s] = p
Excess(p, c) ==
    IF p = hnum \/ Copying(p) THEN acct[p][c] - Worth(c) - MaxFee * Cardinality(Unstored(c)) ELSE 0

Larger(a, b) == IF a < b THEN b ELSE a
Measure == over' = [c \in Column |-> Larger(over[c], Larger(Excess(1, c)', Excess(2, c)'))]

SessionStep(s) ==
    \/ BeginCall(s) \/ (\E c \in Column : Copy(s, c)) \/ Admit(s) \/ Refuse(s) \/ QueueDeduction(s)
ConsoleStep(k) == BeginCommand(k) \/ QuerySucceeds(k) \/ QueryFails(k) \/ ChangeFee(k)
ReloadStep == BeginReload \/ Load \/ LoadFails \/ SwitchUser \/ SwitchNum

Step ==
    \/ \E s \in Sessions : SessionStep(s)
    \/ \E k \in Consoles : ConsoleStep(k)
    \/ \E j \in Statement : LateStatement(j)
    \/ \E t \in Threads : Find(t) \/ Read(t) \/ Store(t)
    \/ \E S \in SUBSET Pending : Charge(S)
    \/ \E d \in Pending : Lose(d)
    \/ ReloadStep

(* No more calls come, and all there were have been charged for.           *)
Rest ==
    /\ done.calls = MaxCalls /\ Pending = {} /\ reload = "idle"
    /\ \A t \in Threads : pc[t] = "idle"
    /\ UNCHANGED <<memory, handles, pc, locals, reload, ledger, row, done, history>>

Next == (Step \/ Rest) /\ Measure

Spec == Init /\ [][Next]_vars
-----------------------------------------------------------------------------
(* Properties *)

SessionLabels == {"idle", "balance", "credit", "fee", "deduct", "find", "read", "store"}
ConsoleLabels == {"idle", "query", "find", "read", "store"}
InProgress == {"balance", "credit", "fee", "deduct", "find", "read", "store"}

(* The variables have their types; a thread holds a table, one of the two,  *)
(* exactly while it works in it, and the two pointers differ only while a   *)
(* reload redirects them (user.cpp 166-171, 501-541).                       *)
TypeOK ==
    /\ acct \in [Tables -> [Column -> Int]] /\ fee \in [Tables -> Fees]
    /\ hnum \in Tables /\ huser \in Tables /\ (hnum # huser => reload = "num")
    /\ pc \in [Threads -> SessionLabels \union ConsoleLabels]
    /\ \A s \in Sessions : pc[s] \in SessionLabels /\ (pc[s] \in InProgress => call[s] \in 1 .. MaxCalls)
    /\ \A k \in Consoles : pc[k] \in ConsoleLabels
    /\ ptr \in [Threads -> {0} \union Tables] /\ \A t \in Threads : ptr[t] # 0 <=> t \in Holding
    /\ col \in [Threads -> Column \union {"none", "fee"}]
    /\ \A s \in Sessions : pc[s] \in {"deduct", "find", "read", "store"} => col[s] \in Column
    /\ \A k \in Consoles : pc[k] # "idle" => col[k] # "none" /\ (col[k] = "fee" => pc[k] # "store" /\ sum[k] \in Fees)
    /\ seen \in [Sessions -> [Column -> Int]] /\ sum \in [Consoles -> Nat]
    /\ value \in [Threads -> Int] /\ read \in [Threads -> Int] /\ call \in [Threads -> 0 .. MaxCalls]
    /\ reload \in {"idle", "select", "user", "num"}
    /\ accepted \subseteq Deduction /\ charged \in [Deduction -> {0, 1}] /\ lost \subseteq accepted
    /\ db \in [Column -> Int] /\ dbfee \in Fees /\ late \in [Statement -> Nat]
    /\ done \in [calls : 0 .. MaxCalls, commands : 0 .. MaxPaid, reloads : 0 .. MaxReloads]
    /\ over \in [Column -> Nat] /\ disturbed \in [Column -> BOOLEAN] /\ quiet \in BOOLEAN

(* An account is never worth less than one fee for each session but one     *)
(* below zero, and by what memory once showed in excess of the database:    *)
(* calls that pass the same check together and deductions that memory has   *)
(* forgotten are the only ways to overdraw it (app.cpp 61-94, 137).         *)
OverdraftBounded ==
    \A c \in Column : Worth(c) >= MinFee - MaxFee * Cardinality(Sessions) - over[c]

(* Sums the database has and memory has not, unit by unit.                  *)
PaidNotShown(c) == {k \in Consoles : pc[k] \in {"find", "read", "store"} /\ col[k] = c}
Due(c) == UNION {{k} \X (1 .. sum[k]) : k \in PaidNotShown(c)}

(* As long as no store overwrote another one, no deduction was lost, no     *)
(* statement was executed for a command that failed, at once or later, and  *)
(* the fee stayed, memory is exactly what the database will be, whatever is *)
(* queued or under way; and a reload that meets nothing makes it so again,  *)
(* until a late statement comes (user.cpp 147-152, 534-541).                *)
BooksAgree ==
    \A c \in Column : ~disturbed[c] =>
        /\ fee[huser] = dbfee
        /\ acct[huser][c] + Cardinality(Due(c))
             = db[c] - dbfee * (Cardinality(Take(Pending, c)) - Cardinality(Unstored(c)))
=============================================================================
