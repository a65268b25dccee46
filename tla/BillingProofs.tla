---------------------------- MODULE BillingProofs ----------------------------
(***************************************************************************)
(* The overdraft of an account, for any number of sessions, consoles, fees *)
(* and sums.  A session is committed to a column from the moment its copy  *)
(* of it covers a fee until it queues the deduction.  Each of them can     *)
(* lower the worth of the account by one fee, so the invariant counts the  *)
(* worth after all of them.  After it the books: what memory, the database  *)
(* and the accepted deductions show of a column that nothing disturbed.    *)
(***************************************************************************)
EXTENDS Billing, FiniteSetTheorems, TLAPS

(* TypeOK in parts.                                                         *)
MemoryTypes ==
    /\ acct \in [Tables -> [Column -> Int]] /\ fee \in [Tables -> Fees]
    /\ hnum \in Tables /\ huser \in Tables /\ (hnum # huser => reload = "num")
    /\ reload \in {"idle", "select", "user", "num"}

ThreadTypes ==
    /\ pc \in [Threads -> SessionLabels \union ConsoleLabels]
    /\ \A s \in Sessions : pc[s] \in SessionLabels /\ (pc[s] \in InProgress => call[s] \in 1 .. MaxCalls)
    /\ \A k \in Consoles : pc[k] \in ConsoleLabels
    /\ ptr \in [Threads -> {0} \union Tables] /\ \A t \in Threads : ptr[t] # 0 <=> t \in Holding
    /\ col \in [Threads -> Column \union {"none", "fee"}]
    /\ \A s \in Sessions : pc[s] \in {"deduct", "find", "read", "store"} => col[s] \in Column
    /\ \A k \in Consoles : pc[k] # "idle" => col[k] # "none" /\ (col[k] = "fee" => pc[k] # "store" /\ sum[k] \in Fees)
    /\ call \in [Threads -> 0 .. MaxCalls]

ValueTypes ==
    /\ seen \in [Sessions -> [Column -> Int]] /\ sum \in [Consoles -> Nat]
    /\ value \in [Threads -> Int] /\ read \in [Threads -> Int]

LedgerTypes ==
    accepted \subseteq Deduction /\ IsFiniteSet(accepted) /\ charged \in [Deduction -> {0, 1}] /\ lost \subseteq accepted

RowTypes ==
    /\ db \in [Column -> Int] /\ dbfee \in Fees /\ late \in [Statement -> Nat]
    /\ done \in [calls : 0 .. MaxCalls, commands : 0 .. MaxPaid, reloads : 0 .. MaxReloads]
    /\ disturbed \in [Column -> BOOLEAN] /\ quiet \in BOOLEAN

PartsInv == MemoryTypes /\ ThreadTypes /\ ValueTypes /\ LedgerTypes /\ RowTypes

LEMMA TypeParts == TypeOK /\ IsFiniteSet(accepted) <=> PartsInv /\ over \in [Column -> Nat]
BY DEF TypeOK, PartsInv, MemoryTypes, ThreadTypes, ValueTypes, LedgerTypes, RowTypes

LEMMA KeepMemory ==
    ASSUME MemoryTypes, UNCHANGED <<memory, handles, reload>> PROVE MemoryTypes'
BY DEF MemoryTypes, memory, handles

LEMMA KeepThreads ==
    ASSUME ThreadTypes, UNCHANGED <<pc, ptr, col, call, sum>> PROVE ThreadTypes'
BY DEF ThreadTypes, Holding

LEMMA KeepValues ==
    ASSUME ValueTypes, UNCHANGED <<seen, sum, value, read>> PROVE ValueTypes'
BY DEF ValueTypes

LEMMA KeepLedger ==
    ASSUME LedgerTypes, UNCHANGED ledger PROVE LedgerTypes'
BY DEF LedgerTypes, ledger

LEMMA KeepRow ==
    ASSUME RowTypes, UNCHANGED <<row, done, disturbed, quiet>> PROVE RowTypes'
BY DEF RowTypes, row
-----------------------------------------------------------------------------
LEMMA BeginCallTypes ==
    ASSUME PartsInv, NEW s \in Sessions, BeginCall(s) PROVE PartsInv'
<1> USE DEF PartsInv
<1>1. MemoryTypes'
  BY KeepMemory DEF BeginCall, Goto, unchangedByCalls, memory, handles, locals, ledger, row, history
<1>2. ThreadTypes'
  BY FeesAssumption, MoneyAssumption, SessionsAssumption, BoundsAssumption DEF BeginCall, Goto, ThreadTypes, MemoryTypes, RowTypes, Threads, SessionLabels, ConsoleLabels, InProgress, Holding, Column, Tables, unchangedByCalls, memory, handles, locals, ledger, row, history
<1>3. ValueTypes'
  BY KeepValues DEF BeginCall, Goto, unchangedByCalls, memory, handles, locals, ledger, row, history
<1>4. LedgerTypes'
  BY KeepLedger DEF BeginCall, Goto, unchangedByCalls, memory, handles, locals, ledger, row, history
<1>5. RowTypes'
  BY FeesAssumption, MoneyAssumption, SessionsAssumption, BoundsAssumption DEF BeginCall, Goto, RowTypes, ThreadTypes, ValueTypes, LedgerTypes, Column, Execute, DisturbedBy, Take, Pending, unchangedByCalls, memory, handles, locals, ledger, row, history
<1> QED BY <1>1, <1>2, <1>3, <1>4, <1>5

LEMMA CopyTypes ==
    ASSUME PartsInv, NEW s \in Sessions, NEW c \in Column, Copy(s, c) PROVE PartsInv'
<1> USE DEF PartsInv
<1>1. MemoryTypes'
  BY KeepMemory DEF Copy, Goto, unchangedByCalls, memory, handles, locals, ledger, row, history
<1>2. ThreadTypes'
  BY FeesAssumption, MoneyAssumption, SessionsAssumption, BoundsAssumption DEF Copy, Goto, ThreadTypes, MemoryTypes, RowTypes, Threads, SessionLabels, ConsoleLabels, InProgress, Holding, Column, Tables, unchangedByCalls, memory, handles, locals, ledger, row, history
<1>3. ValueTypes'
  BY FeesAssumption, MoneyAssumption, SessionsAssumption, BoundsAssumption DEF Copy, Goto, ValueTypes, MemoryTypes, ThreadTypes, Threads, Holding, NoCopy, Column, Tables, Changed, unchangedByCalls, memory, handles, locals, ledger, row, history
<1>4. LedgerTypes'
  BY KeepLedger DEF Copy, Goto, unchangedByCalls, memory, handles, locals, ledger, row, history
<1>5. RowTypes'
  BY KeepRow DEF Copy, Goto, unchangedByCalls, memory, handles, locals, ledger, row, history
<1> QED BY <1>1, <1>2, <1>3, <1>4, <1>5

LEMMA AdmitTypes ==
    ASSUME PartsInv, NEW s \in Sessions, Admit(s) PROVE PartsInv'
<1> USE DEF PartsInv
<1>1. MemoryTypes'
  BY KeepMemory DEF Admit, Goto, unchangedByCalls, memory, handles, locals, ledger, row, history
<1>2. ThreadTypes'
  BY FeesAssumption, MoneyAssumption, SessionsAssumption, BoundsAssumption DEF Admit, Goto, ThreadTypes, MemoryTypes, RowTypes, Threads, SessionLabels, ConsoleLabels, InProgress, Holding, Column, Tables, unchangedByCalls, memory, handles, locals, ledger, row, history
<1>3. ValueTypes'
  BY FeesAssumption, MoneyAssumption, SessionsAssumption, BoundsAssumption DEF Admit, Goto, ValueTypes, MemoryTypes, ThreadTypes, Threads, Holding, NoCopy, Column, Tables, Changed, unchangedByCalls, memory, handles, locals, ledger, row, history
<1>4. LedgerTypes'
  BY KeepLedger DEF Admit, Goto, unchangedByCalls, memory, handles, locals, ledger, row, history
<1>5. RowTypes'
  BY KeepRow DEF Admit, Goto, unchangedByCalls, memory, handles, locals, ledger, row, history
<1> QED BY <1>1, <1>2, <1>3, <1>4, <1>5

LEMMA RefuseTypes ==
    ASSUME PartsInv, NEW s \in Sessions, Refuse(s) PROVE PartsInv'
<1> USE DEF PartsInv
<1>1. MemoryTypes'
  BY KeepMemory DEF Refuse, Return, Goto, unchangedByCalls, memory, handles, locals, ledger, row, history
<1>2. ThreadTypes'
  BY FeesAssumption, MoneyAssumption, SessionsAssumption, BoundsAssumption DEF Refuse, Return, Goto, ThreadTypes, MemoryTypes, RowTypes, Threads, SessionLabels, ConsoleLabels, InProgress, Holding, Column, Tables, unchangedByCalls, memory, handles, locals, ledger, row, history
<1>3. ValueTypes'
  BY FeesAssumption, MoneyAssumption, SessionsAssumption, BoundsAssumption DEF Refuse, Return, Goto, ValueTypes, MemoryTypes, ThreadTypes, Threads, Holding, NoCopy, Column, Tables, Changed, unchangedByCalls, memory, handles, locals, ledger, row, history
<1>4. LedgerTypes'
  BY KeepLedger DEF Refuse, Return, Goto, unchangedByCalls, memory, handles, locals, ledger, row, history
<1>5. RowTypes'
  BY KeepRow DEF Refuse, Return, Goto, unchangedByCalls, memory, handles, locals, ledger, row, history
<1> QED BY <1>1, <1>2, <1>3, <1>4, <1>5

LEMMA QueueDeductionTypes ==
    ASSUME PartsInv, NEW s \in Sessions, QueueDeduction(s) PROVE PartsInv'
<1> USE DEF PartsInv
<1>1. MemoryTypes'
  BY KeepMemory DEF QueueDeduction, Goto, Ledger!Accept, unchangedByCalls, memory, handles, locals, ledger, row, history
<1>2. ThreadTypes'
  BY FeesAssumption, MoneyAssumption, SessionsAssumption, BoundsAssumption DEF QueueDeduction, Goto, Ledger!Accept, ThreadTypes, MemoryTypes, RowTypes, Threads, SessionLabels, ConsoleLabels, InProgress, Holding, Column, Tables, unchangedByCalls, memory, handles, locals, ledger, row, history
<1>3. ValueTypes'
  BY KeepValues DEF QueueDeduction, Goto, Ledger!Accept, unchangedByCalls, memory, handles, locals, ledger, row, history
<1>4. LedgerTypes'
  <2>1. /\ accepted' = accepted \union {[call |-> call[s], from |-> col[s]]}
        /\ UNCHANGED <<charged, lost>>
    BY DEF QueueDeduction, Ledger!Accept
  <2>2. [call |-> call[s], from |-> col[s]] \in Deduction
    BY DEF QueueDeduction, ThreadTypes, Deduction, InProgress
  <2>3. IsFiniteSet(accepted')
    BY <2>1, FS_AddElement DEF LedgerTypes
  <2> QED BY <2>1, <2>2, <2>3 DEF LedgerTypes
<1>5. RowTypes'
  BY FeesAssumption, MoneyAssumption, SessionsAssumption, BoundsAssumption DEF QueueDeduction, Goto, Ledger!Accept, RowTypes, ThreadTypes, ValueTypes, LedgerTypes, Column, Execute, DisturbedBy, Take, Pending, unchangedByCalls, memory, handles, locals, ledger, row, history
<1> QED BY <1>1, <1>2, <1>3, <1>4, <1>5

LEMMA BeginCommandTypes ==
    ASSUME PartsInv, NEW k \in Consoles, BeginCommand(k) PROVE PartsInv'
<1> USE DEF PartsInv
<1>1. MemoryTypes'
  BY KeepMemory DEF BeginCommand, Goto, unchangedByCalls, memory, handles, locals, ledger, row, history
<1>2. ThreadTypes'
  <2>0. PICK kind \in Commands : \E x \in Arguments(kind) :
            col' = [col EXCEPT ![k] = kind] /\ sum' = [sum EXCEPT ![k] = x]
    BY DEF BeginCommand
  <2>1. PICK x \in Arguments(kind) : col' = [col EXCEPT ![k] = kind] /\ sum' = [sum EXCEPT ![k] = x]
    BY <2>0
  <2>2. kind \in Column \union {"fee"} /\ (kind = "fee" => x \in Fees)
    BY MoneyAssumption DEF Arguments, Column
  <2>3. pc' = [pc EXCEPT ![k] = "query"] /\ pc[k] = "idle" /\ UNCHANGED <<ptr, call>>
    BY DEF BeginCommand, Goto, locals
  <2>4. Holding' = Holding
    BY <2>3 DEF Holding, ThreadTypes, Threads
  <2> QED BY <2>1, <2>2, <2>3, <2>4, SessionsAssumption
          DEF ThreadTypes, ValueTypes, Threads, SessionLabels, ConsoleLabels, InProgress, Column
<1>3. ValueTypes'
  <2>0. PICK kind \in Commands : \E x \in Arguments(kind) : sum' = [sum EXCEPT ![k] = x]
    BY DEF BeginCommand
  <2>1. PICK x \in Arguments(kind) : sum' = [sum EXCEPT ![k] = x]
    BY <2>0
  <2>2. x \in Nat
    BY <2>1, FeesAssumption, MoneyAssumption DEF Arguments
  <2> QED BY <2>1, <2>2 DEF BeginCommand, ValueTypes
<1>4. LedgerTypes'
  BY KeepLedger DEF BeginCommand, Goto, unchangedByCalls, memory, handles, locals, ledger, row, history
<1>5. RowTypes'
  <2>1. done' = [done EXCEPT !.commands = @ + 1] /\ done.commands < MaxPaid /\ quiet' = FALSE
        /\ UNCHANGED <<row, disturbed>>
    BY DEF BeginCommand
  <2>2. done' \in [calls : 0 .. MaxCalls, commands : 0 .. MaxPaid, reloads : 0 .. MaxReloads]
    BY <2>1, BoundsAssumption DEF RowTypes
  <2> QED BY <2>1, <2>2 DEF RowTypes, row
<1> QED BY <1>1, <1>2, <1>3, <1>4, <1>5

LEMMA ExecuteTypes ==
    ASSUME RowTypes, NEW c, NEW x \in Nat, Execute(c, x), c = "fee" => x \in Fees
    PROVE  db' \in [Column -> Int] /\ dbfee' \in Fees /\ \A b \in Column : db'[b] >= db[b]
BY DEF Execute, RowTypes

LEMMA CommandExecutes ==
    ASSUME PartsInv, NEW k \in Consoles, pc[k] = "query", Execute(col[k], sum[k])
    PROVE  db' \in [Column -> Int] /\ dbfee' \in Fees /\ \A b \in Column : db'[b] >= db[b]
<1>1. sum[k] \in Nat /\ (col[k] = "fee" => sum[k] \in Fees) /\ RowTypes
  BY DEF PartsInv, ValueTypes, ThreadTypes
<1> QED BY <1>1, ExecuteTypes

LEMMA QuerySucceedsTypes ==
    ASSUME PartsInv, NEW k \in Consoles, QuerySucceeds(k) PROVE PartsInv'
<1> USE DEF PartsInv
<1>1. MemoryTypes'
  BY KeepMemory DEF QuerySucceeds, Goto, unchangedByCalls, memory, handles, locals, ledger, row, history
<1>2. ThreadTypes'
  BY FeesAssumption, MoneyAssumption, SessionsAssumption, BoundsAssumption DEF QuerySucceeds, Goto, ThreadTypes, MemoryTypes, RowTypes, Threads, SessionLabels, ConsoleLabels, InProgress, Holding, Column, Tables, unchangedByCalls, memory, handles, locals, ledger, row, history
<1>3. ValueTypes'
  BY KeepValues DEF QuerySucceeds, Goto, unchangedByCalls, memory, handles, locals, ledger, row, history
<1>4. LedgerTypes'
  BY KeepLedger DEF QuerySucceeds, Goto, unchangedByCalls, memory, handles, locals, ledger, row, history
<1>5. RowTypes'
  <2>1. Execute(col[k], sum[k]) /\ pc[k] = "query" /\ UNCHANGED <<late, done, quiet>>
        /\ disturbed' = IF col[k] = "fee" THEN DisturbedBy("fee") ELSE disturbed
    BY DEF QuerySucceeds
  <2>2. db' \in [Column -> Int] /\ dbfee' \in Fees
    BY <2>1, CommandExecutes
  <2>3. disturbed' \in [Column -> BOOLEAN]
    BY <2>1, Zenon DEF DisturbedBy, RowTypes
  <2> QED BY <2>1, <2>2, <2>3 DEF RowTypes
<1> QED BY <1>1, <1>2, <1>3, <1>4, <1>5

LEMMA StatementTypes ==
    ASSUME NEW j \in Statement PROVE j.sum \in Nat /\ (j.col = "fee" => j.sum \in Fees)
BY FeesAssumption, MoneyAssumption DEF Statement

LEMMA OneMoreTypes ==
    ASSUME NEW S, NEW f \in [S -> Nat], NEW j PROVE [f EXCEPT ![j] = @ + 1] \in [S -> Nat]
<1>1. ASSUME NEW i \in S PROVE [f EXCEPT ![j] = @ + 1][i] \in Nat
  <2>1. f[i] \in Nat /\ f[i] + 1 \in Nat
    OBVIOUS
  <2> QED BY <2>1, Zenon
<1> QED BY <1>1, Zenon

LEMMA QueryFailsTypes ==
    ASSUME PartsInv, NEW k \in Consoles, QueryFails(k) PROVE PartsInv'
<1> USE DEF PartsInv
<1>1. MemoryTypes'
  BY KeepMemory DEF QueryFails, Return, Goto, unchangedByCalls, memory, handles, locals, ledger, row, history
<1>2. ThreadTypes'
  BY FeesAssumption, MoneyAssumption, SessionsAssumption, BoundsAssumption DEF QueryFails, Return, Goto, ThreadTypes, MemoryTypes, RowTypes, Threads, SessionLabels, ConsoleLabels, InProgress, Holding, Column, Tables, unchangedByCalls, memory, handles, locals, ledger, row, history
<1>3. ValueTypes'
  BY KeepValues DEF QueryFails, Return, Goto, unchangedByCalls, memory, handles, locals, ledger, row, history
<1>4. LedgerTypes'
  BY KeepLedger DEF QueryFails, Return, Goto, unchangedByCalls, memory, handles, locals, ledger, row, history
<1>5. RowTypes'
  <2>1. CASE UNCHANGED <<row, disturbed>>
    BY <2>1, KeepRow DEF QueryFails
  <2>2. CASE Execute(col[k], sum[k]) /\ disturbed' = DisturbedBy(col[k]) /\ UNCHANGED late
    <3>1. pc[k] = "query" /\ UNCHANGED <<done, quiet>>
      BY DEF QueryFails
    <3>2. db' \in [Column -> Int] /\ dbfee' \in Fees
      BY <2>2, <3>1, CommandExecutes
    <3>3. disturbed' \in [Column -> BOOLEAN]
      BY <2>2, Zenon DEF DisturbedBy, RowTypes
    <3> QED BY <2>2, <3>1, <3>2, <3>3 DEF RowTypes
  <2>3. CASE /\ late' = [late EXCEPT ![[col |-> col[k], sum |-> sum[k]]] = @ + 1]
             /\ UNCHANGED <<db, dbfee, disturbed>>
    <3>1. UNCHANGED <<done, quiet>>
      BY DEF QueryFails
    <3>2. late' \in [Statement -> Nat]
      BY <2>3, OneMoreTypes DEF RowTypes
    <3> QED BY <2>3, <3>1, <3>2 DEF RowTypes
  <2> QED BY <2>1, <2>2, <2>3 DEF QueryFails
<1> QED BY <1>1, <1>2, <1>3, <1>4, <1>5

LEMMA LateStatementTypes ==
    ASSUME PartsInv, NEW j \in Statement, LateStatement(j) PROVE PartsInv'
<1> USE DEF PartsInv
<1>1. MemoryTypes' /\ ThreadTypes' /\ ValueTypes' /\ LedgerTypes'
  BY KeepMemory, KeepThreads, KeepValues, KeepLedger DEF LateStatement, memory, locals, handles
<1>2. RowTypes'
  <2>1. /\ Execute(j.col, j.sum) /\ late[j] > 0 /\ late' = [late EXCEPT ![j] = @ - 1]
        /\ disturbed' = DisturbedBy(j.col) /\ quiet' = FALSE /\ UNCHANGED done
    BY DEF LateStatement
  <2>2. db' \in [Column -> Int] /\ dbfee' \in Fees
    BY <2>1, StatementTypes, ExecuteTypes
  <2>3. disturbed' \in [Column -> BOOLEAN] /\ quiet' \in BOOLEAN
    BY <2>1, Zenon DEF DisturbedBy, RowTypes
  <2>4. late' \in [Statement -> Nat]
    BY <2>1 DEF RowTypes
  <2> QED BY <2>1, <2>2, <2>3, <2>4 DEF RowTypes
<1> QED BY <1>1, <1>2

LEMMA ChangeFeeTypes ==
    ASSUME PartsInv, NEW k \in Consoles, ChangeFee(k) PROVE PartsInv'
<1> USE DEF PartsInv
<1>1. MemoryTypes'
  BY FeesAssumption, MoneyAssumption, SessionsAssumption, BoundsAssumption DEF ChangeFee, Return, Goto, MemoryTypes, ThreadTypes, ValueTypes, RowTypes, Tables, Column, Other, Holding, Threads, unchangedByCalls, memory, handles, locals, ledger, row, history
<1>2. ThreadTypes'
  BY FeesAssumption, MoneyAssumption, SessionsAssumption, BoundsAssumption DEF ChangeFee, Return, Goto, ThreadTypes, MemoryTypes, RowTypes, Threads, SessionLabels, ConsoleLabels, InProgress, Holding, Column, Tables, unchangedByCalls, memory, handles, locals, ledger, row, history
<1>3. ValueTypes'
  BY KeepValues DEF ChangeFee, Return, Goto, unchangedByCalls, memory, handles, locals, ledger, row, history
<1>4. LedgerTypes'
  BY KeepLedger DEF ChangeFee, Return, Goto, unchangedByCalls, memory, handles, locals, ledger, row, history
<1>5. RowTypes'
  BY KeepRow DEF ChangeFee, Return, Goto, unchangedByCalls, memory, handles, locals, ledger, row, history
<1> QED BY <1>1, <1>2, <1>3, <1>4, <1>5

LEMMA FindTypes ==
    ASSUME PartsInv, NEW t \in Threads, Find(t) PROVE PartsInv'
<1> USE DEF PartsInv
<1>1. MemoryTypes'
  BY KeepMemory DEF Find, Goto, unchangedByCalls, memory, handles, locals, ledger, row, history
<1>2. ThreadTypes'
  BY FeesAssumption, MoneyAssumption, SessionsAssumption, BoundsAssumption DEF Find, Goto, ThreadTypes, MemoryTypes, RowTypes, Threads, SessionLabels, ConsoleLabels, InProgress, Holding, Column, Tables, unchangedByCalls, memory, handles, locals, ledger, row, history
<1>3. ValueTypes'
  BY KeepValues DEF Find, Goto, unchangedByCalls, memory, handles, locals, ledger, row, history
<1>4. LedgerTypes'
  BY KeepLedger DEF Find, Goto, unchangedByCalls, memory, handles, locals, ledger, row, history
<1>5. RowTypes'
  BY KeepRow DEF Find, Goto, unchangedByCalls, memory, handles, locals, ledger, row, history
<1> QED BY <1>1, <1>2, <1>3, <1>4, <1>5

LEMMA ReadTypes ==
    ASSUME PartsInv, NEW t \in Threads, Read(t) PROVE PartsInv'
<1> USE DEF PartsInv
<1>1. MemoryTypes'
  BY KeepMemory DEF Read, Goto, unchangedByCalls, memory, handles, locals, ledger, row, history
<1>2. ThreadTypes'
  BY FeesAssumption, MoneyAssumption, SessionsAssumption, BoundsAssumption DEF Read, Goto, ThreadTypes, MemoryTypes, RowTypes, Threads, SessionLabels, ConsoleLabels, InProgress, Holding, Column, Tables, unchangedByCalls, memory, handles, locals, ledger, row, history
<1>3. ValueTypes'
  <2>1. ptr[t] \in Tables /\ col[t] \in Column
    BY DEF Read, ThreadTypes, Holding, Tables
  <2>4. Fees \subseteq Int
    BY FeesAssumption
  <2>2. acct[ptr[t]][col[t]] \in Int /\ fee[ptr[t]] \in Int
    BY <2>1, <2>4 DEF MemoryTypes
  <2>3. Changed(t, acct[ptr[t]][col[t]]) \in Int
    BY <2>2 DEF Changed, ValueTypes, Threads
  <2> QED BY <2>2, <2>3 DEF Read, ValueTypes, unchangedByCalls
<1>4. LedgerTypes'
  BY KeepLedger DEF Read, Goto, unchangedByCalls, memory, handles, locals, ledger, row, history
<1>5. RowTypes'
  BY KeepRow DEF Read, Goto, unchangedByCalls, memory, handles, locals, ledger, row, history
<1> QED BY <1>1, <1>2, <1>3, <1>4, <1>5

LEMMA StoreTypes ==
    ASSUME PartsInv, NEW t \in Threads, Store(t) PROVE PartsInv'
<1> USE DEF PartsInv
<1>1. MemoryTypes'
  BY FeesAssumption, MoneyAssumption, SessionsAssumption, BoundsAssumption DEF Store, Return, Goto, Disturb, MemoryTypes, ThreadTypes, ValueTypes, RowTypes, Tables, Column, Other, Holding, Threads, unchangedByCalls, memory, handles, locals, ledger, row, history
<1>2. ThreadTypes'
  BY FeesAssumption, MoneyAssumption, SessionsAssumption, BoundsAssumption DEF Store, Return, Goto, Disturb, ThreadTypes, MemoryTypes, RowTypes, Threads, SessionLabels, ConsoleLabels, InProgress, Holding, Column, Tables, unchangedByCalls, memory, handles, locals, ledger, row, history
<1>3. ValueTypes'
  BY FeesAssumption, MoneyAssumption, SessionsAssumption, BoundsAssumption DEF Store, Return, Goto, Disturb, ValueTypes, MemoryTypes, ThreadTypes, Threads, Holding, NoCopy, Column, Tables, Changed, unchangedByCalls, memory, handles, locals, ledger, row, history
<1>4. LedgerTypes'
  BY KeepLedger DEF Store, Return, Goto, Disturb, unchangedByCalls, memory, handles, locals, ledger, row, history
<1>5. RowTypes'
  <2>1. UNCHANGED <<row, done, quiet>> /\ (UNCHANGED disturbed \/ disturbed' = [disturbed EXCEPT ![col[t]] = TRUE])
    BY DEF Store, Disturb, unchangedByCalls
  <2> QED BY <2>1 DEF RowTypes, row
<1> QED BY <1>1, <1>2, <1>3, <1>4, <1>5

LEMMA ChargeTypes ==
    ASSUME PartsInv, NEW S \in SUBSET Pending, Charge(S) PROVE PartsInv'
<1> USE DEF PartsInv
<1>1. MemoryTypes'
  BY KeepMemory DEF Charge, Ledger!Charge, unchangedByCalls, memory, handles, locals, ledger, row, history
<1>2. ThreadTypes'
  BY KeepThreads DEF Charge, Ledger!Charge, unchangedByCalls, memory, handles, locals, ledger, row, history
<1>3. ValueTypes'
  BY KeepValues DEF Charge, Ledger!Charge, unchangedByCalls, memory, handles, locals, ledger, row, history
<1>4. LedgerTypes'
  BY FeesAssumption, MoneyAssumption, SessionsAssumption, BoundsAssumption DEF Charge, Ledger!Charge, LedgerTypes, ThreadTypes, Deduction, InProgress, Column, Pending, SessionLabels, unchangedByCalls, memory, handles, locals, ledger, row, history
<1>5. RowTypes'
  <2>1. db' = [c \in Column |-> db[c] - dbfee * Cardinality(Take(S, c))] /\ UNCHANGED <<dbfee, late, done, disturbed, quiet>>
    BY DEF Charge, history
  <2>2. \A c \in Column : Cardinality(Take(S, c)) \in Nat
    BY FS_Subset, FS_CardinalityType DEF LedgerTypes, Pending, Take
  <2>3. db' \in [Column -> Int]
    BY <2>1, <2>2, FeesAssumption DEF RowTypes
  <2> QED BY <2>1, <2>3 DEF RowTypes
<1> QED BY <1>1, <1>2, <1>3, <1>4, <1>5

LEMMA LoseTypes ==
    ASSUME PartsInv, NEW d \in Pending, Lose(d) PROVE PartsInv'
<1> USE DEF PartsInv
<1>1. MemoryTypes'
  BY KeepMemory DEF Lose, Disturb, unchangedByCalls, memory, handles, locals, ledger, row, history
<1>2. ThreadTypes'
  BY KeepThreads DEF Lose, Disturb, unchangedByCalls, memory, handles, locals, ledger, row, history
<1>3. ValueTypes'
  BY KeepValues DEF Lose, Disturb, unchangedByCalls, memory, handles, locals, ledger, row, history
<1>4. LedgerTypes'
  BY FeesAssumption, MoneyAssumption, SessionsAssumption, BoundsAssumption DEF Lose, Disturb, LedgerTypes, ThreadTypes, Deduction, InProgress, Column, Pending, SessionLabels, unchangedByCalls, memory, handles, locals, ledger, row, history
<1>5. RowTypes'
  BY FeesAssumption, MoneyAssumption, SessionsAssumption, BoundsAssumption DEF Lose, Disturb, RowTypes, ThreadTypes, ValueTypes, LedgerTypes, Column, Execute, DisturbedBy, Take, Pending, unchangedByCalls, memory, handles, locals, ledger, row, history
<1> QED BY <1>1, <1>2, <1>3, <1>4, <1>5

LEMMA BeginReloadTypes ==
    ASSUME PartsInv, BeginReload PROVE PartsInv'
<1> USE DEF PartsInv
<1>1. MemoryTypes'
  BY FeesAssumption, MoneyAssumption, SessionsAssumption, BoundsAssumption DEF BeginReload, MemoryTypes, ThreadTypes, ValueTypes, RowTypes, Tables, Column, Other, Holding, Threads, unchangedByCalls, memory, handles, locals, ledger, row, history
<1>2. ThreadTypes'
  BY KeepThreads DEF BeginReload, unchangedByCalls, memory, handles, locals, ledger, row, history
<1>3. ValueTypes'
  BY KeepValues DEF BeginReload, unchangedByCalls, memory, handles, locals, ledger, row, history
<1>4. LedgerTypes'
  BY KeepLedger DEF BeginReload, unchangedByCalls, memory, handles, locals, ledger, row, history
<1>5. RowTypes'
  BY FeesAssumption, MoneyAssumption, SessionsAssumption, BoundsAssumption DEF BeginReload, RowTypes, ThreadTypes, ValueTypes, LedgerTypes, Column, Execute, DisturbedBy, Take, Pending, unchangedByCalls, memory, handles, locals, ledger, row, history
<1> QED BY <1>1, <1>2, <1>3, <1>4, <1>5

LEMMA LoadTypes ==
    ASSUME PartsInv, Load PROVE PartsInv'
<1> USE DEF PartsInv
<1>1. MemoryTypes'
  BY FeesAssumption, MoneyAssumption, SessionsAssumption, BoundsAssumption DEF Load, MemoryTypes, ThreadTypes, ValueTypes, RowTypes, Tables, Column, Other, Holding, Threads, unchangedByCalls, memory, handles, locals, ledger, row, history
<1>2. ThreadTypes'
  BY KeepThreads DEF Load, unchangedByCalls, memory, handles, locals, ledger, row, history
<1>3. ValueTypes'
  BY KeepValues DEF Load, unchangedByCalls, memory, handles, locals, ledger, row, history
<1>4. LedgerTypes'
  BY KeepLedger DEF Load, unchangedByCalls, memory, handles, locals, ledger, row, history
<1>5. RowTypes'
  BY FeesAssumption, MoneyAssumption, SessionsAssumption, BoundsAssumption DEF Load, RowTypes, ThreadTypes, ValueTypes, LedgerTypes, Column, Execute, DisturbedBy, Take, Pending, unchangedByCalls, memory, handles, locals, ledger, row, history
<1> QED BY <1>1, <1>2, <1>3, <1>4, <1>5

LEMMA LoadFailsTypes ==
    ASSUME PartsInv, LoadFails PROVE PartsInv'
<1> USE DEF PartsInv
<1>1. MemoryTypes'
  BY FeesAssumption, MoneyAssumption, SessionsAssumption, BoundsAssumption DEF LoadFails, MemoryTypes, ThreadTypes, ValueTypes, RowTypes, Tables, Column, Other, Holding, Threads, unchangedByCalls, memory, handles, locals, ledger, row, history
<1>2. ThreadTypes'
  BY KeepThreads DEF LoadFails, unchangedByCalls, memory, handles, locals, ledger, row, history
<1>3. ValueTypes'
  BY KeepValues DEF LoadFails, unchangedByCalls, memory, handles, locals, ledger, row, history
<1>4. LedgerTypes'
  BY KeepLedger DEF LoadFails, unchangedByCalls, memory, handles, locals, ledger, row, history
<1>5. RowTypes'
  BY KeepRow DEF LoadFails, unchangedByCalls, memory, handles, locals, ledger, row, history
<1> QED BY <1>1, <1>2, <1>3, <1>4, <1>5

LEMMA SwitchUserTypes ==
    ASSUME PartsInv, SwitchUser PROVE PartsInv'
<1> USE DEF PartsInv
<1>1. MemoryTypes'
  BY FeesAssumption, MoneyAssumption, SessionsAssumption, BoundsAssumption DEF SwitchUser, MemoryTypes, ThreadTypes, ValueTypes, RowTypes, Tables, Column, Other, Holding, Threads, unchangedByCalls, memory, handles, locals, ledger, row, history
<1>2. ThreadTypes'
  BY KeepThreads DEF SwitchUser, unchangedByCalls, memory, handles, locals, ledger, row, history
<1>3. ValueTypes'
  BY KeepValues DEF SwitchUser, unchangedByCalls, memory, handles, locals, ledger, row, history
<1>4. LedgerTypes'
  BY KeepLedger DEF SwitchUser, unchangedByCalls, memory, handles, locals, ledger, row, history
<1>5. RowTypes'
  BY FeesAssumption, MoneyAssumption, SessionsAssumption, BoundsAssumption DEF SwitchUser, RowTypes, ThreadTypes, ValueTypes, LedgerTypes, Column, Execute, DisturbedBy, Take, Pending, unchangedByCalls, memory, handles, locals, ledger, row, history
<1> QED BY <1>1, <1>2, <1>3, <1>4, <1>5

LEMMA SwitchNumTypes ==
    ASSUME PartsInv, SwitchNum PROVE PartsInv'
<1> USE DEF PartsInv
<1>1. MemoryTypes'
  BY FeesAssumption, MoneyAssumption, SessionsAssumption, BoundsAssumption DEF SwitchNum, MemoryTypes, ThreadTypes, ValueTypes, RowTypes, Tables, Column, Other, Holding, Threads, unchangedByCalls, memory, handles, locals, ledger, row, history
<1>2. ThreadTypes'
  BY KeepThreads DEF SwitchNum, unchangedByCalls, memory, handles, locals, ledger, row, history
<1>3. ValueTypes'
  BY KeepValues DEF SwitchNum, unchangedByCalls, memory, handles, locals, ledger, row, history
<1>4. LedgerTypes'
  BY KeepLedger DEF SwitchNum, unchangedByCalls, memory, handles, locals, ledger, row, history
<1>5. RowTypes'
  BY KeepRow DEF SwitchNum, unchangedByCalls, memory, handles, locals, ledger, row, history
<1> QED BY <1>1, <1>2, <1>3, <1>4, <1>5

LEMMA RestTypes ==
    ASSUME PartsInv, Rest PROVE PartsInv'
<1> USE DEF PartsInv
<1>1. MemoryTypes'
  BY KeepMemory DEF Rest, unchangedByCalls, memory, handles, locals, ledger, row, history
<1>2. ThreadTypes'
  BY KeepThreads DEF Rest, unchangedByCalls, memory, handles, locals, ledger, row, history
<1>3. ValueTypes'
  BY KeepValues DEF Rest, unchangedByCalls, memory, handles, locals, ledger, row, history
<1>4. LedgerTypes'
  BY KeepLedger DEF Rest, unchangedByCalls, memory, handles, locals, ledger, row, history
<1>5. RowTypes'
  BY KeepRow DEF Rest, unchangedByCalls, memory, handles, locals, ledger, row, history
<1> QED BY <1>1, <1>2, <1>3, <1>4, <1>5

LEMMA StepTypes ==
    ASSUME PartsInv, Step \/ Rest PROVE PartsInv'
<1>1. ASSUME NEW s \in Sessions, SessionStep(s) PROVE PartsInv'
  BY <1>1, BeginCallTypes, CopyTypes, AdmitTypes, RefuseTypes, QueueDeductionTypes DEF SessionStep
<1>2. ASSUME NEW k \in Consoles, ConsoleStep(k) PROVE PartsInv'
  BY <1>2, BeginCommandTypes, QuerySucceedsTypes, QueryFailsTypes, ChangeFeeTypes DEF ConsoleStep
<1>3. ASSUME NEW t \in Threads, Find(t) \/ Read(t) \/ Store(t) PROVE PartsInv'
  BY <1>3, FindTypes, ReadTypes, StoreTypes
<1>4. ASSUME ReloadStep PROVE PartsInv'
  BY <1>4, BeginReloadTypes, LoadTypes, LoadFailsTypes, SwitchUserTypes, SwitchNumTypes DEF ReloadStep
<1> QED BY <1>1, <1>2, <1>3, <1>4, LateStatementTypes, ChargeTypes, LoseTypes, RestTypes DEF Step
-----------------------------------------------------------------------------
(* Arithmetic of fees.                                                      *)

LEMMA TimesMonotone ==
    ASSUME NEW m \in Nat, NEW a \in Nat, NEW b \in Nat, a <= b PROVE m * a <= m * b
<1>1. m * b = m * a + m * (b - a)
  OBVIOUS
<1>2. m * (b - a) >= 0 /\ m * a \in Int /\ m * b \in Int
  OBVIOUS
<1> QED BY <1>1, <1>2

LEMMA TimesSum ==
    ASSUME NEW m \in Nat, NEW a \in Int, NEW b \in Int
    PROVE  m * (a + b) = m * a + m * b /\ m * a \in Int /\ m * b \in Int
OBVIOUS

(* A session is committed to a column once its copy of it covers a fee, or  *)
(* once the check has chosen it.                                            *)
CommittedTo(s, c) ==
    \/ pc[s] = "credit" /\ c = "balance" /\ seen[s][c] >= MinFee
    \/ pc[s] = "fee" /\ seen[s][c] >= MinFee
    \/ pc[s] = "deduct" /\ col[s] = c
Committed(c) == {s \in Sessions : CommittedTo(s, c)}

Covered(c) ==
    Worth(c) - MaxFee * Cardinality(Committed(c)) >= MinFee - MaxFee * Cardinality(Sessions) - over[c]

BillInv ==
    /\ PartsInv /\ over \in [Column -> Nat]
    /\ \A p \in Tables : \A c \in Column : Excess(p, c) <= over[c]
    /\ \A c \in Column : Covered(c)

LEMMA SessionCounts ==
    ASSUME NEW S \in SUBSET Sessions
    PROVE  /\ IsFiniteSet(S) /\ Cardinality(S) \in Nat
           /\ Cardinality(Sessions) \in Nat /\ Cardinality(S) <= Cardinality(Sessions)
BY SessionsAssumption, FS_Subset, FS_CardinalityType

LEMMA DisjointCounts ==
    ASSUME NEW S \in SUBSET Sessions, NEW T \in SUBSET Sessions, S \cap T = {}
    PROVE  Cardinality(S) + Cardinality(T) <= Cardinality(Sessions)
<1>1. Cardinality(S \union T) = Cardinality(S) + Cardinality(T) - Cardinality({})
  BY SessionCounts, FS_Union
<1>2. Cardinality({}) = 0
  BY FS_EmptySet
<1> QED BY <1>1, <1>2, SessionCounts

LEMMA TakeCounts ==
    ASSUME NEW F, IsFiniteSet(F), NEW P \in SUBSET F, NEW c
    PROVE  IsFiniteSet(Take(P, c)) /\ Cardinality(Take(P, c)) \in Nat
<1>1. Take(P, c) \subseteq F
  BY DEF Take
<1> QED BY <1>1, FS_Subset, FS_CardinalityType

LEMMA PendingCounts ==
    ASSUME PartsInv, NEW c \in Column
    PROVE  /\ IsFiniteSet(Take(Pending, c)) /\ Cardinality(Take(Pending, c)) \in Nat
           /\ Worth(c) \in Int
<1>1. Pending \in SUBSET accepted /\ IsFiniteSet(accepted) /\ db[c] \in Int
  BY DEF PartsInv, LedgerTypes, RowTypes, Pending
<1>2. IsFiniteSet(Take(Pending, c)) /\ Cardinality(Take(Pending, c)) \in Nat
  BY <1>1, TakeCounts
<1> QED BY <1>1, <1>2, FeesAssumption DEF Worth

LEMMA PendingCountsAfter ==
    ASSUME PartsInv', NEW c \in Column
    PROVE  /\ IsFiniteSet(Take(Pending', c)) /\ Cardinality(Take(Pending', c)) \in Nat
           /\ Worth(c)' \in Int
<1>1. Pending' \in SUBSET accepted' /\ IsFiniteSet(accepted') /\ db'[c] \in Int
  BY DEF PartsInv, LedgerTypes, RowTypes, Pending
<1>2. IsFiniteSet(Take(Pending', c)) /\ Cardinality(Take(Pending', c)) \in Nat
  BY <1>1, TakeCounts
<1> QED BY <1>1, <1>2, FeesAssumption DEF Worth

(* The history variable only grows, and covers every table.                 *)
LEMMA MeasureStep ==
    ASSUME PartsInv', over \in [Column -> Nat], Measure
    PROVE  /\ over' \in [Column -> Nat]
           /\ \A c \in Column : over'[c] >= over[c]
           /\ \A p \in Tables : \A c \in Column : Excess(p, c)' <= over'[c]
<1>1. ASSUME NEW p \in Tables, NEW c \in Column PROVE Excess(p, c)' \in Int
  <2>1. Worth(c)' \in Int /\ acct'[p][c] \in Int
    BY PendingCountsAfter DEF PartsInv, MemoryTypes
  <2>2. Unstored(c)' \in SUBSET Sessions
    BY DEF Unstored
  <2>3. Cardinality(Unstored(c)') \in Nat
    BY <2>2, SessionCounts
  <2>4. MaxFee * Cardinality(Unstored(c)') \in Int
    BY <2>3, FeesAssumption
  <2> QED BY <2>1, <2>4 DEF Excess
<1>2. ASSUME NEW c \in Column
      PROVE  /\ over'[c] \in Nat /\ over'[c] >= over[c]
             /\ \A p \in Tables : Excess(p, c)' <= over'[c]
  <2>1. over'[c] = Larger(over[c], Larger(Excess(1, c)', Excess(2, c)'))
    BY DEF Measure
  <2>2. Excess(1, c)' \in Int /\ Excess(2, c)' \in Int /\ over[c] \in Nat
    BY <1>1 DEF Tables
  <2>3. over'[c] \in Int /\ over'[c] >= over[c] /\ over'[c] >= Excess(1, c)' /\ over'[c] >= Excess(2, c)'
    BY <2>1, <2>2 DEF Larger
  <2> QED BY <2>2, <2>3 DEF Tables
<1>3. over' = [c \in Column |-> over'[c]]
  BY DEF Measure
<1> QED BY <1>2, <1>3

(* A step that lowers neither the worth nor adds to those committed.        *)
LEMMA KeepsCovered ==
    ASSUME PartsInv, PartsInv', BillInv, NEW c \in Column,
           over' \in [Column -> Nat], over'[c] >= over[c],
           Worth(c)' >= Worth(c), Committed(c)' \subseteq Committed(c)
    PROVE  Covered(c)'
<1> DEFINE n == Cardinality(Sessions)
           k == Cardinality(Committed(c))
           k1 == Cardinality(Committed(c)')
<1>1. Committed(c) \in SUBSET Sessions /\ Committed(c)' \in SUBSET Sessions
  BY DEF Committed
<1>2. k \in Nat /\ k1 \in Nat /\ n \in Nat
  BY <1>1, SessionCounts
<1>3. k1 <= k
  BY <1>1, SessionCounts, FS_Subset
<1>4. MaxFee * k1 <= MaxFee * k /\ MaxFee * k \in Int /\ MaxFee * k1 \in Int /\ MaxFee * n \in Int
  BY <1>2, <1>3, TimesMonotone, FeesAssumption
<1>5. Worth(c) \in Int /\ Worth(c)' \in Int
  BY PendingCounts, PendingCountsAfter
<1>6. Worth(c) - MaxFee * k >= MinFee - MaxFee * n - over[c]
  BY DEF BillInv, Covered
<1>7. over[c] \in Nat /\ over'[c] \in Nat /\ MinFee \in Nat
  BY FeesAssumption DEF BillInv
<1>8. Worth(c)' - MaxFee * k1 >= MinFee - MaxFee * n - over'[c]
  <2> HIDE DEF n, k, k1
  <2> QED BY <1>4, <1>5, <1>6, <1>7
<1> QED BY <1>8 DEF Covered

(* Who is committed depends on the place, the copy and the choice of each   *)
(* session only.                                                            *)
LEMMA SameCommitted ==
    ASSUME NEW c, \A s \in Sessions : CommittedTo(s, c)' => CommittedTo(s, c)
    PROVE  Committed(c)' \subseteq Committed(c)
BY DEF Committed

LEMMA SameWorth ==
    ASSUME PartsInv, NEW c \in Column, UNCHANGED <<db, ledger>> PROVE Worth(c)' >= Worth(c)
<1>1. Worth(c)' = Worth(c)
  BY DEF Worth, Pending, ledger
<1> QED BY <1>1, PendingCounts
-----------------------------------------------------------------------------
(* The steps that change the worth of an account.                           *)

LEMMA CopyCovers ==
    ASSUME BillInv, PartsInv', Measure, NEW s \in Sessions, NEW e \in Column, Copy(s, e),
           NEW c \in Column
    PROVE  Covered(c)'
<1>1. PartsInv /\ over' \in [Column -> Nat] /\ over'[c] >= over[c] /\ over[c] \in Nat
  BY MeasureStep DEF BillInv
<1>2. UNCHANGED <<db, ledger, col>> /\ pc[s] = e
      /\ pc' = [pc EXCEPT ![s] = IF e = "balance" THEN "credit" ELSE "fee"]
      /\ seen' = [seen EXCEPT ![s][e] = acct[ptr[s]][e]]
  BY DEF Copy, Goto, unchangedByCalls, ledger, row
<1>3. pc \in [Threads -> SessionLabels \union ConsoleLabels] /\ seen \in [Sessions -> [Column -> Int]] /\ s \in Threads
  BY <1>1 DEF PartsInv, ThreadTypes, ValueTypes, Threads
<1>4. seen'[s][e] = acct[ptr[s]][e] /\ \A x \in Column : x # e => seen'[s][x] = seen[s][x]
  BY <1>2, <1>3
<1>5. \A r \in Sessions : r # s => pc'[r] = pc[r] /\ seen'[r] = seen[r]
  BY <1>2, <1>3 DEF Threads
<1>6. pc'[s] = IF e = "balance" THEN "credit" ELSE "fee"
  BY <1>2, <1>3
<1>7. \A r \in Sessions : r # s /\ CommittedTo(r, c)' => CommittedTo(r, c)
  BY <1>2, <1>5 DEF CommittedTo
<1>8. CASE c # e \/ ~(seen'[s][e] >= MinFee)
  <2>1. CommittedTo(s, c)' => CommittedTo(s, c)
    BY <1>2, <1>4, <1>6, <1>8 DEF CommittedTo, Column
  <2>2. Committed(c)' \subseteq Committed(c)
    BY <1>7, <2>1, SameCommitted
  <2> QED BY <1>1, <1>2, <2>2, SameWorth, KeepsCovered
<1>9. CASE c = e /\ seen'[s][e] >= MinFee
  <2> DEFINE x == acct[ptr[s]][c]
             n == Cardinality(Sessions)
             u == Cardinality(Unstored(c))
             k1 == Cardinality(Committed(c)')
  <2>1. ptr[s] \in Tables /\ Copying(ptr[s])
    BY <1>1, <1>2, <1>3 DEF PartsInv, ThreadTypes, Holding, Copying, Column, Tables
  <2>2. x - Worth(c) - MaxFee * u <= over[c]
    BY <2>1 DEF BillInv, Excess
  <2>3. x \in Int /\ x >= MinFee /\ MinFee \in Nat /\ MaxFee \in Nat
    BY <1>1, <1>4, <1>9, <2>1, FeesAssumption DEF PartsInv, MemoryTypes
  <2>4. Committed(c)' \in SUBSET Sessions /\ Unstored(c) \in SUBSET Sessions
    BY DEF Committed, Unstored
  <2>5. Committed(c)' \cap Unstored(c) = {}
    <3>1. ASSUME NEW r \in Sessions, CommittedTo(r, c)' PROVE pc[r] \notin {"find", "read", "store"}
      <4>1. CASE r = s
        BY <4>1, <1>2 DEF Column
      <4>2. CASE r # s
        BY <4>2, <3>1, <1>5 DEF CommittedTo
      <4> QED BY <4>1, <4>2
    <3> QED BY <3>1 DEF Committed, Unstored
  <2>6. k1 + u <= n /\ k1 \in Nat /\ u \in Nat /\ n \in Nat
    BY <2>4, <2>5, DisjointCounts, SessionCounts
  <2>7. MaxFee * (k1 + u) <= MaxFee * n /\ MaxFee * (k1 + u) = MaxFee * k1 + MaxFee * u
        /\ MaxFee * k1 \in Int /\ MaxFee * u \in Int /\ MaxFee * n \in Int
    <3> HIDE DEF k1, u, n
    <3>1. k1 + u \in Nat
      BY <2>6
    <3>2. MaxFee * (k1 + u) <= MaxFee * n
      BY <2>3, <2>6, <3>1, TimesMonotone
    <3> QED BY <2>3, <2>6, <3>2, TimesSum
  <2>8. Worth(c)' = Worth(c) /\ Worth(c) \in Int
    BY <1>1, <1>2, PendingCounts DEF Worth, Pending, ledger
  <2>9. Worth(c)' - MaxFee * k1 >= MinFee - MaxFee * n - over'[c]
    <3>1. over'[c] \in Nat
      BY <1>1
    <3> HIDE DEF k1, u, n, x
    <3> QED BY <1>1, <2>2, <2>3, <2>7, <2>8, <3>1
  <2> QED BY <2>9 DEF Covered
<1> QED BY <1>8, <1>9

LEMMA OthersCover ==
    ASSUME BillInv, PartsInv', Measure, NEW c \in Column, Worth(c)' >= Worth(c),
           \A s \in Sessions : CommittedTo(s, c)' => CommittedTo(s, c)
    PROVE  Covered(c)'
<1>1. PartsInv /\ over' \in [Column -> Nat] /\ over'[c] >= over[c]
  BY MeasureStep DEF BillInv
<1>2. Committed(c)' \subseteq Committed(c)
  BY SameCommitted
<1> QED BY <1>1, <1>2, KeepsCovered

LEMMA QueueDeductionCovers ==
    ASSUME BillInv, PartsInv', Measure, NEW s \in Sessions, QueueDeduction(s), NEW c \in Column
    PROVE  Covered(c)'
<1> DEFINE d == [call |-> call[s], from |-> col[s]]
<1>1. PartsInv /\ over' \in [Column -> Nat] /\ over'[c] >= over[c]
  BY MeasureStep DEF BillInv
<1>2. pc[s] = "deduct" /\ pc' = [pc EXCEPT ![s] = "find"] /\ UNCHANGED <<col, seen, db, charged, lost>>
      /\ accepted' = accepted \union {d}
  BY DEF QueueDeduction, Goto, Ledger!Accept, locals, row
<1>3. \A r \in Sessions : CommittedTo(r, c)' => CommittedTo(r, c) /\ r # s
  BY <1>1, <1>2 DEF CommittedTo, PartsInv, ThreadTypes, Threads
<1>4. Take(Pending', c) \subseteq Take(Pending, c) \union {d}
  BY <1>2 DEF Take, Pending
<1>5. CASE col[s] # c
  <2>1. Take(Pending', c) = Take(Pending, c)
    BY <1>2, <1>5 DEF Take, Pending
  <2>2. Worth(c)' = Worth(c) /\ Worth(c) \in Int
    BY <1>1, <1>2, <2>1, PendingCounts DEF Worth
  <2> QED BY <1>3, <2>2, OthersCover
<1>6. CASE col[s] = c
  <2> DEFINE n == Cardinality(Sessions)
             k == Cardinality(Committed(c))
             k1 == Cardinality(Committed(c)')
             q == Cardinality(Take(Pending, c))
             q1 == Cardinality(Take(Pending', c))
  <2>1. q1 <= q + 1 /\ q \in Nat /\ q1 \in Nat
    <3>1. IsFiniteSet(Take(Pending, c)) /\ q \in Nat /\ q1 \in Nat
      BY <1>1, PendingCounts, PendingCountsAfter
    <3>4. /\ IsFiniteSet(Take(Pending, c) \union {d})
          /\ Cardinality(Take(Pending, c) \union {d}) = IF d \in Take(Pending, c) THEN q ELSE q + 1
      <4> HIDE DEF d
      <4> QED BY <3>1, FS_AddElement
    <3>2. IsFiniteSet(Take(Pending, c) \union {d}) /\ Cardinality(Take(Pending, c) \union {d}) <= q + 1
      <4> HIDE DEF d, q
      <4> QED BY <3>1, <3>4
    <3>3. q1 <= Cardinality(Take(Pending, c) \union {d}) /\ Cardinality(Take(Pending, c) \union {d}) \in Nat
      BY <1>4, <3>2, FS_Subset, FS_CardinalityType
    <3> QED BY <3>1, <3>2, <3>3
  <2>2. k1 <= k - 1 /\ k \in Nat /\ k1 \in Nat /\ n \in Nat
    <3>1. s \in Committed(c) /\ Committed(c) \in SUBSET Sessions /\ Committed(c)' \in SUBSET Sessions
      BY <1>2, <1>6 DEF Committed, CommittedTo
    <3>2. Committed(c)' \subseteq Committed(c) \ {s}
      BY <1>3 DEF Committed
    <3>3. IsFiniteSet(Committed(c)) /\ k \in Nat /\ k1 \in Nat /\ n \in Nat
      BY <3>1, SessionCounts
    <3>4. IsFiniteSet(Committed(c) \ {s}) /\ Cardinality(Committed(c) \ {s}) = k - 1
      BY <3>1, <3>3, FS_RemoveElement
    <3> QED BY <3>2, <3>3, <3>4, FS_Subset
  <2>3. MaxFee \in Nat /\ MinFee \in Nat /\ db[c] \in Int /\ over[c] \in Nat /\ over'[c] \in Nat
    BY <1>1, FeesAssumption DEF BillInv, PartsInv, RowTypes
  <2>4. db[c] - MaxFee * q - MaxFee * k >= MinFee - MaxFee * n - over[c]
    BY DEF BillInv, Covered, Worth
  <2>5. Worth(c)' = db[c] - MaxFee * q1
    BY <1>2 DEF Worth
  <2>6. db[c] - MaxFee * q1 - MaxFee * k1 >= MinFee - MaxFee * n - over'[c]
    <3> HIDE DEF n, k, k1, q, q1
    <3>1. q1 + k1 <= q + k /\ q1 + k1 \in Nat /\ q + k \in Nat
      BY <2>1, <2>2
    <3>2. MaxFee * (q1 + k1) <= MaxFee * (q + k)
      BY <2>3, <3>1, TimesMonotone
    <3>3. MaxFee * (q1 + k1) = MaxFee * q1 + MaxFee * k1 /\ MaxFee * (q + k) = MaxFee * q + MaxFee * k
          /\ MaxFee * q1 \in Int /\ MaxFee * k1 \in Int /\ MaxFee * q \in Int /\ MaxFee * k \in Int
      BY <2>1, <2>2, <2>3, TimesSum
    <3>4. MaxFee * n \in Int
      BY <2>2, <2>3
    <3> QED BY <1>1, <2>3, <2>4, <3>2, <3>3, <3>4
  <2> QED BY <2>5, <2>6 DEF Covered
<1> QED BY <1>5, <1>6

LEMMA WithoutPart ==
    ASSUME NEW A, NEW B, IsFiniteSet(A), B \subseteq A
    PROVE  Cardinality(A \ B) = Cardinality(A) - Cardinality(B)
<1>1. A \cap B = B
  OBVIOUS
<1> QED BY <1>1, FS_Difference

LEMMA ChargeRaises ==
    ASSUME PartsInv, PartsInv', NEW S \in SUBSET Pending, Charge(S), NEW c \in Column
    PROVE  Worth(c)' >= Worth(c)
<1> DEFINE q == Cardinality(Take(Pending, c))
           n == Cardinality(Take(S, c))
<1>1. /\ db' = [e \in Column |-> db[e] - dbfee * Cardinality(Take(S, e))]
      /\ UNCHANGED <<accepted, lost>>
      /\ charged' = [e \in Deduction |-> IF e \in S THEN 1 ELSE charged[e]]
  BY DEF Charge, Ledger!Charge
<1>2. Take(Pending', c) = Take(Pending, c) \ Take(S, c)
  BY <1>1 DEF Take, Pending, PartsInv, LedgerTypes
<1>3. Take(S, c) \subseteq Take(Pending, c)
  BY DEF Take
<1>4. IsFiniteSet(Take(Pending, c)) /\ q \in Nat
  BY PendingCounts
<1>5. n \in Nat /\ n <= q
  BY <1>3, <1>4, FS_Subset, FS_CardinalityType
<1>6. Cardinality(Take(Pending', c)) = q - n
  BY <1>2, <1>3, <1>4, WithoutPart
<1>7. dbfee \in Nat /\ dbfee <= MaxFee /\ MaxFee \in Nat
  BY FeesAssumption DEF PartsInv, RowTypes
<1>8. db[c] \in Int
  BY DEF PartsInv, RowTypes
<1>9. Worth(c)' = db[c] - dbfee * n - MaxFee * (q - n)
  BY <1>1, <1>6 DEF Worth
<1>10. db[c] - dbfee * n - MaxFee * (q - n) >= db[c] - MaxFee * q
  <2> HIDE DEF q, n
  <2>1. MaxFee * q = MaxFee * (q - n) + MaxFee * n /\ MaxFee * (q - n) \in Int /\ MaxFee * n \in Int
    <3>1. q = (q - n) + n /\ q - n \in Int
      BY <1>4, <1>5
    <3> QED BY <1>5, <1>7, <3>1, TimesSum
  <2>2. n * dbfee <= n * MaxFee
    BY <1>5, <1>7, TimesMonotone
  <2>3. n * dbfee = dbfee * n /\ n * MaxFee = MaxFee * n /\ dbfee * n \in Int
    BY <1>5, <1>7
  <2> QED BY <1>8, <2>1, <2>2, <2>3
<1> QED BY <1>9, <1>10 DEF Worth

LEMMA LoseRaises ==
    ASSUME PartsInv, PartsInv', NEW d \in Pending, Lose(d), NEW c \in Column
    PROVE  Worth(c)' >= Worth(c)
<1> DEFINE q == Cardinality(Take(Pending, c))
           q1 == Cardinality(Take(Pending', c))
<1>1. UNCHANGED <<db, accepted, charged>> /\ lost' = lost \union {d}
  BY DEF Lose, row
<1>2. Take(Pending', c) \subseteq Take(Pending, c)
  BY <1>1 DEF Take, Pending
<1>3. q1 <= q /\ q1 \in Nat /\ q \in Nat
  BY <1>2, PendingCounts, PendingCountsAfter, FS_Subset
<1>4. MaxFee * q1 <= MaxFee * q /\ MaxFee * q1 \in Int /\ MaxFee * q \in Int /\ db[c] \in Int
  <2> HIDE DEF q, q1
  <2> QED BY <1>3, FeesAssumption, TimesMonotone DEF PartsInv, RowTypes
<1> QED BY <1>1, <1>4 DEF Worth

(* A statement of a command pays in, or changes the fee.                    *)
LEMMA ExecuteRaises ==
    ASSUME PartsInv, PartsInv', NEW c \in Column,
           \/ \E k \in Consoles : QuerySucceeds(k) \/ QueryFails(k)
           \/ \E j \in Statement : LateStatement(j)
    PROVE  Worth(c)' >= Worth(c)
<1>1. UNCHANGED <<accepted, charged, lost>>
  BY DEF QuerySucceeds, QueryFails, LateStatement, ledger
<1>2. db'[c] >= db[c] /\ db[c] \in Int /\ db'[c] \in Int
  <2>1. db[c] \in Int /\ db'[c] \in Int
    BY DEF PartsInv, RowTypes
  <2>2. ASSUME NEW k \in Consoles, QuerySucceeds(k) \/ QueryFails(k) PROVE db'[c] >= db[c]
    <3>1. pc[k] = "query" /\ (db' = db \/ Execute(col[k], sum[k]))
      BY <2>2 DEF QuerySucceeds, QueryFails, row
    <3> QED BY <2>1, <3>1, CommandExecutes
  <2>3. ASSUME NEW j \in Statement, LateStatement(j) PROVE db'[c] >= db[c]
    BY <2>3, StatementTypes, ExecuteTypes DEF LateStatement, PartsInv
  <2> QED BY <2>1, <2>2, <2>3
<1>3. Pending' = Pending
  BY <1>1 DEF Pending
<1>4. MaxFee * Cardinality(Take(Pending, c)) \in Int
  BY PendingCounts, FeesAssumption
<1>5. Worth(c)' = db'[c] - MaxFee * Cardinality(Take(Pending, c))
  BY <1>3 DEF Worth
<1> QED BY <1>2, <1>4, <1>5 DEF Worth
-----------------------------------------------------------------------------
(* Every step keeps the invariant.                                          *)

LEMMA SessionCovers ==
    ASSUME BillInv, PartsInv', Measure, NEW s \in Sessions, SessionStep(s), NEW c \in Column
    PROVE  Covered(c)'
<1>0. PartsInv /\ pc \in [Threads -> SessionLabels \union ConsoleLabels] /\ s \in Threads
      /\ seen \in [Sessions -> [Column -> Int]] /\ col \in [Threads -> Column \union {"none", "fee"}]
  BY DEF BillInv, PartsInv, ThreadTypes, ValueTypes, Threads
<1>1. CASE BeginCall(s) \/ Admit(s) \/ Refuse(s)
  <2>1. UNCHANGED <<db, ledger>>
    BY <1>1 DEF BeginCall, Admit, Refuse, unchangedByCalls, ledger, row
  <2>2. \A r \in Sessions : r # s => pc'[r] = pc[r] /\ seen'[r] = seen[r] /\ col'[r] = col[r]
    BY <1>0, <1>1 DEF BeginCall, Admit, Refuse, Return, Goto, Threads
  <2>3. CommittedTo(s, c)' => CommittedTo(s, c)
    <3>1. CASE Admit(s)
      <4> DEFINE f == fee[ptr[s]]
      <4>1. /\ pc[s] = "fee" /\ Enough(f, seen[s]) /\ pc'[s] = "deduct"
            /\ col'[s] = IF f > seen[s]["balance"] THEN "credit" ELSE "balance"
        BY <3>1, <1>0 DEF Admit, Goto
      <4>2. f \in Fees /\ f > 0 /\ f <= seen[s][col'[s]]
        <5>1. ptr[s] \in Tables
          BY <1>0, <4>1 DEF PartsInv, ThreadTypes, Holding, Tables
        <5>2. f \in Fees /\ f \in Nat
          BY <1>0, <5>1, FeesAssumption DEF PartsInv, MemoryTypes
        <5>3. seen[s]["balance"] \in Int /\ seen[s]["credit"] \in Int
          BY <1>0 DEF Column
        <5> HIDE DEF f
        <5> QED BY <4>1, <5>2, <5>3 DEF Enough
      <4>3. f \in Nat /\ MinFee <= f /\ MinFee \in Nat
        <5> HIDE DEF f
        <5> QED BY <4>2, FeesAssumption
      <4>4. seen[s][col'[s]] \in Int
        BY <1>0, <4>1 DEF Column
      <4>5. seen[s][col'[s]] >= MinFee
        <5> HIDE DEF f
        <5> QED BY <4>2, <4>3, <4>4
      <4> QED BY <4>1, <4>5 DEF CommittedTo
    <3>2. CASE BeginCall(s) \/ Refuse(s)
      <4>1. pc'[s] \in {"balance", "idle"}
        BY <1>0, <3>2 DEF BeginCall, Refuse, Return, Goto
      <4> QED BY <4>1 DEF CommittedTo
    <3> QED BY <1>1, <3>1, <3>2
  <2>4. \A r \in Sessions : CommittedTo(r, c)' => CommittedTo(r, c)
    BY <2>2, <2>3 DEF CommittedTo
  <2> QED BY <1>0, <2>1, <2>4, SameWorth, OthersCover
<1> QED BY <1>1, CopyCovers, QueueDeductionCovers DEF SessionStep

(* A step that moves at most one thread, and no session in its check.       *)
LEMMA MovesNoCheck ==
    ASSUME PartsInv, NEW t \in Threads, NEW l \in SessionLabels \ {"credit", "fee", "deduct"}, NEW c \in Column,
           pc' = [pc EXCEPT ![t] = l], UNCHANGED seen,
           \A s \in Sessions : s # t => col'[s] = col[s]
    PROVE  \A s \in Sessions : CommittedTo(s, c)' => CommittedTo(s, c)
BY DEF CommittedTo, PartsInv, ThreadTypes, Threads

LEMMA ThreadCovers ==
    ASSUME BillInv, PartsInv', Measure, NEW t \in Threads, Find(t) \/ Read(t) \/ Store(t), NEW c \in Column
    PROVE  Covered(c)'
<1>0. PartsInv /\ col \in [Threads -> Column \union {"none", "fee"}]
  BY DEF BillInv, PartsInv, ThreadTypes
<1>1. UNCHANGED <<db, ledger, seen>>
  BY DEF Find, Read, Store, unchangedByCalls, ledger, row
<1>2. PICK l \in {"idle", "read", "store"} : pc' = [pc EXCEPT ![t] = l]
  BY DEF Find, Read, Store, Return, Goto
<1>3. \A s \in Sessions : s # t => col'[s] = col[s]
  BY <1>0 DEF Find, Read, Store, Return, Threads
<1>4. \A s \in Sessions : CommittedTo(s, c)' => CommittedTo(s, c)
  BY <1>0, <1>1, <1>2, <1>3, MovesNoCheck DEF SessionLabels
<1> QED BY <1>0, <1>1, <1>4, SameWorth, OthersCover

LEMMA ConsoleCovers ==
    ASSUME BillInv, PartsInv', Measure, NEW k \in Consoles, ConsoleStep(k), NEW c \in Column
    PROVE  Covered(c)'
<1>0. PartsInv /\ col \in [Threads -> Column \union {"none", "fee"}] /\ k \in Threads /\ k \notin Sessions
      /\ pc \in [Threads -> SessionLabels \union ConsoleLabels]
  BY SessionsAssumption DEF BillInv, PartsInv, ThreadTypes, Threads
<1>1. UNCHANGED seen /\ \A s \in Sessions : pc'[s] = pc[s]
  BY <1>0 DEF ConsoleStep, BeginCommand, QuerySucceeds, QueryFails, ChangeFee, Return, Goto, locals, Threads
<1>2. \A s \in Sessions : col'[s] = col[s]
  <2>1. CASE BeginCommand(k)
    <3>1. \E x : col' = [col EXCEPT ![k] = x]
      BY <2>1 DEF BeginCommand
    <3> QED BY <1>0, <3>1 DEF Threads
  <2>2. CASE QuerySucceeds(k) \/ QueryFails(k) \/ ChangeFee(k)
    BY <1>0, <2>2 DEF QuerySucceeds, QueryFails, ChangeFee, Return, locals, Threads
  <2> QED BY <2>1, <2>2 DEF ConsoleStep
<1>3. \A s \in Sessions : CommittedTo(s, c)' => CommittedTo(s, c)
  BY <1>1, <1>2 DEF CommittedTo
<1>4. Worth(c)' >= Worth(c)
  <2>1. CASE BeginCommand(k) \/ ChangeFee(k)
    <3>1. UNCHANGED <<db, ledger>>
      BY <2>1 DEF BeginCommand, ChangeFee, unchangedByCalls, ledger, row
    <3> QED BY <1>0, <3>1, SameWorth
  <2> QED BY <1>0, <2>1, ExecuteRaises DEF ConsoleStep
<1> QED BY <1>3, <1>4, OthersCover

LEMMA DatabaseCovers ==
    ASSUME BillInv, PartsInv', Measure, NEW c \in Column,
           (\E S \in SUBSET Pending : Charge(S)) \/ (\E d \in Pending : Lose(d))
               \/ (\E j \in Statement : LateStatement(j))
    PROVE  Covered(c)'
<1>1. UNCHANGED <<pc, seen, col>>
  BY DEF Charge, Lose, LateStatement, locals
<1>2. \A s \in Sessions : CommittedTo(s, c)' => CommittedTo(s, c)
  BY <1>1 DEF CommittedTo
<1>3. Worth(c)' >= Worth(c)
  BY ChargeRaises, LoseRaises, ExecuteRaises DEF BillInv
<1> QED BY <1>2, <1>3, OthersCover

LEMMA ReloadCovers ==
    ASSUME BillInv, PartsInv', Measure, ReloadStep \/ Rest, NEW c \in Column
    PROVE  Covered(c)'
<1>1. UNCHANGED <<pc, seen, col, db, ledger>>
  BY DEF ReloadStep, BeginReload, Load, LoadFails, SwitchUser, SwitchNum, Rest, locals, row
<1>2. \A s \in Sessions : CommittedTo(s, c)' => CommittedTo(s, c)
  BY <1>1 DEF CommittedTo
<1>3. PartsInv
  BY DEF BillInv
<1> QED BY <1>1, <1>2, <1>3, SameWorth, OthersCover

LEMMA InvStep ==
    ASSUME BillInv, Next PROVE BillInv'
<1>1. PartsInv' /\ Measure /\ over \in [Column -> Nat]
  BY StepTypes DEF Next, BillInv
<1>2. over' \in [Column -> Nat] /\ \A p \in Tables : \A c \in Column : Excess(p, c)' <= over'[c]
  BY <1>1, MeasureStep
<1>3. ASSUME NEW c \in Column PROVE Covered(c)'
  BY <1>1, SessionCovers, ThreadCovers, ConsoleCovers, DatabaseCovers, ReloadCovers DEF Next, Step
<1> QED BY <1>1, <1>2, <1>3 DEF BillInv

LEMMA InvStutters ==
    ASSUME BillInv, UNCHANGED vars PROVE BillInv'
<1>1. UNCHANGED <<acct, fee, hnum, huser, pc, ptr, seen, col, sum, value, call, reload, accepted, charged,
                  lost, db, dbfee, late, done, over, read, disturbed, quiet>>
  BY DEF vars, memory, handles, locals, ledger, row, history
<1>2. PartsInv'
  BY <1>1, KeepMemory, KeepThreads, KeepValues, KeepLedger, KeepRow
     DEF BillInv, PartsInv, memory, handles, ledger, row
<1>3. \A p \in Tables : \A c \in Column : Excess(p, c)' = Excess(p, c)
  BY <1>1 DEF Excess, Copying, Worth, Pending, Unstored
<1>4. \A c \in Column : Covered(c)' = Covered(c)
  BY <1>1 DEF Covered, Committed, CommittedTo, Worth, Pending
<1> QED BY <1>1, <1>2, <1>3, <1>4 DEF BillInv

LEMMA InitTypes ==
    ASSUME Init PROVE PartsInv
<1> USE DEF Init
<1>1. db \in [Column -> Nat] /\ dbfee \in Fees /\ Fees \subseteq Nat
  BY FeesAssumption, MoneyAssumption DEF Column
<1>2. MemoryTypes
  BY <1>1 DEF MemoryTypes, Tables
<1>3. ThreadTypes
  BY SessionsAssumption, BoundsAssumption
     DEF ThreadTypes, Threads, Holding, SessionLabels, ConsoleLabels, InProgress, Tables
<1>4. ValueTypes
  BY DEF ValueTypes, NoCopy
<1>5. LedgerTypes
  BY FS_EmptySet DEF LedgerTypes
<1>6. RowTypes
  <2>0. late \in [Statement -> Nat]
    OBVIOUS
  <2>1. disturbed \in [Column -> BOOLEAN] /\ quiet \in BOOLEAN
    BY Zenon
  <2>2. done \in [calls : 0 .. MaxCalls, commands : 0 .. MaxPaid, reloads : 0 .. MaxReloads]
    BY BoundsAssumption
  <2> QED BY <1>1, <2>0, <2>1, <2>2 DEF RowTypes
<1> QED BY <1>2, <1>3, <1>4, <1>5, <1>6 DEF PartsInv

LEMMA InitInv ==
    ASSUME Init PROVE BillInv
<1>1. PartsInv /\ over = [c \in Column |-> 0]
  BY InitTypes DEF Init
<1>2. ASSUME NEW c \in Column
      PROVE  Worth(c) = db[c] /\ db[c] \in Nat /\ Cardinality(Unstored(c)) = 0 /\ Cardinality(Committed(c)) = 0
  <2>1. db[c] \in Nat
    BY MoneyAssumption DEF Init, Column
  <2>2. Take(Pending, c) = {} /\ Unstored(c) = {} /\ Committed(c) = {}
    BY DEF Init, Take, Pending, Unstored, Committed, CommittedTo, Threads
  <2>3. MaxFee * 0 = 0
    BY FeesAssumption
  <2> QED BY <2>1, <2>2, <2>3, FS_EmptySet DEF Worth
<1>3. ASSUME NEW p \in Tables, NEW c \in Column PROVE Excess(p, c) <= over[c]
  <2>1. acct[p][c] = db[c]
    BY <1>3 DEF Init
  <2>2. MaxFee * 0 = 0
    BY FeesAssumption
  <2> QED BY <1>1, <1>2, <2>1, <2>2 DEF Excess
<1>4. ASSUME NEW c \in Column PROVE Covered(c)
  <2> DEFINE n == Cardinality(Sessions)
  <2>1. n \in Nat /\ n >= 1
    BY SessionsAssumption, FS_CardinalityType, FS_EmptySet
  <2>2. MaxFee * 1 <= MaxFee * n /\ MaxFee * n \in Int /\ MaxFee * 0 = 0 /\ MaxFee * 1 = MaxFee
    BY <2>1, FeesAssumption, TimesMonotone
  <2>3. MinFee - MaxFee * n <= 0 /\ MinFee \in Nat
    <3> HIDE DEF n
    <3> QED BY <2>2, FeesAssumption
  <2>4. MinFee - MaxFee * n - over[c] <= Worth(c) - MaxFee * Cardinality(Committed(c))
    <3> HIDE DEF n
    <3> QED BY <1>1, <1>2, <2>2, <2>3
  <2> QED BY <1>1, <1>2, <2>1, <2>2, <2>4 DEF Covered
<1>5. over \in [Column -> Nat]
  BY <1>1
<1> QED BY <1>1, <1>3, <1>4, <1>5 DEF BillInv
-----------------------------------------------------------------------------
THEOREM Invariance == Spec => []BillInv
<1>1. Init => BillInv
  BY InitInv
<1>2. BillInv /\ [Next]_vars => BillInv'
  BY InvStep, InvStutters
<1> QED BY <1>1, <1>2, PTL DEF Spec

(* The types, and which table a thread is in.                               *)
THEOREM TypeCorrect == Spec => []TypeOK
<1>1. BillInv => TypeOK
  BY TypeParts DEF BillInv
<1> QED BY <1>1, Invariance, PTL

(* Whatever the order of checks, deductions, payments, charges and reloads, *)
(* an account is overdrawn by less than one fee for each session, beyond    *)
(* what memory has shown in excess.                                         *)
THEOREM OverdraftIsBounded == Spec => []OverdraftBounded
<1>1. BillInv => OverdraftBounded
  <2> SUFFICES ASSUME BillInv, NEW c \in Column
               PROVE  Worth(c) >= MinFee - MaxFee * Cardinality(Sessions) - over[c]
    BY DEF OverdraftBounded
  <2> DEFINE k == Cardinality(Committed(c))
             n == Cardinality(Sessions)
  <2>1. Committed(c) \in SUBSET Sessions
    BY DEF Committed
  <2>2. k \in Nat /\ n \in Nat
    BY <2>1, SessionCounts
  <2>3. MaxFee * k >= 0 /\ MaxFee * k \in Int /\ MaxFee * n \in Int
    <3> HIDE DEF k, n
    <3>1. MaxFee * 0 <= MaxFee * k /\ MaxFee * 0 = 0
      BY <2>2, FeesAssumption, TimesMonotone
    <3> QED BY <2>2, <3>1, FeesAssumption
  <2>4. Worth(c) - MaxFee * k >= MinFee - MaxFee * n - over[c]
    BY DEF BillInv, Covered
  <2>5. Worth(c) \in Int /\ over[c] \in Nat /\ MinFee \in Nat
    BY PendingCounts, FeesAssumption DEF BillInv
  <2> HIDE DEF k, n
  <2>6. Worth(c) >= MinFee - MaxFee * n - over[c]
    BY <2>3, <2>4, <2>5
  <2> QED BY <2>6 DEF n
<1> QED BY <1>1, Invariance, PTL

-----------------------------------------------------------------------------
(* The books.  Each call has a number of its own; a thread that will store  *)
(* has read what the column still holds, or the store will be seen to       *)
(* disturb it; a fee under way has disturbed both columns; and a reload     *)
(* that has met nothing has copied the row, with nothing left to charge.    *)

Before == {"balance", "credit", "fee", "deduct"}
FreshInv ==
    /\ \A s \in Sessions : call[s] <= done.calls
    /\ \A d \in accepted : d.call <= done.calls
    /\ \A s \in Sessions : pc[s] \in Before => \A d \in accepted : d.call # call[s]
    /\ \A r, s \in Sessions : pc[r] # "idle" /\ pc[s] # "idle" /\ call[r] = call[s] => r = s

Faithful(t) ==
    pc[t] = "store" /\ ptr[t] = huser /\ ~disturbed[col[t]] => value[t] = Changed(t, read[t])
ChargedOnlyAccepted == \A d \in Deduction : charged[d] # 0 => d \in accepted
FeeUnderWay(k) == col[k] = "fee" /\ pc[k] \in {"find", "read"}
QuietInv ==
    reload = "user" /\ quiet =>
        Pending = {} /\ Unfinished = {} /\ acct[Other(huser)] = db /\ fee[Other(huser)] = dbfee

Balanced(c) ==
    ~disturbed[c] =>
        /\ fee[huser] = dbfee
        /\ acct[huser][c] + Cardinality(Due(c))
             = db[c] - dbfee * (Cardinality(Take(Pending, c)) - Cardinality(Unstored(c)))

BooksInv ==
    /\ FreshInv /\ ChargedOnlyAccepted
    /\ \A c \in Column : Balanced(c)
    /\ \A t \in Threads : Faithful(t)
    /\ \A k \in Consoles : FeeUnderWay(k) => \A c \in Column : disturbed[c]
    /\ QuietInv

(* Calls keep their numbers.                                                *)
LEMMA FreshMoves ==
    ASSUME FreshInv, UNCHANGED accepted, done'.calls = done.calls,
           \A s \in Sessions :
               \/ pc'[s] = "idle" /\ (call'[s] = 0 \/ call'[s] = call[s])
               \/ call'[s] = call[s] /\ pc[s] # "idle" /\ (pc'[s] \in Before => pc[s] \in Before),
           PartsInv
    PROVE  FreshInv'
<1>1. \A s \in Sessions : call[s] \in Nat
  BY SessionsAssumption, BoundsAssumption DEF PartsInv, ThreadTypes, Threads
<1>2. done.calls \in Nat
  BY BoundsAssumption DEF PartsInv, RowTypes
<1> QED BY <1>1, <1>2 DEF FreshInv, Before

LEMMA FreshStep ==
    ASSUME PartsInv, FreshInv, Step \/ Rest PROVE FreshInv'
<1>0. /\ pc \in [Threads -> SessionLabels \union ConsoleLabels] /\ call \in [Threads -> 0 .. MaxCalls]
      /\ MaxCalls \in Nat /\ Sessions \subseteq Threads /\ Consoles \subseteq Threads /\ Sessions \cap Consoles = {}
      /\ done \in [calls : 0 .. MaxCalls, commands : 0 .. MaxPaid, reloads : 0 .. MaxReloads]
      /\ accepted \subseteq Deduction
  BY SessionsAssumption, BoundsAssumption DEF PartsInv, ThreadTypes, RowTypes, LedgerTypes, Threads
<1>1. ASSUME NEW s \in Sessions, BeginCall(s) PROVE FreshInv'
  <2>1. /\ pc' = [pc EXCEPT ![s] = "balance"] /\ call' = [call EXCEPT ![s] = done.calls + 1]
        /\ done'.calls = done.calls + 1 /\ UNCHANGED accepted
    BY <1>0, <1>1 DEF BeginCall, Goto
  <2>2. pc'[s] = "balance" /\ call'[s] = done.calls + 1 /\ \A r \in Sessions \ {s} : pc'[r] = pc[r] /\ call'[r] = call[r]
    BY <1>0, <2>1
  <2>3. done.calls \in Nat /\ (\A r \in Sessions : call[r] \in Nat) /\ \A d \in accepted : d.call \in Nat
    BY <1>0 DEF Deduction
  <2> QED BY <2>1, <2>2, <2>3 DEF FreshInv, Before
<1>2. ASSUME NEW s \in Sessions, (\E c \in Column : Copy(s, c)) \/ Admit(s) \/ Refuse(s) PROVE FreshInv'
  <2>1. UNCHANGED <<accepted, done>>
    BY <1>2 DEF Copy, Admit, Refuse, unchangedByCalls
  <2>2. \A r \in Sessions \ {s} : pc'[r] = pc[r] /\ call'[r] = call[r]
    BY <1>0, <1>2 DEF Copy, Admit, Refuse, Return, Goto
  <2>3. \/ pc'[s] = "idle" /\ call'[s] = 0
        \/ call'[s] = call[s] /\ pc[s] \in Before
    BY <1>0, <1>2 DEF Copy, Admit, Refuse, Return, Goto, Before, Column
  <2>4. \A r \in Sessions :
            \/ pc'[r] = "idle" /\ (call'[r] = 0 \/ call'[r] = call[r])
            \/ call'[r] = call[r] /\ pc[r] # "idle" /\ (pc'[r] \in Before => pc[r] \in Before)
    BY <2>2, <2>3 DEF Before
  <2> QED BY <2>1, <2>4, FreshMoves
<1>3. ASSUME NEW s \in Sessions, QueueDeduction(s) PROVE FreshInv'
  <2>1. /\ pc[s] = "deduct" /\ pc' = [pc EXCEPT ![s] = "find"] /\ UNCHANGED <<call, done>>
        /\ accepted' = accepted \union {[call |-> call[s], from |-> col[s]]}
    BY <1>3 DEF QueueDeduction, Goto, Ledger!Accept, locals
  <2>2. pc'[s] = "find" /\ \A r \in Sessions \ {s} : pc'[r] = pc[r]
    BY <1>0, <2>1
  <2> QED BY <2>1, <2>2 DEF FreshInv, Before
<1>4. ASSUME NEW t \in Threads, Find(t) \/ Read(t) \/ Store(t) PROVE FreshInv'
  <2>1. UNCHANGED <<accepted, done>>
    BY <1>4 DEF Find, Read, Store, unchangedByCalls
  <2>2. \A r \in Threads \ {t} : pc'[r] = pc[r] /\ call'[r] = call[r]
    BY <1>0, <1>4 DEF Find, Read, Store, Return, Goto
  <2>3. \/ pc'[t] = "idle" /\ call'[t] = 0
        \/ call'[t] = call[t] /\ pc[t] # "idle" /\ pc'[t] \notin Before
    BY <1>0, <1>4 DEF Find, Read, Store, Return, Goto, Before
  <2>4. \A r \in Sessions :
            \/ pc'[r] = "idle" /\ (call'[r] = 0 \/ call'[r] = call[r])
            \/ call'[r] = call[r] /\ pc[r] # "idle" /\ (pc'[r] \in Before => pc[r] \in Before)
    BY <1>0, <2>2, <2>3
  <2> QED BY <2>1, <2>4, FreshMoves
<1>5. ASSUME NEW k \in Consoles, ConsoleStep(k) PROVE FreshInv'
  <2>1. UNCHANGED accepted /\ done'.calls = done.calls
    BY <1>0, <1>5 DEF ConsoleStep, BeginCommand, QuerySucceeds, QueryFails, ChangeFee, unchangedByCalls, ledger
  <2>2. \A r \in Sessions : pc'[r] = pc[r] /\ call'[r] = call[r]
    BY <1>0, <1>5 DEF ConsoleStep, BeginCommand, QuerySucceeds, QueryFails, ChangeFee, Return, Goto, locals
  <2> QED BY <2>1, <2>2, FreshMoves
<1>6. CASE (\E S \in SUBSET Pending : Charge(S)) \/ (\E d \in Pending : Lose(d)) \/ (\E j \in Statement : LateStatement(j))
  BY <1>6, FreshMoves DEF Charge, Lose, LateStatement, Ledger!Charge, locals, ledger
<1>7. CASE ReloadStep \/ Rest
  <2>1. UNCHANGED <<pc, call, accepted>> /\ done'.calls = done.calls
    BY <1>0, <1>7 DEF ReloadStep, BeginReload, Load, LoadFails, SwitchUser, SwitchNum, Rest, locals, ledger
  <2> QED BY <2>1, FreshMoves
<1> QED BY <1>1, <1>2, <1>3, <1>4, <1>5, <1>6, <1>7 DEF Step, SessionStep

(* The units of one console.                                                *)
LEMMA UnitCounts ==
    ASSUME NEW k, NEW n \in Nat
    PROVE  IsFiniteSet({k} \X (1 .. n)) /\ Cardinality({k} \X (1 .. n)) = n
<1>1. ASSUME NEW O, NEW I, IsFiniteSet(O), IsFiniteSet(I)
      PROVE  IsFiniteSet(O \X I) /\ Cardinality(O \X I) = Cardinality(O) * Cardinality(I)
  BY <1>1, FS_Product
<1>2. IsFiniteSet({k}) /\ Cardinality({k}) = 1
  BY FS_Singleton
<1>3. IsFiniteSet(1 .. n) /\ Cardinality(1 .. n) = n
  BY FS_Interval
<1>4. IsFiniteSet({k} \X (1 .. n)) /\ Cardinality({k} \X (1 .. n)) = Cardinality({k}) * Cardinality(1 .. n)
  BY <1>1, <1>2, <1>3, Zenon
<1> QED BY <1>2, <1>3, <1>4

(* How many units are due.                                                  *)
LEMMA DueCounts ==
    ASSUME PartsInv, NEW c
    PROVE  IsFiniteSet(Due(c)) /\ Cardinality(Due(c)) \in Nat
<1> DEFINE P == PaidNotShown(c)
           f == [k \in P |-> {k} \X (1 .. sum[k])]
           T == {{k} \X (1 .. sum[k]) : k \in P}
<1>1. IsFiniteSet(P) /\ \A k \in P : sum[k] \in Nat
  BY SessionsAssumption, FS_Subset DEF PaidNotShown, PartsInv, ValueTypes
<1>2. IsFiniteSet(T)
  <2>1. f \in Surjection(P, T)
    BY DEF Surjection
  <2> QED BY <1>1, <2>1, FS_Surjection
<1>3. ASSUME NEW S \in T PROVE IsFiniteSet(S)
  <2>1. PICK k \in P : S = {k} \X (1 .. sum[k])
    OBVIOUS
  <2>2. sum[k] \in Nat
    BY <1>1
  <2> QED BY <2>1, <2>2, UnitCounts
<1>4. IsFiniteSet(UNION T)
  BY <1>2, <1>3, FS_UNION
<1> QED BY <1>4, FS_CardinalityType DEF Due

(* The set for one console more.                                            *)
LEMMA DueAdds ==
    ASSUME PartsInv, NEW c, NEW k \in Consoles, NEW S, k \notin S, S \subseteq Consoles
    PROVE  LET A == UNION {{i} \X (1 .. sum[i]) : i \in S}
               B == UNION {{i} \X (1 .. sum[i]) : i \in S \union {k}}
           IN  IsFiniteSet(A) => Cardinality(B) = Cardinality(A) + sum[k]
<1> DEFINE A == UNION {{i} \X (1 .. sum[i]) : i \in S}
           B == UNION {{i} \X (1 .. sum[i]) : i \in S \union {k}}
           K == {k} \X (1 .. sum[k])
<1>1. sum[k] \in Nat
  BY DEF PartsInv, ValueTypes
<1>2. IsFiniteSet(K) /\ Cardinality(K) = sum[k]
  BY <1>1, UnitCounts
<1>3. B = A \union K
  OBVIOUS
<1>4. A \cap K = {}
  OBVIOUS
<1>5. ASSUME IsFiniteSet(A) PROVE Cardinality(B) = Cardinality(A) + sum[k]
  <2> HIDE DEF A, B, K
  <2>1. Cardinality(A \union K) = Cardinality(A) + Cardinality(K) - Cardinality(A \cap K)
    BY <1>2, <1>5, FS_Union
  <2>2. Cardinality(A \cap K) = 0 /\ Cardinality(A) \in Nat
    BY <1>4, <1>5, FS_EmptySet, FS_CardinalityType
  <2> QED BY <1>1, <1>2, <1>3, <2>1, <2>2
<1> QED BY <1>5

(* The sets change only with those who enter or leave them.                 *)
LEMMA UnstoredSame ==
    ASSUME NEW c, \A s \in Sessions :
               pc'[s] \in {"find", "read", "store"} /\ col'[s] = c
                   <=> pc[s] \in {"find", "read", "store"} /\ col[s] = c
    PROVE  Unstored(c)' = Unstored(c)
BY DEF Unstored

LEMMA DueSame ==
    ASSUME NEW c, \A k \in Consoles :
               /\ pc'[k] \in {"find", "read", "store"} /\ col'[k] = c
                   <=> pc[k] \in {"find", "read", "store"} /\ col[k] = c
               /\ pc[k] \in {"find", "read", "store"} => sum'[k] = sum[k]
    PROVE  Due(c)' = Due(c)
<1>1. PaidNotShown(c)' = PaidNotShown(c)
  BY DEF PaidNotShown
<1>2. \A k \in PaidNotShown(c) : sum'[k] = sum[k]
  BY DEF PaidNotShown
<1> QED BY <1>1, <1>2 DEF Due

LEMMA BalanceKept ==
    ASSUME NEW c \in Column, Balanced(c), disturbed[c] => disturbed'[c],
           UNCHANGED <<dbfee, Pending>>, fee'[huser'] = fee[huser], acct'[huser'][c] = acct[huser][c],
           db'[c] = db[c], Due(c)' = Due(c), Unstored(c)' = Unstored(c)
    PROVE  Balanced(c)'
BY DEF Balanced, Take

(* What is used of the types.                                               *)
LEMMA BookTypes ==
    ASSUME PartsInv
    PROVE  /\ pc \in [Threads -> SessionLabels \union ConsoleLabels]
           /\ col \in [Threads -> Column \union {"none", "fee"}]
           /\ ptr \in [Threads -> {0} \union Tables] /\ call \in [Threads -> 0 .. MaxCalls]
           /\ acct \in [Tables -> [Column -> Int]] /\ fee \in [Tables -> Fees]
           /\ sum \in [Consoles -> Nat] /\ value \in [Threads -> Int] /\ read \in [Threads -> Int]
           /\ huser \in Tables /\ Other(huser) \in Tables /\ Other(huser) # huser
           /\ db \in [Column -> Int] /\ dbfee \in Nat /\ disturbed \in [Column -> BOOLEAN]
           /\ Sessions \subseteq Threads /\ Consoles \subseteq Threads /\ Sessions \cap Consoles = {}
           /\ \A t \in Threads : t \in Sessions \/ t \in Consoles
           /\ \A t \in Threads : pc[t] \in {"read", "store"} => ptr[t] \in Tables
           /\ \A t \in Threads : pc[t] = "store" => col[t] \in Column
BY SessionsAssumption, FeesAssumption
   DEF PartsInv, MemoryTypes, ThreadTypes, ValueTypes, RowTypes, Threads, Tables, Other, Holding, ConsoleLabels

(* Steps that move a thread in or out of nothing that is counted.           *)
LEMMA CallBalances ==
    ASSUME PartsInv, NEW c \in Column, Balanced(c), NEW s \in Sessions,
           BeginCall(s) \/ (\E e \in Column : Copy(s, e)) \/ Admit(s) \/ Refuse(s)
    PROVE  Balanced(c)'
<1>1. UNCHANGED <<acct, fee, huser, db, dbfee, accepted, charged, lost, disturbed, sum>>
  BY DEF BeginCall, Copy, Admit, Refuse, unchangedByCalls, memory, handles, row, history
<1>2. /\ pc[s] \notin {"find", "read", "store"} /\ pc'[s] \notin {"find", "read", "store"}
      /\ \A t \in Threads \ {s} : pc'[t] = pc[t] /\ col'[t] = col[t]
  BY BookTypes DEF BeginCall, Copy, Admit, Refuse, Return, Goto, Column
<1>3. Unstored(c)' = Unstored(c)
  BY <1>2, BookTypes, UnstoredSame
<1>4. Due(c)' = Due(c)
  BY <1>1, <1>2, BookTypes, DueSame
<1> QED BY <1>1, <1>3, <1>4, BalanceKept DEF Pending

LEMMA FindReadBalances ==
    ASSUME PartsInv, NEW c \in Column, Balanced(c), NEW t \in Threads, Find(t) \/ Read(t)
    PROVE  Balanced(c)'
<1>1. UNCHANGED <<acct, fee, huser, db, dbfee, accepted, charged, lost, disturbed, sum, col>>
  BY DEF Find, Read, unchangedByCalls, memory, handles, row, history
<1>2. /\ pc[t] \in {"find", "read", "store"} /\ pc'[t] \in {"find", "read", "store"}
      /\ \A u \in Threads \ {t} : pc'[u] = pc[u]
  BY BookTypes DEF Find, Read, Goto
<1>3. Unstored(c)' = Unstored(c)
  BY <1>1, <1>2, BookTypes, UnstoredSame
<1>4. Due(c)' = Due(c)
  BY <1>1, <1>2, BookTypes, DueSame
<1> QED BY <1>1, <1>3, <1>4, BalanceKept DEF Pending

(* A call that is queued is charged for once more than memory has been.     *)
LEMMA QueueBalances ==
    ASSUME PartsInv, FreshInv, NEW c \in Column, Balanced(c), NEW s \in Sessions, QueueDeduction(s),
           ChargedOnlyAccepted
    PROVE  Balanced(c)'
<1> DEFINE d == [call |-> call[s], from |-> col[s]]
<1>1. /\ UNCHANGED <<acct, fee, huser, db, dbfee, charged, lost, disturbed, sum, col, call>>
      /\ accepted' = accepted \union {d} /\ pc[s] = "deduct" /\ pc' = [pc EXCEPT ![s] = "find"]
  BY DEF QueueDeduction, Ledger!Accept, Goto, memory, handles, row, locals
<1>2. d \notin accepted /\ d \in Deduction
  BY <1>1 DEF FreshInv, Before, PartsInv, ThreadTypes, Deduction, InProgress
<1>3. pc'[s] = "find" /\ \A t \in Threads \ {s} : pc'[t] = pc[t]
  BY <1>1, BookTypes
<1>4. Due(c)' = Due(c)
  BY <1>1, <1>3, BookTypes, DueSame
<1>5. Pending' = Pending \union {d} /\ d \notin Pending
  <2>1. charged[d] = 0 /\ d \notin lost
    BY <1>2 DEF ChargedOnlyAccepted, PartsInv, LedgerTypes
  <2> QED BY <1>1, <1>2, <2>1 DEF Pending
<1>6. CASE col[s] # c
  <2>1. Unstored(c)' = Unstored(c)
    BY <1>1, <1>3, <1>6, BookTypes, UnstoredSame
  <2>2. Take(Pending, c)' = Take(Pending, c)
    BY <1>5, <1>6 DEF Take
  <2> QED BY <1>1, <1>4, <2>1, <2>2 DEF Balanced
<1>7. CASE col[s] = c
  <2> DEFINE q == Cardinality(Take(Pending, c))
             u == Cardinality(Unstored(c))
  <2>1. Unstored(c)' = Unstored(c) \union {s} /\ s \notin Unstored(c)
    BY <1>1, <1>3, <1>7, BookTypes DEF Unstored
  <2>2. Take(Pending, c)' = Take(Pending, c) \union {d} /\ d \notin Take(Pending, c)
    BY <1>5, <1>7 DEF Take
  <2>3. q \in Nat /\ IsFiniteSet(Take(Pending, c)) /\ u \in Nat /\ IsFiniteSet(Unstored(c))
    BY PendingCounts, SessionCounts DEF Unstored
  <2>4. Cardinality(Unstored(c)') = u + 1
    BY <2>1, <2>3, FS_AddElement
  <2>5. Cardinality(Take(Pending, c)') = q + 1
    <3> HIDE DEF d
    <3> QED BY <2>2, <2>3, FS_AddElement
  <2>6. (q + 1) - (u + 1) = q - u
    BY <2>3
  <2> HIDE DEF q, u
  <2> QED BY <1>1, <1>4, <2>4, <2>5, <2>6 DEF Balanced, q, u
<1> QED BY <1>6, <1>7

LEMMA TimesOneMore ==
    ASSUME NEW m \in Nat, NEW q \in Int, NEW u \in Int
    PROVE  m * (q - (u - 1)) = m * (q - u) + m /\ m * (q - u) \in Int
<1>1. q - u \in Int /\ q - (u - 1) = (q - u) + 1
  OBVIOUS
<1>2. m * ((q - u) + 1) = m * (q - u) + m * 1 /\ m * (q - u) \in Int
  BY <1>1, TimesSum
<1> QED BY <1>1, <1>2

(* A store that overwrites nothing: a deduction of a call that was queued,  *)
(* or a sum the database has.                                               *)
LEMMA StoreBalances ==
    ASSUME PartsInv, NEW c \in Column, Balanced(c), NEW t \in Threads, Faithful(t), Store(t)
    PROVE  Balanced(c)'
<1>1. /\ UNCHANGED <<fee, huser, db, dbfee, accepted, charged, lost, sum>>
      /\ pc[t] = "store" /\ pc' = [pc EXCEPT ![t] = "idle"] /\ col' = [col EXCEPT ![t] = "none"]
      /\ acct' = [acct EXCEPT ![ptr[t]][col[t]] = value[t]]
      /\ \/ UNCHANGED disturbed /\ ptr[t] = huser /\ acct[huser][col[t]] = read[t]
         \/ disturbed' = [disturbed EXCEPT ![col[t]] = TRUE]
  BY DEF Store, Return, Goto, Disturb, unchangedByCalls, memory, handles, row
<1>2. /\ pc'[t] = "idle" /\ ptr[t] \in Tables /\ col[t] \in Column /\ Pending' = Pending
      /\ \A u \in Threads \ {t} : pc'[u] = pc[u] /\ col'[u] = col[u]
  BY <1>1, BookTypes DEF Pending
<1>3. CASE col[t] # c
  <2>1. acct'[huser'][c] = acct[huser][c] /\ (disturbed[c] => disturbed'[c])
    BY <1>1, <1>2, <1>3, BookTypes
  <2>2. Unstored(c)' = Unstored(c)
    BY <1>2, <1>3, BookTypes, UnstoredSame
  <2>3. Due(c)' = Due(c)
    BY <1>1, <1>2, <1>3, BookTypes, DueSame
  <2> QED BY <1>1, <1>2, <2>1, <2>2, <2>3, BalanceKept
<1>4. CASE col[t] = c /\ disturbed'[c]
  BY <1>4 DEF Balanced
<1>5. CASE col[t] = c /\ ~disturbed'[c]
  <2>1. ptr[t] = huser /\ acct[huser][c] = read[t] /\ ~disturbed[c] /\ UNCHANGED disturbed
    BY <1>1, <1>2, <1>5, BookTypes
  <2>2. value[t] = Changed(t, read[t]) /\ acct'[huser][c] = value[t]
    BY <1>1, <1>2, <1>5, <2>1, BookTypes DEF Faithful
  <2>3. /\ fee[huser] = dbfee
        /\ acct[huser][c] + Cardinality(Due(c))
             = db[c] - dbfee * (Cardinality(Take(Pending, c)) - Cardinality(Unstored(c)))
    BY <2>1 DEF Balanced
  <2>4. Cardinality(Take(Pending, c)) \in Nat /\ Cardinality(Unstored(c)) \in Nat /\ Cardinality(Due(c)) \in Nat
        /\ IsFiniteSet(Unstored(c)) /\ acct[huser][c] \in Int /\ db[c] \in Int /\ dbfee \in Nat
        /\ acct'[huser'][c] = acct'[huser][c] /\ fee'[huser'] = fee[huser]
    BY <1>1, BookTypes, PendingCounts, SessionCounts, DueCounts DEF Unstored
  <2>5. CASE t \in Sessions
    <3>1. Due(c)' = Due(c)
      BY <1>1, <1>2, <2>5, BookTypes, DueSame
    <3>2. Unstored(c)' = Unstored(c) \ {t} /\ t \in Unstored(c)
      BY <1>1, <1>2, <1>5, <2>5, BookTypes DEF Unstored
    <3>3. Cardinality(Unstored(c)') = Cardinality(Unstored(c)) - 1
      BY <2>4, <3>2, FS_RemoveElement
    <3>4. acct'[huser'][c] = acct[huser][c] - dbfee
      BY <2>1, <2>2, <2>3, <2>4, <2>5 DEF Changed
    <3> DEFINE q == Cardinality(Take(Pending, c))
               u == Cardinality(Unstored(c))
               a == acct[huser][c]
    <3>5. dbfee * (q - (u - 1)) = dbfee * (q - u) + dbfee /\ dbfee * (q - u) \in Int
      <4>1. q \in Int /\ u \in Int
        BY <2>4
      <4> HIDE DEF q, u
      <4> QED BY <2>4, <4>1, TimesOneMore
    <3>6. a - dbfee + Cardinality(Due(c)) = db[c] - dbfee * (q - (u - 1))
      <4>1. a + Cardinality(Due(c)) = db[c] - dbfee * (q - u) /\ a \in Int
        BY <2>3, <2>4
      <4> HIDE DEF q, u, a
      <4> QED BY <2>4, <3>5, <4>1
    <3> QED BY <1>1, <1>2, <2>3, <2>4, <3>1, <3>3, <3>4, <3>6 DEF Balanced, Take
  <2>6. CASE t \in Consoles
    <3>1. Unstored(c)' = Unstored(c)
      BY <1>2, <2>6, BookTypes, UnstoredSame
    <3>2. PaidNotShown(c) = PaidNotShown(c)' \union {t} /\ t \notin PaidNotShown(c)'
      BY <1>1, <1>2, <1>5, <2>6, BookTypes DEF PaidNotShown
    <3>3. Cardinality(Due(c)) = Cardinality(Due(c)') + sum[t]
      <4> DEFINE S == PaidNotShown(c)'
                 A == UNION {{i} \X (1 .. sum[i]) : i \in S}
                 B == UNION {{i} \X (1 .. sum[i]) : i \in S \union {t}}
      <4>1. Due(c) = B /\ Due(c)' = A
        BY <1>1, <3>2 DEF Due
      <4>2. A \subseteq B
        OBVIOUS
      <4>3. IsFiniteSet(A)
        BY <4>1, <4>2, DueCounts, FS_Subset
      <4>4. t \notin S /\ S \subseteq Consoles
        BY <3>2 DEF PaidNotShown
      <4> HIDE DEF S
      <4>5. Cardinality(B) = Cardinality(A) + sum[t]
        BY <2>6, <4>3, <4>4, DueAdds
      <4> QED BY <4>1, <4>5
    <3>4. acct'[huser'][c] = acct[huser][c] + sum[t] /\ sum[t] \in Nat
      BY <2>1, <2>2, <2>4, <2>6, BookTypes DEF Changed
    <3>5. Cardinality(Due(c)') \in Int
      <4>1. Due(c)' \subseteq Due(c)
        BY <1>1, <3>2 DEF Due
      <4> QED BY <4>1, DueCounts, FS_Subset, FS_CardinalityType
    <3>6. acct'[huser'][c] + Cardinality(Due(c)') = acct[huser][c] + Cardinality(Due(c))
      BY <2>4, <3>3, <3>4, <3>5
    <3> QED BY <1>1, <1>2, <2>3, <2>4, <3>1, <3>6 DEF Balanced, Take
  <2> QED BY <2>5, <2>6, BookTypes
<1> QED BY <1>3, <1>4, <1>5

LEMMA CommandBalances ==
    ASSUME PartsInv, NEW c \in Column, Balanced(c), NEW k \in Consoles, ConsoleStep(k),
           FeeUnderWay(k) => disturbed[c]
    PROVE  Balanced(c)'
<1>1. UNCHANGED <<acct, huser, accepted, charged, lost, ledger>> /\ Pending' = Pending
  BY DEF ConsoleStep, BeginCommand, QuerySucceeds, QueryFails, ChangeFee, unchangedByCalls, memory, handles, ledger, Pending
<1>2. \A t \in Threads \ {k} : pc'[t] = pc[t] /\ col'[t] = col[t]
  <2>1. CASE BeginCommand(k)
    <3>1. \E x : col' = [col EXCEPT ![k] = x]
      BY <2>1 DEF BeginCommand
    <3> QED BY <2>1, <3>1, BookTypes DEF BeginCommand, Goto
  <2>2. CASE QuerySucceeds(k) \/ QueryFails(k) \/ ChangeFee(k)
    BY <2>2, BookTypes DEF QuerySucceeds, QueryFails, ChangeFee, Return, Goto, locals
  <2> QED BY <2>1, <2>2 DEF ConsoleStep
<1>3. Unstored(c)' = Unstored(c)
  BY <1>2, BookTypes, UnstoredSame
<1>4. CASE BeginCommand(k)
  <2>1. UNCHANGED <<fee, db, dbfee, disturbed>> /\ pc[k] = "idle" /\ pc'[k] = "query"
    BY <1>4, BookTypes DEF BeginCommand, Goto, memory, row
  <2>2. \A i \in Consoles \ {k} : sum'[i] = sum[i]
    <3>1. \E x : sum' = [sum EXCEPT ![k] = x]
      BY <1>4 DEF BeginCommand
    <3> QED BY <3>1, BookTypes
  <2>3. Due(c)' = Due(c)
    BY <1>2, <2>1, <2>2, BookTypes, DueSame
  <2> QED BY <1>1, <1>3, <2>1, <2>3, BalanceKept
<1>5. CASE QueryFails(k)
  <2>1. UNCHANGED <<fee, sum>> /\ pc[k] = "query" /\ pc'[k] = "idle"
    BY <1>5, BookTypes DEF QueryFails, Return, Goto, memory
  <2>2. Due(c)' = Due(c)
    BY <1>2, <2>1, BookTypes, DueSame
  <2>3. disturbed[c] => disturbed'[c]
    BY <1>5, BookTypes DEF QueryFails, DisturbedBy
  <2>4. disturbed'[c] \/ (db'[c] = db[c] /\ dbfee' = dbfee)
    BY <1>5, BookTypes DEF QueryFails, DisturbedBy, Execute, row
  <2>5. CASE disturbed'[c]
    BY <2>5 DEF Balanced
  <2> QED BY <1>1, <1>3, <2>1, <2>2, <2>3, <2>4, <2>5, BalanceKept
<1>6. CASE ChangeFee(k)
  <2>1. disturbed[c] /\ UNCHANGED disturbed
    BY <1>6 DEF ChangeFee, FeeUnderWay, history
  <2> QED BY <2>1 DEF Balanced
<1>7. CASE QuerySucceeds(k)
  <2>1. /\ UNCHANGED <<fee, sum, col>> /\ pc[k] = "query" /\ pc'[k] = "find" /\ Execute(col[k], sum[k])
        /\ disturbed' = IF col[k] = "fee" THEN DisturbedBy("fee") ELSE disturbed
    BY <1>7, BookTypes DEF QuerySucceeds, Goto, memory, locals
  <2>2. CASE col[k] = "fee"
    <3>1. disturbed'[c]
      BY <2>1, <2>2 DEF DisturbedBy
    <3> QED BY <3>1 DEF Balanced
  <2>3. CASE col[k] \notin {"fee", c}
    <3>1. db'[c] = db[c] /\ dbfee' = dbfee /\ disturbed' = disturbed
      BY <2>1, <2>3 DEF Execute
    <3>2. Due(c)' = Due(c)
      BY <1>2, <2>1, <2>3, BookTypes, DueSame
    <3> QED BY <1>1, <1>3, <2>1, <3>1, <3>2, BalanceKept
  <2>4. CASE col[k] = c
    <3>1. db'[c] = db[c] + sum[k] /\ dbfee' = dbfee /\ disturbed' = disturbed /\ sum[k] \in Nat /\ db[c] \in Int
      BY <2>1, <2>4, BookTypes DEF Execute, Column
    <3>2. PaidNotShown(c)' = PaidNotShown(c) \union {k} /\ k \notin PaidNotShown(c)
      BY <1>2, <2>1, <2>4, BookTypes DEF PaidNotShown
    <3>3. Cardinality(Due(c)') = Cardinality(Due(c)) + sum[k]
      <4> DEFINE S == PaidNotShown(c)
                 A == UNION {{i} \X (1 .. sum[i]) : i \in S}
                 B == UNION {{i} \X (1 .. sum[i]) : i \in S \union {k}}
      <4>1. Due(c) = A /\ Due(c)' = B
        BY <2>1, <3>2 DEF Due
      <4>2. IsFiniteSet(A)
        BY <4>1, DueCounts
      <4>3. k \notin S /\ S \subseteq Consoles
        BY <3>2 DEF PaidNotShown
      <4> HIDE DEF S
      <4>4. Cardinality(B) = Cardinality(A) + sum[k]
        BY <4>2, <4>3, DueAdds
      <4> QED BY <4>1, <4>4
    <3> DEFINE w == dbfee * (Cardinality(Take(Pending, c)) - Cardinality(Unstored(c)))
    <3>4. w \in Int /\ acct[huser][c] \in Int /\ Cardinality(Due(c)) \in Nat
      BY BookTypes, PendingCounts, SessionCounts, DueCounts DEF Unstored
    <3>5. ~disturbed[c] => acct[huser][c] + Cardinality(Due(c)) + sum[k] = db[c] + sum[k] - w /\ fee[huser] = dbfee
      <4>1. ~disturbed[c] => acct[huser][c] + Cardinality(Due(c)) = db[c] - w /\ fee[huser] = dbfee
        BY DEF Balanced
      <4> HIDE DEF w
      <4> QED BY <3>1, <3>4, <4>1
    <3>6. acct[huser][c] + (Cardinality(Due(c)) + sum[k]) = acct[huser][c] + Cardinality(Due(c)) + sum[k]
      BY <3>1, <3>4
    <3>7. dbfee' * (Cardinality(Take(Pending, c)') - Cardinality(Unstored(c)')) = w
      BY <1>1, <1>3, <3>1 DEF Take
    <3>8. acct'[huser'][c] = acct[huser][c] /\ fee'[huser'] = fee[huser]
      BY <1>1, <2>1
    <3>9. ~disturbed[c] => acct'[huser'][c] + Cardinality(Due(c)') = db'[c] - w
      <4> HIDE DEF w
      <4>1. ASSUME acct[huser][c] + Cardinality(Due(c)) + sum[k] = db[c] + sum[k] - w
            PROVE  acct'[huser'][c] + Cardinality(Due(c)') = db'[c] - w
        BY <3>1, <3>3, <3>4, <3>6, <3>8, <4>1
      <4> QED BY <3>5, <4>1
    <3>10. ~disturbed'[c] => fee'[huser'] = dbfee' /\ acct'[huser'][c] + Cardinality(Due(c)') = db'[c] - w
      BY <3>1, <3>5, <3>8, <3>9
    <3> QED BY <3>7, <3>10 DEF Balanced
  <2> QED BY <2>2, <2>3, <2>4
<1> QED BY <1>4, <1>5, <1>6, <1>7 DEF ConsoleStep

(* A late statement disturbs what it changes.                               *)
LEMMA LateBalances ==
    ASSUME PartsInv, NEW c \in Column, Balanced(c), NEW j \in Statement, LateStatement(j)
    PROVE  Balanced(c)'
<1>1. disturbed' = DisturbedBy(j.col) /\ Execute(j.col, j.sum)
      /\ UNCHANGED <<acct, fee, huser, pc, col, sum, accepted, charged, lost>>
  BY DEF LateStatement, memory, handles, locals, ledger
<1>2. CASE j.col \in {c, "fee"}
  <2>1. disturbed'[c]
    BY <1>1, <1>2 DEF DisturbedBy
  <2> QED BY <2>1 DEF Balanced
<1>3. CASE j.col \notin {c, "fee"}
  <2>1. db'[c] = db[c] /\ dbfee' = dbfee /\ (disturbed[c] => disturbed'[c])
    BY <1>1, <1>3 DEF Execute, DisturbedBy
  <2>2. Due(c)' = Due(c) /\ Unstored(c)' = Unstored(c) /\ Pending' = Pending
    BY <1>1 DEF Due, PaidNotShown, Unstored, Pending
  <2> QED BY <1>1, <2>1, <2>2, BalanceKept
<1> QED BY <1>2, <1>3

(* A batch is charged: the row pays what was still to be paid.              *)
LEMMA ChargeBalances ==
    ASSUME PartsInv, NEW c \in Column, Balanced(c), NEW S \in SUBSET Pending, Charge(S)
    PROVE  Balanced(c)'
<1> DEFINE q == Cardinality(Take(Pending, c))
           n == Cardinality(Take(S, c))
           u == Cardinality(Unstored(c))
           a == acct[huser][c] + Cardinality(Due(c))
<1>1. /\ db' = [e \in Column |-> db[e] - dbfee * Cardinality(Take(S, e))]
      /\ UNCHANGED <<accepted, lost, acct, fee, huser, pc, col, sum, dbfee, disturbed>>
      /\ charged' = [e \in Deduction |-> IF e \in S THEN 1 ELSE charged[e]]
  BY DEF Charge, Ledger!Charge, memory, handles, locals, history
<1>2. Take(Pending', c) = Take(Pending, c) \ Take(S, c)
  BY <1>1 DEF Take, Pending, PartsInv, LedgerTypes
<1>3. Take(S, c) \subseteq Take(Pending, c)
  BY DEF Take
<1>4. IsFiniteSet(Take(Pending, c)) /\ q \in Nat /\ u \in Nat
  BY PendingCounts, SessionCounts DEF Unstored
<1>5. n \in Nat
  BY <1>3, <1>4, FS_Subset, FS_CardinalityType
<1>6. Cardinality(Take(Pending', c)) = q - n
  BY <1>2, <1>3, <1>4, WithoutPart
<1>7. Due(c)' = Due(c) /\ Unstored(c)' = Unstored(c) /\ db'[c] = db[c] - dbfee * n
  BY <1>1 DEF Due, PaidNotShown, Unstored
<1>8. db[c] - dbfee * n - dbfee * ((q - n) - u) = db[c] - dbfee * (q - u)
  <2>1. db[c] \in Int /\ dbfee \in Nat /\ n + ((q - n) - u) = q - u /\ n \in Int /\ (q - n) - u \in Int
    BY <1>4, <1>5, BookTypes
  <2> HIDE DEF q, n, u
  <2>2. dbfee * (n + ((q - n) - u)) = dbfee * n + dbfee * ((q - n) - u)
        /\ dbfee * n \in Int /\ dbfee * ((q - n) - u) \in Int
    BY <2>1, TimesSum
  <2> QED BY <2>1, <2>2
<1>9. Cardinality(Take(Pending, c)') = q - n /\ acct'[huser'][c] + Cardinality(Due(c)') = a
      /\ fee'[huser'] = fee[huser] /\ dbfee' = dbfee /\ disturbed' = disturbed
  BY <1>1, <1>6, <1>7 DEF Take
<1>10. ~disturbed[c] => fee[huser] = dbfee /\ a = db[c] - dbfee * (q - u)
  BY DEF Balanced
<1>11. ~disturbed[c] => a = db'[c] - dbfee * ((q - n) - u)
  <2>1. db'[c] - dbfee * ((q - n) - u) = db[c] - dbfee * (q - u)
    <3> HIDE DEF q, n, u
    <3> QED BY <1>7, <1>8
  <2> QED BY <1>10, <2>1
<1> HIDE DEF q, n, u, a
<1> QED BY <1>7, <1>9, <1>10, <1>11 DEF Balanced, u

LEMMA LoseBalances ==
    ASSUME PartsInv, NEW c \in Column, Balanced(c), NEW d \in Pending, Lose(d)
    PROVE  Balanced(c)'
<1>1. /\ UNCHANGED <<acct, fee, huser, pc, col, sum, accepted, charged, db, dbfee>>
      /\ lost' = lost \union {d} /\ disturbed' = [disturbed EXCEPT ![d.from] = TRUE]
  BY DEF Lose, Disturb, memory, handles, locals, row
<1>2. d.from \in Column
  BY DEF Pending, PartsInv, LedgerTypes, Deduction
<1>3. CASE d.from = c
  <2>1. disturbed'[c]
    BY <1>1, <1>3, BookTypes
  <2> QED BY <2>1 DEF Balanced
<1>4. CASE d.from # c
  <2>1. Take(Pending, c)' = Take(Pending, c)
    BY <1>1, <1>4 DEF Take, Pending
  <2>2. disturbed'[c] = disturbed[c]
    BY <1>1, <1>2, <1>4, BookTypes
  <2> QED BY <1>1, <2>1, <2>2 DEF Balanced, Due, PaidNotShown, Unstored
<1> QED BY <1>3, <1>4

(* A reload: until the pointer is redirected nothing that counts changes;   *)
(* then the table in use is what the SELECT saw.                            *)
LEMMA ReloadBalances ==
    ASSUME PartsInv, NEW c \in Column, Balanced(c), QuietInv, ReloadStep \/ Rest
    PROVE  Balanced(c)'
<1>1. UNCHANGED <<pc, col, sum, accepted, charged, lost, db, dbfee>>
  BY DEF ReloadStep, BeginReload, Load, LoadFails, SwitchUser, SwitchNum, Rest, locals, ledger, row
<1>2. Pending' = Pending /\ Due(c)' = Due(c) /\ Unstored(c)' = Unstored(c)
  BY <1>1 DEF Pending, Due, PaidNotShown, Unstored
<1>3. CASE ~SwitchUser
  <2>1. UNCHANGED <<huser, disturbed>> /\ acct'[huser] = acct[huser] /\ fee'[huser] = fee[huser]
    <3>1. CASE Load
      BY <3>1, BookTypes DEF Load, handles
    <3>2. CASE BeginReload \/ LoadFails \/ SwitchNum \/ Rest
      BY <3>2 DEF BeginReload, LoadFails, SwitchNum, Rest, memory, handles, history
    <3> QED BY <1>3, <3>1, <3>2 DEF ReloadStep
  <2> QED BY <1>1, <1>2, <2>1, BalanceKept
<1>4. CASE SwitchUser
  <2>1. /\ reload = "user" /\ huser' = Other(huser) /\ UNCHANGED <<acct, fee>>
        /\ disturbed' = [e \in Column |-> ~quiet]
    BY <1>4 DEF SwitchUser, memory
  <2>2. CASE ~quiet
    BY <2>1, <2>2 DEF Balanced
  <2>3. CASE quiet
    <3>1. Pending = {} /\ Unfinished = {} /\ acct[Other(huser)] = db /\ fee[Other(huser)] = dbfee
      BY <2>1, <2>3 DEF QuietInv
    <3>2. Take(Pending, c) = {} /\ Unstored(c) = {} /\ Due(c) = {}
      BY <3>1, BookTypes DEF Take, Unstored, Unfinished, Due, PaidNotShown
    <3>3. Cardinality({}) = 0 /\ dbfee * (0 - 0) = 0 /\ db[c] \in Int
      BY BookTypes, FS_EmptySet
    <3>4. acct'[huser'][c] = db[c] /\ fee'[huser'] = dbfee
      BY <2>1, <3>1
    <3>5. Take(Pending, c)' = {}
      BY <1>2, <3>2 DEF Take
    <3> QED BY <1>1, <1>2, <3>2, <3>3, <3>4, <3>5 DEF Balanced
  <2> QED BY <2>2, <2>3, BookTypes
<1> QED BY <1>3, <1>4

(* What disturbs a column remains until a quiet reload, when nothing is     *)
(* unfinished.                                                              *)
LEMMA Disturbances ==
    ASSUME PartsInv, QuietInv, Step \/ Rest
    PROVE  \/ Unfinished = {} /\ UNCHANGED pc
           \/ \A c \in Column : disturbed[c] => disturbed'[c]
<1>0. disturbed \in [Column -> BOOLEAN]
  BY BookTypes
<1>1. ASSUME NEW s \in Sessions, SessionStep(s) PROVE UNCHANGED disturbed
  BY <1>1 DEF SessionStep, BeginCall, Copy, Admit, Refuse, QueueDeduction, history
<1>2. ASSUME NEW k \in Consoles, ConsoleStep(k) PROVE \A c \in Column : disturbed[c] => disturbed'[c]
  BY <1>0, <1>2 DEF ConsoleStep, BeginCommand, QuerySucceeds, QueryFails, ChangeFee, DisturbedBy, history
<1>3. ASSUME NEW t \in Threads, Find(t) \/ Read(t) \/ Store(t)
      PROVE  \A c \in Column : disturbed[c] => disturbed'[c]
  BY <1>0, <1>3 DEF Find, Read, Store, Disturb, history
<1>4. ASSUME (\E S \in SUBSET Pending : Charge(S)) \/ (\E d \in Pending : Lose(d))
             \/ (\E j \in Statement : LateStatement(j))
      PROVE  \A c \in Column : disturbed[c] => disturbed'[c]
  BY <1>0, <1>4 DEF Charge, Lose, LateStatement, DisturbedBy, Disturb, history
<1>5. CASE SwitchUser
  <2>1. disturbed' = [c \in Column |-> ~quiet] /\ reload = "user" /\ UNCHANGED pc
    BY <1>5 DEF SwitchUser
  <2>2. quiet => Unfinished = {}
    BY <2>1 DEF QuietInv
  <2> QED BY <2>1, <2>2
<1>6. CASE BeginReload \/ Load \/ LoadFails \/ SwitchNum \/ Rest
  BY <1>6 DEF BeginReload, Load, LoadFails, SwitchNum, Rest, history
<1> QED BY <1>1, <1>2, <1>3, <1>4, <1>5, <1>6 DEF Step, ReloadStep

LEMMA FeeStep ==
    ASSUME PartsInv, QuietInv, Step \/ Rest,
           \A i \in Consoles : FeeUnderWay(i) => \A c \in Column : disturbed[c],
           NEW k \in Consoles, FeeUnderWay(k)', NEW c \in Column
    PROVE  disturbed'[c]
<1>1. CASE QuerySucceeds(k)
  <2>1. col' = col /\ disturbed' = IF col[k] = "fee" THEN DisturbedBy("fee") ELSE disturbed
    BY <1>1 DEF QuerySucceeds, locals
  <2> QED BY <2>1 DEF FeeUnderWay, DisturbedBy
<1>2. CASE ~QuerySucceeds(k)
  <2>1. FeeUnderWay(k)
    <3>1. ASSUME NEW s \in Sessions, SessionStep(s) PROVE FeeUnderWay(k)
      <4>1. pc'[k] = pc[k] /\ col'[k] = col[k]
        BY <3>1, BookTypes DEF SessionStep, BeginCall, Copy, Admit, Refuse, QueueDeduction, Return, Goto, locals
      <4> QED BY <4>1 DEF FeeUnderWay
    <3>2. ASSUME NEW i \in Consoles, ConsoleStep(i) PROVE FeeUnderWay(k)
      <4>1. CASE i # k
        <5>1. CASE BeginCommand(i)
          <6>1. (\E x : col' = [col EXCEPT ![i] = x]) /\ pc' = [pc EXCEPT ![i] = "query"]
            BY <5>1 DEF BeginCommand, Goto
          <6>2. pc'[k] = pc[k] /\ col'[k] = col[k]
            BY <4>1, <6>1, BookTypes
          <6> QED BY <6>2 DEF FeeUnderWay
        <5>2. CASE QuerySucceeds(i) \/ QueryFails(i) \/ ChangeFee(i)
          <6>1. pc'[k] = pc[k] /\ col'[k] = col[k]
            BY <4>1, <5>2, BookTypes DEF QuerySucceeds, QueryFails, ChangeFee, Return, Goto, locals
          <6> QED BY <6>1 DEF FeeUnderWay
        <5> QED BY <3>2, <5>1, <5>2 DEF ConsoleStep
      <4>2. CASE i = k
        <5>1. pc'[k] \in {"query", "idle"}
          BY <1>2, <3>2, <4>2, BookTypes DEF ConsoleStep, BeginCommand, QueryFails, ChangeFee, Return, Goto
        <5> QED BY <5>1 DEF FeeUnderWay
      <4> QED BY <4>1, <4>2
    <3>3. ASSUME NEW t \in Threads, Find(t) \/ Read(t) \/ Store(t) PROVE FeeUnderWay(k)
      <4>1. CASE t # k
        <5>1. pc'[k] = pc[k] /\ col'[k] = col[k]
          BY <3>3, <4>1, BookTypes DEF Find, Read, Store, Return, Goto
        <5> QED BY <5>1 DEF FeeUnderWay
      <4>2. CASE t = k
        <5>1. CASE Find(k)
          BY <5>1 DEF Find, FeeUnderWay
        <5>2. CASE Read(k) \/ Store(k)
          <6>1. pc'[k] \in {"store", "idle"}
            BY <5>2, BookTypes DEF Read, Store, Return, Goto
          <6> QED BY <6>1 DEF FeeUnderWay
        <5> QED BY <3>3, <4>2, <5>1, <5>2
      <4> QED BY <4>1, <4>2
    <3>4. ASSUME UNCHANGED <<pc, col>> PROVE FeeUnderWay(k)
      BY <3>4 DEF FeeUnderWay
    <3>5. (\E S \in SUBSET Pending : Charge(S)) \/ (\E d \in Pending : Lose(d))
            \/ (\E j \in Statement : LateStatement(j)) \/ ReloadStep \/ Rest => UNCHANGED <<pc, col>>
      BY DEF Charge, Lose, LateStatement, ReloadStep, BeginReload, Load, LoadFails, SwitchUser, SwitchNum, Rest, locals
    <3> QED BY <3>1, <3>2, <3>3, <3>4, <3>5 DEF Step
  <2>2. Unfinished # {}
    BY <2>1, BookTypes DEF FeeUnderWay, Unfinished
  <2> QED BY <2>1, <2>2, Disturbances
<1> QED BY <1>1, <1>2

(* A reload stays quiet only if nothing begins that it has not seen.        *)
LEMMA QuietStep ==
    ASSUME PartsInv, QuietInv, Step \/ Rest PROVE QuietInv'
<1> DEFINE Same == UNCHANGED <<reload, quiet, acct, fee, huser, db, dbfee, Pending, Unfinished>>
<1>1. Same => QuietInv'
  BY DEF QuietInv
<1>2. ASSUME NEW s \in Sessions, SessionStep(s) PROVE QuietInv'
  <2>1. CASE QueueDeduction(s)
    BY <2>1 DEF QueueDeduction, QuietInv
  <2>2. CASE BeginCall(s) \/ (\E e \in Column : Copy(s, e)) \/ Admit(s) \/ Refuse(s)
    <3>1. UNCHANGED <<reload, quiet, acct, fee, huser, db, dbfee, accepted, charged, lost>>
      BY <2>2 DEF BeginCall, Copy, Admit, Refuse, unchangedByCalls, memory, handles, row, history
    <3>2. pc[s] \notin {"query", "find", "read", "store"} /\ pc'[s] \notin {"query", "find", "read", "store"}
          /\ \A t \in Threads \ {s} : pc'[t] = pc[t]
      BY <2>2, BookTypes DEF BeginCall, Copy, Admit, Refuse, Return, Goto, Column
    <3>3. Unfinished' = Unfinished
      BY <3>2, BookTypes DEF Unfinished
    <3> QED BY <1>1, <3>1, <3>3 DEF Pending
  <2> QED BY <1>2, <2>1, <2>2 DEF SessionStep
<1>3. ASSUME NEW k \in Consoles, ConsoleStep(k) PROVE QuietInv'
  <2>1. CASE BeginCommand(k)
    BY <2>1 DEF BeginCommand, QuietInv
  <2>2. CASE QuerySucceeds(k) \/ QueryFails(k) \/ ChangeFee(k)
    <3>1. k \in Unfinished /\ UNCHANGED <<reload, quiet>>
      BY <2>2, BookTypes DEF QuerySucceeds, QueryFails, ChangeFee, Unfinished, unchangedByCalls, history
    <3> QED BY <3>1 DEF QuietInv
  <2> QED BY <1>3, <2>1, <2>2 DEF ConsoleStep
<1>4. ASSUME NEW t \in Threads, Find(t) \/ Read(t) \/ Store(t) PROVE QuietInv'
  <2>1. t \in Unfinished /\ UNCHANGED <<reload, quiet>>
    BY <1>4 DEF Find, Read, Store, Unfinished, unchangedByCalls, history
  <2> QED BY <2>1 DEF QuietInv
<1>5. CASE (\E S \in SUBSET Pending : Charge(S)) \/ (\E d \in Pending : Lose(d))
  <2>1. Pending # {} /\ UNCHANGED <<reload, quiet>>
    BY <1>5 DEF Charge, Lose, history
  <2> QED BY <2>1 DEF QuietInv
<1>9. ASSUME NEW j \in Statement, LateStatement(j) PROVE QuietInv'
  BY <1>9 DEF LateStatement, QuietInv
<1>6. CASE BeginReload \/ LoadFails \/ SwitchUser \/ SwitchNum
  <2>1. reload' # "user"
    BY <1>6 DEF BeginReload, LoadFails, SwitchUser, SwitchNum
  <2> QED BY <2>1 DEF QuietInv
<1>7. CASE Load
  <2>1. /\ acct'[Other(huser)] = db /\ fee'[Other(huser)] = dbfee
        /\ quiet' = (Pending = {} /\ Unfinished = {})
        /\ UNCHANGED <<huser, db, dbfee, accepted, charged, lost, pc>>
    BY <1>7, BookTypes DEF Load, handles, row, ledger
  <2>2. Pending' = Pending /\ Unfinished' = Unfinished
    BY <2>1 DEF Pending, Unfinished
  <2> QED BY <2>1, <2>2 DEF QuietInv, Other
<1>8. CASE Rest
  <2>1. UNCHANGED <<reload, quiet, acct, fee, huser, db, dbfee, accepted, charged, lost, pc>>
    BY <1>8 DEF Rest, memory, handles, row, ledger, history
  <2> QED BY <1>1, <2>1 DEF Pending, Unfinished
<1> QED BY <1>2, <1>3, <1>4, <1>5, <1>6, <1>7, <1>8, <1>9 DEF Step, ReloadStep

(* What a thread will store is still what its column is to become.          *)
LEMMA FaithfulStep ==
    ASSUME PartsInv, QuietInv, Step \/ Rest, NEW t \in Threads, Faithful(t),
           \A k \in Consoles : FeeUnderWay(k) => \A c \in Column : disturbed[c]
    PROVE  Faithful(t)'
<1> SUFFICES ASSUME pc'[t] = "store", ptr'[t] = huser', ~disturbed'[col'[t]]
             PROVE  value'[t] = Changed(t, read[t])'
  BY DEF Faithful
<1>1. ASSUME pc[t] = "store", UNCHANGED <<sum, huser>>, col'[t] = col[t], ptr'[t] = ptr[t],
             value'[t] = value[t], read'[t] = read[t], disturbed[col[t]] => disturbed'[col[t]],
             ptr[t] = huser => fee'[ptr[t]] = fee[ptr[t]]
      PROVE  value'[t] = Changed(t, read[t])'
  BY <1>1 DEF Faithful, Changed
<1>2. ASSUME NEW s \in Sessions, SessionStep(s) PROVE value'[t] = Changed(t, read[t])'
  <2>1. UNCHANGED <<sum, huser, value, read, disturbed, fee>>
    BY <1>2 DEF SessionStep, BeginCall, Copy, Admit, Refuse, QueueDeduction, unchangedByCalls, memory, handles, locals, history
  <2>2. t # s /\ pc[t] = "store" /\ col'[t] = col[t] /\ ptr'[t] = ptr[t]
    BY <1>2, BookTypes DEF SessionStep, BeginCall, Copy, Admit, Refuse, QueueDeduction, Return, Goto, Column, locals
  <2> QED BY <1>1, <2>1, <2>2
<1>3. ASSUME NEW k \in Consoles, ConsoleStep(k) PROVE value'[t] = Changed(t, read[t])'
  <2>0. UNCHANGED <<huser, value, read>>
    BY <1>3 DEF ConsoleStep, BeginCommand, QuerySucceeds, QueryFails, ChangeFee, unchangedByCalls, handles, locals, history
  <2>1. CASE BeginCommand(k)
    <3>1. /\ \E x : col' = [col EXCEPT ![k] = x]
          /\ \E x : sum' = [sum EXCEPT ![k] = x]
          /\ pc' = [pc EXCEPT ![k] = "query"] /\ UNCHANGED <<ptr, fee, disturbed>>
      BY <2>1 DEF BeginCommand, Goto, memory
    <3>2. t # k /\ pc[t] = "store" /\ col'[t] = col[t] /\ (t \in Consoles => sum'[t] = sum[t])
      BY <3>1, BookTypes
    <3> QED BY <2>0, <3>1, <3>2, BookTypes DEF Faithful, Changed
  <2>2. CASE QuerySucceeds(k) \/ QueryFails(k)
    <3>1. UNCHANGED <<sum, fee>> /\ t # k /\ pc[t] = "store" /\ col'[t] = col[t] /\ ptr'[t] = ptr[t]
      BY <2>2, BookTypes DEF QuerySucceeds, QueryFails, Return, Goto, memory, locals
    <3>2. col[t] \in Column /\ Unfinished # {}
      BY <3>1, BookTypes DEF Unfinished
    <3> QED BY <1>1, <2>0, <3>1, <3>2, Disturbances
  <2>3. CASE ChangeFee(k)
    <3>1. UNCHANGED disturbed /\ FeeUnderWay(k) /\ t # k /\ pc[t] = "store" /\ col'[t] = col[t]
      BY <2>3, BookTypes DEF ChangeFee, Return, Goto, FeeUnderWay, history
    <3> QED BY <3>1, BookTypes
  <2> QED BY <1>3, <2>1, <2>2, <2>3 DEF ConsoleStep
<1>4. ASSUME NEW u \in Threads, Find(u) \/ Read(u) \/ Store(u) PROVE value'[t] = Changed(t, read[t])'
  <2>0. UNCHANGED <<sum, huser, fee>>
    BY <1>4 DEF Find, Read, Store, unchangedByCalls, memory, handles
  <2>1. CASE u = t
    <3>1. Read(t)
      BY <1>4, <2>1, BookTypes DEF Find, Store, Return, Goto
    <3>2. UNCHANGED ptr /\ value'[t] = Changed(t, acct[ptr[t]][col[t]]) /\ read'[t] = acct[ptr[t]][col[t]]
      BY <3>1, BookTypes DEF Read
    <3> QED BY <2>0, <3>2 DEF Changed
  <2>2. CASE u # t
    <3>1. /\ pc[t] = "store" /\ col'[t] = col[t] /\ ptr'[t] = ptr[t] /\ value'[t] = value[t] /\ read'[t] = read[t]
      BY <1>4, <2>2, BookTypes DEF Find, Read, Store, Return, Goto, history
    <3>2. col[t] \in Column /\ Unfinished # {}
      BY <3>1, BookTypes DEF Unfinished
    <3> QED BY <1>1, <2>0, <3>1, <3>2, Disturbances
  <2> QED BY <2>1, <2>2
<1>5. CASE \/ (\E S \in SUBSET Pending : Charge(S)) \/ (\E d \in Pending : Lose(d))
            \/ (\E j \in Statement : LateStatement(j)) \/ ReloadStep \/ Rest
  <2>1. UNCHANGED <<pc, sum, col, ptr, value, read>>
    BY <1>5 DEF Charge, Lose, LateStatement, ReloadStep, BeginReload, Load, LoadFails, SwitchUser, SwitchNum, Rest, locals, history
  <2>2. col[t] \in Column /\ t \in Unfinished
    BY <2>1, BookTypes DEF Unfinished
  <2>3. disturbed[col[t]] => disturbed'[col[t]]
    BY <2>2, Disturbances
  <2>4. CASE SwitchUser
    <3>1. reload = "user" /\ disturbed' = [c \in Column |-> ~quiet]
      BY <2>4 DEF SwitchUser
    <3>2. ~quiet
      BY <2>2, <3>1 DEF QuietInv
    <3> QED BY <2>1, <2>2, <3>1, <3>2
  <2>5. CASE ~SwitchUser
    <3>1. UNCHANGED huser
      BY <1>5, <2>5 DEF Charge, Lose, LateStatement, ReloadStep, BeginReload, Load, LoadFails, SwitchNum, Rest, handles
    <3>2. fee'[huser] = fee[huser]
      BY <1>5, <2>5, BookTypes DEF Charge, Lose, LateStatement, ReloadStep, BeginReload, Load, LoadFails, SwitchNum, Rest, memory
    <3> QED BY <1>1, <2>1, <2>3, <3>1, <3>2
  <2> QED BY <2>4, <2>5
<1> QED BY <1>2, <1>3, <1>4, <1>5 DEF Step

LEMMA ChargedStep ==
    ASSUME PartsInv, ChargedOnlyAccepted, Step \/ Rest PROVE ChargedOnlyAccepted'
<1>1. ASSUME NEW S \in SUBSET Pending, Charge(S) PROVE ChargedOnlyAccepted'
  BY <1>1 DEF Charge, Ledger!Charge, ChargedOnlyAccepted, Pending
<1>2. ASSUME accepted \subseteq accepted', UNCHANGED charged PROVE ChargedOnlyAccepted'
  BY <1>2 DEF ChargedOnlyAccepted
<1>3. ASSUME NEW s \in Sessions, SessionStep(s) PROVE accepted \subseteq accepted' /\ UNCHANGED charged
  BY <1>3 DEF SessionStep, BeginCall, Copy, Admit, Refuse, QueueDeduction, Ledger!Accept, unchangedByCalls
<1>4. ASSUME NEW k \in Consoles, ConsoleStep(k) PROVE UNCHANGED <<accepted, charged>>
  BY <1>4 DEF ConsoleStep, BeginCommand, QuerySucceeds, QueryFails, ChangeFee, unchangedByCalls, ledger
<1>5. ASSUME NEW t \in Threads, Find(t) \/ Read(t) \/ Store(t) PROVE UNCHANGED <<accepted, charged>>
  BY <1>5 DEF Find, Read, Store, unchangedByCalls
<1>6. (\E d \in Pending : Lose(d)) \/ (\E j \in Statement : LateStatement(j)) \/ ReloadStep \/ Rest
          => UNCHANGED <<accepted, charged>>
  BY DEF Lose, LateStatement, ReloadStep, BeginReload, Load, LoadFails, SwitchUser, SwitchNum, Rest, ledger
<1> QED BY <1>1, <1>2, <1>3, <1>4, <1>5, <1>6 DEF Step

LEMMA BooksStep ==
    ASSUME PartsInv, BooksInv, Step \/ Rest PROVE BooksInv'
<1> USE DEF BooksInv
<1>1. FreshInv' /\ ChargedOnlyAccepted' /\ QuietInv'
  BY FreshStep, ChargedStep, QuietStep
<1>2. \A t \in Threads : Faithful(t)'
  BY FaithfulStep
<1>3. \A k \in Consoles : FeeUnderWay(k)' => \A c \in Column : disturbed'[c]
  BY FeeStep
<1>4. ASSUME NEW c \in Column PROVE Balanced(c)'
  <2>1. ASSUME NEW s \in Sessions, SessionStep(s) PROVE Balanced(c)'
    BY <2>1, CallBalances, QueueBalances DEF SessionStep
  <2>2. ASSUME NEW k \in Consoles, ConsoleStep(k) PROVE Balanced(c)'
    BY <2>2, CommandBalances
  <2>3. ASSUME NEW t \in Threads, Find(t) \/ Read(t) \/ Store(t) PROVE Balanced(c)'
    BY <2>3, FindReadBalances, StoreBalances
  <2> QED BY <2>1, <2>2, <2>3, LateBalances, ChargeBalances, LoseBalances, ReloadBalances DEF Step
<1> QED BY <1>1, <1>2, <1>3, <1>4

LEMMA BooksStutter ==
    ASSUME BooksInv, UNCHANGED vars PROVE BooksInv'
<1>1. UNCHANGED <<acct, fee, hnum, huser, pc, ptr, seen, col, sum, value, call, reload, accepted, charged,
                  lost, db, dbfee, late, done, over, read, disturbed, quiet>>
  BY DEF vars, memory, handles, locals, ledger, row, history
<1>2. FreshInv' /\ ChargedOnlyAccepted' /\ QuietInv'
  BY <1>1 DEF BooksInv, FreshInv, ChargedOnlyAccepted, QuietInv, Pending, Unfinished
<1>3. ASSUME NEW c \in Column PROVE Balanced(c)'
  <2>1. Due(c)' = Due(c) /\ Unstored(c)' = Unstored(c) /\ Pending' = Pending
    BY <1>1 DEF Due, PaidNotShown, Unstored, Pending
  <2> QED BY <1>1, <2>1, BalanceKept DEF BooksInv
<1>4. (\A t \in Threads : Faithful(t)') /\ \A k \in Consoles : FeeUnderWay(k)' => \A c \in Column : disturbed'[c]
  BY <1>1 DEF BooksInv, Faithful, Changed, FeeUnderWay
<1> QED BY <1>2, <1>3, <1>4 DEF BooksInv

LEMMA InitBooks ==
    ASSUME Init PROVE BooksInv
<1>1. PartsInv
  BY InitTypes
<1>2. FreshInv /\ ChargedOnlyAccepted /\ QuietInv
  <2>1. \A s \in Sessions : call[s] = 0 /\ pc[s] = "idle"
    BY DEF Init, Threads
  <2> QED BY <2>1 DEF Init, FreshInv, ChargedOnlyAccepted, QuietInv, Before
<1>3. \A t \in Threads : pc[t] = "idle"
  BY DEF Init
<1>4. ASSUME NEW c \in Column PROVE Balanced(c)
  <2>1. Take(Pending, c) = {} /\ Unstored(c) = {} /\ Due(c) = {}
    BY <1>3, BookTypes, <1>1 DEF Init, Take, Pending, Unstored, Due, PaidNotShown
  <2>2. Cardinality({}) = 0 /\ dbfee * (0 - 0) = 0 /\ db[c] \in Int /\ acct[huser][c] = db[c] /\ fee[huser] = dbfee
    BY <1>1, BookTypes, FS_EmptySet DEF Init
  <2> QED BY <2>1, <2>2 DEF Balanced
<1> QED BY <1>1, <1>2, <1>3, <1>4, BookTypes DEF BooksInv, Faithful, FeeUnderWay

(* Whatever is queued or under way, memory and the row differ by that and   *)
(* nothing else, until two changes of a column overlap, a deduction is lost *)
(* or the fee is changed, and again after a reload that met nothing.        *)
THEOREM BooksAlwaysAgree == Spec => []BooksAgree
<1>1. Init => BooksInv
  BY InitBooks
<1>2. BillInv /\ BooksInv /\ [Next]_vars => BooksInv'
  BY BooksStep, BooksStutter DEF BillInv, Next
<1>3. BooksInv => BooksAgree
  BY DEF BooksInv, Balanced, BooksAgree
<1> QED BY <1>1, <1>2, <1>3, Invariance, PTL DEF Spec

=============================================================================
