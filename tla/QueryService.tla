----------------------------- MODULE QueryService -----------------------------
(***************************************************************************)
(* What the query service of mod_as_dbcache promises to a session thread   *)
(* that calls mod_as_dbcache_queue_query: its command is run at most once, *)
(* and not after the query was refused; what the query returns is the      *)
(* outcome of its own command, or a refusal of a command that was never    *)
(* run, or TIMEOUT after its time.  A command may still be run, and its    *)
(* answer lost, after the query has given up.                              *)
(***************************************************************************)
EXTENDS Integers

CONSTANTS Callers, MaxQueries

Status == {"SUCCESS", "FALSE", "TIMEOUT"}

VARIABLES
    query,      \* which query each caller is in, or made last
    asking,     \* the callers whose query has no outcome yet
    outcome,    \* what the last query of each caller returned
    pending,    \* the queries whose command may still be run
    answers,    \* the outcomes of commands that were run, on their way back
    late        \* the queries whose timeout has elapsed

vars == <<query, asking, outcome, pending, answers, late>>

Id(c) == <<c, query[c]>>
Asked == UNION {{<<c, q>> : q \in 1 .. query[c]} : c \in Callers}

Init ==
    /\ query = [c \in Callers |-> 0] /\ asking = {}
    /\ outcome = [c \in Callers |-> "none"]
    /\ pending = {} /\ answers = {} /\ late = {}

(* A query begins, or is refused at once.                                   *)
Ask(c) ==
    /\ c \notin asking /\ query[c] < MaxQueries
    /\ query' = [query EXCEPT ![c] = @ + 1]
    /\ \/ /\ asking' = asking \union {c} /\ pending' = pending \union {<<c, query[c] + 1>>}
          /\ outcome' = [outcome EXCEPT ![c] = "none"]
       \/ outcome' = [outcome EXCEPT ![c] = "FALSE"] /\ UNCHANGED <<asking, pending>>
    /\ UNCHANGED <<answers, late>>

Return(c, status) ==
    /\ c \in asking /\ asking' = asking \ {c}
    /\ outcome' = [outcome EXCEPT ![c] = status]
    /\ UNCHANGED <<query, late>>

(* No room, no memory: the command will never be run.                       *)
Refuse(c) ==
    /\ Id(c) \in pending /\ pending' = pending \ {Id(c)}
    /\ Return(c, "FALSE") /\ UNCHANGED answers

(* Each command is run once.  What it returned may leave the caller a       *)
(* choice; TIMEOUT, when the command was too late for its rows to be used.  *)
Run(id, results) ==
    /\ id \in pending /\ pending' = pending \ {id}
    /\ "TIMEOUT" \in results => id \in late
    /\ answers' = answers \union {[id |-> id, results |-> results]}
    /\ UNCHANGED <<query, asking, outcome, late>>

Lose(a) ==
    /\ a \in answers /\ answers' = answers \ {a}
    /\ UNCHANGED <<query, asking, outcome, pending, late>>

Answer(c, a) ==
    /\ a \in answers /\ a.id = Id(c) /\ answers' = answers \ {a}
    /\ \E s \in a.results : Return(c, s)
    /\ UNCHANGED pending

GiveUp(c) ==
    /\ Id(c) \in late /\ Return(c, "TIMEOUT")
    /\ UNCHANGED <<pending, answers>>

Elapse(id) ==
    /\ late' = late \union {id}
    /\ UNCHANGED <<query, asking, outcome, pending, answers>>

Next ==
    \/ \E c \in Callers : Ask(c) \/ Refuse(c) \/ GiveUp(c)
    \/ \E id \in pending, results \in SUBSET Status : Run(id, results)
    \/ \E a \in answers : Lose(a) \/ \E c \in Callers : Answer(c, a)
    \/ \E id \in Asked \ late : Elapse(id)

Spec == Init /\ [][Next]_vars
=============================================================================
