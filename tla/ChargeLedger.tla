----------------------------- MODULE ChargeLedger -----------------------------
(***************************************************************************)
(* What the deduction workers promise to those who queue deductions with   *)
(* blacklist_manage_deduction_write: a deduction that was accepted is      *)
(* charged to its user at most once; the charges of a batch, at most Batch *)
(* of them, appear together; and nothing that was not accepted is charged. *)
(* A deduction may also never be charged.                                  *)
(***************************************************************************)
EXTENDS Integers, FiniteSets

CONSTANTS Deduction, Batch

VARIABLES accepted, charged

Init == accepted = {} /\ charged = [d \in Deduction |-> 0]

Accept(d) == accepted' = accepted \union {d} /\ UNCHANGED charged

Charge(S) ==
    /\ S \subseteq accepted /\ IsFiniteSet(S) /\ Cardinality(S) <= Batch
    /\ \A d \in S : charged[d] = 0
    /\ charged' = [d \in Deduction |-> IF d \in S THEN 1 ELSE charged[d]]
    /\ UNCHANGED accepted

Next == (\E d \in Deduction \ accepted : Accept(d)) \/ (\E S \in SUBSET Deduction : Charge(S))

Spec == Init /\ [][Next]_<<accepted, charged>>
=============================================================================
