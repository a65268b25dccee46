---------------------------- MODULE MCUserCache ----------------------------
(* Instances of UserCache for TLC.  No two numbers have the same value.     *)
EXTENDS UserCache

MCValueOf == [n \in Numbers |-> n]
=============================================================================
