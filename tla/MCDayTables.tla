----------------------------- MODULE MCDayTables -----------------------------
(* Small instances of DayTables for TLC. *)
EXTENDS DayTables
=============================================================================
