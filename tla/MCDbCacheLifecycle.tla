------------------------- MODULE MCDbCacheLifecycle -------------------------
(* An instance of DbCacheLifecycle for TLC: one caller, two loads. *)
EXTENDS DbCacheLifecycle, TLC

CONSTANT c1
=============================================================================
