----------------------------- MODULE MCWorkQueue -----------------------------
(* Small instances of WorkQueue for TLC. *)
EXTENDS WorkQueue, TLC

WriterUserSymmetry == Permutations(Writers) \union Permutations(Users)
=============================================================================
