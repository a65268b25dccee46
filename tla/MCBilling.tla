------------------------------ MODULE MCBilling ------------------------------
EXTENDS Billing, TLC

CONSTANTS s1, s2, s3, k1

MCOpening == {[balance |-> 0, credit |-> 1]}

Symmetry == Permutations(Sessions)
=============================================================================
