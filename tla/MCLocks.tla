---- MODULE MCLocks ----
EXTENDS TransactionManager, TLC

Symmetry == Permutations(Res)
====
