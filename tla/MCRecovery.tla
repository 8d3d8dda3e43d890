---- MODULE MCRecovery ----
EXTENDS Recovery, TLC

CONSTANTS a, b

Tuples == {<<a>>, <<b>>}
Symmetry == Permutations({a, b})
====
