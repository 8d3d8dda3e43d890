---- MODULE MCBufferPool ----
EXTENDS BufferPool, TLC

Symmetry == Permutations(Client)
====
