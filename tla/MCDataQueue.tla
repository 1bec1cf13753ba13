----------------------------- MODULE MCDataQueue -----------------------------
EXTENDS DataQueue, TLC

\* The clients of a queue are alike; the properties are invariants.
Symmetry == Permutations(Clients)
=============================================================================
