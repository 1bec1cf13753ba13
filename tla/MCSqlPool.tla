------------------------------ MODULE MCSqlPool ------------------------------
EXTENDS SqlPool, TLC

\* Calls are alike, and so are connections; the properties are invariants.
Symmetry == Permutations(Calls) \union Permutations(Conns)
=============================================================================
