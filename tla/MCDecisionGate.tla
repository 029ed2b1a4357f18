--------------------------- MODULE MCDecisionGate ---------------------------
EXTENDS DecisionGate, TLC

Symmetry == Permutations(Requests) \union Permutations(Menus)
=============================================================================
