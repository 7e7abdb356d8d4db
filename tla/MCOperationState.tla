-------------------------- MODULE MCOperationState --------------------------
EXTENDS OperationState, TLC
Symmetry == Permutations(Callers) \cup Permutations(Hooks)
=============================================================================
