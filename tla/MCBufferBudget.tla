--------------------------- MODULE MCBufferBudget ---------------------------
EXTENDS BufferBudget
Symmetry == Permutations(Threads) \cup Permutations(Observers)
=============================================================================
