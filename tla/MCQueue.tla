------------------------------ MODULE MCQueue ------------------------------
EXTENDS QueueRefinement, QueueInvariant, TLC

Symmetry == Permutations(Nodes) \cup Permutations(Lockers)
=============================================================================
