------------------------------ MODULE MCNotify ------------------------------
EXTENDS Notify, TLC

Symmetry == Permutations(Futures) \cup Permutations(Threads) \cup Permutations(Tasks)
=============================================================================
