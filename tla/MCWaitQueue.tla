---------------------------- MODULE MCWaitQueue ----------------------------
EXTENDS WaitQueue, TLC

Symmetry == Permutations(Futures) \cup Permutations(Threads) \cup Permutations(Tasks)
=============================================================================
