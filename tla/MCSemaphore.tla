---------------------------- MODULE MCSemaphore ----------------------------
EXTENDS Semaphore, TLC

Symmetry == Permutations(Clients) \cup Permutations(Tasks)
=============================================================================
