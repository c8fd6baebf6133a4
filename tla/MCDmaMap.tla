------------------------------ MODULE MCDmaMap ------------------------------
EXTENDS DmaMap, TLC

\* Threads, descriptors and handles are interchangeable.
Symmetry == Permutations(Tasks) \cup Permutations(Maps) \cup Permutations(Handles)
=============================================================================
