---------------------------- MODULE MCThreading ----------------------------
EXTENDS Threading, TLC

Symmetry == Permutations(Workers) \cup Permutations(Fds)

=============================================================================
