--------------------------- MODULE MCThreadServer --------------------------
EXTENDS ThreadServer, TLC

Symmetry == Permutations(Workers) \cup Permutations(Fds)

=============================================================================
