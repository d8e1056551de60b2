----------------------------- MODULE MCNextFit -----------------------------
EXTENDS NextFit

=============================================================================
