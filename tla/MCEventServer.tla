--------------------------- MODULE MCEventServer ---------------------------
EXTENDS EventServer

(* INT_MAX is 3 here; the least int is its own negation. *)
MCAmounts == {-4, 2}

=============================================================================
