--------------------------- MODULE MCSessionStore ---------------------------
(* Two processes compete for one session directory.                        *)
EXTENDS SessionStore, TLC
Symmetry == Permutations(Procs)
=============================================================================
