--------------------------- MODULE MCTaskWorkflow ---------------------------
(* A workspace whose files take two contents, one task at a time.          *)
EXTENDS TaskWorkflow, TLC
Symmetry == Permutations(Digests)
=============================================================================
