-------------------------- MODULE MCSettingsStore ---------------------------
(* Two saves of one session, and one other process that writes once.       *)
EXTENDS SettingsStore, TLC
Symmetry == Permutations(Saves)
=============================================================================
