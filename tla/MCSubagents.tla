---------------------------- MODULE MCSubagents -----------------------------
(* Two assignments, the second of which may depend on the first.           *)
EXTENDS Subagents
=============================================================================
