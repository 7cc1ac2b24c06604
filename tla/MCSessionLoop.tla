--------------------------- MODULE MCSessionLoop ---------------------------
(* Two texts and one Cancel over queues of one or two places. *)
EXTENDS SessionLoop
=============================================================================
