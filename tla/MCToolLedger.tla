---------------------------- MODULE MCToolLedger ----------------------------
(* A parent worker and the child agent it may have.                        *)
EXTENDS ToolLedger
=============================================================================
