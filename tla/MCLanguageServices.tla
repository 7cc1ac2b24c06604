------------------------- MODULE MCLanguageServices -------------------------
(* Two files; see the configuration for the bounds.                        *)
EXTENDS LanguageServices
=============================================================================
