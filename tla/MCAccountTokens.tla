--------------------------- MODULE MCAccountTokens ---------------------------
(* Sessions and operations are model values of the .cfg.                     *)
EXTENDS AccountTokens
=============================================================================
