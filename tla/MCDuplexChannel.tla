--------------------------- MODULE MCDuplexChannel ---------------------------
(* Two channels of one page; the requests are model values of the .cfg.    *)
EXTENDS DuplexChannel, TLC
=============================================================================
