----------------------------- MODULE MCSyncLogin -----------------------------
(* The e-mail addresses are model values of the .cfg.                        *)
EXTENDS SyncLogin
=============================================================================
