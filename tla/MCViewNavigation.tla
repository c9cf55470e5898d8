-------------------------- MODULE MCViewNavigation --------------------------
(* The pages are model values of the .cfg.                                   *)
EXTENDS ViewNavigation
=============================================================================
