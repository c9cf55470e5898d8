--------------------------- MODULE MCPasswordReset ---------------------------
(* Accounts and tabs are model values of the .cfg; tabs are interchangeable. *)
EXTENDS PasswordReset, TLC

TabSymmetry == Permutations(Tabs)
=============================================================================
