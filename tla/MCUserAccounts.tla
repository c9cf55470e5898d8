--------------------------- MODULE MCUserAccounts ---------------------------
(***************************************************************************)
(* Instances of UserAccounts for TLC.                                      *)
(***************************************************************************)
EXTENDS UserAccounts, TLC

\* Tabs and accounts are interchangeable.
Symmetry == Permutations(Tabs) \cup Permutations(Uids)
=============================================================================
