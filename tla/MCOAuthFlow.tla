----------------------------- MODULE MCOAuthFlow -----------------------------
(* Tabs, users and reliers are model values of the .cfg.                      *)
EXTENDS OAuthFlow
==============================================================================
