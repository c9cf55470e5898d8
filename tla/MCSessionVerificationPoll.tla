---------------------- MODULE MCSessionVerificationPoll ----------------------
(* The views that TLC shows one after the other.                           *)
EXTENDS SessionVerificationPoll, TLC
=============================================================================
