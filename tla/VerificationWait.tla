--------------------------- MODULE VerificationWait ---------------------------
(***************************************************************************)
(* What the poll and its mixin promise the views that wait for a session   *)
(* to become verified (views/mixins/session-verification-poll-mixin.js):   *)
(* a view is told how its wait ended at most once, and what it is told is  *)
(* so: onVerified is called for a session that was verified, and the user  *)
(* is sent back to sign up only when the account is gone.                  *)
(***************************************************************************)
CONSTANTS Views

VARIABLES
    verified,  \* the session was verified
    exists,    \* the account exists
    notified,  \* how often onVerified was called for each view
    outcome    \* what an error made of each view

vars == <<verified, exists, notified, outcome>>

Init ==
    /\ verified = FALSE /\ exists = TRUE
    /\ notified = [v \in Views |-> 0]
    /\ outcome = [v \in Views |-> "none"]

\* No account comes back.
Server ==
    /\ verified' \in {verified, TRUE}
    /\ exists' \in {exists, FALSE}
    /\ UNCHANGED <<notified, outcome>>

Waits(v) == notified[v] = 0 /\ outcome[v] = "none"

Notify(v) ==
    /\ Waits(v) /\ verified
    /\ notified' = [notified EXCEPT ![v] = 1]
    /\ UNCHANGED <<verified, exists, outcome>>

Refuse(v, result) ==
    /\ Waits(v)
    /\ result = "bounced" => ~exists
    /\ outcome' = [outcome EXCEPT ![v] = result]
    /\ UNCHANGED <<verified, exists, notified>>

Next ==
    \/ Server
    \/ \E v \in Views : Notify(v) \/ Refuse(v, "bounced") \/ Refuse(v, "displayed")

Spec == Init /\ [][Next]_vars
=============================================================================
