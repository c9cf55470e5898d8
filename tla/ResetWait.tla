------------------------------ MODULE ResetWait ------------------------------
(***************************************************************************)
(* What the wait for a password reset promises (_waitForConfirmation and   *)
(* the two ways to finish after it, views/confirm_reset_password.js): it   *)
(* ends at most once, however the poll of the server, the messages of      *)
(* other tabs and failures race; it ends with "different browser" only     *)
(* once the link was used or expired; and the sign-in of another tab that  *)
(* ends it is stored, once and for the account it was about, when a        *)
(* request is over that nothing but the loss of the page stops.            *)
(***************************************************************************)
CONSTANTS Accounts, None

VARIABLES
    used,      \* the link was used or has expired
    stored,    \* the accounts in localStorage
    outcome,   \* how the wait ended
    signedIn,  \* the account it ended with
    finish     \* how far the storing of that account is

vars == <<used, stored, outcome, signedIn, finish>>

Init ==
    /\ used = FALSE /\ stored = {}
    /\ outcome = "none" /\ signedIn = None /\ finish = "none"

\* The link is used somewhere, or tabs of this browser store an account.
Use ==
    /\ used' = TRUE
    /\ UNCHANGED <<stored, outcome, signedIn, finish>>

Store(a) ==
    /\ stored' = stored \cup {a}
    /\ UNCHANGED <<used, outcome, signedIn, finish>>

Complete ==
    /\ outcome = "none" /\ used
    /\ outcome' = "different browser"
    /\ UNCHANGED <<used, stored, signedIn, finish>>

\* An account that is stored already may need no request.
SignIn(a) ==
    /\ outcome = "none"
    /\ outcome' = "same browser" /\ signedIn' = a
    /\ finish' = "fetching" \/ (a \in stored /\ finish' = "stored")
    /\ UNCHANGED <<used, stored>>

Persist ==
    /\ finish = "fetching"
    /\ finish' = "stored" /\ stored' = stored \cup {signedIn}
    /\ UNCHANGED <<used, outcome, signedIn>>

Lose ==
    /\ finish = "fetching"
    /\ finish' = "lost"
    /\ UNCHANGED <<used, stored, outcome, signedIn>>

Fail ==
    /\ outcome = "none"
    /\ outcome' = "error"
    /\ UNCHANGED <<used, stored, signedIn, finish>>

Next ==
    \/ Use \/ Complete \/ Persist \/ Lose \/ Fail
    \/ \E a \in Accounts : Store(a) \/ SignIn(a)

Spec == Init /\ [][Next]_vars
=============================================================================
