----------------------------- MODULE LoginNotice -----------------------------
(***************************************************************************)
(* What the Sync broker promises to the browser it runs in                 *)
(* (models/auth_brokers/fx-sync-channel.js): while a page is open the      *)
(* browser is told of a login only for an e-mail address it did not        *)
(* refuse, and never twice in a row of the same account.                   *)
(***************************************************************************)
CONSTANTS
    Emails,   \* what the browser is asked about
    Uids,     \* what it is told of
    None      \* it was told of no login

VARIABLES
    allowed,  \* e-mail addresses that the browser did not refuse
    email,    \* address of the last login it was told of
    uid       \* account of that login

Init == allowed = {} /\ email = None /\ uid = None

Allow(e) ==
    /\ allowed' = allowed \cup {e}
    /\ UNCHANGED <<email, uid>>

Tell(e, u) ==
    /\ e \in allowed
    /\ u # uid
    /\ email' = e /\ uid' = u
    /\ UNCHANGED allowed

\* The page is loaded again: the browser starts from nothing.
NewPage == allowed' = {} /\ email' = None /\ uid' = None

Next ==
    \/ \E e \in Emails : Allow(e) \/ \E u \in Uids : Tell(e, u)
    \/ NewPage

Spec == Init /\ [][Next]_<<allowed, email, uid>>
=============================================================================
