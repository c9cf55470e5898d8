---------------------------- MODULE AccountStore ----------------------------
(***************************************************************************)
(* What the User model promises of localStorage to every page that loads:  *)
(* it is as if no tab remembered anything.  However old the objects,       *)
(* answers and broadcasts are that a tab writes from, what it writes is    *)
(* true of the sessions of the server at that moment: a token is stored    *)
(* with the account it was issued for, and as verified only if its session *)
(* is.  No step both writes accounts and removes some, and an account that *)
(* becomes the current one is stored.                                      *)
(***************************************************************************)
CONSTANTS
    Uids, NoUid,     \* accounts, and none
    Tokens, NoToken, \* session tokens, and none
    NotStored        \* an account that is not in the storage

VARIABLES
    accounts,    \* the stored accounts, by uid
    currentUid,  \* the current one
    sessions,    \* the sessions of the server, by token
    registered   \* the accounts that exist

vars == <<accounts, currentUid, sessions, registered>>

Init ==
    /\ accounts = [u \in Uids |-> NotStored]
    /\ currentUid = NoUid
    /\ sessions = [k \in Tokens |-> [uid |-> NoUid, verified |-> FALSE, live |-> FALSE]]
    /\ registered = Uids

-----------------------------------------------------------------------------
(* The browser.                                                            *)

\* What may be stored of account u.
Sound(u) ==
    {r \in [token : Tokens \cup {NoToken}, verified : BOOLEAN] :
        r.token # NoToken => /\ sessions[r.token].uid = u
                             /\ r.verified => sessions[r.token].verified}

Persist ==
    /\ \A u \in Uids : accounts'[u] \in {accounts[u]} \cup Sound(u)
    /\ accounts' = [u \in Uids |-> accounts'[u]]
    /\ currentUid' \in {currentUid, NoUid} \cup {u \in Uids : accounts'[u] # NotStored}
    /\ UNCHANGED <<sessions, registered>>

Remove(us) ==
    /\ accounts' = [u \in Uids |-> IF u \in us THEN NotStored ELSE accounts[u]]
    /\ currentUid' \in {currentUid, NoUid}
    /\ UNCHANGED <<sessions, registered>>

-----------------------------------------------------------------------------
(* The server.                                                             *)

\* A session is issued once, for an account that exists, and keeps it; it is
\* never less verified and, once ended, does not come back.
Serve ==
    /\ registered' \in SUBSET registered
    /\ sessions' \in [Tokens -> [uid : Uids \cup {NoUid}, verified : BOOLEAN, live : BOOLEAN]]
    /\ \A k \in Tokens :
        LET old == sessions[k]
            new == sessions'[k]
        IN  /\ old.uid # NoUid => /\ new.uid = old.uid
                                  /\ old.verified => new.verified
                                  /\ new.live => old.live
            /\ new.live => new.uid \in registered'
    /\ UNCHANGED <<accounts, currentUid>>

Next == Persist \/ Serve \/ \E us \in SUBSET Uids : Remove(us)

Spec == Init /\ [][Next]_vars
=============================================================================
