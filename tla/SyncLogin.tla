------------------------------ MODULE SyncLogin ------------------------------
(***************************************************************************)
(* A page that signs a user in to Sync: the forms of the sign-in and       *)
(* sign-up views with what they do after the answer (signin-mixin.js,      *)
(* signup-mixin.js), the views that wait for a confirmation, and the       *)
(* broker that asks the browser before a login and tells it afterwards     *)
(* (auth_brokers/fx-sync-channel.js, fx-sync-web-channel.js).              *)
(***************************************************************************)
EXTENDS Naturals, FiniteSets

CONSTANTS
    Emails,       \* e-mail addresses the user types in
    None,
    MaxForms,     \* bound: form views the page renders
    MaxSessions,  \* bound: sessions that the server creates
    MaxUids       \* bound: times an address is signed up

ASSUME SyncAssumption ==
    /\ None \notin Emails
    /\ MaxForms \in Nat \ {0} /\ MaxSessions \in Nat /\ MaxUids \in Nat \ {0}

Forms == 1..MaxForms
Sessions == 1..MaxSessions
Uids == Emails \X (1..MaxUids)

\* What an Account object holds; keyFetchToken and unwrapBKey are the keys.
Account == [email : Emails, uid : Uids, session : Sessions, signUp : BOOLEAN,
            verified : BOOLEAN, keys : BOOLEAN]
Login == [email : Emails, uid : Uids, session : Sessions, verified : BOOLEAN,
          canLink : BOOLEAN]
Call == [step : {"unused", "open", "link", "auth", "over"}, signUp : BOOLEAN,
         email : Emails \cup {None}]

ASSUME NoneIsNothing == None \notin Uids \cup Account \cup Login

VARIABLES
    count,      \* auth server: the generations of each address, 0 if unknown
    ready,      \* auth server: accounts whose address is verified
    issued,     \* auth server: sessions 1..issued exist
    owner,      \* auth server: the account of each
    confirmed,  \* auth server: the sessions that are verified
    view,       \* the view displayed
    shown,      \* the account it was given
    form,       \* the last form view rendered
    calls,      \* the submission of each
    stored,     \* the signed-in account in localStorage
    linked,     \* _verifiedCanLinkEmail
    noticed,    \* _uidOfLoginNotification
    told,       \* the last LOGIN of this page
    allowed     \* history: addresses that CAN_LINK_ACCOUNT did not stop

server == <<count, ready, issued, owner, confirmed>>
page == <<view, shown, form, calls>>
broker == <<linked, noticed>>
browser == <<told, allowed>>
vars == <<server, page, stored, broker, browser>>

Views == {"form", "unblock", "cwts", "confirm", "token", "done"}

TypeOK ==
    /\ count \in [Emails -> 0..MaxUids] /\ ready \in SUBSET Uids
    /\ issued \in 0..MaxSessions
    /\ owner \in [Sessions -> Uids \cup {None}] /\ confirmed \in SUBSET Sessions
    /\ view \in Views /\ shown \in Account \cup {None}
    /\ form \in Forms /\ calls \in [Forms -> Call]
    /\ stored \in Account \cup {None}
    /\ linked \in Emails \cup {None} /\ noticed \in Uids \cup {None}
    /\ told \in Login \cup {None} /\ allowed \in SUBSET Emails

Unused == [step |-> "unused", signUp |-> FALSE, email |-> None]

\* Accounts that are already there are verified.
Init ==
    /\ count \in [Emails -> {0, 1}]
    /\ ready = {u \in Uids : u[2] = 1 /\ count[u[1]] = 1}
    /\ issued = 0 /\ owner = [s \in Sessions |-> None] /\ confirmed = {}
    /\ view = "form" /\ shown = None /\ form = 1
    /\ calls = [f \in Forms |-> IF f = 1 THEN [Unused EXCEPT !.step = "open"] ELSE Unused]
    /\ stored = None
    /\ linked = None /\ noticed = None
    /\ told = None /\ allowed = {}

-----------------------------------------------------------------------------
(* The broker.                                                             *)

\* beforeSignIn: an address the browser agreed to is not asked about again.
BeforeSignIn(f, signUp, e) ==
    calls' = [calls EXCEPT ![f] = [step |-> IF linked = e THEN "auth" ELSE "link",
                                   signUp |-> signUp, email |-> e]]

\* The broker told the browser of this login already.
Knows(a) == noticed = a.uid

\* _hasRequiredLoginFields
IsComplete(a) == a.keys

\* _notifyRelierOfLogin
Notifies(a) ==
    IF ~IsComplete(a) \/ Knows(a) THEN UNCHANGED <<noticed, told>>
    ELSE /\ noticed' = a.uid
         /\ told' = [email |-> a.email, uid |-> a.uid, session |-> a.session,
                     verified |-> a.verified, canLink |-> linked # None]

\* Mutant: the sign-up of an account verified by then skips the notice.
SkipsNotice(a) == UNCHANGED <<noticed, told>>

\* afterSignUpConfirmationPoll, afterSignIn, afterCompleteSignInTokenCode
AfterSignUpPoll(a) == Notifies(a)

-----------------------------------------------------------------------------
(* The views.                                                              *)

\* A form view takes the place of whatever is displayed; what it submitted
\* goes on.
Opens(call) ==
    /\ form < MaxForms /\ form' = form + 1
    /\ calls' = [calls EXCEPT ![form + 1] = call]

\* Mutant: the confirm view is given the account without its session.
ShowConfirmWithoutSession(a) ==
    view' = "confirm" /\ shown' = [a EXCEPT !.session = None] /\ Notifies(a)

\* The confirm view persists the context, tells the browser, and polls.
ShowConfirm(a) == view' = "confirm" /\ shown' = a /\ Notifies(a)

Finish(a) == view' = "done" /\ shown' = a

NewForm ==
    /\ Opens([Unused EXCEPT !.step = "open"])
    /\ view' = "form" /\ shown' = None
    /\ UNCHANGED <<server, stored, broker, browser>>

\* The unblock view signs in with the address it was opened for.
Submit(signUp, e) ==
    /\ view \in {"form", "unblock"} /\ calls[form].step = "open"
    /\ view = "unblock" => ~signUp /\ e = calls[form].email
    /\ BeforeSignIn(form, signUp, e)
    /\ UNCHANGED <<server, view, shown, form, stored, broker, browser>>

\* Mutant: the answer of the browser is not looked at.
NothingCancels(answer) == FALSE

Cancels(answer) == answer = "refused"

\* CAN_LINK_ACCOUNT is answered; a browser that cannot is not obeyed.
LinkAnswered(f, answer) ==
    LET e == calls[f].email IN
    /\ calls[f].step = "link"
    /\ IF Cancels(answer)
       THEN calls' = [calls EXCEPT ![f].step = IF f = form THEN "open" ELSE "over"]
       ELSE calls' = [calls EXCEPT ![f].step = "auth"]
    /\ linked' = IF answer = "ok" THEN e ELSE linked
    /\ allowed' = IF answer = "refused" THEN allowed ELSE allowed \cup {e}
    /\ UNCHANGED <<server, view, shown, form, stored, noticed, told>>

Fails(f) ==
    /\ calls[f].step = "auth"
    /\ calls' = [calls EXCEPT ![f].step = IF f = form THEN "open" ELSE "over"]
    /\ UNCHANGED <<server, view, shown, form, stored, broker, browser>>

\* The request is blocked; a code sent by e-mail unblocks it.
Blocked(f) ==
    /\ calls[f].step = "auth" /\ ~calls[f].signUp
    /\ form < MaxForms /\ form' = form + 1
    /\ calls' = [calls EXCEPT ![f].step = "over",
                    ![form + 1] = [step |-> "open", signUp |-> FALSE, email |-> calls[f].email]]
    /\ view' = "unblock" /\ shown' = None
    /\ UNCHANGED <<server, stored, broker, browser>>

\* The server creates a session of account u.
Issues(u, verified) ==
    /\ issued < MaxSessions /\ issued' = issued + 1
    /\ owner' = [owner EXCEPT ![issued + 1] = u]
    /\ confirmed' = IF verified THEN confirmed \cup {issued + 1} ELSE confirmed

\* onSignInSuccess: how the session must be verified decides on the view.
SignedIn(f, how) ==
    LET e == calls[f].email
        u == <<e, count[e]>>
        a == [email |-> e, uid |-> u, session |-> issued + 1, signUp |-> u \notin ready,
              verified |-> how = "verified", keys |-> TRUE]
    IN
    /\ calls[f].step = "auth" /\ ~calls[f].signUp
    /\ count[e] # 0
    /\ how # "link" => u \in ready
    /\ Issues(u, a.verified)
    /\ calls' = [calls EXCEPT ![f].step = "over"]
    /\ stored' = a
    /\ \/ how = "verified" /\ Notifies(a) /\ Finish(a)
       \/ how = "link" /\ ShowConfirm(a)
       \/ how = "token" /\ view' = "token" /\ shown' = a /\ UNCHANGED <<noticed, told>>
    /\ UNCHANGED <<count, ready, form, linked, allowed>>

\* signUp: an address that was never verified is signed up anew.
SignedUp(f) ==
    LET e == calls[f].email
        u == <<e, count[e] + 1>>
        a == [email |-> e, uid |-> u, session |-> issued + 1, signUp |-> TRUE,
              verified |-> FALSE, keys |-> TRUE]
    IN
    /\ calls[f].step = "auth" /\ calls[f].signUp
    /\ count[e] < MaxUids /\ <<e, count[e]>> \notin ready
    /\ count' = [count EXCEPT ![e] = @ + 1]
    /\ Issues(u, FALSE)
    /\ calls' = [calls EXCEPT ![f].step = "over"]
    /\ stored' = a
    /\ view' = "cwts" /\ shown' = a
    /\ UNCHANGED <<ready, form, broker, browser>>

\* ACCOUNT_ALREADY_EXISTS: the form signs in instead.
Exists(f) ==
    LET e == calls[f].email IN
    /\ calls[f].step = "auth" /\ calls[f].signUp
    /\ <<e, count[e]>> \in ready
    /\ BeforeSignIn(f, FALSE, e)
    /\ UNCHANGED <<server, view, shown, form, stored, broker, browser>>

\* The engines are chosen, by the user or because the poll found the session
\* verified: afterSignUp.
ChoseEngines(polled) ==
    LET a == [shown EXCEPT !.verified = @ \/ polled] IN
    /\ view = "cwts"
    /\ polled => shown.session \in confirmed
    /\ stored' = a
    /\ IF a.verified THEN AfterSignUpPoll(a) /\ Finish(a) ELSE ShowConfirm(a)
    /\ UNCHANGED <<server, form, calls, linked, allowed>>

\* The poll of the confirm view: _gotoNextScreen.
Polled ==
    LET a == [shown EXCEPT !.verified = TRUE] IN
    /\ view = "confirm" /\ shown.session \in confirmed
    /\ stored' = a
    /\ IF shown.signUp THEN AfterSignUpPoll(a) ELSE UNCHANGED <<noticed, told>>
    /\ Finish(a)
    /\ UNCHANGED <<server, form, calls, linked, allowed>>

\* The code of the e-mail verifies the session.
TokenAccepted ==
    /\ view = "token"
    /\ confirmed' = confirmed \cup {shown.session}
    /\ Notifies(shown) /\ Finish(shown)
    /\ UNCHANGED <<count, ready, issued, owner, form, calls, stored, linked, allowed>>

\* A link is followed in another tab or browser.
FollowLink(s) ==
    /\ s \in 1..issued \ confirmed
    /\ owner[s] = <<owner[s][1], count[owner[s][1]]>>
    /\ confirmed' = confirmed \cup {s}
    /\ ready' = ready \cup {owner[s]}
    /\ UNCHANGED <<count, issued, owner, page, stored, broker, browser>>

\* The page is loaded again, and shows a form or, for a stored account that
\* is not verified, the confirm view: the stored account has no keys.
Load(confirms) ==
    /\ form < MaxForms /\ form' = form + 1
    /\ calls' = [f \in Forms |->
                    IF f <= form THEN [calls[f] EXCEPT !.step = "over"]
                    ELSE IF f = form + 1 THEN [Unused EXCEPT !.step = "open"] ELSE calls[f]]
    /\ linked' = None /\ noticed' = None /\ told' = None /\ allowed' = {}
    /\ \/ ~confirms /\ view' = "form" /\ shown' = None
       \/ /\ confirms /\ stored # None /\ ~stored.verified
          /\ view' = "confirm" /\ shown' = [stored EXCEPT !.keys = FALSE]
    /\ UNCHANGED <<server, stored>>

Next ==
    \/ NewForm
    \/ \E signUp \in BOOLEAN, e \in Emails : Submit(signUp, e)
    \/ \E f \in Forms :
        \/ \E answer \in {"ok", "refused", "error"} : LinkAnswered(f, answer)
        \/ Fails(f) \/ Blocked(f) \/ SignedUp(f) \/ Exists(f)
        \/ \E how \in {"verified", "link", "token"} : SignedIn(f, how)
    \/ \E polled \in BOOLEAN : ChoseEngines(polled)
    \/ Polled
    \/ TokenAccepted
    \/ \E s \in Sessions : FollowLink(s)
    \/ \E confirms \in BOOLEAN : Load(confirms)

Spec == Init /\ [][Next]_vars

\* The poll of the view displayed goes on until it finds the session verified.
FairSpec == Spec /\ WF_vars(ChoseEngines(TRUE)) /\ WF_vars(Polled)

-----------------------------------------------------------------------------
(* Properties.                                                             *)

\* The browser is told of a login only if it did not refuse the address, and
\* not twice in a row of one account, whatever forms are submitted at once
\* and whichever view of the flow does the telling.
LN == INSTANCE LoginNotice
        WITH Emails <- Emails, Uids <- Uids, None <- None, allowed <- allowed,
             email <- IF told = None THEN None ELSE told.email,
             uid <- IF told = None THEN None ELSE told.uid
ImplementsLoginNotice == LN!Spec

\* "Without the login notice, the browser will never know the user signed
\* up": when the page goes on after a sign-in or a sign-up, the last login
\* the browser was told of is that of the account, unless the page was loaded
\* again before and has lost the keys.
FinishedIsKnown ==
    view = "done" /\ shown.keys => told # None /\ told.uid = shown.uid

\* A sign-up that is verified while its page waits ends with the browser told
\* of it, wherever the page waits.
VerifiedIsTold ==
    \A u \in Uids :
        (/\ view \in {"cwts", "confirm"} /\ shown.uid = u /\ shown.keys
         /\ shown.session \in confirmed)
            ~> ((told # None /\ told.uid = u) \/ view \in {"form", "unblock", "token"}
                \/ (shown # None /\ shown.uid # u) \/ ~shown.keys)
=============================================================================
