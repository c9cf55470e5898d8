------------------------------ MODULE OAuthFlow ------------------------------
(***************************************************************************)
(* Signing in to an OAuth relier in the tabs of one browser. A flow begins *)
(* when a relier sends a tab to the sign-in form with a `state` of its own *)
(* and ends when the tab is sent back with a code. An unverified account   *)
(* is confirmed by a link that may be opened in the tab that waits, in     *)
(* another one or in another browser (auth_brokers/oauth-redirect.js and   *)
(* oauth.js, reliers/oauth.js, lib/session.js, views/confirm.js,           *)
(* views/complete_sign_up.js).                                             *)
(***************************************************************************)
EXTENDS Naturals, FiniteSets

CONSTANTS
    Tabs, Users, Reliers, None,
    MaxFlows,    \* bound: flows that reliers begin
    MaxFailures  \* bound: requests that fail

ASSUME OAuthAssumption ==
    /\ MaxFlows \in Nat /\ MaxFailures \in Nat
    /\ None \notin Tabs \cup Users \cup Reliers \cup (1..MaxFlows)

\* A flow is known to the page by the `state` its relier passed.
Flows == 1..MaxFlows

\* What identifies a sign-in to a relier: its client_id and its state. It is
\* the part of the OAuth relier model that Session.oauth stores.
Grant == [client : Reliers, flow : Flows \cup {None}]

ASSUME NoneIsNoGrant == None \notin Grant

\* marker is originalTab in sessionStorage, mem the tab's copy of
\* Session.oauth, waits says that the poll of the confirm view is running,
\* token that the Account object of the page has a session token.
Tab == [view : {"away",     \* some other site
                "form",     \* the sign-in or sign-up form
                "confirm",  \* waits for the link to be followed
                "verify",   \* the link was opened, its code is being sent
                "asked",    \* the form asked for an OAuth code
                "code",     \* another view did
                "over"},    \* nothing is under way
        grant : Grant \cup {None}, user : Users \cup {None},
        marker : BOOLEAN, mem : Grant \cup {None}, waits : BOOLEAN, token : BOOLEAN]

Result == [client : Reliers, flow : Flows \cup {None}, user : Users, tab : Tabs]

VARIABLES
    tab,       \* the tabs
    stored,    \* localStorage: Session.oauth
    accounts,  \* localStorage: users with a session token
    begun,     \* reliers: flows 1..begun exist
    rp,        \* reliers: whose each flow is
    started,   \* history: the tab each flow was begun in
    links,     \* e-mails: the users that got a link, and its service
    verified,  \* auth server: verified accounts
    received,  \* auth server: codes of links sent by a tab
    sent,      \* reliers: the results that arrived
    upset,     \* history: tabs that left a flow, were reloaded or met an error
    failures   \* requests that failed

vars == <<tab, stored, accounts, begun, rp, started, links, verified, received,
          sent, upset, failures>>

TypeOK ==
    /\ tab \in [Tabs -> Tab] /\ stored \in Grant \cup {None}
    /\ accounts \in SUBSET Users /\ begun \in 0..MaxFlows
    /\ rp \in [Flows -> Reliers] /\ started \in [Flows -> Tabs \cup {None}]
    /\ links \in SUBSET (Users \X Reliers)
    /\ verified \in SUBSET Users /\ received \in SUBSET Tabs
    /\ sent \in SUBSET Result /\ upset \in SUBSET (Tabs \X Flows)
    /\ failures \in 0..MaxFailures

Away(marker) == [view |-> "away", grant |-> None, user |-> None,
                 marker |-> marker, mem |-> None, waits |-> FALSE, token |-> FALSE]

Init ==
    /\ tab = [t \in Tabs |-> Away(FALSE)] /\ stored = None /\ accounts = {}
    /\ begun = 0 /\ rp \in [Flows -> Reliers]
    /\ started = [f \in Flows |-> None]
    /\ links = {} /\ verified = {} /\ received = {} /\ sent = {}
    /\ upset = {} /\ failures = 0

servers == <<begun, rp, started, verified, links>>

-----------------------------------------------------------------------------
(* The broker.                                                             *)

\* A page loads Session.oauth, and the account it is about, when it starts.
Loaded(view, grant, user, t) ==
    [view |-> view, grant |-> grant, user |-> user, marker |-> tab[t].marker,
     mem |-> stored, waits |-> FALSE, token |-> user \in accounts]

\* The flow of the page that tab t displays does not go on by itself.
FlowsOf(t) ==
    IF tab[t].grant = None THEN {}
    ELSE {<<t, f>> : f \in {tab[t].grant.flow} \ {None}}

\* Session.clear("oauth") stores what the page has in memory, and only if it
\* had something to clear.
ClearsSession(t) == stored' = IF tab[t].mem = None THEN stored ELSE None

\* getOAuthResult needs a session token: the form has just got one.
HasSession(t) == tab[t].view = "form" \/ tab[t].token

\* finishOAuthFlow: the marker and Session.oauth are cleared before a code is
\* asked for. The poll has stopped by then.
Finishes(t, u) ==
    /\ ClearsSession(t)
    /\ tab' = [tab EXCEPT ![t].view = IF @ = "form" THEN "asked"
                                      ELSE IF tab[t].token THEN "code" ELSE "over",
                          ![t].user = u, ![t].mem = None, ![t].marker = FALSE,
                          ![t].waits = FALSE]
    /\ upset' = IF HasSession(t) THEN upset ELSE upset \cup FlowsOf(t)

\* setAccount stores the object of the page with the token it has or lacks.
StoresAccount(t) ==
    accounts' = IF tab[t].token THEN accounts \cup {tab[t].user}
                ELSE accounts \ {tab[t].user}

\* persistVerificationData
Persisted(t, u) ==
    [tab[t] EXCEPT !.view = "confirm", !.user = u, !.marker = TRUE,
                   !.mem = tab[t].grant, !.waits = TRUE, !.token = TRUE]

\* Mutant: the marker is kept in localStorage.
IsAnOriginalTab(t) == \E o \in Tabs : tab[o].marker

IsOriginalTab(t) == tab[t].marker

\* Mutant: the service of the link is the client.
ServiceOfLinkIsClient(service) ==
    IF stored = None THEN [client |-> service, flow |-> None]
    ELSE [client |-> service, flow |-> stored.flow]

\* Mutant: the service is not used.
RelierOfSessionOnly(service) ==
    IF stored = None THEN [client |-> None, flow |-> None] ELSE stored

\* _setupVerificationFlow: the relier of a page that a link opened.
RelierOfLink(service) ==
    IF stored = None THEN [client |-> service, flow |-> None] ELSE stored

-----------------------------------------------------------------------------
(* Reliers and users.                                                      *)

\* A relier sends tab t to the form, whatever the tab displayed.
Begin(t) ==
    LET f == begun + 1
    IN  /\ begun < MaxFlows /\ begun' = f
        /\ tab' = [tab EXCEPT ![t] =
                     Loaded("form", [client |-> rp[f], flow |-> f], None, t)]
        /\ started' = [started EXCEPT ![f] = t]
        /\ upset' = upset \cup FlowsOf(t)
        /\ UNCHANGED <<stored, accounts, rp, links, verified, received, sent,
                       failures>>

\* The form is submitted and the server creates a session.
Submit(t, u) ==
    /\ tab[t].view = "form" /\ accounts' = accounts \cup {u}
    /\ IF u \in verified
       THEN Finishes(t, u) /\ UNCHANGED links
       ELSE /\ tab' = [tab EXCEPT ![t] = Persisted(t, u)]
            /\ stored' = tab[t].grant
            /\ links' = links \cup {<<u, tab[t].grant.client>>}
            /\ UNCHANGED upset
    /\ UNCHANGED <<begun, rp, started, verified, received, sent, failures>>

\* "Use a different account": Session.clear() and removeAllAccounts.
UseDifferentAccount(t) ==
    /\ tab[t].view = "form"
    /\ ClearsSession(t) /\ tab' = [tab EXCEPT ![t].mem = None]
    /\ accounts' = {}
    /\ UNCHANGED <<servers, received, sent, upset, failures>>

\* The confirm view of a page that was reloaded has no account and shows the
\* form.
Reload(t) ==
    /\ tab[t].view \in {"form", "confirm"}
    /\ tab' = [tab EXCEPT ![t] = Loaded("form", tab[t].grant, None, t)]
    /\ upset' = upset \cup FlowsOf(t)
    /\ UNCHANGED <<servers, stored, accounts, received, sent, failures>>

\* The user goes elsewhere; a tab that is closed loses its sessionStorage.
Leave(t, closes) ==
    /\ tab[t].view # "away"
    /\ tab' = [tab EXCEPT ![t] = Away(~closes /\ tab[t].marker)]
    /\ upset' = upset \cup FlowsOf(t)
    /\ UNCHANGED <<servers, stored, accounts, received, sent, failures>>

-----------------------------------------------------------------------------
(* Links.                                                                  *)

\* In this browser: the page takes the place of what tab t displayed.
OpenLink(t, u, service) ==
    /\ <<u, service>> \in links
    /\ tab' = [tab EXCEPT ![t] = Loaded("verify", RelierOfLink(service), u, t)]
    /\ received' = received \ {t}
    /\ upset' = upset \cup FlowsOf(t)
    /\ UNCHANGED <<servers, stored, accounts, sent, failures>>

FollowElsewhere(u) ==
    /\ \E c \in Reliers : <<u, c>> \in links
    /\ u \notin verified /\ verified' = verified \cup {u}
    /\ UNCHANGED <<tab, stored, accounts, begun, rp, started, links, received,
                   sent, upset, failures>>

ServeCode(t) ==
    /\ tab[t].view = "verify" /\ t \notin received
    /\ received' = received \cup {t} /\ verified' = verified \cup {tab[t].user}
    /\ UNCHANGED <<tab, stored, accounts, begun, rp, started, links, sent, upset,
                   failures>>

\* Mutant: the broker is told of a verification that did not succeed.
CompletesAnyway(t) == TRUE

\* completeAccountSignUp resolves.
Completes(t) == t \in received

\* The account is stored again, whether or not it still was. Then
\* afterCompleteSignUp: the original tab finishes the flow, any other shows
\* that the account is verified.
LinkVerified(t) ==
    /\ tab[t].view = "verify" /\ Completes(t)
    /\ StoresAccount(t)
    /\ IF IsOriginalTab(t) THEN Finishes(t, tab[t].user)
       ELSE /\ tab' = [tab EXCEPT ![t].view = "over"]
            /\ UNCHANGED <<stored, upset>>
    /\ UNCHANGED <<servers, received, sent, failures>>

-----------------------------------------------------------------------------
(* What happens by itself.                                                 *)

\* Mutant: the poll waits for the code of a link sent by this browser.
PollSeesOwn(u) == u \in verified /\ \E t \in received : tab[t].user = u

PollSees(u) == u \in verified

\* The poll finds the session verified: afterSignUpConfirmationPoll.
PollAnswered(t) ==
    /\ tab[t].view = "confirm" /\ tab[t].waits /\ PollSees(tab[t].user)
    /\ StoresAccount(t) /\ Finishes(t, tab[t].user)
    /\ UNCHANGED <<servers, received, sent, failures>>

\* sendOAuthResultToRelier leaves the page.
CodeAnswered(t) ==
    /\ tab[t].view \in {"asked", "code"}
    /\ sent' = sent \cup {[client |-> tab[t].grant.client, flow |-> tab[t].grant.flow,
                           user |-> tab[t].user, tab |-> t]}
    /\ tab' = [tab EXCEPT ![t] = Away(tab[t].marker)]
    /\ UNCHANGED <<servers, stored, accounts, received, upset, failures>>

\* Sending the code of a link or asking for an OAuth code fails; an error is
\* displayed. The form can be submitted again, and forgets an account it was
\* submitted for without a password; nothing else asks for a code again.
Fails(t) ==
    /\ tab[t].view \in {"verify", "asked", "code"} /\ failures < MaxFailures
    /\ failures' = failures + 1
    /\ tab' = [tab EXCEPT ![t].view = IF @ = "asked" THEN "form" ELSE "over"]
    /\ \/ UNCHANGED accounts
       \/ tab[t].view = "asked" /\ accounts' = accounts \ {tab[t].user}
    /\ upset' = upset \cup FlowsOf(t)
    /\ UNCHANGED <<servers, stored, received, sent>>

Next ==
    \/ \E t \in Tabs :
          \/ Begin(t) \/ UseDifferentAccount(t) \/ Reload(t)
          \/ ServeCode(t) \/ LinkVerified(t) \/ PollAnswered(t)
          \/ CodeAnswered(t) \/ Fails(t)
          \/ \E u \in Users : Submit(t, u)
          \/ \E closes \in BOOLEAN : Leave(t, closes)
          \/ \E u \in Users, c \in Reliers : OpenLink(t, u, c)
    \/ \E u \in Users : FollowElsewhere(u)

Spec == Init /\ [][Next]_vars

\* Timers run and servers answer.
FairSpec ==
    Spec /\ \A t \in Tabs : /\ WF_vars(ServeCode(t)) /\ WF_vars(LinkVerified(t))
                            /\ WF_vars(PollAnswered(t)) /\ WF_vars(CodeAnswered(t))

-----------------------------------------------------------------------------

\* No relier is handed a user whose account is not verified, whichever of the
\* form, the poll and the link gets there first. (oauth.js, finishOAuthFlow)
OnlyVerifiedUsersAreSent == \A r \in sent : r.user \in verified

\* A tab that only displays a link does not go to the relier: a flow was begun
\* in every tab that did. (oauth-redirect.js, isOriginalTab)
OnlyOriginalTabsGoBack ==
    \A r \in sent : \E f \in Flows : started[f] = r.tab

\* A relier that gets a state back gets its own: the client and the state of a
\* page come from one flow, although links, localStorage and the query are read
\* at different times. (reliers/oauth.js, _setupVerificationFlow)
StateIsOfClient ==
    \A r \in sent : r.flow # None => rp[r.flow] = r.client

\* "The original tab always finishes the OAuth flow if it is still open":
\* unless that tab itself was left, was reloaded, opened the link or met an
\* error, whatever other tabs did to the flow and to the storage they share.
\* (oauth.js, afterSignUpConfirmationPoll)
OriginalTabFinishes ==
    \A t \in Tabs, f \in Flows :
        tab[t].view = "confirm" /\ tab[t].grant.flow = f /\ tab[t].user \in verified
          ~> <<t, f>> \in upset \/ \E r \in sent : r.flow = f /\ r.tab = t
==============================================================================
