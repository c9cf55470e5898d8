---------------------------- MODULE PasswordReset ----------------------------
(***************************************************************************)
(* A password reset as the browser that asked for it sees it.  The view    *)
(* confirm_reset_password of one tab waits for the link to be followed: it *)
(* polls the server and listens to the other tabs of the browser.  Tabs    *)
(* opened from links, for this account or another, complete a reset with   *)
(* complete_reset_password; the link may also be followed in another       *)
(* browser.  The view has a button that sends the e-mail again.            *)
(***************************************************************************)
EXTENDS Naturals, Sequences

CONSTANTS
    Accounts,     \* the accounts of this browser
    Mine,         \* the one whose reset the view waits for
    None,         \* no account
    Tabs,         \* tabs opened from a link
    MaxTries,     \* EMAIL_RESEND_MAX_TRIES
    MaxFailures,  \* bound: requests that fail
    MaxSignIns    \* bound: sign-ins with a password in yet other tabs

ASSUME ResetAssumption ==
    /\ Mine \in Accounts /\ None \notin Accounts
    /\ MaxTries \in Nat \ {0} /\ MaxFailures \in Nat /\ MaxSignIns \in Nat

VARIABLES
    token,     \* server: the passwordForgotToken of each account
    password,  \* server: where a new password was set for each account
    view,      \* the waiting view
    check,     \* its chain of status requests
    polling,   \* _isWaitingForServerConfirmation
    forLogin,  \* _isWaitingForLoginMessage
    hears,     \* it listens to the other tabs
    outcome,   \* how _waitForConfirmation was settled
    signedIn,  \* the account of the sign-in that ended the wait
    finish,    \* how far setSignedInAccount is with it
    tab,       \* the tabs opened from links
    stored,    \* the accounts in localStorage
    inbox,     \* messages of other tabs to that of the view
    resend,    \* the resend button of the view
    elsewhere, \* accounts other tabs have told of and not stored yet
    failures, signIns

wait == <<check, polling, forLogin, hears, outcome, signedIn, finish>>
server == <<token, password>>
bounds == <<elsewhere, failures, signIns>>
vars == <<server, view, wait, tab, stored, inbox, resend, bounds>>

Stages == {"new", "checking", "link ok", "form", "verifying", "code ok", "resetting",
           "session", "storing", "done", "dead", "closed"}
Message == [kind : {"tab open"}] \cup [kind : {"signed in"}, account : Accounts]
Resend == [tries : 0..MaxTries, hidden : BOOLEAN, timer : BOOLEAN,
           asked : 0..MaxTries]

TypeOK ==
    /\ token \in [Accounts -> {"valid", "verified", "expired"}]
    /\ password \in [Accounts -> {"old", "here", "elsewhere"}]
    /\ view \in {"new", "shown", "destroyed"}
    /\ check \in {"none", "asked", "complete", "incomplete", "failed", "timer"}
    /\ polling \in BOOLEAN /\ forLogin \in BOOLEAN /\ hears \in BOOLEAN
    /\ outcome \in {"none", "same browser", "different browser", "error", "no account"}
    /\ signedIn \in Accounts \cup {None}
    /\ finish \in {"none", "fetching", "stored", "lost"}
    /\ tab \in [Tabs -> [of : Accounts, stage : Stages]]
    /\ stored \in SUBSET Accounts
    /\ inbox \in Seq(Message)
    /\ resend \in Resend
    /\ elsewhere \in SUBSET Accounts
    /\ failures \in 0..MaxFailures /\ signIns \in 0..MaxSignIns

\* The reset was asked for: the links are on their way.
Init ==
    /\ token = [a \in Accounts |-> "valid"]
    /\ password = [a \in Accounts |-> "old"]
    /\ view = "new"
    /\ check = "none"
    /\ polling = FALSE /\ forLogin = FALSE /\ hears = FALSE
    /\ outcome = "none" /\ signedIn = None /\ finish = "none"
    /\ tab \in [Tabs -> [of : Accounts, stage : {"new"}]]
    /\ stored = {}
    /\ inbox = <<>>
    /\ resend = [tries |-> 0, hidden |-> FALSE, timer |-> FALSE, asked |-> 0]
    /\ elsewhere = {}
    /\ failures = 0 /\ signIns = 0

\* A request fails, or its answer is lost.
Failing == failures < MaxFailures /\ failures' = failures + 1 /\ UNCHANGED <<elsewhere, signIns>>

\* A view that has stopped to listen never listens again.
Broadcast(m) == inbox' = IF hears \/ view = "new" THEN Append(inbox, m) ELSE inbox

-----------------------------------------------------------------------------
(* The waiting view.                                                       *)

\* afterVisible: listen to the other tabs and start to poll.
ShowView ==
    /\ view = "new"
    /\ view' = "shown"
    /\ hears' = TRUE /\ polling' = TRUE /\ check' = "asked"
    /\ UNCHANGED <<server, forLogin, outcome, signedIn, finish, tab, stored, inbox, resend, bounds>>

\* _timeouts of a destroyed view are cleared and its listeners removed; a
\* request in flight and the flags it reads are left as they are.
Destroyed ==
    /\ view' = "destroyed"
    /\ hears' = FALSE
    /\ resend' = [resend EXCEPT !.timer = FALSE]

LeaveView ==
    /\ view = "shown"
    /\ Destroyed
    /\ check' = IF check = "timer" THEN "none" ELSE check
    /\ UNCHANGED <<server, polling, forLogin, outcome, signedIn, finish, tab, stored, inbox, bounds>>

\* The page is closed or loads another URL: what it waits for never comes.
ClosePage ==
    /\ view # "new"
    /\ Destroyed
    /\ check' = "none"
    /\ finish' = IF finish = "fetching" THEN "lost" ELSE finish
    /\ UNCHANGED <<server, polling, forLogin, outcome, signedIn, tab, stored, inbox, bounds>>

ServeCheck ==
    /\ check = "asked"
    /\ check' = IF token[Mine] = "valid" THEN "incomplete" ELSE "complete"
    /\ UNCHANGED <<server, view, polling, forLogin, hears, outcome, signedIn, finish, tab, stored,
                   inbox, resend, bounds>>

\* Mutant: isPasswordResetComplete takes any error for an invalid token.
AnyErrorIsComplete == "complete"

\* Only an INVALID_TOKEN says that the reset is complete.
OtherError == "failed"

CheckFails ==
    /\ check = "asked" /\ Failing
    /\ check' = OtherError
    /\ UNCHANGED <<server, view, polling, forLogin, hears, outcome, signedIn, finish, tab, stored,
                   inbox, resend>>

\* Mutants: an answer counts after the poll was stopped, too; or only then.
CaresAlways == TRUE
CaresOnceStopped == ~polling

\* "we no longer care about the response, the other tab has opened."
Cares == polling

\* Not complete: the check is repeated later.  setTimeout makes a new list
\* of timers for a view that was destroyed meanwhile, and nothing clears it.
CheckIncomplete ==
    /\ check = "incomplete"
    /\ check' = IF Cares THEN "timer" ELSE "none"
    /\ UNCHANGED <<server, view, polling, forLogin, hears, outcome, signedIn, finish, tab, stored,
                   inbox, resend, bounds>>

TimerFires ==
    /\ check = "timer"
    /\ check' = IF polling THEN "asked" ELSE "none"
    /\ UNCHANGED <<server, view, polling, forLogin, hears, outcome, signedIn, finish, tab, stored,
                   inbox, resend, bounds>>

\* Mutant: _stopWaiting stops the poll and goes on to listen.
StopsPolling == polling' = FALSE /\ check' = "none" /\ forLogin' = FALSE /\ UNCHANGED hears

\* _stopWaiting, as the last handler of a check leaves no check behind.
StopsWaiting == polling' = FALSE /\ check' = "none" /\ forLogin' = FALSE /\ hears' = FALSE

\* The promise is settled once; what settles it navigates, so that the
\* router destroys the view that is displayed.
CheckComplete ==
    /\ check = "complete"
    /\ IF Cares
       THEN /\ StopsWaiting
            /\ outcome' = IF outcome = "none" THEN "different browser" ELSE outcome
            /\ view' = "destroyed"
            /\ resend' = [resend EXCEPT !.timer = FALSE]
       ELSE /\ check' = "none"
            /\ UNCHANGED <<polling, forLogin, hears, outcome, view, resend>>
    /\ UNCHANGED <<server, signedIn, finish, tab, stored, inbox, bounds>>

\* A failure stops all waiting and is displayed, also that of a check whose
\* answer would no longer count.
CheckFailed ==
    /\ check = "failed"
    /\ StopsWaiting
    /\ outcome' = IF outcome = "none" THEN "error" ELSE outcome
    /\ UNCHANGED <<server, view, signedIn, finish, tab, stored, inbox, resend, bounds>>

\* Mutant: the account is looked up in the storage, which may not hold it.
FoundInStorage(a) == a \in stored

\* The message has all data of the account: the storage need not hold it.
Found(a) == TRUE

\* The broker's behaviour navigates, so that the router destroys the view; or
\* it halts, or fails and the view stays with its error.
Finishes ==
    \/ view' = "destroyed" /\ resend' = [resend EXCEPT !.timer = FALSE]
    \/ UNCHANGED <<view, resend>>

HearTabOpen(m) ==
    /\ m.kind = "tab open" /\ hears /\ ~forLogin
    /\ forLogin' = TRUE
    /\ polling' = FALSE
    /\ check' = IF check = "timer" THEN "none" ELSE check
    /\ UNCHANGED <<view, hears, outcome, signedIn, finish, stored, resend>>

\* SIGNED_IN does not say whether the session is verified: setSignedInAccount
\* asks the server before it stores the account, unless the storage holds it
\* as verified already.
HearSignedIn(m) ==
    /\ m.kind = "signed in" /\ hears /\ forLogin
    /\ polling' = FALSE /\ forLogin' = FALSE /\ hears' = FALSE
    /\ \/ /\ Found(m.account)
          /\ outcome' = "same browser" /\ signedIn' = m.account
          /\ \/ finish' = "fetching" /\ UNCHANGED <<view, resend>>
             \/ m.account \in stored /\ finish' = "stored" /\ Finishes
       \/ /\ ~Found(m.account)
          /\ outcome' = "no account"
          /\ UNCHANGED <<signedIn, finish, view, resend>>
    /\ UNCHANGED <<check, stored>>

IgnoreMessage(m) ==
    /\ ~hears \/ (m.kind = "tab open" <=> forLogin)
    /\ UNCHANGED <<view, wait, stored, resend>>

HearMessage ==
    /\ inbox # <<>>
    /\ inbox' = Tail(inbox)
    /\ LET m == Head(inbox) IN HearTabOpen(m) \/ HearSignedIn(m) \/ IgnoreMessage(m)
    /\ UNCHANGED <<server, tab, bounds>>

\* Mutant: an account whose request failed is not stored.
PersistsIfAnswered == stored' \in {stored, stored \cup {signedIn}}

\* _persistAccount, for the account the wait ended with.
Persists == stored' = stored \cup {signedIn}

\* The request of setSignedInAccount is answered, refused or fails: fetch
\* catches every error, so that the account is stored in any case (without its
\* session if that is gone).  The user may have left the view meanwhile.
SignInFetched ==
    /\ finish = "fetching"
    /\ finish' = "stored"
    /\ Persists
    /\ Finishes
    /\ UNCHANGED <<server, check, polling, forLogin, hears, outcome, signedIn, tab, inbox,
                   bounds>>

-----------------------------------------------------------------------------
(* The resend button.                                                      *)

\* Mutant: the button is hidden when the limit is exceeded.
ReachesMaxLate(tries) == tries > MaxTries

ReachesMax(tries) == tries >= MaxTries

\* A click at the limit hides the button for five minutes.
ClickResend ==
    LET tries == resend.tries + 1
        hide  == ReachesMax(tries)
    IN  /\ view = "shown" /\ ~resend.hidden
        /\ resend' = [resend EXCEPT
                !.tries = tries,
                !.hidden = hide,
                !.timer = @ \/ hide,
                !.asked = IF tries <= MaxTries THEN @ + 1 ELSE @]
        /\ UNCHANGED <<server, view, wait, tab, stored, inbox, bounds>>

ResendTimer ==
    /\ resend.timer
    /\ resend' = [resend EXCEPT !.tries = 0, !.hidden = FALSE, !.timer = FALSE]
    /\ resend.asked = 0  \* requests take less than the five minutes
    /\ UNCHANGED <<server, view, wait, tab, stored, inbox, bounds>>

\* A token that is no longer valid leads back to reset_password.
ResendAnswered ==
    /\ resend.asked > 0
    /\ IF token[Mine] = "valid"
       THEN UNCHANGED <<view, hears, check>> /\ resend' = [resend EXCEPT !.asked = @ - 1]
       ELSE /\ view' = "destroyed" /\ hears' = FALSE
            /\ check' = IF check = "timer" /\ view = "shown" THEN "none" ELSE check
            /\ resend' = [resend EXCEPT !.asked = @ - 1, !.timer = FALSE]
    /\ UNCHANGED <<server, polling, forLogin, outcome, signedIn, finish, tab, stored, inbox, bounds>>

ResendFails ==
    /\ resend.asked > 0 /\ Failing
    /\ resend' = [resend EXCEPT !.asked = @ - 1]
    /\ UNCHANGED <<server, view, wait, tab, stored, inbox>>

-----------------------------------------------------------------------------
(* The tabs opened from links.                                             *)

Goes(t, from, to) == tab[t].stage = from /\ tab' = [tab EXCEPT ![t].stage = to]

\* A damaged link is displayed without a request.
OpenTab(t) ==
    /\ \E to \in {"checking", "dead"} : Goes(t, "new", to)
    /\ IF tab'[t].stage = "dead" THEN Broadcast([kind |-> "tab open"]) ELSE UNCHANGED inbox
    /\ UNCHANGED <<server, view, wait, stored, resend, bounds>>

\* beforeRender asks whether the link was used; when the view is visible it
\* tells the other tabs, whatever it displays.  (A tab whose request failed
\* displays an error and is as good as closed.)
TabShown(t) ==
    /\ Goes(t, "checking", IF token[tab[t].of] = "valid" THEN "form" ELSE "dead")
    /\ Broadcast([kind |-> "tab open"])
    /\ UNCHANGED <<server, view, wait, stored, resend, bounds>>

CloseTab(t) ==
    /\ tab[t].stage \notin {"new", "closed"}
    /\ tab' = [tab EXCEPT ![t].stage = "closed"]
    /\ UNCHANGED <<server, view, wait, stored, inbox, resend, bounds>>

\* submit: verify the code, then reset the account.
Submit(t) ==
    /\ Goes(t, "form", "verifying")
    /\ UNCHANGED <<server, view, wait, stored, inbox, resend, bounds>>

\* INVALID_TOKEN renders the view again, which finds the link used.
ServeVerify(t) ==
    LET a == tab[t].of IN
    /\ IF token[a] = "valid"
       THEN Goes(t, "verifying", "code ok") /\ token' = [token EXCEPT ![a] = "verified"]
       ELSE Goes(t, "verifying", "dead") /\ UNCHANGED token
    /\ UNCHANGED <<password, view, wait, stored, inbox, resend, bounds>>

AskReset(t) ==
    /\ Goes(t, "code ok", "resetting")
    /\ UNCHANGED <<server, view, wait, stored, inbox, resend, bounds>>

ServeReset(t) ==
    /\ Goes(t, "resetting", "session")
    /\ password' = [password EXCEPT ![tab[t].of] = "here"]
    /\ UNCHANGED <<token, view, wait, stored, inbox, resend, bounds>>

\* The other tabs are told of the sign-in before the account is stored.
TellSignedIn(t) ==
    /\ Goes(t, "session", "storing")
    /\ Broadcast([kind |-> "signed in", account |-> tab[t].of])
    /\ UNCHANGED <<server, view, wait, stored, resend, bounds>>

StoreAccount(t) ==
    /\ Goes(t, "storing", "done")
    /\ stored' = stored \cup {tab[t].of}
    /\ UNCHANGED <<server, view, wait, inbox, resend, bounds>>

\* Either request of submit fails, or only its answer is lost: the form is
\* left with an error, and a second submit starts with the code again.
SubmitFails(t) ==
    /\ tab[t].stage \in {"verifying", "code ok", "resetting", "session"}
    /\ Failing
    /\ tab' = [tab EXCEPT ![t].stage = "form"]
    /\ UNCHANGED <<server, view, wait, stored, inbox, resend>>

-----------------------------------------------------------------------------
(* Elsewhere.                                                              *)

VerifyElsewhere(a) ==
    /\ token[a] = "valid"
    /\ token' = [token EXCEPT ![a] = "verified"]
    /\ password' \in {password, [password EXCEPT ![a] = "elsewhere"]}
    /\ UNCHANGED <<view, wait, tab, stored, inbox, resend, bounds>>

Expire(a) ==
    /\ token[a] = "valid"
    /\ token' = [token EXCEPT ![a] = "expired"]
    /\ UNCHANGED <<password, view, wait, tab, stored, inbox, resend, bounds>>

\* Another tab of the browser signs in with a password: it tells the others,
\* and stores the account in the same task or after a fetch of its own.
SignInElsewhere(a) ==
    /\ signIns < MaxSignIns
    /\ signIns' = signIns + 1
    /\ Broadcast([kind |-> "signed in", account |-> a])
    /\ \/ stored' = stored \cup {a} /\ UNCHANGED elsewhere
       \/ elsewhere' = elsewhere \cup {a} /\ UNCHANGED stored
    /\ UNCHANGED <<server, view, wait, tab, resend, failures>>

StoreElsewhere(a) ==
    /\ a \in elsewhere
    /\ elsewhere' = elsewhere \ {a}
    /\ stored' = stored \cup {a}
    /\ UNCHANGED <<server, view, wait, tab, inbox, resend, failures, signIns>>

Answered == CheckComplete \/ CheckIncomplete \/ CheckFailed

TabSteps(t) == TabShown(t) \/ ServeVerify(t) \/ AskReset(t) \/ ServeReset(t)
                   \/ TellSignedIn(t) \/ StoreAccount(t)

Next ==
    \/ ShowView \/ LeaveView \/ ClosePage
    \/ ServeCheck \/ CheckFails \/ Answered \/ TimerFires \/ HearMessage
    \/ SignInFetched
    \/ ClickResend \/ ResendTimer \/ ResendAnswered \/ ResendFails
    \/ \E t \in Tabs : OpenTab(t) \/ CloseTab(t) \/ Submit(t) \/ TabSteps(t) \/ SubmitFails(t)
    \/ \E a \in Accounts : VerifyElsewhere(a) \/ Expire(a)
                        \/ SignInElsewhere(a) \/ StoreElsewhere(a)

Spec == Init /\ [][Next]_vars

\* Requests of the view are answered or fail, its timer fires and it hears its
\* messages.  Nothing says that a tab of a link goes on, or is not closed.
FairSpec ==
    /\ Spec
    /\ WF_vars(ServeCheck) /\ WF_vars(Answered) /\ WF_vars(TimerFires) /\ WF_vars(HearMessage)
    /\ WF_vars(SignInFetched)
    /\ WF_vars(ResendTimer) /\ WF_vars(ResendAnswered)

-----------------------------------------------------------------------------
(* Properties.                                                             *)

\* "The button is hidden after the fourth click for 5 minutes, then start the
\* process again": at the limit it is hidden, and while the view lives a
\* hidden button has the timer that brings it back.
LimitHidesButton ==
    /\ resend.tries = MaxTries => resend.hidden
    /\ resend.hidden /\ view = "shown" => resend.timer

\* "drop the response on the ground": once a link was opened in this browser,
\* no answer of the server sends the user to sign in again.
OpenedTabStopsPoll ==
    [][forLogin /\ outcome = "none" => outcome' # "different browser"]_vars

\* The wait ends at most once and as it says, whichever of the poll, the other
\* tabs and a failure comes first; and the account of the sign-in that ended it
\* is stored when its request is over, whether that failed, the user left the
\* view or other messages came meanwhile: ResetWait.
RW == INSTANCE ResetWait WITH used <- token[Mine] # "valid"
ImplementsResetWait == RW!Spec

\* A reset in another browser is noticed, unless a tab of this browser
\* stopped the poll.
ResetIsNoticed ==
    (view = "shown" /\ password[Mine] # "old")
        ~> (outcome # "none" \/ forLogin \/ view = "destroyed")
=============================================================================
