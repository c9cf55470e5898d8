---------------------------- MODULE AccountTokens ----------------------------
(***************************************************************************)
(* The access tokens of one Account object (models/account.js) and the     *)
(* requests of the settings views that need one: the cached profile, the   *)
(* other calls of the profile server and those of the OAuth server.  A     *)
(* token lives five minutes; to get one takes an assertion, which takes a  *)
(* certificate signed for the session.  Every request is sent, served and  *)
(* answered in steps of its own, and all of them share the account.        *)
(***************************************************************************)
EXTENDS Naturals, FiniteSets

CONSTANTS
    Sessions,     \* session tokens the account may have
    First,        \* the one it has when the page loads
    None,         \* no session
    Ops,          \* operations of the views, each started once
    MaxTokens,    \* bound: access tokens issued
    MaxFailures,  \* bound: requests that fail
    MaxHours      \* bound: times an assertion grows an hour old

\* fetchProfile(); getAvatar, deleteAvatar, uploadAvatar and postDisplayName;
\* fetchOAuthApps; destroyOAuthApp.
Profile == {"fetchProfile", "callProfile"}
Apps == {"fetchApps", "destroyApp"}
Kinds == Profile \cup Apps
Tokens == 1..MaxTokens

ASSUME TokensAssumption ==
    /\ First \in Sessions /\ None \notin Sessions
    /\ MaxTokens \in Nat /\ MaxFailures \in Nat /\ MaxHours \in Nat

VARIABLES
    live,       \* auth server: sessions that are, or may become, valid
    confirmed,  \* auth server: sessions that are verified
    issued,     \* OAuth server: tokens 1..issued were issued
    good,       \* those that are still accepted
    session,    \* the account's sessionToken
    verified,   \* its verified flag
    access,     \* its accessToken; 0 is none
    assertion,  \* _assertionPromises
    signing,    \* certificate requests in flight
    cached,     \* _profileFetchPromise
    bound,      \* onChange hears the changes of the account
    kind,       \* what each operation is
    op,         \* where it is
    failures, hours

auth == <<live, confirmed>>
oauth == <<issued, good>>
account == <<session, verified, access>>
vars == <<auth, oauth, account, assertion, signing, cached, bound, kind, op, failures, hours>>

\* Where an operation is; the answers of a request are states of their own.
Steps == {"idle", "status", "assertion", "token", "call", "ok", "failed"}
Answers == {"none", "good", "unverified", "refused", "error"}
Op == [at : Steps, answer : Answers, retry : BOOLEAN, of : Sessions \cup {None},
       with : 0..MaxTokens, first : 0..MaxTokens]

\* An operation before its start and after its end.
Rest(at) == [at |-> at, answer |-> "none", retry |-> FALSE, of |-> None,
             with |-> 0, first |-> 0]

TypeOK ==
    /\ live \in SUBSET Sessions /\ confirmed \in SUBSET Sessions
    /\ issued \in 0..MaxTokens /\ good \in SUBSET Tokens
    /\ session \in Sessions \cup {None} /\ verified \in BOOLEAN /\ access \in 0..MaxTokens
    /\ assertion \in [Sessions -> {"none", "asked", "good", "refused", "error"}]
    /\ signing \in [Sessions -> Nat]
    /\ cached \in {"none", "pending", "good", "failed"} /\ bound \in BOOLEAN
    /\ kind \in [Ops -> Kinds] /\ op \in [Ops -> Op]
    /\ failures \in 0..MaxFailures /\ hours \in 0..MaxHours

Init ==
    /\ live = Sessions
    /\ confirmed \in SUBSET {First}
    /\ issued = 0 /\ good = {}
    /\ session = First
    /\ verified = (session \in confirmed)
    /\ access = 0
    /\ assertion = [s \in Sessions |-> "none"]
    /\ signing = [s \in Sessions |-> 0]
    /\ cached = "none" /\ bound = TRUE
    /\ kind \in [Ops -> Kinds]
    /\ op = [o \in Ops |-> Rest("idle")]
    /\ failures = 0 /\ hours = 0

-----------------------------------------------------------------------------
(* Pieces of the handlers.                                                 *)

\* onChange: a change outside of fetchProfile clears the cache.  The cache
\* after the attributes became s, v and a.
Cleared(s, v, a) ==
    IF bound /\ (s # session \/ v # verified \/ a # access) THEN "none" ELSE cached

\* The account gets the attributes s, v and a.
Sets(s, v, a) == session' = s /\ verified' = v /\ access' = a

\* Mutant: fetchProfile leaves the change handler bound.
KeepsBound(b) == TRUE

\* fetchProfile unbinds the handler and binds it when the profile is there.
Bound(b) == b

\* Operation o ends; its account has the attributes s, v and a by then.
Ends(o, how, s, v, a) ==
    /\ op' = [op EXCEPT ![o] = Rest(how)]
    /\ Sets(s, v, a)
    /\ IF kind[o] = "fetchProfile" /\ how = "ok"
       THEN cached' = "good" /\ bound' = TRUE
       ELSE /\ cached' = IF kind[o] = "fetchProfile" /\ Cleared(s, v, a) = "pending"
                         THEN "failed" ELSE Cleared(s, v, a)
            /\ UNCHANGED bound

\* The same, with no change of the account.
Fails(o) == Ends(o, "failed", session, verified, access)

\* _invalidateSession
Invalidates(o) == Ends(o, "failed", None, verified, 0)

\* Mutant: only an assertion that is there is used again.
ReusesGood(s) == assertion[s] = "good"

\* _isAssertionValid: a promise is used for an hour, even a rejected one.
Reuses(s) == assertion[s] # "none"

\* _generateAssertion, for a session.
Generates(s) ==
    IF Reuses(s) THEN UNCHANGED <<assertion, signing>>
    ELSE /\ assertion' = [assertion EXCEPT ![s] = "asked"]
         /\ signing' = [signing EXCEPT ![s] = @ + 1]

\* createOAuthToken: operation o waits for the assertion of the session.
NeedsToken(o, retry) ==
    /\ Generates(session)
    /\ op' = [op EXCEPT ![o].at = "assertion", ![o].answer = "none", ![o].of = session,
                        ![o].retry = retry]

\* Mutant: the retry uses the token the operation began with.
KeptToken(o, new) == IF op[o].retry THEN op[o].first ELSE new

\* The token of a call: destroyOAuthApp reads it once, before the first.
CallToken(o, new) == IF op[o].retry /\ kind[o] = "destroyApp" THEN op[o].first ELSE new

\* Operation o makes its call when the accessToken is a.
Calls(o, a) ==
    op' = [op EXCEPT ![o].at = "call", ![o].answer = "none", ![o].of = None,
                     ![o].with = CallToken(o, a),
                     ![o].first = IF op[o].retry THEN @ ELSE a]

\* profileClient() once the account is fetched; its error handler invalidates
\* the session when there is none to get an assertion for.
GoesOn(o, s, v, a) ==
    \/ /\ ~v
       /\ Ends(o, "failed", s, v, a)
       /\ UNCHANGED <<assertion, signing>>
    \/ /\ v /\ a # 0
       /\ Calls(o, a) /\ Sets(s, v, a) /\ cached' = Cleared(s, v, a)
       /\ UNCHANGED <<bound, assertion, signing>>
    \/ /\ v /\ a = 0 /\ s = None
       /\ Invalidates(o)
       /\ UNCHANGED <<assertion, signing>>
    \/ /\ v /\ a = 0 /\ s # None
       /\ NeedsToken(o, FALSE) /\ Sets(s, v, a) /\ cached' = Cleared(s, v, a)
       /\ UNCHANGED bound

-----------------------------------------------------------------------------
(* The start of an operation.                                              *)

\* A profile call first hydrates an account that is not verified.
Hydrates(o) == session # None /\ ~verified

AskStatus(o) ==
    /\ op' = [op EXCEPT ![o].at = "status", ![o].of = session]
    /\ UNCHANGED <<account, assertion, signing>>

StartFetchProfile(o) ==
    /\ kind[o] = "fetchProfile" /\ op[o].at = "idle" /\ cached = "none"
    /\ \/ /\ Hydrates(o) /\ AskStatus(o)
          /\ cached' = "pending" /\ bound' = Bound(FALSE)
       \/ /\ ~Hydrates(o) /\ verified /\ (access # 0 \/ session # None)
          /\ cached' = "pending" /\ bound' = Bound(FALSE)
          /\ UNCHANGED account
          /\ IF access # 0 THEN Calls(o, access) /\ UNCHANGED <<assertion, signing>>
                           ELSE NeedsToken(o, FALSE)
       \/ /\ ~Hydrates(o) /\ ~(verified /\ (access # 0 \/ session # None))
          /\ op' = [op EXCEPT ![o] = Rest("failed")]
          /\ cached' = "failed" /\ bound' = Bound(FALSE)
          /\ UNCHANGED <<account, assertion, signing>>
    /\ UNCHANGED <<auth, oauth, failures, hours, kind>>

StartCallProfile(o) ==
    /\ kind[o] = "callProfile" /\ op[o].at = "idle"
    /\ IF Hydrates(o) THEN AskStatus(o) /\ UNCHANGED <<cached, bound>>
                      ELSE GoesOn(o, session, verified, access)
    /\ UNCHANGED <<auth, oauth, failures, hours, kind>>

\* The OAuth server is asked with the accessToken there is, if any.
StartApps(o) ==
    /\ kind[o] \in Apps /\ op[o].at = "idle"
    /\ Calls(o, access)
    /\ UNCHANGED <<auth, oauth, account, assertion, signing, cached, bound, failures, hours, kind>>

-----------------------------------------------------------------------------
(* The servers.                                                            *)

Answering(o, answer) ==
    /\ op' = [op EXCEPT ![o].answer = answer]
    /\ UNCHANGED <<auth, account, assertion, signing, cached, bound, hours, kind>>

ServeStatus(o) ==
    /\ op[o].at = "status" /\ op[o].answer = "none"
    /\ Answering(o, CASE op[o].of \notin live -> "refused"
                      [] op[o].of \in live \cap confirmed -> "good"
                      [] OTHER -> "unverified")
    /\ UNCHANGED <<oauth, failures>>

\* The token that answers is op[o].with.
ServeToken(o) ==
    /\ op[o].at = "token" /\ op[o].answer = "none" /\ issued < MaxTokens
    /\ issued' = issued + 1 /\ good' = good \cup {issued + 1}
    /\ op' = [op EXCEPT ![o].answer = "good", ![o].with = issued + 1]
    /\ UNCHANGED <<auth, account, assertion, signing, cached, bound, failures, hours, kind>>

ServeCall(o) ==
    /\ op[o].at = "call" /\ op[o].answer = "none"
    /\ Answering(o, IF op[o].with \in good THEN "good" ELSE "refused")
    /\ UNCHANGED <<oauth, failures>>

RequestFails(o) ==
    /\ op[o].at \in {"status", "token", "call"} /\ op[o].answer = "none"
    /\ failures < MaxFailures /\ failures' = failures + 1
    /\ Answering(o, "error")
    /\ UNCHANGED oauth

\* certificate/sign; every waiter of the promise sees how it is settled.
Signed(s) ==
    /\ signing[s] > 0
    /\ signing' = [signing EXCEPT ![s] = @ - 1]
    /\ \/ assertion' = [assertion EXCEPT ![s] = IF s \in live THEN "good" ELSE "refused"]
          /\ UNCHANGED failures
       \/ assertion' = [assertion EXCEPT ![s] = "error"]
          /\ failures < MaxFailures /\ failures' = failures + 1
    /\ UNCHANGED <<auth, oauth, account, cached, bound, op, hours, kind>>

-----------------------------------------------------------------------------
(* The answers.                                                            *)

\* fetch(): an invalid session is invalidated, another error is swallowed.
StatusAnswered(o) ==
    LET answer == op[o].answer
        s == IF answer = "refused" THEN None ELSE session
        v == IF answer \in {"good", "unverified"} THEN answer = "good" ELSE verified
        a == IF answer = "refused" THEN 0 ELSE access
    IN  /\ op[o].at = "status" /\ answer # "none"
        /\ GoesOn(o, s, v, a)
        /\ UNCHANGED <<auth, oauth, failures, hours, kind>>

\* Mutant: a rejected assertion is not passed on.
RejectionIsLost(s) == FALSE

Rejected(s) == assertion[s] \in {"refused", "error"}

AssertionAnswered(o) ==
    LET s == op[o].of IN
    /\ op[o].at = "assertion"
    /\ \/ /\ assertion[s] = "good"
          /\ op' = [op EXCEPT ![o].at = "token", ![o].of = None] /\ UNCHANGED <<account, cached, bound>>
       \/ /\ Rejected(s)
          /\ IF assertion[s] = "refused" /\ kind[o] \in Profile /\ ~op[o].retry
             THEN Invalidates(o) ELSE Fails(o)
    /\ UNCHANGED <<auth, oauth, assertion, signing, failures, hours, kind>>

TokenAnswered(o) ==
    /\ op[o].at = "token" /\ op[o].answer # "none"
    /\ IF op[o].answer = "good"
       THEN /\ Calls(o, op[o].with)
            /\ Sets(session, verified, op[o].with)
            /\ cached' = Cleared(session, verified, op[o].with)
            /\ UNCHANGED bound
       ELSE Fails(o)
    /\ UNCHANGED <<auth, oauth, assertion, signing, failures, hours, kind>>

\* Mutant: the accessToken is emptied the way a session is.
UnsetToNone(o) == IF kind[o] \in Profile THEN None ELSE access

\* A profile call that is refused twice unsets the accessToken.
AfterRefusal(o) == IF kind[o] \in Profile THEN 0 ELSE access

\* The first refusal is followed by one retry with a new token.
CallAnswered(o) ==
    LET answer == op[o].answer
        again == answer = "refused" /\ ~op[o].retry
    IN
    /\ op[o].at = "call" /\ answer # "none"
    /\ \/ /\ answer = "good"
          /\ Ends(o, "ok", session, verified, access)
          /\ UNCHANGED <<assertion, signing>>
       \/ /\ answer = "refused" /\ op[o].retry
          /\ Ends(o, "failed", session, verified, AfterRefusal(o))
          /\ UNCHANGED <<assertion, signing>>
       \/ /\ answer = "error" \/ (again /\ session = None)
          /\ Fails(o)
          /\ UNCHANGED <<assertion, signing>>
       \/ /\ again /\ session # None
          /\ NeedsToken(o, TRUE)
          /\ UNCHANGED <<account, cached, bound>>
    /\ UNCHANGED <<auth, oauth, failures, hours, kind>>

-----------------------------------------------------------------------------
(* What else happens to the account and to the servers.                    *)

\* Another device disconnects a session, or a link confirms it.
Revoke(s) ==
    /\ s \in live /\ live' = live \ {s}
    /\ UNCHANGED <<confirmed, oauth, account, assertion, signing, cached, bound, op,
                   failures, hours, kind>>
Confirm ==
    /\ First \in live \ confirmed /\ confirmed' = confirmed \cup {First}
    /\ UNCHANGED <<live, oauth, account, assertion, signing, cached, bound, op,
                   failures, hours, kind>>

\* changePassword: the account object gets a session that replaces its own.
ChangePassword(s) ==
    /\ session # None /\ session \in live /\ verified
    /\ s \in live \ {session}
    /\ live' = live \ {session}
    /\ confirmed' = confirmed \cup {s}
    /\ Sets(s, TRUE, access) /\ cached' = Cleared(s, TRUE, access)
    /\ UNCHANGED <<oauth, assertion, signing, bound, op, failures, hours, kind>>

Expire(t) ==
    /\ t \in good /\ good' = good \ {t}
    /\ UNCHANGED <<auth, issued, account, assertion, signing, cached, bound, op,
                   failures, hours, kind>>

\* An hour passes: all that wait for the assertion have seen it by then.
HourPasses(s) ==
    /\ assertion[s] \in {"good", "refused", "error"} /\ hours < MaxHours
    /\ \A o \in Ops : op[o].at = "assertion" => op[o].of # s
    /\ assertion' = [assertion EXCEPT ![s] = "none"]
    /\ hours' = hours + 1
    /\ UNCHANGED <<auth, oauth, account, signing, cached, bound, op, failures, kind>>

Start(o) == StartFetchProfile(o) \/ StartCallProfile(o) \/ StartApps(o)
Serve(o) == ServeStatus(o) \/ ServeToken(o) \/ ServeCall(o)
Answered(o) ==
    StatusAnswered(o) \/ AssertionAnswered(o) \/ TokenAnswered(o) \/ CallAnswered(o)

Next ==
    \/ \E o \in Ops : Start(o) \/ Serve(o) \/ RequestFails(o) \/ Answered(o)
    \/ \E s \in Sessions : Signed(s) \/ Revoke(s) \/ ChangePassword(s) \/ HourPasses(s)
    \/ Confirm
    \/ \E t \in Tokens : Expire(t)

Spec == Init /\ [][Next]_vars

\* Requests are answered, by a server or with a failure.
FairSpec ==
    /\ Spec
    /\ \A o \in Ops : WF_vars(Serve(o) \/ RequestFails(o)) /\ WF_vars(Answered(o))
    /\ \A s \in Sessions : WF_vars(Signed(s))

-----------------------------------------------------------------------------
(* Properties.                                                             *)

Of(k) == {o \in Ops : kind[o] = k}
InProgress(o) == op[o].at \notin {"idle", "ok", "failed"}

\* "Avoid multiple views making profile requests by caching the profile fetch
\* request": though the fetch itself changes the account, which clears the
\* cache, no two views fetch the profile at once.
OneProfileFetch ==
    \A o, p \in Of("fetchProfile") : InProgress(o) /\ InProgress(p) => o = p

\* "Used to prevent multiple concurrent assertion requests for the same
\* sessionToken."
OneSigningPerSession == \A s \in Sessions : signing[s] <= 1

\* The retry of every operation but destroyOAuthApp sends a token that was
\* issued after the one that was refused.
RetryIsNewer ==
    \A o \in Ops \ Of("destroyApp") :
        op[o].at = "call" /\ op[o].retry => op[o].with > op[o].first

\* "retry once with a fresh token.": not so for destroyOAuthApp.
RetriesWithFreshToken ==
    \A o \in Ops : op[o].at = "call" /\ op[o].retry => op[o].with > op[o].first

\* Every operation ends, unless it waits for a token beyond the bound.
OperationsEnd ==
    \A o \in Ops : InProgress(o) ~> (~InProgress(o) \/ issued = MaxTokens)
=============================================================================
