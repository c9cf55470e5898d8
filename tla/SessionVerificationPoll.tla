----------------------- MODULE SessionVerificationPoll -----------------------
(***************************************************************************)
(* The poll by which a view waits for the session of an account to become  *)
(* verified (models/polls/session-verification.js) and the view mixin that *)
(* owns it.  Views are shown one after the other, each has a poll of its   *)
(* own, and all of them ask about one Account object of the page.          *)
(***************************************************************************)
EXTENDS Naturals

CONSTANTS
    Views,        \* the instances of views that wait for verification
    MaxFailures   \* bound: requests that fail

ASSUME PollAssumption == MaxFailures \in Nat

\* A call in flight asks for the status of the session or, when the session
\* is invalid, whether the uid exists; the others are answers on their way.
\* "failed" is UNEXPECTED_ERROR, "refused" any other error.
StatusAnswers == {"verified", "unverified", "invalid", "failed", "refused"}
UidAnswers    == {"exists", "gone", "uidFailed"}
CallStates    == {"status", "uid"} \cup StatusAnswers \cup UidAnswers

VARIABLES
    hasToken,  \* the Account object has a sessionToken
    live,      \* auth server: its session was not ended
    verified,  \* auth server: its session was verified
    exists,    \* auth server: the account exists
    shown,     \* where each view is in its life
    poll,      \* of each view: _isWaiting, _pollTimeout, the retry timer of
               \* the view, and how many calls are in each state
    notified,  \* how often onVerified was called for each view
    outcome,   \* what its poll's error made of each view
    failures   \* how many of the MaxFailures are used up

vars == <<hasToken, live, verified, exists, shown, poll, notified, outcome, failures>>
server == <<live, verified, exists>>

Poll == [waiting : BOOLEAN, timer : BOOLEAN, retry : BOOLEAN, calls : [CallStates -> Nat]]

TypeOK ==
    /\ hasToken \in BOOLEAN
    /\ live \in BOOLEAN /\ verified \in BOOLEAN /\ exists \in BOOLEAN
    /\ shown \in [Views -> {"new", "shown", "destroyed"}]
    /\ poll \in [Views -> Poll]
    /\ notified \in [Views -> {0, 1}]  \* onVerified is called once at most
    /\ outcome \in [Views -> {"none", "bounced", "displayed"}]
    /\ failures \in 0..MaxFailures

Init ==
    /\ hasToken = TRUE
    /\ live = TRUE /\ verified = FALSE /\ exists = TRUE
    /\ shown = [v \in Views |-> "new"]
    /\ poll = [v \in Views |-> [waiting |-> FALSE, timer |-> FALSE, retry |-> FALSE,
                                calls |-> [x \in CallStates |-> 0]]]
    /\ notified = [v \in Views |-> 0]
    /\ outcome = [v \in Views |-> "none"]
    /\ failures = 0

-----------------------------------------------------------------------------
(* The operations of a poll, on its record p.                              *)

Calling(p, x)     == [p EXCEPT !.calls[x] = @ + 1]
Without(p, x)     == [p EXCEPT !.calls[x] = @ - 1]
Answering(p, x, y) == Calling(Without(p, x), y)

\* _poll: without a token, sessionStatus is an INVALID_TOKEN at once.
Polled(p) ==
    IF ~p.waiting THEN p ELSE Calling(p, IF hasToken THEN "status" ELSE "uid")

Started(p) == IF p.waiting THEN p ELSE Polled([p EXCEPT !.waiting = TRUE])

\* Mutant: stop() only clears the timeout.
StoppedKeepsWaiting(p) == [p EXCEPT !.timer = FALSE]

Stopped(p) == [p EXCEPT !.waiting = FALSE, !.timer = FALSE]

\* Mutant: destroying a view leaves its poll running.
DestroyedKeepsPolling(p) == [p EXCEPT !.retry = FALSE]

\* Destroying a view destroys its poll and clears its timers.
Destroyed(p) == [Stopped(p) EXCEPT !.retry = FALSE]

-----------------------------------------------------------------------------
\* A view takes the place of the displayed one; without a token it would
\* not render.
Show(v) ==
    /\ shown[v] = "new" /\ hasToken
    /\ shown' = [w \in Views |-> IF w = v THEN "shown"
                                 ELSE IF shown[w] = "shown" THEN "destroyed" ELSE shown[w]]
    /\ poll' = [w \in Views |-> IF w = v THEN Started(poll[v])
                                ELSE IF shown[w] = "shown" THEN Destroyed(poll[w]) ELSE poll[w]]
    /\ UNCHANGED <<hasToken, server, notified, outcome, failures>>

Leave(v) ==
    /\ shown[v] = "shown"
    /\ shown' = [shown EXCEPT ![v] = "destroyed"]
    /\ poll' = [poll EXCEPT ![v] = Destroyed(@)]
    /\ UNCHANGED <<hasToken, server, notified, outcome, failures>>

TimerFires(v) ==
    /\ poll[v].timer
    /\ poll' = [poll EXCEPT ![v] = Polled([@ EXCEPT !.timer = FALSE])]
    /\ UNCHANGED <<hasToken, server, shown, notified, outcome, failures>>

RetryFires(v) ==
    /\ poll[v].retry
    /\ poll' = [poll EXCEPT ![v] = Started([@ EXCEPT !.retry = FALSE])]
    /\ UNCHANGED <<hasToken, server, shown, notified, outcome, failures>>

ServeStatus(v) ==
    /\ poll[v].calls["status"] > 0
    /\ poll' = [poll EXCEPT ![v] =
            Answering(@, "status", IF ~live THEN "invalid"
                                   ELSE IF verified THEN "verified" ELSE "unverified")]
    /\ UNCHANGED <<hasToken, server, shown, notified, outcome, failures>>

ServeUid(v) ==
    /\ poll[v].calls["uid"] > 0
    /\ poll' = [poll EXCEPT ![v] = Answering(@, "uid", IF exists THEN "exists" ELSE "gone")]
    /\ UNCHANGED <<hasToken, server, shown, notified, outcome, failures>>

Fails(v, x, y) ==
    /\ poll[v].calls[x] > 0 /\ failures < MaxFailures
    /\ poll' = [poll EXCEPT ![v] = Answering(@, x, y)]
    /\ failures' = failures + 1
    /\ UNCHANGED <<hasToken, server, shown, notified, outcome>>

\* The session is verified from elsewhere, or ended, alone or with the
\* whole account (a bounced email).
Verify ==
    /\ live /\ ~verified
    /\ verified' = TRUE
    /\ UNCHANGED <<hasToken, live, exists, shown, poll, notified, outcome, failures>>
End ==
    /\ live
    /\ live' = FALSE
    /\ exists' \in BOOLEAN
    /\ UNCHANGED <<hasToken, verified, shown, poll, notified, outcome, failures>>

\* Mutant: the poll goes on after it noticed.
NoticedPollsOn(p) == [p EXCEPT !.timer = TRUE]

Noticed(p) == Stopped(p)

\* A view hears the events of its poll until it is destroyed.
Hears(v) == shown[v] = "shown"

\* _onStatusComplete: a poll that was stopped no longer cares.
StatusVerified(v) ==
    /\ poll[v].calls["verified"] > 0
    /\ IF poll[v].waiting
       THEN /\ notified' = IF Hears(v) THEN [notified EXCEPT ![v] = @ + 1] ELSE notified
            /\ poll' = [poll EXCEPT ![v] = Noticed(Without(@, "verified"))]
       ELSE /\ poll' = [poll EXCEPT ![v] = Without(@, "verified")]
            /\ UNCHANGED notified
    /\ UNCHANGED <<hasToken, server, shown, outcome, failures>>

StatusUnverified(v) ==
    /\ poll[v].calls["unverified"] > 0
    /\ poll' = [poll EXCEPT ![v] =
            [Without(@, "unverified") EXCEPT !.timer = poll[v].waiting]]
    /\ UNCHANGED <<hasToken, server, shown, notified, outcome, failures>>

\* _onStatusError asks nobody whether the poll still waits.  An invalid
\* session unsets the token and asks for the uid before any error is told.
StatusInvalid(v) ==
    /\ poll[v].calls["invalid"] > 0
    /\ hasToken' = FALSE
    /\ poll' = [poll EXCEPT ![v] = Answering(@, "invalid", "uid")]
    /\ UNCHANGED <<server, shown, notified, outcome, failures>>

\* Mutant: an unexpected error is hidden, and that is all.
RetriesNever(v) == FALSE

\* The view hides an unexpected error and starts the poll again later.
Retries(v) == Hears(v)

StatusFailed(v) ==
    /\ poll[v].calls["failed"] > 0
    /\ poll' = [poll EXCEPT ![v] =
            [Stopped(Without(poll[v], "failed")) EXCEPT !.retry = @ \/ Retries(v)]]
    /\ UNCHANGED <<hasToken, server, shown, notified, outcome, failures>>

\* Any other error is displayed, or leads back to signup when the account
\* is gone, and ends the poll.
ErrorEnds(v, x, result) ==
    /\ poll[v].calls[x] > 0
    /\ poll' = [poll EXCEPT ![v] = Stopped(Without(@, x))]
    /\ outcome' = IF Hears(v) THEN [outcome EXCEPT ![v] = result] ELSE outcome
    /\ UNCHANGED <<hasToken, server, shown, notified, failures>>

\* A failure of checkUidExists is handled by nobody.
UidFailed(v) ==
    /\ poll[v].calls["uidFailed"] > 0
    /\ poll' = [poll EXCEPT ![v] = Without(@, "uidFailed")]
    /\ UNCHANGED <<hasToken, server, shown, notified, outcome, failures>>

-----------------------------------------------------------------------------
Serve(v) == ServeStatus(v) \/ ServeUid(v)

Answered(v) ==
    \/ StatusVerified(v)
    \/ StatusUnverified(v)
    \/ StatusInvalid(v)
    \/ StatusFailed(v)
    \/ ErrorEnds(v, "refused", "displayed")
    \/ ErrorEnds(v, "exists", "displayed")
    \/ ErrorEnds(v, "gone", "bounced")
    \/ UidFailed(v)

Next ==
    \/ \E v \in Views : Show(v) \/ Leave(v)
    \/ \E v \in Views : TimerFires(v) \/ RetryFires(v) \/ Serve(v) \/ Answered(v)
    \/ \E v \in Views : \/ \E y \in {"failed", "refused"} : Fails(v, "status", y)
                        \/ Fails(v, "uid", "uidFailed")
    \/ Verify \/ End

Spec == Init /\ [][Next]_vars

\* Timers fire and requests are answered, by the server or with a failure.
FairSpec ==
    /\ Spec
    /\ \A v \in Views : /\ WF_vars(TimerFires(v)) /\ WF_vars(RetryFires(v))
                        /\ WF_vars(Serve(v)) /\ WF_vars(Answered(v))

-----------------------------------------------------------------------------
(* Properties.                                                             *)

\* One chain of checks per view, whatever the timers of the poll and of the
\* view do: never two at a time, and as long as a poll waits for a session
\* it can ask about there is one, so that it cannot wait for nothing.
Links(p) ==
    {x \in CallStates : p.calls[x] > 0}
        \cup (IF p.timer THEN {"timer"} ELSE {}) \cup (IF p.retry THEN {"retry"} ELSE {})
OneCheckAtATime ==
    \A v \in Views :
        /\ \A x \in CallStates : poll[v].calls[x] <= 1
        /\ \A x, y \in Links(poll[v]) : x = y
        /\ poll[v].waiting /\ hasToken => Links(poll[v]) # {}

\* "Polling is automatically terminated when view is destroyed": a view that
\* is gone starts no check, from whichever of its timers or answers.
DestroyedIsQuiet ==
    [][\A v \in Views : shown[v] = "destroyed" =>
            poll'[v].calls["status"] <= poll[v].calls["status"]]_vars

\* A displayed view learns that its session is verified, however many checks
\* fail unexpectedly before, unless it was told of another error.
VerifiedIsNoticed ==
    \A v \in Views :
        (shown[v] = "shown" /\ live /\ verified)
            ~> (notified[v] = 1 \/ outcome[v] # "none" \/ shown[v] # "shown" \/ ~live)

\* A view is told once how its wait ended, and the truth, although the polls
\* of several views share the account, errors restart them, and an answer is
\* handled long after the server gave it: VerificationWait.
VW == INSTANCE VerificationWait
ImplementsVerificationWait == VW!Spec
=============================================================================
