------------------------- MODULE PasswordResetProofs -------------------------
(***************************************************************************)
(* A view that waits for a password reset, for any accounts, tabs and      *)
(* limits.  Its two ways to end exclude each other because a view that     *)
(* waits for a login message has stopped to poll (WaitIsSound), and its    *)
(* resend button comes back because a count at the limit, the hidden       *)
(* button and the timer go together (ButtonIsSound).                       *)
(***************************************************************************)
EXTENDS PasswordReset, TLAPS

\* A view not shown yet waits for nothing and was not clicked, and one whose
\* wait is over neither polls nor listens.  Requests in
\* flight may answer at any time: one that says "complete" found the link
\* used, and no link becomes valid again.
WaitIsSound ==
    /\ view = "new" => ~hears /\ ~forLogin /\ ~resend.hidden
                       /\ check = "none" /\ outcome = "none"
    /\ outcome # "none" => ~polling /\ ~hears
    /\ forLogin => ~polling
    /\ check = "complete" => token[Mine] # "valid"

\* A button that is displayed was clicked less often than the limit, and no
\* more e-mails are asked for than it was clicked.
ButtonIsSound ==
    /\ resend.asked <= resend.tries
    /\ ~resend.hidden => resend.tries < MaxTries
    /\ resend.hidden /\ view = "shown" => resend.timer

\* What the end of the wait says: the user is told to sign in with the new
\* password only if the link was used or expired, however requests fail
\* before.
OnlyUsedLinksComplete == outcome = "different browser" => token[Mine] # "valid"

\* The sign-in of another tab, which is told before that tab stores its
\* account, never ends the wait without an account: it is that of an account
\* whose request is in flight or which is stored, unless the page is gone.
HeardSignInSucceeds ==
    /\ outcome # "no account"
    /\ outcome = "same browser" => signedIn \in Accounts /\ finish # "none"
    /\ finish = "stored" => signedIn \in stored

\* An account is stored by a wait that is over, and only by the sign-in that
\* ended it.
OnlyHeardIsStored == finish # "none" => outcome = "same browser"

IInv ==
    /\ TypeOK /\ WaitIsSound /\ ButtonIsSound
    /\ OnlyUsedLinksComplete /\ HeardSignInSucceeds /\ OnlyHeardIsStored

USE ResetAssumption

-----------------------------------------------------------------------------
(* What the actions have in common.                                        *)

\* A button no step touches stays sound, as no view is shown again.
LEMMA ButtonKept ==
    ASSUME IInv, UNCHANGED resend, view' = "shown" => view = "shown"
    PROVE  resend' \in Resend /\ ButtonIsSound'
  BY DEF IInv, TypeOK, ButtonIsSound

\* So does the button of a view that is destroyed, with its timer cleared.
LEMMA ButtonDestroyed ==
    ASSUME IInv, resend' = [resend EXCEPT !.timer = FALSE], view' # "shown"
    PROVE  resend' \in Resend /\ ButtonIsSound' /\ resend'.hidden = resend.hidden
  BY DEF IInv, TypeOK, ButtonIsSound, Resend

\* No link becomes valid again: what was learned of it stays true.
LEMMA LinkStaysUsed ==
    ASSUME IInv, token' = token \/ (\E a \in Accounts : \E s \in {"verified", "expired"} :
                                        token' = [token EXCEPT ![a] = s])
    PROVE  /\ token' \in [Accounts -> {"valid", "verified", "expired"}]
           /\ token[Mine] # "valid" => token'[Mine] # "valid"
  BY DEF IInv, TypeOK

\* A tab goes from one stage to the next.
LEMMA TabsTyped ==
    ASSUME IInv, NEW t \in Tabs, NEW s \in Stages, tab' = [tab EXCEPT ![t].stage = s]
    PROVE  tab' \in [Tabs -> [of : Accounts, stage : Stages]]
  <1> DEFINE w == [tab[t] EXCEPT !.stage = s]
  <1>1. tab[t] \in [of : Accounts, stage : Stages]
    BY DEF IInv, TypeOK
  <1>2. w \in [of : Accounts, stage : Stages]
    BY <1>1
  <1>3. tab' = [tab EXCEPT ![t] = w]
    OBVIOUS
  <1> HIDE DEF w
  <1>4. QED
    BY <1>2, <1>3 DEF IInv, TypeOK

\* A message is heard by a view that listens, later or never.
LEMMA BroadcastTyped ==
    ASSUME IInv, NEW m \in Message, Broadcast(m)
    PROVE  inbox' \in Seq(Message)
  <1>1. inbox \in Seq(Message)
    BY DEF IInv, TypeOK
  <1>2. Append(inbox, m) \in Seq(Message)
    BY <1>1
  <1>3. QED
    BY <1>1, <1>2, Zenon DEF Broadcast

\* Failures are counted within their bound.
LEMMA FailingTyped ==
    ASSUME IInv, Failing
    PROVE  failures' \in 0..MaxFailures /\ UNCHANGED <<elsewhere, signIns>>
  <1>1. failures \in 0..MaxFailures
    BY DEF IInv, TypeOK
  <1>2. failures < MaxFailures /\ failures' = failures + 1 /\ UNCHANGED <<elsewhere, signIns>>
    BY DEF Failing
  <1>3. QED
    BY <1>1, <1>2

\* A step that leaves the wait, the view and its button alone keeps what was
\* learned of the link and of the accounts stored.
LEMMA OthersKeep ==
    ASSUME IInv, UNCHANGED <<view, wait, resend>>, stored \subseteq stored',
           token[Mine] # "valid" => token'[Mine] # "valid"
    PROVE  /\ WaitIsSound' /\ ButtonIsSound'
           /\ OnlyUsedLinksComplete' /\ HeardSignInSucceeds' /\ OnlyHeardIsStored'
  BY ButtonKept DEF IInv, WaitIsSound, wait, OnlyUsedLinksComplete, HeardSignInSucceeds,
                    OnlyHeardIsStored

-----------------------------------------------------------------------------
(* The waiting view.                                                       *)

LEMMA InitKeeps == Init => IInv
  <1> SUFFICES ASSUME Init PROVE IInv
    OBVIOUS
  <1>1. TypeOK
    <2>1. resend \in Resend
      BY DEF Init, Resend
    <2>2. tab \in [Tabs -> [of : Accounts, stage : Stages]]
      BY DEF Init, Stages
    <2>3. inbox \in Seq(Message) /\ failures \in 0..MaxFailures /\ signIns \in 0..MaxSignIns
      BY DEF Init
    <2>4. token \in [Accounts -> {"valid", "verified", "expired"}]
          /\ password \in [Accounts -> {"old", "here", "elsewhere"}]
      BY DEF Init
    <2>5. QED
      BY <2>1, <2>2, <2>3, <2>4 DEF Init, TypeOK
  <1>2. WaitIsSound /\ ButtonIsSound /\ OnlyUsedLinksComplete /\ HeardSignInSucceeds
        /\ OnlyHeardIsStored
    BY DEF Init, WaitIsSound, ButtonIsSound, OnlyUsedLinksComplete, HeardSignInSucceeds,
           OnlyHeardIsStored
  <1>3. QED
    BY <1>1, <1>2 DEF IInv

LEMMA ShowViewKeeps == ASSUME IInv, ShowView PROVE IInv'
  <1>1. ButtonIsSound'
    BY DEF ShowView, IInv, WaitIsSound, ButtonIsSound, TypeOK
  <1>2. TypeOK'
    BY DEF ShowView, IInv, TypeOK, server, bounds
  <1>3. QED
    BY <1>1, <1>2 DEF ShowView, IInv, WaitIsSound, OnlyUsedLinksComplete,
                      HeardSignInSucceeds, OnlyHeardIsStored, server, bounds

LEMMA LeaveViewKeeps == ASSUME IInv, LeaveView PROVE IInv'
  <1>1. resend' \in Resend /\ ButtonIsSound'
    BY ButtonDestroyed DEF LeaveView, Destroyed
  <1>2. TypeOK'
    BY <1>1 DEF LeaveView, Destroyed, IInv, TypeOK, server, bounds
  <1>3. QED
    BY <1>1, <1>2 DEF LeaveView, Destroyed, IInv, WaitIsSound, OnlyUsedLinksComplete,
                      HeardSignInSucceeds, OnlyHeardIsStored, server, bounds

LEMMA ClosePageKeeps == ASSUME IInv, ClosePage PROVE IInv'
  <1>1. resend' \in Resend /\ ButtonIsSound' /\ view' = "destroyed"
    BY ButtonDestroyed DEF ClosePage, Destroyed
  <1>2. finish' \in {"none", "fetching", "stored", "lost"}
        /\ (finish = "none" <=> finish' = "none") /\ (finish' = "stored" => finish = "stored")
    BY DEF ClosePage, IInv, TypeOK
  <1>3. hears' = FALSE /\ check' = "none"
        /\ UNCHANGED <<server, polling, forLogin, outcome, signedIn, tab, stored, inbox, bounds>>
    BY DEF ClosePage, Destroyed
  <1>4. TypeOK'
    BY <1>1, <1>2, <1>3 DEF IInv, TypeOK, server, bounds
  <1>5. QED
    BY <1>1, <1>2, <1>3, <1>4 DEF IInv, WaitIsSound, OnlyUsedLinksComplete,
                                  HeardSignInSucceeds, OnlyHeardIsStored, server, bounds

LEMMA RequestsKeep ==
    ASSUME IInv, ServeCheck \/ CheckFails \/ CheckIncomplete \/ TimerFires
    PROVE  IInv'
  <1>1. ButtonIsSound'
    BY ButtonKept DEF ServeCheck, CheckFails, CheckIncomplete, TimerFires
  <1>2. UNCHANGED <<server, view, polling, forLogin, hears, outcome, signedIn, finish, tab, stored,
                    inbox, resend>>
    BY DEF ServeCheck, CheckFails, CheckIncomplete, TimerFires
  <1>3. failures' \in 0..MaxFailures /\ UNCHANGED <<elsewhere, signIns>>
    BY FailingTyped DEF ServeCheck, CheckFails, CheckIncomplete, TimerFires, bounds, IInv, TypeOK
  <1>4. check' \in {"none", "asked", "complete", "incomplete", "failed", "timer"}
        /\ (check' = "complete" => token[Mine] # "valid")
    BY DEF ServeCheck, CheckFails, CheckIncomplete, TimerFires, OtherError
  <1>5. TypeOK'
    BY <1>2, <1>3, <1>4 DEF IInv, TypeOK, server
  <1>6. view # "new"
    BY DEF ServeCheck, CheckFails, CheckIncomplete, TimerFires, IInv, WaitIsSound
  <1>7. QED
    BY <1>1, <1>2, <1>4, <1>5, <1>6 DEF IInv, WaitIsSound, OnlyUsedLinksComplete,
                                        HeardSignInSucceeds, OnlyHeardIsStored, server

LEMMA CheckCompleteKeeps == ASSUME IInv, CheckComplete PROVE IInv'
  <1>1. CASE Cares
    <2>1. resend' \in Resend /\ ButtonIsSound'
      BY <1>1, ButtonDestroyed DEF CheckComplete
    <2>2. TypeOK'
      BY <1>1, <2>1 DEF CheckComplete, StopsWaiting, IInv, TypeOK, server, bounds
    <2>3. QED
      BY <1>1, <2>1, <2>2 DEF CheckComplete, StopsWaiting, IInv, WaitIsSound,
                              OnlyUsedLinksComplete, HeardSignInSucceeds, OnlyHeardIsStored, server, bounds
  <1>2. CASE ~Cares
    <2>1. resend' \in Resend /\ ButtonIsSound'
      BY <1>2, ButtonKept DEF CheckComplete
    <2>2. TypeOK'
      BY <1>2, <2>1 DEF CheckComplete, IInv, TypeOK, server, bounds
    <2>3. QED
      BY <1>2, <2>1, <2>2 DEF CheckComplete, IInv, WaitIsSound,
                              OnlyUsedLinksComplete, HeardSignInSucceeds, OnlyHeardIsStored, server, bounds
  <1>3. QED
    BY <1>1, <1>2

LEMMA CheckFailedKeeps == ASSUME IInv, CheckFailed PROVE IInv'
  <1>1. ButtonIsSound'
    BY ButtonKept DEF CheckFailed
  <1>2. TypeOK'
    BY DEF CheckFailed, StopsWaiting, IInv, TypeOK, server, bounds
  <1>3. QED
    BY <1>1, <1>2 DEF CheckFailed, StopsWaiting, IInv, WaitIsSound, OnlyUsedLinksComplete,
                      HeardSignInSucceeds, OnlyHeardIsStored, server, bounds

\* The message a view hears is one that was sent.
LEMMA HeadTyped ==
    ASSUME IInv, inbox # <<>>
    PROVE  /\ Head(inbox) \in Message /\ Tail(inbox) \in Seq(Message)
           /\ Head(inbox).kind = "signed in" => Head(inbox).account \in Accounts
  <1>1. inbox \in Seq(Message)
    BY DEF IInv, TypeOK
  <1>2. Head(inbox) \in Message /\ Tail(inbox) \in Seq(Message)
    BY <1>1
  <1>3. QED
    BY <1>2 DEF Message

\* A view that finishes is destroyed, or nothing of it changes.
LEMMA FinishesKeeps ==
    ASSUME IInv, Finishes
    PROVE  resend' \in Resend /\ ButtonIsSound' /\ view' \in {"destroyed", view}
  BY ButtonKept, ButtonDestroyed DEF Finishes

LEMMA HearSignedInKeeps ==
    ASSUME IInv, NEW m \in Message, m.kind = "signed in" => m.account \in Accounts,
           HearSignedIn(m), inbox' \in Seq(Message), UNCHANGED <<server, tab, bounds>>
    PROVE  IInv'
  <1>1. /\ m.account \in Accounts /\ hears
        /\ polling' = FALSE /\ forLogin' = FALSE /\ hears' = FALSE
        /\ outcome' = "same browser" /\ signedIn' = m.account
        /\ \/ finish' = "fetching" /\ UNCHANGED <<view, resend>>
           \/ m.account \in stored /\ finish' = "stored" /\ Finishes
        /\ UNCHANGED <<check, stored>>
    BY DEF HearSignedIn, Found
  <1>2. resend' \in Resend /\ ButtonIsSound' /\ view' \in {"destroyed", view}
    <2>1. CASE UNCHANGED <<view, resend>>
      BY <2>1, ButtonKept
    <2>2. CASE Finishes
      BY <2>2, FinishesKeeps
    <2>3. QED
      BY <1>1, <2>1, <2>2
  <1>3. TypeOK'
    BY <1>1, <1>2 DEF IInv, TypeOK, server, bounds
  <1>4. view' # "new"
    BY <1>1, <1>2 DEF IInv, WaitIsSound
  <1>5. QED
    BY <1>1, <1>2, <1>3, <1>4 DEF IInv, WaitIsSound, OnlyUsedLinksComplete,
                                  HeardSignInSucceeds, OnlyHeardIsStored, server

LEMMA HearMessageKeeps == ASSUME IInv, HearMessage PROVE IInv'
  <1> DEFINE m == Head(inbox)
  <1>1. /\ m \in Message /\ inbox' \in Seq(Message)
        /\ m.kind = "signed in" => m.account \in Accounts
    BY HeadTyped DEF HearMessage
  <1>2. UNCHANGED <<server, tab, bounds>>
        /\ (HearTabOpen(m) \/ HearSignedIn(m) \/ IgnoreMessage(m))
    BY DEF HearMessage
  <1> HIDE DEF m
  <1>3. CASE HearTabOpen(m)
    <2>1. /\ hears /\ forLogin' = TRUE /\ polling' = FALSE
          /\ check' = IF check = "timer" THEN "none" ELSE check
          /\ UNCHANGED <<view, hears, outcome, signedIn, finish, stored, resend>>
      BY <1>3 DEF HearTabOpen
    <2>2. ButtonIsSound'
      BY <2>1, ButtonKept
    <2>3. TypeOK'
      BY <1>1, <1>2, <2>1 DEF IInv, TypeOK, server, bounds
    <2>4. QED
      BY <1>2, <2>1, <2>2, <2>3 DEF IInv, WaitIsSound, OnlyUsedLinksComplete,
                              HeardSignInSucceeds, OnlyHeardIsStored, server
  <1>4. CASE HearSignedIn(m)
    BY <1>1, <1>2, <1>4, HearSignedInKeeps
  <1>5. CASE IgnoreMessage(m)
    <2>1. TypeOK'
      BY <1>1, <1>2, <1>5 DEF IgnoreMessage, IInv, TypeOK, wait, server, bounds
    <2>2. QED
      BY <1>2, <1>5, <2>1, OthersKeep DEF IgnoreMessage, IInv, server
  <1>6. QED
    BY <1>2, <1>3, <1>4, <1>5

LEMMA SignInFetchedKeeps == ASSUME IInv, SignInFetched PROVE IInv'
  <1>1. outcome = "same browser" /\ signedIn \in Accounts
    BY DEF SignInFetched, IInv, OnlyHeardIsStored, HeardSignInSucceeds
  <1>2. /\ finish' = "stored" /\ stored' = stored \cup {signedIn}
        /\ UNCHANGED <<server, check, polling, forLogin, hears, outcome, signedIn, tab, inbox,
                       bounds>>
    BY DEF SignInFetched, Persists
  <1>3. resend' \in Resend /\ ButtonIsSound' /\ view' \in {"destroyed", view}
    BY FinishesKeeps DEF SignInFetched
  <1>4. TypeOK'
    BY <1>1, <1>2, <1>3 DEF IInv, TypeOK, server, bounds
  <1>5. view' # "new"
    BY <1>1, <1>3 DEF IInv, WaitIsSound
  <1>6. QED
    BY <1>1, <1>2, <1>3, <1>4, <1>5 DEF IInv, WaitIsSound, OnlyUsedLinksComplete,
                                  HeardSignInSucceeds, OnlyHeardIsStored, server

-----------------------------------------------------------------------------
(* The resend button.                                                      *)

LEMMA ClickResendKeeps == ASSUME IInv, ClickResend PROVE IInv'
  <1> DEFINE n == resend.tries + 1
  <1>1. /\ resend.tries \in 0..MaxTries /\ resend.asked \in 0..MaxTries
        /\ resend.timer \in BOOLEAN
        /\ resend.asked <= resend.tries /\ resend.tries < MaxTries
    BY DEF ClickResend, IInv, TypeOK, Resend, ButtonIsSound
  <1>2. n <= MaxTries /\ n \in 0..MaxTries
    BY <1>1
  <1>3. /\ resend' \in Resend
        /\ resend'.tries = n /\ resend'.asked = resend.asked + 1
        /\ resend'.hidden = (n >= MaxTries)
        /\ resend'.timer = (resend.timer \/ n >= MaxTries)
    <2>1. (n >= MaxTries) \in BOOLEAN /\ (resend.timer \/ n >= MaxTries) \in BOOLEAN
      OBVIOUS
    <2>2. resend \in Resend
      BY DEF IInv, TypeOK
    <2>3. resend.asked + 1 \in 0..MaxTries
      BY <1>1
    <2> DEFINE h == n >= MaxTries
               k == resend.timer \/ n >= MaxTries
    <2>4. h \in BOOLEAN /\ k \in BOOLEAN
      BY <2>1
    <2>5. resend' = [resend EXCEPT !.tries = n, !.hidden = h, !.timer = k,
                                   !.asked = resend.asked + 1]
      BY <1>2 DEF ClickResend, ReachesMax
    <2> HIDE DEF h, k
    <2>6. /\ resend' \in Resend
          /\ resend'.tries = n /\ resend'.asked = resend.asked + 1
          /\ resend'.hidden = h /\ resend'.timer = k
      BY <1>2, <2>2, <2>3, <2>4, <2>5 DEF Resend
    <2>7. QED
      BY <2>6 DEF h, k
  <1>4. ButtonIsSound'
    <2>1. resend'.asked <= resend'.tries
      BY <1>1, <1>3
    <2>2. ~resend'.hidden => resend'.tries < MaxTries
      <3>1. n \in Nat /\ (~(n >= MaxTries) => n < MaxTries)
        BY <1>2
      <3>2. QED
        BY <1>3, <3>1, Zenon
    <2>3. resend'.hidden => resend'.timer
      BY <1>3, Zenon
    <2>4. QED
      BY <2>1, <2>2, <2>3 DEF ButtonIsSound
  <1>5. TypeOK'
    BY <1>3 DEF ClickResend, IInv, TypeOK, wait, server, bounds
  <1>6. view = "shown" /\ UNCHANGED <<view, wait, token, stored>>
    BY DEF ClickResend, server
  <1>7. QED
    BY <1>4, <1>5, <1>6 DEF IInv, WaitIsSound, OnlyUsedLinksComplete,
                            HeardSignInSucceeds, OnlyHeardIsStored, wait

LEMMA ResendTimerKeeps == ASSUME IInv, ResendTimer PROVE IInv'
  <1>1. resend' = [tries |-> 0, hidden |-> FALSE, timer |-> FALSE, asked |-> 0]
    BY DEF ResendTimer, IInv, TypeOK, Resend
  <1>2. resend' \in Resend /\ ButtonIsSound'
    BY <1>1 DEF Resend, ButtonIsSound
  <1>3. TypeOK'
    BY <1>2 DEF ResendTimer, IInv, TypeOK, wait, server, bounds
  <1>4. QED
    BY <1>1, <1>2, <1>3 DEF ResendTimer, IInv, WaitIsSound, OnlyUsedLinksComplete,
                            HeardSignInSucceeds, OnlyHeardIsStored, wait, server

\* One e-mail less is waited for.
LEMMA ButtonAnswered ==
    ASSUME IInv, resend.asked > 0, NEW k \in {resend.timer, FALSE},
           resend' = [resend EXCEPT !.asked = @ - 1, !.timer = k],
           (k = resend.timer /\ view' = view) \/ view' # "shown"
    PROVE  resend' \in Resend /\ ButtonIsSound' /\ resend'.hidden = resend.hidden
  <1>1. /\ resend.tries \in 0..MaxTries /\ resend.asked \in 0..MaxTries
        /\ resend.timer \in BOOLEAN /\ k \in BOOLEAN
    BY DEF IInv, TypeOK, Resend
  <1>2. resend.asked - 1 \in 0..MaxTries
    BY <1>1
  <1>3. /\ resend' \in Resend
        /\ resend'.tries = resend.tries /\ resend'.asked = resend.asked - 1
        /\ resend'.hidden = resend.hidden /\ resend'.timer = k
    BY <1>1, <1>2 DEF IInv, TypeOK, Resend
  <1>4. resend'.asked <= resend'.tries
    BY <1>1, <1>3 DEF IInv, ButtonIsSound
  <1>5. ~resend'.hidden => resend'.tries < MaxTries
    BY <1>3 DEF IInv, ButtonIsSound
  <1>6. resend'.hidden /\ view' = "shown" => resend'.timer
    BY <1>3 DEF IInv, ButtonIsSound
  <1>7. QED
    BY <1>3, <1>4, <1>5, <1>6 DEF ButtonIsSound

LEMMA ResendAnsweredKeeps == ASSUME IInv, ResendAnswered PROVE IInv'
  <1>0. resend.timer \in BOOLEAN /\ resend = [tries |-> resend.tries, hidden |-> resend.hidden,
                   timer |-> resend.timer, asked |-> resend.asked]
    BY DEF IInv, TypeOK, Resend
  <1>1. resend' \in Resend /\ ButtonIsSound' /\ resend'.hidden = resend.hidden
    <2>1. CASE token[Mine] = "valid"
      <3>1. resend' = [resend EXCEPT !.asked = @ - 1, !.timer = resend.timer]
        BY <1>0, <2>1 DEF ResendAnswered
      <3>2. QED
        BY <1>0, <2>1, <3>1, ButtonAnswered DEF ResendAnswered
    <2>2. CASE token[Mine] # "valid"
      BY <2>2, ButtonAnswered DEF ResendAnswered
    <2>3. QED
      BY <2>1, <2>2
  <1>2. TypeOK'
    BY <1>1 DEF ResendAnswered, IInv, TypeOK, server, bounds
  <1>3. QED
    BY <1>1, <1>2 DEF ResendAnswered, IInv, WaitIsSound, OnlyUsedLinksComplete,
                      HeardSignInSucceeds, OnlyHeardIsStored, server

LEMMA ResendFailsKeeps == ASSUME IInv, ResendFails PROVE IInv'
  <1>0. resend = [tries |-> resend.tries, hidden |-> resend.hidden,
                   timer |-> resend.timer, asked |-> resend.asked]
    BY DEF IInv, TypeOK, Resend
  <1>1. resend' = [resend EXCEPT !.asked = @ - 1, !.timer = resend.timer]
    BY <1>0 DEF ResendFails
  <1>2. resend' \in Resend /\ ButtonIsSound' /\ resend'.hidden = resend.hidden
    BY <1>1, ButtonAnswered DEF ResendFails
  <1>3. TypeOK'
    <2>1. failures' \in 0..MaxFailures /\ UNCHANGED <<elsewhere, signIns>>
      BY FailingTyped DEF ResendFails
    <2>2. QED
      BY <1>2, <2>1 DEF ResendFails, IInv, TypeOK, wait, server
  <1>4. QED
    BY <1>2, <1>3 DEF ResendFails, IInv, WaitIsSound, OnlyUsedLinksComplete,
                      HeardSignInSucceeds, OnlyHeardIsStored, wait, server

-----------------------------------------------------------------------------
(* The tabs opened from links, and elsewhere.                              *)

LEMMA TabStepsKeep ==
    ASSUME IInv, NEW t \in Tabs,
           \/ OpenTab(t) \/ TabShown(t) \/ CloseTab(t) \/ Submit(t) \/ AskReset(t)
           \/ ServeReset(t) \/ SubmitFails(t)
    PROVE  IInv'
  <1>1. \E s \in Stages : tab' = [tab EXCEPT ![t].stage = s]
    BY DEF OpenTab, TabShown, CloseTab, Submit, AskReset, ServeReset, SubmitFails,
           Goes, Stages
  <1>2. tab' \in [Tabs -> [of : Accounts, stage : Stages]] /\ tab[t].of \in Accounts
    BY <1>1, TabsTyped DEF IInv, TypeOK
  <1>3. inbox' \in Seq(Message)
    <2>1. [kind |-> "tab open"] \in Message
      BY DEF Message
    <2>2. Broadcast([kind |-> "tab open"]) \/ UNCHANGED inbox
      BY DEF OpenTab, TabShown, CloseTab, Submit, AskReset, ServeReset, SubmitFails
    <2>3. QED
      BY <2>1, <2>2, BroadcastTyped DEF IInv, TypeOK
  <1>4. password' \in [Accounts -> {"old", "here", "elsewhere"}]
    BY <1>2 DEF OpenTab, TabShown, CloseTab, Submit, AskReset, ServeReset, SubmitFails,
                server, IInv, TypeOK
  <1>5. failures' \in 0..MaxFailures /\ UNCHANGED <<elsewhere, signIns>>
    BY FailingTyped DEF OpenTab, TabShown, CloseTab, Submit, AskReset, ServeReset,
                        SubmitFails, bounds, IInv, TypeOK
  <1>6. UNCHANGED <<token, view, wait, stored, resend>>
    BY DEF OpenTab, TabShown, CloseTab, Submit, AskReset, ServeReset, SubmitFails, server
  <1>7. TypeOK'
    BY <1>2, <1>3, <1>4, <1>5, <1>6 DEF IInv, TypeOK, wait
  <1>8. QED
    BY <1>6, <1>7, OthersKeep DEF IInv

LEMMA ServeVerifyKeeps ==
    ASSUME IInv, NEW t \in Tabs, ServeVerify(t)
    PROVE  IInv'
  <1>1. tab' \in [Tabs -> [of : Accounts, stage : Stages]] /\ tab[t].of \in Accounts
    BY TabsTyped DEF ServeVerify, Goes, Stages, IInv, TypeOK
  <1>2. token' \in [Accounts -> {"valid", "verified", "expired"}]
        /\ (token[Mine] # "valid" => token'[Mine] # "valid")
    BY <1>1, LinkStaysUsed DEF ServeVerify
  <1>3. TypeOK'
    BY <1>1, <1>2 DEF ServeVerify, IInv, TypeOK, wait, bounds
  <1>4. QED
    BY <1>2, <1>3, OthersKeep DEF ServeVerify, IInv

LEMMA SignedInTabKeeps ==
    ASSUME IInv, NEW t \in Tabs, TellSignedIn(t) \/ StoreAccount(t)
    PROVE  IInv'
  <1>1. tab' \in [Tabs -> [of : Accounts, stage : Stages]] /\ tab[t].of \in Accounts
    BY TabsTyped DEF TellSignedIn, StoreAccount, Goes, Stages, IInv, TypeOK
  <1>2. inbox' \in Seq(Message)
    <2>1. [kind |-> "signed in", account |-> tab[t].of] \in Message
      BY <1>1 DEF Message
    <2>2. QED
      BY <2>1, BroadcastTyped DEF TellSignedIn, StoreAccount, IInv, TypeOK
  <1>3. stored' \in SUBSET Accounts /\ stored \subseteq stored'
    BY <1>1 DEF TellSignedIn, StoreAccount, IInv, TypeOK
  <1>4. UNCHANGED <<server, view, wait, resend, bounds>>
    BY DEF TellSignedIn, StoreAccount
  <1>5. TypeOK'
    BY <1>1, <1>2, <1>3, <1>4 DEF IInv, TypeOK, wait, server, bounds
  <1>6. QED
    BY <1>3, <1>4, <1>5, OthersKeep DEF IInv, server

LEMMA ElsewhereKeeps ==
    ASSUME IInv, NEW a \in Accounts, VerifyElsewhere(a) \/ Expire(a)
    PROVE  IInv'
  <1>1. token' \in [Accounts -> {"valid", "verified", "expired"}]
        /\ (token[Mine] # "valid" => token'[Mine] # "valid")
    BY LinkStaysUsed DEF VerifyElsewhere, Expire
  <1>2. password' \in [Accounts -> {"old", "here", "elsewhere"}]
    BY DEF VerifyElsewhere, Expire, IInv, TypeOK
  <1>3. UNCHANGED <<view, wait, tab, stored, inbox, resend, bounds>>
    BY DEF VerifyElsewhere, Expire
  <1>4. TypeOK'
    BY <1>1, <1>2, <1>3 DEF IInv, TypeOK, wait, bounds
  <1>5. QED
    BY <1>1, <1>3, <1>4, OthersKeep DEF IInv

LEMMA SignInElsewhereKeeps ==
    ASSUME IInv, NEW a \in Accounts, SignInElsewhere(a)
    PROVE  IInv'
  <1>1. [kind |-> "signed in", account |-> a] \in Message
    BY DEF Message
  <1>2. inbox' \in Seq(Message)
    BY <1>1, BroadcastTyped DEF SignInElsewhere
  <1>3. signIns' \in 0..MaxSignIns
    <2>1. signIns \in 0..MaxSignIns
      BY DEF IInv, TypeOK
    <2>2. signIns < MaxSignIns /\ signIns' = signIns + 1
      BY DEF SignInElsewhere
    <2>3. QED
      BY <2>1, <2>2
  <1>4. /\ stored' \in SUBSET Accounts /\ elsewhere' \in SUBSET Accounts
        /\ stored \subseteq stored'
        /\ UNCHANGED <<server, view, wait, tab, resend, failures>>
    BY DEF SignInElsewhere, IInv, TypeOK
  <1>5. TypeOK'
    BY <1>2, <1>3, <1>4 DEF IInv, TypeOK, wait, server
  <1>6. QED
    BY <1>4, <1>5, OthersKeep DEF IInv, server

LEMMA StoreElsewhereKeeps ==
    ASSUME IInv, NEW a \in Accounts, StoreElsewhere(a)
    PROVE  IInv'
  <1>1. TypeOK'
    BY DEF StoreElsewhere, IInv, TypeOK, wait, server
  <1>2. QED
    BY <1>1, OthersKeep DEF StoreElsewhere, IInv, server

LEMMA NextKeeps == ASSUME IInv, [Next]_vars PROVE IInv'
  <1>1. CASE Next
    BY <1>1, ShowViewKeeps, LeaveViewKeeps, ClosePageKeeps, RequestsKeep, CheckCompleteKeeps,
       CheckFailedKeeps, HearMessageKeeps, SignInFetchedKeeps, ClickResendKeeps, ResendTimerKeeps,
       ResendAnsweredKeeps, ResendFailsKeeps, TabStepsKeep, ServeVerifyKeeps,
       SignedInTabKeeps, ElsewhereKeeps, SignInElsewhereKeeps, StoreElsewhereKeeps
       DEF Next, Answered, TabSteps
  <1>2. CASE UNCHANGED vars
    <2>1. TypeOK'
      BY <1>2 DEF IInv, TypeOK, vars, wait, server, bounds
    <2>2. QED
      BY <1>2, <2>1, OthersKeep DEF IInv, vars, server
  <1>3. QED
    BY <1>1, <1>2

THEOREM Invariance == Spec => []IInv
  BY InitKeeps, NextKeeps, PTL DEF Spec

-----------------------------------------------------------------------------
(* The theorems.                                                           *)

\* Every reachable state of a password reset is well typed: no count passes
\* the limit on e-mails.
THEOREM ResetTypeCorrect == Spec => []TypeOK
  <1>1. IInv => TypeOK
    BY DEF IInv
  <1>2. QED
    BY <1>1, Invariance, PTL

\* "different browser" is the outcome of _waitForConfirmation only if the
\* link was used or expired.
THEOREM OnlyUsedLinks == Spec => []OnlyUsedLinksComplete
  <1>1. IInv => OnlyUsedLinksComplete
    BY DEF IInv
  <1>2. QED
    BY <1>1, Invariance, PTL

\* The sign-in of another tab ends the wait with its account, which is stored
\* or whose request is in flight, unless the page is gone.
THEOREM HeardSignIns == Spec => []HeardSignInSucceeds
  <1>1. IInv => HeardSignInSucceeds
    BY DEF IInv
  <1>2. QED
    BY <1>1, Invariance, PTL

\* The resend button is hidden at the limit, with the timer that shows it.
THEOREM LimitHides == Spec => []LimitHidesButton
  <1>1. IInv => LimitHidesButton
    <2>1. resend.tries \in 0..MaxTries <=> resend.tries \in Nat /\ resend.tries <= MaxTries
      OBVIOUS
    <2>2. ButtonIsSound /\ resend.tries = MaxTries => resend.hidden
      BY DEF ButtonIsSound
    <2>3. QED
      BY <2>2 DEF IInv, ButtonIsSound, LimitHidesButton
  <1>2. QED
    BY <1>1, Invariance, PTL

\* No answer of the server ends the wait once a link was opened here.
LEMMA StepKeepsWaiting ==
    ASSUME IInv, [Next]_vars, forLogin, outcome = "none"
    PROVE  outcome' # "different browser"
  <1>1. ~polling
    BY DEF IInv, WaitIsSound
  <1>2. CASE CheckComplete \/ CheckFailed \/ CheckIncomplete
    BY <1>1, <1>2 DEF CheckComplete, CheckFailed, CheckIncomplete, Cares
  <1>3. CASE HearMessage
    BY <1>3 DEF HearMessage, HearTabOpen, HearSignedIn, IgnoreMessage, wait
  <1>4. CASE ShowView \/ LeaveView \/ ClosePage \/ ServeCheck \/ CheckFails \/ TimerFires
             \/ SignInFetched \/ ClickResend \/ ResendTimer \/ ResendAnswered \/ ResendFails
    BY <1>4 DEF ShowView, LeaveView, ClosePage, ServeCheck, CheckFails, TimerFires,
                SignInFetched, ClickResend, ResendTimer, ResendAnswered, ResendFails, wait
  <1>5. ASSUME NEW t \in Tabs,
               OpenTab(t) \/ CloseTab(t) \/ Submit(t) \/ TabSteps(t) \/ SubmitFails(t)
        PROVE  UNCHANGED outcome
    BY <1>5 DEF OpenTab, CloseTab, Submit, TabSteps, SubmitFails, TabShown, ServeVerify,
                AskReset, ServeReset, TellSignedIn, StoreAccount, wait
  <1>6. ASSUME NEW a \in Accounts, VerifyElsewhere(a) \/ Expire(a)
                                \/ SignInElsewhere(a) \/ StoreElsewhere(a)
        PROVE  UNCHANGED outcome
    BY <1>6 DEF VerifyElsewhere, Expire, SignInElsewhere, StoreElsewhere, wait
  <1>7. CASE UNCHANGED vars
    BY <1>7 DEF vars, wait
  <1>8. QED
    BY <1>2, <1>3, <1>4, <1>5, <1>6, <1>7 DEF Next, Answered

THEOREM OpenedTabs == Spec => OpenedTabStopsPoll
  <1>1. ASSUME IInv, [Next]_vars
        PROVE  [forLogin /\ outcome = "none" => outcome' # "different browser"]_vars
    BY <1>1, StepKeepsWaiting
  <1>2. QED
    BY <1>1, Invariance, PTL DEF Spec, OpenedTabStopsPoll

-----------------------------------------------------------------------------
(* The wait implements ResetWait: every step is one of its, or a stutter.   *)

\* The link is used or expires, and a tab stores an account: these do not
\* touch the wait, whatever its state.
LEMMA TokenRefines ==
    ASSUME IInv, UNCHANGED <<stored, outcome, signedIn, finish>>,
           token[Mine] # "valid" => token'[Mine] # "valid"
    PROVE  [RW!Next]_RW!vars
  <1>1. CASE token[Mine] = "valid" /\ token'[Mine] # "valid"
    BY <1>1 DEF RW!vars, RW!Next, RW!Use
  <1>2. CASE (token[Mine] # "valid") = (token'[Mine] # "valid")
    BY <1>2 DEF RW!vars
  <1>3. QED
    BY <1>1, <1>2

LEMMA StoreRefines ==
    ASSUME NEW a \in Accounts, UNCHANGED <<token, outcome, signedIn, finish>>,
           stored' = stored \cup {a}
    PROVE  [RW!Next]_RW!vars
  BY DEF RW!vars, RW!Next, RW!Store

\* The two handlers that end the wait: a check that is complete counts only
\* while the view polls, and a sign-in only while it listens.
LEMMA CheckRefines ==
    ASSUME IInv, CheckComplete \/ CheckFailed
    PROVE  [RW!Next]_RW!vars
  <1>1. CASE CheckComplete
    <2>1. token[Mine] # "valid" /\ UNCHANGED <<token, stored, signedIn, finish>>
      BY <1>1 DEF CheckComplete, IInv, WaitIsSound, server
    <2>2. CASE Cares
      <3>1. outcome = "none" /\ outcome' = "different browser"
        BY <1>1, <2>2 DEF CheckComplete, Cares, IInv, WaitIsSound
      <3>2. QED
        BY <2>1, <3>1 DEF RW!vars, RW!Next, RW!Complete
    <2>3. CASE ~Cares
      BY <1>1, <2>1, <2>3 DEF CheckComplete, RW!vars
    <2>4. QED
      BY <2>2, <2>3
  <1>2. CASE CheckFailed
    BY <1>2 DEF CheckFailed, server, RW!vars, RW!Next, RW!Fail
  <1>3. QED
    BY <1>1, <1>2

LEMMA HearRefines ==
    ASSUME IInv, HearMessage
    PROVE  [RW!Next]_RW!vars
  <1> DEFINE m == Head(inbox)
  <1>1. m.kind = "signed in" => m.account \in Accounts
    BY HeadTyped DEF HearMessage
  <1>2. UNCHANGED token /\ (HearTabOpen(m) \/ HearSignedIn(m) \/ IgnoreMessage(m))
    BY DEF HearMessage, server
  <1> HIDE DEF m
  <1>3. CASE HearSignedIn(m)
    <2>1. outcome = "none" /\ m.account \in Accounts
      BY <1>1, <1>3 DEF HearSignedIn, IInv, WaitIsSound
    <2>2. RW!SignIn(m.account)
      BY <1>2, <1>3, <2>1 DEF HearSignedIn, Found, RW!SignIn
    <2>3. QED
      BY <2>1, <2>2 DEF RW!Next
  <1>4. CASE HearTabOpen(m) \/ IgnoreMessage(m)
    BY <1>2, <1>4 DEF HearTabOpen, IgnoreMessage, wait, RW!vars
  <1>5. QED
    BY <1>2, <1>3, <1>4

\* The account of the wait is stored, or its page is gone before.
LEMMA FinishRefines ==
    ASSUME IInv, SignInFetched \/ ClosePage
    PROVE  [RW!Next]_RW!vars
  <1>1. CASE SignInFetched
    BY <1>1 DEF SignInFetched, Persists, server, RW!Next, RW!Persist
  <1>2. CASE ClosePage
    BY <1>2 DEF ClosePage, server, RW!vars, RW!Next, RW!Lose
  <1>3. QED
    BY <1>1, <1>2

LEMMA InitRefines == Init => RW!Init
  BY DEF Init, RW!Init

LEMMA StepRefines ==
    ASSUME IInv, [Next]_vars
    PROVE  [RW!Next]_RW!vars
  <1>1. CASE ShowView \/ LeaveView \/ ServeCheck \/ CheckFails \/ CheckIncomplete
             \/ TimerFires \/ ClickResend \/ ResendTimer \/ ResendAnswered \/ ResendFails
    BY <1>1 DEF ShowView, LeaveView, ServeCheck, CheckFails, CheckIncomplete, TimerFires,
                ClickResend, ResendTimer, ResendAnswered, ResendFails, wait, server, RW!vars
  <1>2. CASE CheckComplete \/ CheckFailed
    BY <1>2, CheckRefines
  <1>3. CASE HearMessage \/ SignInFetched \/ ClosePage
    BY <1>3, HearRefines, FinishRefines
  <1>4. ASSUME NEW t \in Tabs,
               OpenTab(t) \/ CloseTab(t) \/ Submit(t) \/ TabSteps(t) \/ SubmitFails(t)
        PROVE  [RW!Next]_RW!vars
    <2>1. tab[t].of \in Accounts
      BY DEF IInv, TypeOK
    <2>2. CASE StoreAccount(t)
      BY <2>1, <2>2, StoreRefines DEF StoreAccount, wait, server
    <2>3. CASE ServeVerify(t)
      BY <2>1, <2>3, TokenRefines, LinkStaysUsed DEF ServeVerify, wait
    <2>4. CASE \/ OpenTab(t) \/ CloseTab(t) \/ Submit(t) \/ SubmitFails(t) \/ TabShown(t)
               \/ AskReset(t) \/ ServeReset(t) \/ TellSignedIn(t)
      BY <2>4 DEF OpenTab, CloseTab, Submit, SubmitFails, TabShown, AskReset, ServeReset,
                  TellSignedIn, wait, server, RW!vars
    <2>5. QED
      BY <1>4, <2>2, <2>3, <2>4 DEF TabSteps
  <1>5. ASSUME NEW a \in Accounts, VerifyElsewhere(a) \/ Expire(a)
                                \/ SignInElsewhere(a) \/ StoreElsewhere(a)
        PROVE  [RW!Next]_RW!vars
    <2>1. CASE SignInElsewhere(a) \/ StoreElsewhere(a)
      <3>1. stored' = stored \cup {a} \/ UNCHANGED stored
        BY <2>1 DEF SignInElsewhere, StoreElsewhere
      <3>2. UNCHANGED <<token, outcome, signedIn, finish>>
        BY <2>1 DEF SignInElsewhere, StoreElsewhere, wait, server
      <3>3. QED
        BY <3>1, <3>2, StoreRefines DEF RW!vars
    <2>2. CASE VerifyElsewhere(a) \/ Expire(a)
      BY <2>2, TokenRefines, LinkStaysUsed DEF VerifyElsewhere, Expire, wait
    <2>3. QED
      BY <1>5, <2>1, <2>2
  <1>6. CASE UNCHANGED vars
    BY <1>6 DEF vars, wait, server, RW!vars
  <1>7. QED
    BY <1>1, <1>2, <1>3, <1>4, <1>5, <1>6 DEF Next, Answered

\* confirm_reset_password keeps what _waitForConfirmation promises to the code
\* that continues after it: poll, messages and failures end the wait once.
THEOREM ResetImplementsResetWait == Spec => ImplementsResetWait
  BY InitRefines, StepRefines, Invariance, PTL DEF Spec, RW!Spec, ImplementsResetWait

-----------------------------------------------------------------------------
(* No wait is forgotten.                                                   *)

\* A displayed view whose wait has not ended hears the other tabs, and has a
\* check of the server on its way or a timer for the next, unless a tab of
\* this browser stopped the poll: no order of answers, timers and messages
\* leaves it waiting for nothing.
WaitGoesOn ==
    view = "shown" /\ outcome = "none" => hears /\ (forLogin \/ (polling /\ check # "none"))

LEMMA WaitStep == ASSUME IInv, WaitGoesOn, [Next]_vars PROVE WaitGoesOn'
  <1>1. CASE ShowView \/ LeaveView \/ ClosePage
    BY <1>1 DEF ShowView, LeaveView, ClosePage, Destroyed, WaitGoesOn
  <1>2. CASE ServeCheck \/ CheckFails \/ TimerFires \/ Answered
    <2>1. polling \in BOOLEAN /\ forLogin \in BOOLEAN /\ hears \in BOOLEAN
      BY DEF IInv, TypeOK
    <2>2. CASE ServeCheck \/ CheckFails \/ TimerFires \/ CheckIncomplete
      BY <2>1, <2>2 DEF ServeCheck, CheckFails, OtherError, TimerFires, CheckIncomplete, Cares,
                        WaitGoesOn
    <2>3. CASE CheckComplete
      BY <2>1, <2>3 DEF CheckComplete, Cares, WaitGoesOn
    <2>4. CASE CheckFailed
      BY <2>4 DEF CheckFailed, WaitGoesOn
    <2>5. QED
      BY <1>2, <2>2, <2>3, <2>4 DEF Answered
  <1>3. CASE HearMessage
    <2> DEFINE m == Head(inbox)
    <2>1. HearTabOpen(m) \/ HearSignedIn(m) \/ IgnoreMessage(m)
      BY <1>3 DEF HearMessage
    <2> HIDE DEF m
    <2>2. CASE HearTabOpen(m)
      BY <2>2 DEF HearTabOpen, WaitGoesOn
    <2>3. CASE HearSignedIn(m)
      BY <2>3 DEF HearSignedIn, Found, WaitGoesOn
    <2>4. CASE IgnoreMessage(m)
      BY <2>4 DEF IgnoreMessage, wait, WaitGoesOn
    <2>5. QED
      BY <2>1, <2>2, <2>3, <2>4
  <1>3a. CASE SignInFetched
    <2>1. outcome' = "same browser"
      BY <1>3a DEF SignInFetched, IInv, OnlyHeardIsStored
    <2>2. QED
      BY <2>1 DEF WaitGoesOn
  <1>4. CASE ResendAnswered
    BY <1>4 DEF ResendAnswered, WaitGoesOn
  <1>5. ASSUME UNCHANGED <<view, wait>>
        PROVE  WaitGoesOn'
    BY <1>5 DEF wait, WaitGoesOn
  <1>6. CASE ClickResend \/ ResendTimer \/ ResendFails
    BY <1>5, <1>6 DEF ClickResend, ResendTimer, ResendFails
  <1>7. ASSUME NEW t \in Tabs,
               OpenTab(t) \/ CloseTab(t) \/ Submit(t) \/ TabSteps(t) \/ SubmitFails(t)
        PROVE  WaitGoesOn'
    BY <1>5, <1>7 DEF OpenTab, CloseTab, Submit, SubmitFails, TabSteps, TabShown, ServeVerify,
                      AskReset, ServeReset, TellSignedIn, StoreAccount
  <1>8. ASSUME NEW a \in Accounts, VerifyElsewhere(a) \/ Expire(a)
                                \/ SignInElsewhere(a) \/ StoreElsewhere(a)
        PROVE  WaitGoesOn'
    BY <1>5, <1>8 DEF VerifyElsewhere, Expire, SignInElsewhere, StoreElsewhere
  <1>9. CASE UNCHANGED vars
    BY <1>5, <1>9 DEF vars
  <1>10. QED
    BY <1>1, <1>2, <1>3, <1>4, <1>6, <1>7, <1>8, <1>9, <1>3a DEF Next

\* Whatever the other tabs, the server and failures do, a view that is still
\* displayed is waiting for something that may yet come.
THEOREM WaitsGoOn == Spec => []WaitGoesOn
  <1>1. Init => WaitGoesOn
    BY DEF Init, WaitGoesOn
  <1>2. QED
    BY <1>1, WaitStep, Invariance, PTL DEF Spec
=============================================================================
