--------------------------- MODULE SyncLoginProofs ---------------------------
(***************************************************************************)
(* SyncLogin implements LoginNotice, for any addresses and any number of   *)
(* forms: the browser is told of a login only for an address it did not    *)
(* refuse, and not twice in a row of one account.  The telling is the last *)
(* step of a flow that asked the browser long before, in another form, so  *)
(* the invariant follows the permission: from the answer to the broker     *)
(* (LinkedIsAllowed), to the request in flight (AuthIsAllowed) and to the  *)
(* account a view was given (ShownIsAllowed).  And the page does not go on *)
(* without the browser knowing of the login.                               *)
(***************************************************************************)
EXTENDS SyncLogin, TLAPS

CallsAreMade == \A f \in Forms : f > form => calls[f].step = "unused"

CallsHaveEmails ==
    \A f \in Forms : calls[f].step \in {"link", "auth"} => calls[f].email \in Emails

AuthIsAllowed ==
    \A f \in Forms : calls[f].step = "auth" => calls[f].email \in allowed

LinkedIsAllowed == linked # None => linked \in allowed

WaitingHasAccount == view \in {"cwts", "confirm", "token"} => shown \in Account

ShownIsAllowed == shown \in Account /\ shown.keys => shown.email \in allowed

OwnersAreKnown == \A s \in Sessions : s <= issued => owner[s] \in Uids

ToldEmail == IF told = None THEN None ELSE told.email
ToldUid == IF told = None THEN None ELSE told.uid

IInv ==
    /\ TypeOK
    /\ CallsAreMade /\ CallsHaveEmails /\ AuthIsAllowed
    /\ LinkedIsAllowed
    /\ WaitingHasAccount /\ ShownIsAllowed
    /\ OwnersAreKnown
    /\ noticed = ToldUid

\* A step of the abstract broker, or none.
Refines == [LN!Next]_<<allowed, ToldEmail, ToldUid>>

Keeps == IInv' /\ Refines

CallsInv == CallsAreMade /\ CallsHaveEmails /\ AuthIsAllowed
ViewInv == WaitingHasAccount /\ ShownIsAllowed

USE SyncAssumption, NoneIsNothing

-----------------------------------------------------------------------------
(* What the actions have in common.                                        *)

\* The address of an account with keys was allowed: telling the browser of it
\* is a step of LoginNotice.
LEMMA NotifiesRefines ==
    ASSUME IInv, NEW a \in Account, a.keys => a.email \in allowed, Notifies(a),
           UNCHANGED allowed
    PROVE  /\ noticed' \in Uids \cup {None} /\ told' \in Login \cup {None}
           /\ noticed' = ToldUid' /\ Refines
  <1> DEFINE l == [email |-> a.email, uid |-> a.uid, session |-> a.session,
                   verified |-> a.verified, canLink |-> linked # None]
  <1>1. a.email \in Emails /\ a.uid \in Uids /\ l \in Login
    BY DEF Account, Login
  <1>2. CASE UNCHANGED <<noticed, told>>
    BY <1>2 DEF IInv, TypeOK, ToldUid, ToldEmail, Refines
  <1>3. CASE ~UNCHANGED <<noticed, told>>
    <2>1. a.keys /\ noticed # a.uid /\ noticed' = a.uid /\ told' = l
      BY <1>3 DEF Notifies, IsComplete, Knows
    <2>2. told' # None
      BY <1>1, <2>1
    <2>3. ToldUid' = a.uid /\ ToldEmail' = a.email
      BY <2>1, <2>2 DEF ToldUid, ToldEmail
    <2>4. a.email \in allowed /\ a.uid # ToldUid
      BY <2>1 DEF IInv
    <2>5. LN!Tell(a.email, a.uid)
      BY <2>3, <2>4 DEF LN!Tell, ToldEmail, ToldUid
    <2>6. Refines
      BY <1>1, <2>5 DEF Refines, LN!Next
    <2>7. QED
      BY <1>1, <2>1, <2>3, <2>6
  <1>4. QED
    BY <1>2, <1>3

\* A step that tells the browser nothing.
LEMMA QuietRefines ==
    ASSUME IInv, UNCHANGED <<noticed, told, allowed>>
    PROVE  /\ noticed' \in Uids \cup {None} /\ told' \in Login \cup {None}
           /\ noticed' = ToldUid' /\ Refines
  BY DEF IInv, TypeOK, ToldUid, ToldEmail, Refines

\* A submission of an existing form goes on.
LEMMA CallMoves ==
    ASSUME IInv, NEW f \in Forms, NEW c \in Call, calls' = [calls EXCEPT ![f] = c],
           UNCHANGED form, allowed \subseteq allowed', calls[f].step # "unused",
           c.step \in {"link", "auth"} => c.email \in Emails,
           c.step = "auth" => c.email \in allowed'
    PROVE  calls' \in [Forms -> Call] /\ CallsInv'
  <1>1. calls' \in [Forms -> Call]
    BY DEF IInv, TypeOK
  <1>2. calls'[f] = c /\ \A g \in Forms \ {f} : calls'[g] = calls[g]
    BY DEF IInv, TypeOK
  <1>3. f <= form
    BY DEF IInv, TypeOK, CallsAreMade, Forms
  <1>4. CallsAreMade'
    BY <1>2, <1>3 DEF IInv, CallsAreMade
  <1>5. CallsHaveEmails' /\ AuthIsAllowed'
    BY <1>2 DEF IInv, CallsHaveEmails, AuthIsAllowed
  <1>6. QED
    BY <1>1, <1>4, <1>5 DEF CallsInv

LEMMA CallsStay ==
    ASSUME IInv, UNCHANGED <<calls, form>>, allowed \subseteq allowed'
    PROVE  CallsInv'
  BY DEF IInv, CallsInv, CallsAreMade, CallsHaveEmails, AuthIsAllowed

\* beforeSignIn
LEMMA BeforeSignInMoves ==
    ASSUME IInv, NEW f \in Forms, NEW signUp \in BOOLEAN, NEW e \in Emails,
           calls[f].step # "unused", BeforeSignIn(f, signUp, e),
           UNCHANGED <<form, allowed>>
    PROVE  calls' \in [Forms -> Call] /\ CallsInv'
  <1> DEFINE w == IF linked = e THEN "auth" ELSE "link"
             c == [step |-> w, signUp |-> signUp, email |-> e]
  <1>1. c \in Call /\ c.step = w /\ c.email = e
    BY DEF Call
  <1>2. calls' = [calls EXCEPT ![f] = c]
    BY DEF BeforeSignIn
  <1>3. c.step = "auth" => c.email \in allowed'
    BY <1>1 DEF IInv, LinkedIsAllowed
  <1> HIDE DEF c, w
  <1>4. QED
    BY <1>1, <1>2, <1>3, CallMoves

\* Another form view opens.
LEMMA OpensMoves ==
    ASSUME IInv, form < MaxForms, form' = form + 1, calls' \in [Forms -> Call],
           \A g \in Forms :
               /\ g = form + 1 => calls'[g].step = "open"
               /\ g > form + 1 => calls'[g] = calls[g]
               /\ g <= form => calls'[g].step = "over"
                                \/ (calls'[g] = calls[g] /\ UNCHANGED allowed)
    PROVE  form' \in Forms /\ CallsInv'
  <1>1. form + 1 \in Forms /\ form \in Nat
    BY DEF IInv, TypeOK, Forms
  <1>2. \A g \in Forms : g > form => calls[g].step = "unused"
    BY DEF IInv, CallsAreMade
  <1>3. CallsAreMade'
    BY <1>1, <1>2 DEF CallsAreMade, Forms
  <1>4. \A g \in Forms : calls'[g].step \in {"link", "auth"}
                           => calls'[g] = calls[g] /\ UNCHANGED allowed
    BY <1>1, <1>2 DEF Forms
  <1>5. CallsHaveEmails' /\ AuthIsAllowed'
    BY <1>4 DEF IInv, CallsHaveEmails, AuthIsAllowed
  <1>6. QED
    BY <1>1, <1>3, <1>5 DEF CallsInv

-----------------------------------------------------------------------------
(* The actions.                                                            *)

LEMMA InitKeeps == Init => IInv /\ LN!Init
  <1> SUFFICES ASSUME Init PROVE IInv /\ LN!Init
    OBVIOUS
  <1> DEFINE o == [Unused EXCEPT !.step = "open"]
  <1>1. Unused \in Call /\ o \in Call /\ Unused.step = "unused" /\ o.step = "open"
    BY DEF Unused, Call
  <1> HIDE DEF o
  <1>2. calls = [f \in Forms |-> IF f = 1 THEN o ELSE Unused]
    BY DEF Init, o
  <1>3. form = 1 /\ form \in Forms /\ calls \in [Forms -> Call]
    BY <1>1, <1>2 DEF Init, Forms
  <1>4. count \in [Emails -> 0..MaxUids]
    BY DEF Init
  <1>5. TypeOK
    BY <1>3, <1>4 DEF Init, TypeOK, Views
  <1>6. CallsAreMade /\ CallsHaveEmails /\ AuthIsAllowed
    BY <1>1, <1>2, <1>3 DEF CallsAreMade, CallsHaveEmails, AuthIsAllowed, Forms
  <1>7. LinkedIsAllowed /\ WaitingHasAccount /\ ShownIsAllowed /\ noticed = ToldUid
    BY DEF Init, LinkedIsAllowed, WaitingHasAccount, ShownIsAllowed, ToldUid
  <1>8. OwnersAreKnown
    BY DEF Init, OwnersAreKnown, Sessions
  <1>9. LN!Init
    BY DEF Init, LN!Init
  <1>10. QED
    BY <1>5, <1>6, <1>7, <1>8, <1>9 DEF IInv

\* What is left of Keeps for a step that leaves server, storage and broker alone.
LEMMA PageMoves ==
    ASSUME IInv, UNCHANGED <<server, stored, broker, browser>>, ViewInv', CallsInv',
           calls' \in [Forms -> Call], form' \in Forms, view' \in Views,
           shown' \in Account \cup {None}
    PROVE  Keeps
  <1>1. UNCHANGED <<count, ready, issued, owner, confirmed, stored, linked, noticed,
                    told, allowed>>
    BY DEF server, broker, browser
  <1>2. noticed' = ToldUid' /\ Refines
    BY <1>1, QuietRefines
  <1>3. TypeOK'
    BY <1>1 DEF IInv, TypeOK
  <1>4. LinkedIsAllowed' /\ OwnersAreKnown'
    BY <1>1 DEF IInv, LinkedIsAllowed, OwnersAreKnown
  <1>5. QED
    BY <1>2, <1>3, <1>4 DEF IInv, Keeps, CallsInv, ViewInv

LEMMA ViewStays ==
    ASSUME IInv, UNCHANGED <<view, shown>>, allowed \subseteq allowed'
    PROVE  ViewInv'
  BY DEF IInv, ViewInv, WaitingHasAccount, ShownIsAllowed

LEMMA NewFormKeeps ==
    ASSUME IInv, NewForm
    PROVE  Keeps
  <1> DEFINE c == [Unused EXCEPT !.step = "open"]
  <1>1. c \in Call /\ c.step = "open"
    BY DEF Unused, Call
  <1>2. form < MaxForms /\ form' = form + 1 /\ calls' = [calls EXCEPT ![form + 1] = c]
        /\ view' = "form" /\ shown' = None
        /\ UNCHANGED <<server, stored, broker, browser>>
    BY DEF NewForm, Opens
  <1> HIDE DEF c
  <1>3. UNCHANGED allowed
    BY <1>2 DEF browser
  <1>4. calls \in [Forms -> Call] /\ form \in Nat /\ form + 1 \in Forms
    BY <1>2 DEF IInv, TypeOK, Forms
  <1>5. calls' \in [Forms -> Call] /\ calls'[form + 1] = c
        /\ \A g \in Forms \ {form + 1} : calls'[g] = calls[g]
    BY <1>1, <1>2, <1>4
  <1>6. form' \in Forms /\ CallsInv'
    <2>1. \A g \in Forms :
               /\ g = form + 1 => calls'[g].step = "open"
               /\ g > form + 1 => calls'[g] = calls[g]
               /\ g <= form => calls'[g] = calls[g]
      BY <1>1, <1>4, <1>5 DEF Forms
    <2>2. QED
      BY <1>2, <1>3, <1>5, <2>1, OpensMoves
  <1>7. ViewInv' /\ view' \in Views /\ shown' \in Account \cup {None}
    BY <1>2 DEF ViewInv, WaitingHasAccount, ShownIsAllowed, Views
  <1>8. QED
    BY <1>2, <1>5, <1>6, <1>7, PageMoves

LEMMA SubmitKeeps ==
    ASSUME IInv, NEW signUp \in BOOLEAN, NEW e \in Emails, Submit(signUp, e)
    PROVE  Keeps
  <1>1. BeforeSignIn(form, signUp, e) /\ calls[form].step = "open" /\ form \in Forms
        /\ UNCHANGED <<server, view, shown, form, stored, broker, browser>>
    BY DEF Submit, IInv, TypeOK
  <1>2. UNCHANGED allowed
    BY <1>1 DEF browser
  <1>3. calls' \in [Forms -> Call] /\ CallsInv'
    BY <1>1, <1>2, BeforeSignInMoves
  <1>4. ViewInv'
    BY <1>1, <1>2, ViewStays
  <1>5. QED
    BY <1>1, <1>3, <1>4, PageMoves DEF IInv, TypeOK

LEMMA FailsKeeps ==
    ASSUME IInv, NEW f \in Forms, Fails(f)
    PROVE  Keeps
  <1> DEFINE w == IF f = form THEN "open" ELSE "over"
             c == [calls[f] EXCEPT !.step = w]
  <1>1. calls[f] \in Call /\ calls[f].step # "unused"
    BY DEF Fails, IInv, TypeOK
  <1>2. c \in Call /\ c.step \in {"open", "over"} /\ calls' = [calls EXCEPT ![f] = c]
    BY <1>1 DEF Fails, Call
  <1> HIDE DEF c, w
  <1>3. UNCHANGED <<server, view, shown, form, stored, broker, browser>> /\ UNCHANGED allowed
    BY DEF Fails, browser
  <1>4. calls' \in [Forms -> Call] /\ CallsInv'
    BY <1>1, <1>2, <1>3, CallMoves
  <1>5. ViewInv'
    BY <1>3, ViewStays
  <1>6. QED
    BY <1>3, <1>4, <1>5, PageMoves DEF IInv, TypeOK

LEMMA ExistsKeeps ==
    ASSUME IInv, NEW f \in Forms, Exists(f)
    PROVE  Keeps
  <1>1. calls[f].step = "auth" /\ BeforeSignIn(f, FALSE, calls[f].email)
        /\ UNCHANGED <<server, view, shown, form, stored, broker, browser>>
    BY DEF Exists
  <1>2. UNCHANGED allowed /\ calls[f].email \in Emails
    BY <1>1 DEF browser, IInv, CallsHaveEmails
  <1>3. calls' \in [Forms -> Call] /\ CallsInv'
    BY <1>1, <1>2, BeforeSignInMoves
  <1>4. ViewInv'
    BY <1>1, <1>2, ViewStays
  <1>5. QED
    BY <1>1, <1>3, <1>4, PageMoves DEF IInv, TypeOK

LEMMA BlockedKeeps ==
    ASSUME IInv, NEW f \in Forms, Blocked(f)
    PROVE  Keeps
  <1> DEFINE c == [calls[f] EXCEPT !.step = "over"]
             n == [step |-> "open", signUp |-> FALSE, email |-> calls[f].email]
  <1>1. calls \in [Forms -> Call] /\ form \in Nat /\ form + 1 \in Forms
        /\ calls[f].step = "auth"
    BY DEF Blocked, IInv, TypeOK, Forms
  <1>2. c \in Call /\ c.step = "over" /\ n \in Call /\ n.step = "open"
    BY <1>1 DEF Call
  <1>3. f # form + 1
    BY <1>1 DEF IInv, CallsAreMade
  <1>4. calls' = [calls EXCEPT ![f] = c, ![form + 1] = n]
    BY <1>1 DEF Blocked
  <1> HIDE DEF c, n
  <1>5. calls' \in [Forms -> Call] /\ calls'[form + 1] = n /\ calls'[f] = c
        /\ \A g \in Forms \ {f, form + 1} : calls'[g] = calls[g]
    BY <1>1, <1>2, <1>3, <1>4
  <1>6. form < MaxForms /\ form' = form + 1 /\ view' = "unblock" /\ shown' = None
        /\ UNCHANGED <<server, stored, broker, browser>> /\ UNCHANGED allowed
    BY DEF Blocked, browser
  <1>7. f <= form
    BY <1>1 DEF IInv, CallsAreMade, Forms
  <1>8. form' \in Forms /\ CallsInv'
    <2>1. \A g \in Forms :
               /\ g = form + 1 => calls'[g].step = "open"
               /\ g > form + 1 => calls'[g] = calls[g]
               /\ g <= form => calls'[g].step = "over" \/ calls'[g] = calls[g]
      BY <1>1, <1>2, <1>5, <1>7 DEF Forms
    <2>2. QED
      BY <1>5, <1>6, <2>1, OpensMoves
  <1>9. ViewInv' /\ view' \in Views /\ shown' \in Account \cup {None}
    BY <1>6 DEF ViewInv, WaitingHasAccount, ShownIsAllowed, Views
  <1>10. QED
    BY <1>5, <1>6, <1>8, <1>9, PageMoves

\* The browser did not refuse the address: the abstract broker allows it.
LEMMA LinkAnsweredKeeps ==
    ASSUME IInv, NEW f \in Forms, NEW answer \in {"ok", "refused", "error"},
           LinkAnswered(f, answer)
    PROVE  Keeps
  <1> DEFINE e == calls[f].email
             w == IF answer = "refused" THEN (IF f = form THEN "open" ELSE "over")
                  ELSE "auth"
             c == [calls[f] EXCEPT !.step = w]
  <1>1. calls[f] \in Call /\ calls[f].step = "link" /\ e \in Emails
    BY DEF LinkAnswered, IInv, TypeOK, CallsHaveEmails
  <1>2. c \in Call /\ c.step = w /\ c.email = e /\ calls' = [calls EXCEPT ![f] = c]
    BY <1>1 DEF LinkAnswered, Cancels, Call
  <1>3. /\ linked' = IF answer = "ok" THEN e ELSE linked
        /\ allowed' = IF answer = "refused" THEN allowed ELSE allowed \cup {e}
        /\ UNCHANGED <<server, view, shown, form, stored, noticed, told>>
    BY DEF LinkAnswered
  <1>4. allowed \subseteq allowed' /\ allowed' \in SUBSET Emails
    BY <1>1, <1>3 DEF IInv, TypeOK
  <1>5. calls' \in [Forms -> Call] /\ CallsInv'
    <2>1. c.step = "auth" => c.email \in allowed'
      BY <1>2, <1>3
    <2> HIDE DEF c, e
    <2>2. QED
      BY <1>1, <1>2, <1>3, <1>4, <2>1, CallMoves
  <1>6. ViewInv'
    BY <1>3, <1>4, ViewStays
  <1>7. LinkedIsAllowed' /\ linked' \in Emails \cup {None}
    BY <1>1, <1>3, <1>4 DEF IInv, TypeOK, LinkedIsAllowed
  <1>8. UNCHANGED <<count, ready, issued, owner, confirmed>>
    BY <1>3 DEF server
  <1>9. TypeOK' /\ OwnersAreKnown' /\ noticed' = ToldUid'
    BY <1>3, <1>4, <1>5, <1>7, <1>8 DEF IInv, TypeOK, OwnersAreKnown, ToldUid
  <1>10. Refines
    <2>1. UNCHANGED <<ToldEmail, ToldUid>>
      BY <1>3 DEF ToldEmail, ToldUid
    <2>2. CASE answer = "refused"
      BY <1>3, <2>1, <2>2 DEF Refines
    <2>3. CASE answer # "refused"
      <3>1. LN!Allow(e)
        BY <1>3, <2>1, <2>3 DEF LN!Allow, ToldEmail, ToldUid
      <3> HIDE DEF e
      <3>2. QED
        BY <1>1, <3>1 DEF Refines, LN!Next
    <2>4. QED
      BY <2>2, <2>3
  <1>11. QED
    BY <1>5, <1>6, <1>7, <1>9, <1>10 DEF IInv, Keeps, CallsInv, ViewInv

\* A view is given an account whose address was allowed.
LEMMA AccountIsShown ==
    ASSUME NEW a \in Account, shown' = a, a.keys => a.email \in allowed, UNCHANGED allowed
    PROVE  ViewInv'
  BY DEF ViewInv, WaitingHasAccount, ShownIsAllowed

LEMMA IssuesIsTyped ==
    ASSUME IInv, NEW u \in Uids, NEW verified \in BOOLEAN, Issues(u, verified)
    PROVE  /\ issued + 1 \in Sessions /\ issued' \in 0..MaxSessions
           /\ owner' \in [Sessions -> Uids \cup {None}]
           /\ confirmed' \in SUBSET Sessions /\ OwnersAreKnown'
  <1>1. issued \in Nat /\ issued + 1 \in Sessions /\ issued' = issued + 1
        /\ issued' \in 0..MaxSessions
    BY DEF Issues, IInv, TypeOK, Sessions
  <1>2. owner' = [owner EXCEPT ![issued + 1] = u]
    BY DEF Issues
  <1>3. owner' \in [Sessions -> Uids \cup {None}] /\ confirmed' \in SUBSET Sessions
    BY <1>1, <1>2 DEF Issues, IInv, TypeOK
  <1>4. OwnersAreKnown'
    BY <1>1, <1>2 DEF IInv, TypeOK, OwnersAreKnown, Sessions
  <1>5. QED
    BY <1>1, <1>3, <1>4

LEMMA SignedInKeeps ==
    ASSUME IInv, NEW f \in Forms, NEW how \in {"verified", "link", "token"},
           SignedIn(f, how)
    PROVE  Keeps
  <1> DEFINE e == calls[f].email
             u == <<e, count[e]>>
             a == [email |-> e, uid |-> u, session |-> issued + 1,
                   signUp |-> u \notin ready, verified |-> how = "verified",
                   keys |-> TRUE]
             c == [calls[f] EXCEPT !.step = "over"]
  <1>1. calls[f] \in Call /\ calls[f].step = "auth" /\ e \in Emails /\ e \in allowed
    BY DEF SignedIn, IInv, TypeOK, CallsHaveEmails, AuthIsAllowed
  <1>2. u \in Uids
    BY <1>1 DEF SignedIn, IInv, TypeOK, Uids
  <1>3. Issues(u, how = "verified")
    BY DEF SignedIn
  <1>4. /\ issued + 1 \in Sessions /\ issued' \in 0..MaxSessions
        /\ owner' \in [Sessions -> Uids \cup {None}]
        /\ confirmed' \in SUBSET Sessions /\ OwnersAreKnown'
    BY <1>2, <1>3, IssuesIsTyped
  <1>5. a \in Account /\ a.email = e
    BY <1>1, <1>2, <1>4 DEF Account
  <1>6. c \in Call /\ c.step = "over" /\ calls' = [calls EXCEPT ![f] = c]
    BY <1>1 DEF SignedIn, Call
  <1>7. stored' = a /\ shown' = a /\ view' \in {"done", "confirm", "token"}
        /\ UNCHANGED <<count, ready, form, linked, allowed>>
        /\ (Notifies(a) \/ UNCHANGED <<noticed, told>>)
    BY DEF SignedIn, Finish, ShowConfirm
  <1> HIDE DEF a, c, e, u
  <1>8. calls' \in [Forms -> Call] /\ CallsInv'
    BY <1>1, <1>6, <1>7, CallMoves
  <1>9. ViewInv'
    BY <1>1, <1>5, <1>7, AccountIsShown
  <1>10. /\ noticed' \in Uids \cup {None} /\ told' \in Login \cup {None}
         /\ noticed' = ToldUid' /\ Refines
    BY <1>1, <1>5, <1>7, NotifiesRefines, QuietRefines
  <1>11. TypeOK' /\ LinkedIsAllowed'
    BY <1>4, <1>5, <1>7, <1>8, <1>10 DEF IInv, TypeOK, Views, LinkedIsAllowed
  <1>12. QED
    BY <1>4, <1>8, <1>9, <1>10, <1>11 DEF IInv, Keeps, CallsInv, ViewInv

LEMMA SignedUpKeeps ==
    ASSUME IInv, NEW f \in Forms, SignedUp(f)
    PROVE  Keeps
  <1> DEFINE e == calls[f].email
             u == <<e, count[e] + 1>>
             a == [email |-> e, uid |-> u, session |-> issued + 1, signUp |-> TRUE,
                   verified |-> FALSE, keys |-> TRUE]
             c == [calls[f] EXCEPT !.step = "over"]
  <1>1. calls[f] \in Call /\ calls[f].step = "auth" /\ e \in Emails /\ e \in allowed
    BY DEF SignedUp, IInv, TypeOK, CallsHaveEmails, AuthIsAllowed
  <1>2. count[e] \in 0..MaxUids /\ count[e] < MaxUids
        /\ count' = [count EXCEPT ![e] = count[e] + 1]
    BY <1>1 DEF SignedUp, IInv, TypeOK
  <1>3. count[e] + 1 \in 0..MaxUids /\ u \in Uids
    BY <1>1, <1>2 DEF Uids
  <1>4. Issues(u, FALSE)
    BY DEF SignedUp
  <1>5. /\ issued + 1 \in Sessions /\ issued' \in 0..MaxSessions
        /\ owner' \in [Sessions -> Uids \cup {None}]
        /\ confirmed' \in SUBSET Sessions /\ OwnersAreKnown'
    BY <1>3, <1>4, IssuesIsTyped
  <1>6. a \in Account /\ a.email = e
    BY <1>1, <1>3, <1>5 DEF Account
  <1>7. c \in Call /\ c.step = "over" /\ calls' = [calls EXCEPT ![f] = c]
    BY <1>1 DEF SignedUp, Call
  <1>8. stored' = a /\ shown' = a /\ view' = "cwts"
        /\ UNCHANGED <<ready, form, linked, noticed, told, allowed>>
    BY DEF SignedUp, broker, browser
  <1>9. count' \in [Emails -> 0..MaxUids]
    BY <1>2, <1>3 DEF IInv, TypeOK
  <1> HIDE DEF a, c, e, u
  <1>10. calls' \in [Forms -> Call] /\ CallsInv'
    BY <1>1, <1>7, <1>8, CallMoves
  <1>11. ViewInv'
    BY <1>1, <1>6, <1>8, AccountIsShown
  <1>12. noticed' = ToldUid' /\ Refines
    BY <1>8, QuietRefines
  <1>13. TypeOK' /\ LinkedIsAllowed'
    BY <1>5, <1>6, <1>8, <1>9, <1>10 DEF IInv, TypeOK, Views, LinkedIsAllowed
  <1>14. QED
    BY <1>5, <1>10, <1>11, <1>12, <1>13 DEF IInv, Keeps, CallsInv, ViewInv

\* A view hands its account on, changed at most in its verified flag, with or
\* without telling the browser.
LEMMA HandsOn ==
    ASSUME IInv, NEW a \in Account, a.keys => a.email \in allowed,
           shown' = a, view' \in Views, stored' \in Account \cup {None},
           confirmed' \in SUBSET Sessions,
           Notifies(a) \/ UNCHANGED <<noticed, told>>,
           UNCHANGED <<count, ready, issued, owner, form, calls, linked, allowed>>
    PROVE  Keeps
  <1>1. /\ noticed' \in Uids \cup {None} /\ told' \in Login \cup {None}
        /\ noticed' = ToldUid' /\ Refines
    BY NotifiesRefines, QuietRefines
  <1>2. CallsInv' /\ ViewInv'
    BY CallsStay, AccountIsShown
  <1>3. TypeOK' /\ LinkedIsAllowed' /\ OwnersAreKnown'
    BY <1>1 DEF IInv, TypeOK, LinkedIsAllowed, OwnersAreKnown
  <1>4. QED
    BY <1>1, <1>2, <1>3 DEF IInv, Keeps, CallsInv, ViewInv

LEMMA ChoseEnginesKeeps ==
    ASSUME IInv, NEW polled \in BOOLEAN, ChoseEngines(polled)
    PROVE  Keeps
  <1> DEFINE a == [shown EXCEPT !.verified = @ \/ polled]
  <1>1. shown \in Account /\ (shown.keys => shown.email \in allowed)
    BY DEF ChoseEngines, IInv, WaitingHasAccount, ShownIsAllowed
  <1>2. a \in Account /\ a.keys = shown.keys /\ a.email = shown.email
    BY <1>1 DEF Account
  <1>3. stored' = a /\ shown' = a /\ view' \in {"done", "confirm"} /\ Notifies(a)
        /\ UNCHANGED <<server, form, calls, linked, allowed>>
    BY DEF ChoseEngines, AfterSignUpPoll, Finish, ShowConfirm
  <1> HIDE DEF a
  <1>4. UNCHANGED <<count, ready, issued, owner>> /\ confirmed' \in SUBSET Sessions
        /\ view' \in Views
    BY <1>3 DEF server, IInv, TypeOK, Views
  <1>5. QED
    BY <1>1, <1>2, <1>3, <1>4, HandsOn

LEMMA PolledKeeps ==
    ASSUME IInv, Polled
    PROVE  Keeps
  <1> DEFINE a == [shown EXCEPT !.verified = TRUE]
  <1>1. shown \in Account /\ (shown.keys => shown.email \in allowed)
    BY DEF Polled, IInv, WaitingHasAccount, ShownIsAllowed
  <1>2. a \in Account /\ a.keys = shown.keys /\ a.email = shown.email
    BY <1>1 DEF Account
  <1>3. stored' = a /\ shown' = a /\ view' = "done"
        /\ (Notifies(a) \/ UNCHANGED <<noticed, told>>)
        /\ UNCHANGED <<server, form, calls, linked, allowed>>
    BY DEF Polled, AfterSignUpPoll, Finish
  <1> HIDE DEF a
  <1>4. UNCHANGED <<count, ready, issued, owner>> /\ confirmed' \in SUBSET Sessions
        /\ view' \in Views
    BY <1>3 DEF server, IInv, TypeOK, Views
  <1>5. QED
    BY <1>1, <1>2, <1>3, <1>4, HandsOn

LEMMA TokenAcceptedKeeps ==
    ASSUME IInv, TokenAccepted
    PROVE  Keeps
  <1>1. shown \in Account /\ (shown.keys => shown.email \in allowed)
    BY DEF TokenAccepted, IInv, WaitingHasAccount, ShownIsAllowed
  <1>2. shown.session \in Sessions
    BY <1>1 DEF Account
  <1>3. shown' = shown /\ view' \in Views /\ Notifies(shown)
        /\ confirmed' \in SUBSET Sessions /\ stored' \in Account \cup {None}
        /\ UNCHANGED <<count, ready, issued, owner, form, calls, linked, allowed>>
    BY <1>2 DEF TokenAccepted, Finish, IInv, TypeOK, Views
  <1>4. QED
    BY <1>1, <1>3, HandsOn

LEMMA FollowLinkKeeps ==
    ASSUME IInv, NEW s \in Sessions, FollowLink(s)
    PROVE  Keeps
  <1>1. owner[s] \in Uids
    BY DEF FollowLink, IInv, OwnersAreKnown
  <1>2. UNCHANGED <<count, issued, owner, view, shown, form, calls, stored, linked,
                    noticed, told, allowed>>
    BY DEF FollowLink, page, broker, browser
  <1>3. confirmed' \in SUBSET Sessions /\ ready' \in SUBSET Uids
    BY <1>1 DEF FollowLink, IInv, TypeOK
  <1>4. CallsInv' /\ ViewInv'
    BY <1>2, CallsStay, ViewStays
  <1>5. noticed' = ToldUid' /\ Refines
    BY <1>2, QuietRefines
  <1>6. TypeOK' /\ LinkedIsAllowed' /\ OwnersAreKnown'
    BY <1>2, <1>3 DEF IInv, TypeOK, LinkedIsAllowed, OwnersAreKnown
  <1>7. QED
    BY <1>4, <1>5, <1>6 DEF IInv, Keeps, CallsInv, ViewInv

\* A page that is loaded again has no permission left, and no request that
\* would need it.
LEMMA LoadKeeps ==
    ASSUME IInv, NEW confirms \in BOOLEAN, Load(confirms)
    PROVE  Keeps
  <1> DEFINE o == [Unused EXCEPT !.step = "open"]
             a == [stored EXCEPT !.keys = FALSE]
  <1>1. o \in Call /\ o.step = "open"
    BY DEF Unused, Call
  <1>2. \A g \in Forms : [calls[g] EXCEPT !.step = "over"] \in Call
                         /\ [calls[g] EXCEPT !.step = "over"].step = "over"
    BY DEF IInv, TypeOK, Call
  <1>3. calls \in [Forms -> Call] /\ form \in Nat /\ form < MaxForms /\ form' = form + 1
    BY DEF Load, IInv, TypeOK, Forms
  <1>4. calls' = [g \in Forms |-> IF g <= form THEN [calls[g] EXCEPT !.step = "over"]
                                  ELSE IF g = form + 1 THEN o ELSE calls[g]]
    BY DEF Load
  <1> HIDE DEF o
  <1>5. calls' \in [Forms -> Call]
    BY <1>1, <1>2, <1>3, <1>4
  <1>6. \A g \in Forms : /\ g = form + 1 => calls'[g].step = "open"
                         /\ g > form + 1 => calls'[g] = calls[g]
                         /\ g <= form => calls'[g].step = "over"
    BY <1>1, <1>2, <1>3, <1>4 DEF Forms
  <1>7. form' \in Forms /\ CallsInv'
    <2>1. \A g \in Forms :
               /\ g = form + 1 => calls'[g].step = "open"
               /\ g > form + 1 => calls'[g] = calls[g]
               /\ g <= form => calls'[g].step = "over"
                                \/ (calls'[g] = calls[g] /\ UNCHANGED allowed)
      BY <1>6
    <2>2. QED
      BY <1>3, <1>5, <2>1, OpensMoves
  <1>8. linked' = None /\ noticed' = None /\ told' = None /\ allowed' = {}
        /\ UNCHANGED <<count, ready, issued, owner, confirmed, stored>>
    BY DEF Load, server
  <1>9. shown' \in Account \cup {None} /\ view' \in Views /\ ViewInv'
    <2>1. CASE view' = "form" /\ shown' = None
      BY <2>1 DEF ViewInv, WaitingHasAccount, ShownIsAllowed, Views
    <2>2. CASE stored # None /\ view' = "confirm" /\ shown' = a
      <3>1. a \in Account /\ a.keys = FALSE
        BY <2>2 DEF IInv, TypeOK, Account
      <3> HIDE DEF a
      <3>2. QED
        BY <2>2, <3>1 DEF ViewInv, WaitingHasAccount, ShownIsAllowed, Views
    <2>3. QED
      BY <2>1, <2>2 DEF Load
  <1>10. LinkedIsAllowed' /\ OwnersAreKnown' /\ noticed' = ToldUid'
    BY <1>8 DEF IInv, LinkedIsAllowed, OwnersAreKnown, ToldUid
  <1>11. TypeOK'
    BY <1>5, <1>7, <1>8, <1>9 DEF IInv, TypeOK
  <1>12. Refines
    <2>1. LN!NewPage
      BY <1>8 DEF LN!NewPage
    <2>2. QED
      BY <2>1 DEF Refines, LN!Next
  <1>13. QED
    BY <1>7, <1>9, <1>10, <1>11, <1>12 DEF IInv, Keeps, CallsInv, ViewInv

LEMMA NextKeeps ==
    ASSUME IInv, [Next]_vars
    PROVE  Keeps
  <1>1. ASSUME NEW signUp \in BOOLEAN, NEW e \in Emails, Submit(signUp, e)
        PROVE  Keeps
    BY <1>1, SubmitKeeps
  <1>2. ASSUME NEW f \in Forms, NEW answer \in {"ok", "refused", "error"},
               LinkAnswered(f, answer)
        PROVE  Keeps
    BY <1>2, LinkAnsweredKeeps
  <1>3. ASSUME NEW f \in Forms, Fails(f) \/ Blocked(f) \/ SignedUp(f) \/ Exists(f)
        PROVE  Keeps
    BY <1>3, FailsKeeps, BlockedKeeps, SignedUpKeeps, ExistsKeeps
  <1>4. ASSUME NEW f \in Forms, NEW how \in {"verified", "link", "token"}, SignedIn(f, how)
        PROVE  Keeps
    BY <1>4, SignedInKeeps
  <1>5. ASSUME NEW polled \in BOOLEAN, ChoseEngines(polled)
        PROVE  Keeps
    BY <1>5, ChoseEnginesKeeps
  <1>6. ASSUME NEW s \in Sessions, FollowLink(s)
        PROVE  Keeps
    BY <1>6, FollowLinkKeeps
  <1>7. ASSUME NEW confirms \in BOOLEAN, Load(confirms)
        PROVE  Keeps
    BY <1>7, LoadKeeps
  <1>8. CASE UNCHANGED vars
    <2>1. UNCHANGED <<server, stored, broker, browser>> /\ UNCHANGED page
      BY <1>8 DEF vars
    <2>2. UNCHANGED <<view, shown, form, calls, allowed>>
      BY <2>1 DEF page, browser
    <2>3. CallsInv' /\ ViewInv'
      BY <2>2, CallsStay, ViewStays
    <2>4. QED
      BY <2>1, <2>2, <2>3, PageMoves DEF IInv, TypeOK
  <1>9. QED
    BY <1>1, <1>2, <1>3, <1>4, <1>5, <1>6, <1>7, <1>8, NewFormKeeps, PolledKeeps,
       TokenAcceptedKeeps DEF Next

LEMMA Invariance == Spec => []IInv
  <1>1. Init => IInv
    BY InitKeeps
  <1>2. IInv /\ [Next]_vars => IInv'
    BY NextKeeps DEF Keeps
  <1>3. QED
    BY <1>1, <1>2, PTL DEF Spec

-----------------------------------------------------------------------------

\* Every reachable state is well typed: a view that waits for a confirmation
\* has the account it waits for.
THEOREM SyncLoginTypeCorrect == Spec => []TypeOK
  <1>1. IInv => TypeOK
    BY DEF IInv
  <1>2. QED
    BY Invariance, <1>1, PTL

\* SyncLogin implements LoginNotice: whatever forms are submitted at once, the
\* browser is told only of addresses it did not refuse, and never twice in a
\* row of one account. (fx-sync-channel.js, _notifyRelierOfLogin)
THEOREM SyncLoginImplementsLoginNotice == Spec => ImplementsLoginNotice
  <1>1. Init => LN!Init
    BY InitKeeps
  <1>2. ASSUME IInv, [Next]_vars
        PROVE  [LN!Next]_<<allowed, IF told = None THEN None ELSE told.email,
                           IF told = None THEN None ELSE told.uid>>
    BY <1>2, NextKeeps DEF Keeps, Refines, ToldEmail, ToldUid
  <1>3. QED
    BY <1>1, <1>2, Invariance, PTL DEF Spec, ImplementsLoginNotice, LN!Spec
-----------------------------------------------------------------------------
(* The browser knows of the login the page goes on with.                   *)

Told(a) == told # None /\ told.uid = a.uid

\* A view that comes after the telling has an account the browser was told
\* of, if it has its keys.
ShownIsTold ==
    view \in {"confirm", "done"} => shown \in Account /\ (shown.keys => Told(shown))

LEMMA NotifiesTells ==
    ASSUME IInv, NEW a \in Account, a.keys, Notifies(a)
    PROVE  Told(a)'
  <1> DEFINE l == [email |-> a.email, uid |-> a.uid, session |-> a.session,
                   verified |-> a.verified, canLink |-> linked # None]
  <1>1. a.uid \in Uids /\ l \in Login
    BY DEF Account, Login
  <1>2. CASE noticed = a.uid
    BY <1>1, <1>2 DEF Notifies, IsComplete, Knows, IInv, ToldUid, Told
  <1>3. CASE noticed # a.uid
    <2>1. told' = l
      BY <1>3 DEF Notifies, IsComplete, Knows
    <2>2. QED
      BY <1>1, <2>1 DEF Told
  <1>4. QED
    BY <1>2, <1>3

\* A view is given account a, which the browser is told of or was told of.
LEMMA GivenIsTold ==
    ASSUME IInv, NEW a \in Account, shown' = a,
           Notifies(a) \/ ~a.keys \/ (Told(a) /\ UNCHANGED told)
    PROVE  ShownIsTold'
  <1>1. ASSUME a.keys PROVE Told(a)'
    BY <1>1, NotifiesTells DEF Told
  <1>2. QED
    BY <1>1 DEF ShownIsTold, Told

LEMMA ShownIsToldStep ==
    ASSUME IInv, ShownIsTold, [Next]_vars
    PROVE  ShownIsTold'
  <1>1. ASSUME UNCHANGED <<view, shown, told>> PROVE ShownIsTold'
    BY <1>1 DEF ShownIsTold, Told
  <1>2. ASSUME view' \notin {"confirm", "done"} PROVE ShownIsTold'
    BY <1>2 DEF ShownIsTold
  <1>3. ASSUME NEW f \in Forms, NEW how \in {"verified", "link", "token"}, SignedIn(f, how)
        PROVE  ShownIsTold'
    <2> DEFINE e == calls[f].email
               u == <<e, count[e]>>
               a == [email |-> e, uid |-> u, session |-> issued + 1,
                     signUp |-> u \notin ready, verified |-> how = "verified",
                     keys |-> TRUE]
    <2>1. e \in Emails /\ u \in Uids
      BY <1>3 DEF SignedIn, IInv, TypeOK, CallsHaveEmails, Uids
    <2>2. issued + 1 \in Sessions
      BY <1>3, <2>1, IssuesIsTyped DEF SignedIn
    <2>3. a \in Account
      BY <2>1, <2>2 DEF Account
    <2>4. \/ Notifies(a) /\ shown' = a
          \/ view' = "token"
      BY <1>3 DEF SignedIn, Finish, ShowConfirm
    <2> HIDE DEF a
    <2>5. QED
      BY <1>2, <2>3, <2>4, GivenIsTold
  <1>4. ASSUME NEW polled \in BOOLEAN, ChoseEngines(polled)
        PROVE  ShownIsTold'
    <2> DEFINE a == [shown EXCEPT !.verified = @ \/ polled]
    <2>1. shown \in Account
      BY <1>4 DEF ChoseEngines, IInv, WaitingHasAccount
    <2>2. a \in Account
      BY <2>1 DEF Account
    <2>3. Notifies(a) /\ shown' = a
      BY <1>4 DEF ChoseEngines, AfterSignUpPoll, Finish, ShowConfirm
    <2> HIDE DEF a
    <2>4. QED
      BY <2>2, <2>3, GivenIsTold
  <1>5. CASE Polled
    <2> DEFINE a == [shown EXCEPT !.verified = TRUE]
    <2>1. shown \in Account /\ (shown.keys => Told(shown))
      BY <1>5 DEF Polled, ShownIsTold
    <2>2. a \in Account /\ a.keys = shown.keys /\ a.uid = shown.uid
      BY <2>1 DEF Account
    <2>3. shown' = a /\ (Notifies(a) \/ UNCHANGED told)
      BY <1>5 DEF Polled, AfterSignUpPoll, Finish
    <2> HIDE DEF a
    <2>4. a.keys => Told(a)
      BY <2>1, <2>2 DEF Told
    <2>5. QED
      BY <2>2, <2>3, <2>4, GivenIsTold
  <1>6. CASE TokenAccepted
    <2>1. shown \in Account /\ shown' = shown /\ Notifies(shown)
      BY <1>6 DEF TokenAccepted, Finish, IInv, WaitingHasAccount
    <2>2. QED
      BY <2>1, GivenIsTold
  <1>7. ASSUME NEW confirms \in BOOLEAN, Load(confirms)
        PROVE  ShownIsTold'
    <2> DEFINE a == [stored EXCEPT !.keys = FALSE]
    <2>1. CASE view' = "form"
      BY <1>2, <2>1
    <2>2. CASE stored # None /\ shown' = a
      <3>1. a \in Account /\ ~a.keys
        BY <2>2 DEF IInv, TypeOK, Account
      <3> HIDE DEF a
      <3>2. QED
        BY <2>2, <3>1, GivenIsTold
    <2>3. QED
      BY <1>7, <2>1, <2>2 DEF Load
  <1>8. ASSUME NEW f \in Forms, NEW answer \in {"ok", "refused", "error"},
               LinkAnswered(f, answer)
        PROVE  ShownIsTold'
    BY <1>1, <1>8 DEF LinkAnswered
  <1>9. ASSUME NEW f \in Forms, Fails(f) \/ Blocked(f) \/ SignedUp(f) \/ Exists(f)
        PROVE  ShownIsTold'
    BY <1>1, <1>2, <1>9 DEF Fails, Blocked, SignedUp, Exists, browser
  <1>10. ASSUME NEW signUp \in BOOLEAN, NEW e \in Emails, Submit(signUp, e)
         PROVE  ShownIsTold'
    BY <1>1, <1>10 DEF Submit, browser
  <1>11. CASE NewForm
    BY <1>2, <1>11 DEF NewForm
  <1>12. ASSUME NEW s \in Sessions, FollowLink(s)
         PROVE  ShownIsTold'
    BY <1>1, <1>12 DEF FollowLink, page, browser
  <1>13. CASE UNCHANGED vars
    BY <1>1, <1>13 DEF vars, page, browser
  <1>14. QED
    BY <1>3, <1>4, <1>5, <1>6, <1>7, <1>8, <1>9, <1>10, <1>11, <1>12, <1>13 DEF Next

\* A page does not go on after a sign-in or a sign-up, with the keys of the
\* account at hand, without the browser knowing of it: no view of the flow
\* leaves the telling to another that does not do it.
THEOREM FinishedLoginIsKnown == Spec => []FinishedIsKnown
  <1>1. Init => ShownIsTold
    BY DEF Init, ShownIsTold
  <1>2. IInv /\ ShownIsTold /\ [Next]_vars => ShownIsTold'
    BY ShownIsToldStep
  <1>3. ShownIsTold => FinishedIsKnown
    BY DEF ShownIsTold, FinishedIsKnown, Told
  <1>4. QED
    BY <1>1, <1>2, <1>3, Invariance, PTL DEF Spec
==============================================================================
