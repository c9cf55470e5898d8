---------------------------- MODULE UserAccounts ----------------------------
(***************************************************************************)
(* The User model (app/scripts/models/user.js) and the parts of Account,   *)
(* the inter-tab channel and the views that drive it, in several tabs of   *)
(* one browser.  The tabs share localStorage (accounts, currentUid); each  *)
(* keeps a cached signed-in Account object that calls in flight alias, and *)
(* hears of the others over a BroadcastChannel.  One step is one task of a *)
(* tab's event loop, of the auth server or of the network.                 *)
(***************************************************************************)
EXTENDS Naturals, Sequences, FiniteSets

CONSTANTS
    Tabs,         \* tabs of the browser
    Uids,         \* accounts known to the auth server
    NoUid,        \* an undefined uid
    NotStored,    \* the value of accounts[uid] for an account that is absent
    MaxSessions,  \* bound: sessions the server ever creates
    MaxCalls,     \* bound: calls one tab has in flight
    MaxInbox,     \* bound: broadcasts waiting for one tab
    MaxSteps      \* bound: things users, their devices and the network do

NoToken == 0
NoSlot  == 0
Tokens  == 1..MaxSessions
CallIds == 1..MaxCalls
Slots   == 1..(MaxCalls + 2)

StoredAccount == [token : Tokens \cup {NoToken}, verified : BOOLEAN]

ASSUME UserAccountsAssumption ==
    /\ NoUid \notin Uids
    /\ NotStored \notin StoredAccount
    /\ MaxSessions \in Nat
    /\ MaxCalls \in Nat
    /\ MaxInbox \in Nat
    /\ MaxSteps \in Nat

(***************************************************************************)
(* Account objects live in numbered slots of a tab's heap, so that the     *)
(* cache and the calls in flight may share one: an answer mutates the      *)
(* object its call holds, whatever the cache refers to by then.            *)
(***************************************************************************)
Account == [uid : Uids \cup {NoUid}, token : Tokens \cup {NoToken}, verified : BOOLEAN]
Blank   == [uid |-> NoUid, token |-> NoToken, verified |-> FALSE]

Answer   == [result : {"none", "ok", "invalid", "failed"},
             token : Tokens \cup {NoToken}, verified : BOOLEAN]
NoAnswer == [result |-> "none", token |-> NoToken, verified |-> FALSE]

(***************************************************************************)
(* Kinds of calls in flight.                                               *)
(*   signIn, checkUid          carry the uid they ask about, no object     *)
(*   enter, focus              user.sessionStatus, by render or by focus   *)
(*   fetch, fetchIn            the account.fetch of setAccount, and of the *)
(*                             setSignedInAccount of a sign-in             *)
(*   poll, pollWait, strayPoll the poll of the confirm view: in flight, on *)
(*                             its timer, in flight for a destroyed view   *)
(*   signOut, destroy, changePassword                                      *)
(***************************************************************************)
SessionChecks == {"enter", "focus", "fetch", "fetchIn", "poll", "strayPoll"}
Kinds == SessionChecks \cup {"none", "signIn", "checkUid", "pollWait", "signOut",
                             "destroy", "changePassword"}
Call  == {k \in [kind : Kinds, slot : Slots \cup {NoSlot}, uid : Uids \cup {NoUid},
                 sent : Tokens \cup {NoToken}, answer : Answer] :
            k.kind \notin {"none", "signIn", "checkUid"} => k.slot \in Slots}

Request(kind, slot, uid, sent) ==
    [kind |-> kind, slot |-> slot, uid |-> uid, sent |-> sent, answer |-> NoAnswer]
Idle == Request("none", NoSlot, NoUid, NoToken)

(***************************************************************************)
(* A page is loading a URL (of /signin or of /settings), or it displays a  *)
(* view.  "checking" is the settings view before checkAuthorization lets   *)
(* it render.                                                              *)
(***************************************************************************)
Loading == {"loadingSignin", "loadingSettings"}
Views   == Loading \cup {"signin", "signup", "confirm", "checking", "settings"}
Page    == [view : Views, cache : Slots \cup {NoSlot}, heap : [Slots -> Account],
            calls : [CallIds -> Call]]

Unloaded(v) == [view |-> v, cache |-> NoSlot, heap |-> [s \in Slots |-> Blank],
                calls |-> [c \in CallIds |-> Idle]]

Message == [command : {"SIGNED_IN", "SIGNED_OUT"}, uid : Uids \cup {NoUid}]
Session == [uid : Uids \cup {NoUid}, verified : BOOLEAN, live : BOOLEAN]

VARIABLES
    accounts,    \* localStorage: the stored accounts, by uid
    currentUid,  \* localStorage: currentAccountUid
    page,        \* what each tab has in memory
    inbox,       \* broadcasts on their way to each tab, in order
    sessions,    \* auth server: the sessions it created, by token
    registered,  \* auth server: the accounts that exist
    steps        \* how many of the MaxSteps are used up

storage == <<accounts, currentUid>>
server  == <<sessions, registered>>
vars    == <<accounts, currentUid, page, inbox, sessions, registered, steps>>

TypeOK ==
    /\ accounts \in [Uids -> StoredAccount \cup {NotStored}]
    /\ currentUid \in Uids \cup {NoUid}
    /\ page \in [Tabs -> Page]
    /\ inbox \in [Tabs -> Seq(Message)]
    /\ sessions \in [Tokens -> Session]
    /\ registered \in SUBSET Uids
    /\ steps \in 0..MaxSteps

Init ==
    /\ accounts = [u \in Uids |-> NotStored]
    /\ currentUid = NoUid
    /\ page = [t \in Tabs |-> Unloaded("loadingSignin")]
    /\ inbox = [t \in Tabs |-> <<>>]
    /\ sessions = [k \in Tokens |-> [uid |-> NoUid, verified |-> FALSE, live |-> FALSE]]
    /\ registered = Uids
    /\ steps = 0

-----------------------------------------------------------------------------
(* Operators on storage, on a page and on the channel.                     *)

Persisted(acc, o) ==
    IF o.uid = NoUid THEN acc
    ELSE [acc EXCEPT ![o.uid] = [token |-> o.token, verified |-> o.verified]]

FromStorage(acc, uid) ==
    IF uid = NoUid \/ acc[uid] = NotStored THEN Blank
    ELSE [uid |-> uid, token |-> acc[uid].token, verified |-> acc[uid].verified]

\* What getSignedInAccount returns, and the page it leaves: slot s is free.
SignedInAccount(p, acc, uid) ==
    IF p.cache # NoSlot THEN p.heap[p.cache] ELSE FromStorage(acc, uid)
WithSignedInAccount(p, s, acc, uid) ==
    IF p.cache # NoSlot THEN p
    ELSE [p EXCEPT !.cache = s, !.heap = [p.heap EXCEPT ![s] = FromStorage(acc, uid)]]

WithCall(p, c, call)  == [p EXCEPT !.calls = [p.calls EXCEPT ![c] = call]]
WithObject(p, s, o)   == [p EXCEPT !.heap = [p.heap EXCEPT ![s] = o]]
WithView(p, v)        == [p EXCEPT !.view = v]
WithCache(p, s)       == [p EXCEPT !.cache = s]

\* Mutant: a request that failed counts as one that found it verified.
AfterStatusTrustsFailure(o, answer) ==
    CASE answer.result = "invalid" -> [o EXCEPT !.token = NoToken]
      [] OTHER -> [o EXCEPT !.verified = answer.verified \/ answer.result = "failed"]

\* The session data an answer to recovery_email/status sets on an object:
\* an INVALID_TOKEN unsets whatever token the object has by now.
AfterStatus(o, answer) ==
    CASE answer.result = "ok"      -> [o EXCEPT !.verified = answer.verified]
      [] answer.result = "invalid" -> [o EXCEPT !.token = NoToken]
      [] OTHER                     -> o

\* Destroying a view stops its poll; a check it has in flight still answers.
ViewDestroyed(p) ==
    [p EXCEPT !.calls = [c \in CallIds |->
        CASE p.calls[c].kind = "poll"     -> [p.calls[c] EXCEPT !.kind = "strayPoll"]
          [] p.calls[c].kind = "pollWait" -> Idle
          [] p.calls[c].kind = "enter"    -> [p.calls[c] EXCEPT !.kind = "focus"]
          [] OTHER                        -> p.calls[c]]]

ShowSignIn(p, s, acc, uid) ==
    WithView(WithSignedInAccount(ViewDestroyed(p), s, acc, uid), "signin")

\* Navigate to settings: render calls user.sessionStatus, which rejects at
\* once when the signed-in account has no token, storing that account.
ShowSettings(p, c, s, acc, uid) ==
    LET q == WithSignedInAccount(ViewDestroyed(p), s, acc, uid)
        o == SignedInAccount(p, acc, uid)
    IN  IF p.view \in {"checking", "settings"} THEN p
        ELSE IF o.token = NoToken THEN WithView(q, "signin")
        ELSE WithView(WithCall(q, c, Request("enter", q.cache, NoUid, o.token)), "checking")
ShowSettingsStores(p, acc, uid) ==
    LET o == SignedInAccount(p, acc, uid)
    IN  IF p.view \notin {"checking", "settings"} /\ o.token = NoToken
        THEN Persisted(acc, o) ELSE acc

\* Navigate to confirm with the account in slot s, and start its poll.
ShowConfirm(p, c, s) ==
    LET q == ViewDestroyed(p)
    IN  IF p.view = "confirm" THEN p
        ELSE IF p.heap[s].token = NoToken THEN WithView(q, "signup")
        ELSE WithView(WithCall(q, c, Request("poll", s, NoUid, p.heap[s].token)), "confirm")

\* Ids and objects nothing refers to are reused, the lowest first.
InUse(p) == {p.cache} \cup {p.calls[c].slot : c \in CallIds}
IsNextSlot(p, s) == s \notin InUse(p) /\ \A r \in Slots \ InUse(p) : s <= r
IsNextCall(p, c) ==
    /\ p.calls[c].kind = "none"
    /\ \A d \in CallIds : p.calls[d].kind = "none" => c <= d
Swept(p) == [p EXCEPT !.heap =
                [s \in Slots |-> IF s \in InUse(p) THEN p.heap[s] ELSE Blank]]
Becomes(t, p) == page' = [page EXCEPT ![t] = Swept(p)]

\* BroadcastChannel: every other tab whose page runs receives the message.
Listeners(t) == {o \in Tabs \ {t} : page[o].view \notin Loading}
CanBroadcast(t) == \A o \in Listeners(t) : Len(inbox[o]) < MaxInbox
Broadcast(t, command, uid) ==
    inbox' = [o \in Tabs |->
                IF o \in Listeners(t)
                THEN Append(inbox[o], [command |-> command, uid |-> uid])
                ELSE inbox[o]]

-----------------------------------------------------------------------------
(* What the user starts.  A view disables its form while it submits        *)
(* (allowOnlyOneSubmit), so one call of a kind is in flight at a time.     *)

Starts(t, kind) == \A c \in CallIds : page[t].calls[c].kind # kind

StartSignIn(t, u) ==
    /\ page[t].view = "signin"
    /\ Starts(t, "signIn") /\ Starts(t, "fetchIn")
    /\ \E c \in CallIds :
        /\ IsNextCall(page[t], c)
        /\ Becomes(t, WithCall(page[t], c, Request("signIn", NoSlot, u, NoToken)))
    /\ UNCHANGED <<storage, server, inbox>>

\* force_auth asks whether the uid of its relier still exists.
StartCheckUid(t, u) ==
    /\ page[t].view = "signin"
    /\ Starts(t, "checkUid")
    /\ \E c \in CallIds :
        /\ IsNextCall(page[t], c)
        /\ Becomes(t, WithCall(page[t], c, Request("checkUid", NoSlot, u, NoToken)))
    /\ UNCHANGED <<storage, server, inbox>>

\* Focus of a window whose view is mustVerify checks the session again.
Focus(t) ==
    LET p == page[t]
    IN  /\ p.view \in {"checking", "settings"}
        /\ Starts(t, "focus")
        /\ \E c \in CallIds, s \in Slots :
            /\ IsNextCall(p, c) /\ IsNextSlot(p, s)
            /\ LET q == WithSignedInAccount(p, s, accounts, currentUid)
                   o == q.heap[q.cache]
               IN  IF o.token = NoToken
                   THEN /\ Becomes(t, ShowSignIn(p, s, accounts, currentUid))
                        /\ accounts' = Persisted(accounts, o)
                   ELSE /\ Becomes(t, WithCall(q, c, Request("focus", q.cache, NoUid, o.token)))
                        /\ UNCHANGED accounts
        /\ UNCHANGED <<currentUid, server, inbox>>

\* Sign out, delete the account or change the password of the signed-in
\* account, from the displayed settings.
StartOnSettings(t, kind) ==
    LET p == page[t]
    IN  /\ p.view = "settings"
        /\ Starts(t, kind)
        /\ \E c \in CallIds, s \in Slots :
            /\ IsNextCall(p, c) /\ IsNextSlot(p, s)
            /\ LET q == WithSignedInAccount(p, s, accounts, currentUid)
                   o == q.heap[q.cache]
               IN  Becomes(t, WithCall(q, c, Request(kind, q.cache, o.uid, o.token)))
        /\ UNCHANGED <<storage, server, inbox>>

UseDifferentAccount(t) ==
    /\ page[t].view = "signin"
    /\ accounts' = [u \in Uids |-> NotStored]
    /\ currentUid' = NoUid
    /\ \E s \in Slots :
        /\ IsNextSlot(WithCache(page[t], NoSlot), s)
        /\ Becomes(t, WithObject(WithCache(page[t], s), s, Blank))
    /\ UNCHANGED <<server, inbox>>

\* The poll's timer: a check without a token is rejected on the spot.
PollFires(t, c) ==
    LET p == page[t]
        k == p.calls[c]
        token == p.heap[k.slot].token
    IN  /\ k.kind = "pollWait"
        /\ Becomes(t, WithCall(p, c, IF token = NoToken THEN Idle
                                     ELSE Request("poll", k.slot, NoUid, token)))
        /\ UNCHANGED <<storage, server, inbox>>

\* The user loads another URL or reloads: the page and its calls are gone.
Reload(t, v) ==
    /\ page[t].view \notin Loading
    /\ page' = [page EXCEPT ![t] = Unloaded(v)]
    /\ inbox' = [inbox EXCEPT ![t] = <<>>]
    /\ UNCHANGED <<storage, server>>

LoadSignIn(t) ==
    /\ page[t].view = "loadingSignin"
    /\ \E s \in Slots :
        /\ IsNextSlot(page[t], s)
        /\ Becomes(t, ShowSignIn(page[t], s, accounts, currentUid))
    /\ UNCHANGED <<storage, server, inbox>>

\* Settings for the uid of its query string: switch to that account if it is
\* stored, clear the signed-in account if it is not.
LoadSettings(t, u) ==
    LET p == page[t]
        known == u # NoUid /\ accounts[u] # NotStored
        forced == u # NoUid /\ ~known
        uid == IF known THEN u ELSE IF forced THEN NoUid ELSE currentUid
    IN  /\ p.view = "loadingSettings"
        /\ currentUid' = uid
        /\ \E c \in CallIds, s \in Slots :
            /\ IsNextCall(p, c) /\ IsNextSlot(p, s)
            /\ Becomes(t, ShowSettings(p, c, s, accounts, uid))
        /\ accounts' = ShowSettingsStores(p, accounts, uid)
        /\ IF forced
           THEN /\ CanBroadcast(t)
                /\ Broadcast(t, "SIGNED_OUT", FromStorage(accounts, currentUid).uid)
           ELSE UNCHANGED inbox
        /\ UNCHANGED <<server>>

-----------------------------------------------------------------------------
(* The auth server and the network.                                        *)

IsUnused(k)  == sessions[k].uid = NoUid
CanIssue     == \E k \in Tokens : IsUnused(k)
IsNextToken(k) == IsUnused(k) /\ \A j \in Tokens : IsUnused(j) => k <= j
Live(k) == k # NoToken /\ sessions[k].live

AnswerCall(t, c, result, token, verified) ==
    page' = [page EXCEPT ![t] = WithCall(page[t], c,
        [page[t].calls[c] EXCEPT !.answer =
            [result |-> result, token |-> token, verified |-> verified]])]

Pending(t, c, kinds) ==
    page[t].calls[c].kind \in kinds /\ page[t].calls[c].answer.result = "none"

ServeSessionCheck(t, c) ==
    LET sent == page[t].calls[c].sent
    IN  /\ Pending(t, c, SessionChecks)
        /\ IF Live(sent) THEN AnswerCall(t, c, "ok", NoToken, sessions[sent].verified)
                         ELSE AnswerCall(t, c, "invalid", NoToken, FALSE)
        /\ UNCHANGED <<storage, server, inbox>>

ServeSignIn(t, c) ==
    LET u == page[t].calls[c].uid
    IN  /\ Pending(t, c, {"signIn"})
        /\ IF u \in registered /\ CanIssue
           THEN \E k \in Tokens, verified \in BOOLEAN :
                /\ IsNextToken(k)
                /\ sessions' = [sessions EXCEPT
                        ![k] = [uid |-> u, verified |-> verified, live |-> TRUE]]
                /\ AnswerCall(t, c, "ok", k, verified)
           ELSE AnswerCall(t, c, "failed", NoToken, FALSE) /\ UNCHANGED sessions
        /\ UNCHANGED <<storage, registered, inbox>>

ServeCheckUid(t, c) ==
    /\ Pending(t, c, {"checkUid"})
    /\ AnswerCall(t, c, IF page[t].calls[c].uid \in registered THEN "ok" ELSE "invalid",
                  NoToken, FALSE)
    /\ UNCHANGED <<storage, server, inbox>>

ServeSignOut(t, c) ==
    LET sent == page[t].calls[c].sent
    IN  /\ Pending(t, c, {"signOut"})
        /\ IF Live(sent)
           THEN /\ sessions' = [sessions EXCEPT ![sent].live = FALSE]
                /\ AnswerCall(t, c, "ok", NoToken, FALSE)
           ELSE /\ AnswerCall(t, c, "invalid", NoToken, FALSE)
                /\ UNCHANGED sessions
        /\ UNCHANGED <<storage, registered, inbox>>

\* Deleting an account ends all its sessions.
ServeDestroy(t, c) ==
    LET u == page[t].calls[c].uid
    IN  /\ Pending(t, c, {"destroy"})
        /\ registered' = registered \ {u}
        /\ sessions' = [k \in Tokens |->
                [sessions[k] EXCEPT !.live = @ /\ sessions[k].uid # u]]
        /\ AnswerCall(t, c, IF u \in registered THEN "ok" ELSE "failed", NoToken, FALSE)
        /\ UNCHANGED <<storage, inbox>>

\* A new password ends every session and gives the caller a new one, as
\* verified as the one it had.
ServeChangePassword(t, c) ==
    LET sent == page[t].calls[c].sent
    IN  /\ Pending(t, c, {"changePassword"})
        /\ IF Live(sent) /\ CanIssue
           THEN \E k \in Tokens :
                /\ IsNextToken(k)
                /\ sessions' = [j \in Tokens |->
                        IF j = k THEN sessions[sent]
                        ELSE [sessions[j] EXCEPT
                                !.live = @ /\ sessions[j].uid # sessions[sent].uid]]
                /\ AnswerCall(t, c, "ok", k, sessions[sent].verified)
           ELSE /\ AnswerCall(t, c, "failed", NoToken, FALSE)
                /\ UNCHANGED sessions
        /\ UNCHANGED <<storage, registered, inbox>>

\* A request that fails, or one that was served and whose reply is lost.
Fails(t, c) ==
    LET k == page[t].calls[c]
    IN  /\ k.kind \notin {"none", "pollWait"}
        /\ k.answer.result \in {"none", "ok"}
        /\ AnswerCall(t, c, "failed", NoToken, FALSE)
        /\ UNCHANGED <<storage, server, inbox>>

\* The user follows the link of the verification mail, or disconnects a
\* session from another device.
VerifySession(k) ==
    /\ Live(k) /\ ~sessions[k].verified
    /\ sessions' = [sessions EXCEPT ![k].verified = TRUE]
    /\ UNCHANGED <<storage, registered, page, inbox>>

DisconnectSession(k) ==
    /\ Live(k)
    /\ sessions' = [sessions EXCEPT ![k].live = FALSE]
    /\ UNCHANGED <<storage, registered, page, inbox>>

-----------------------------------------------------------------------------
(* Answers reach the tab that asked.                                       *)

Answered(t, c, kinds) ==
    page[t].calls[c].kind \in kinds /\ page[t].calls[c].answer.result # "none"

\* The page of t once call c has ended.
Ended(t, c) == WithCall(page[t], c, Idle)

\* Mutant: the account is stored under the uid that was current before it.
SetsSignedInTooEarly(o) ==
    /\ accounts' = Persisted(accounts, IF currentUid = NoUid THEN o
                                       ELSE [o EXCEPT !.uid = currentUid])
    /\ currentUid' = o.uid

\* setSignedInAccount's last step, for account o.
SetsSignedIn(o) ==
    /\ accounts' = Persisted(accounts, o)
    /\ currentUid' = o.uid

\* signInAccount: the other tabs are told before the account is stored.  An
\* unverified session is fetched first, so storing it takes another request.
SignInAnswered(t, c) ==
    LET k == page[t].calls[c]
        o == [uid |-> k.uid, token |-> k.answer.token, verified |-> k.answer.verified]
    IN  /\ Answered(t, c, {"signIn"})
        /\ IF k.answer.result = "ok"
           THEN \E s \in Slots :
                /\ IsNextSlot(page[t], s)
                /\ CanBroadcast(t)
                /\ Broadcast(t, "SIGNED_IN", k.uid)
                /\ LET p == WithObject(Ended(t, c), s, o)
                   IN  IF o.verified
                       THEN /\ SetsSignedIn(o)
                            /\ Becomes(t, ShowSettings(WithCache(p, s), c, s,
                                                       accounts', currentUid'))
                       ELSE /\ Becomes(t, WithCall(p, c, Request("fetchIn", s, NoUid, o.token)))
                            /\ UNCHANGED storage
           ELSE /\ Becomes(t, Ended(t, c))
                /\ UNCHANGED <<storage, inbox>>
        /\ UNCHANGED <<server>>

\* Mutant: only an answer that is "ok" ends the sign-in's fetch.
FetchInAnsweredIfOk(t, c) ==
    LET k == page[t].calls[c]
        o == AfterStatus(page[t].heap[k.slot], k.answer)
        p == WithCache(WithObject(Ended(t, c), k.slot, o), k.slot)
    IN  /\ Answered(t, c, {"fetchIn"}) /\ k.answer.result = "ok"
        /\ SetsSignedIn(o)
        /\ Becomes(t, IF o.verified
                      THEN ShowSettings(p, c, k.slot, accounts', currentUid')
                      ELSE ShowConfirm(p, c, k.slot))
        /\ UNCHANGED <<server, inbox>>

FetchInAnswered(t, c) ==
    LET k == page[t].calls[c]
        o == AfterStatus(page[t].heap[k.slot], k.answer)
        p == WithCache(WithObject(Ended(t, c), k.slot, o), k.slot)
    IN  /\ Answered(t, c, {"fetchIn"})
        /\ SetsSignedIn(o)
        /\ Becomes(t, IF o.verified
                      THEN ShowSettings(p, c, k.slot, accounts', currentUid')
                      ELSE ShowConfirm(p, c, k.slot))
        /\ UNCHANGED <<server, inbox>>

\* The setAccount that sessionStatus does not wait for.
FetchAnswered(t, c) ==
    LET k == page[t].calls[c]
        o == AfterStatus(page[t].heap[k.slot], k.answer)
    IN  /\ Answered(t, c, {"fetch"})
        /\ accounts' = Persisted(accounts, o)
        /\ Becomes(t, WithObject(Ended(t, c), k.slot, o))
        /\ UNCHANGED <<currentUid, server, inbox>>

\* checkAuthorization with the answer of user.sessionStatus: a verified
\* session is stored and settings are displayed.
CheckVerified(t, c) ==
    LET k == page[t].calls[c]
        o == AfterStatus(page[t].heap[k.slot], k.answer)
        p == WithObject(Ended(t, c), k.slot, o)
    IN  /\ Answered(t, c, {"enter", "focus"})
        /\ k.answer.result = "ok" /\ k.answer.verified
        /\ accounts' = Persisted(accounts, o)
        /\ Becomes(t, IF k.kind = "enter" THEN WithView(p, "settings") ELSE p)
        /\ UNCHANGED <<currentUid, server, inbox>>

\* An unverified session is fetched once more by setAccount, and the view
\* navigates to confirm.
CheckUnverified(t, c) ==
    LET k == page[t].calls[c]
        o == AfterStatus(page[t].heap[k.slot], k.answer)
        p == WithObject(Ended(t, c), k.slot, o)
    IN  /\ Answered(t, c, {"enter", "focus"})
        /\ k.answer.result = "ok" /\ ~k.answer.verified
        /\ IF o.token = NoToken
           THEN /\ accounts' = Persisted(accounts, o)
                /\ Becomes(t, ShowConfirm(p, c, k.slot))
           ELSE /\ \E d \in CallIds :
                    /\ IsNextCall(page[t], d)
                    /\ Becomes(t, ShowConfirm(
                            WithCall(p, c, Request("fetch", k.slot, NoUid, o.token)), d, k.slot))
                /\ UNCHANGED accounts
        /\ UNCHANGED <<currentUid, server, inbox>>

\* An invalid session is unset and stored as such; the view navigates to
\* signin.  Any other error leaves the page as it is.
CheckRejected(t, c) ==
    LET k == page[t].calls[c]
        o == AfterStatus(page[t].heap[k.slot], k.answer)
    IN  /\ Answered(t, c, {"enter", "focus"})
        /\ IF k.answer.result = "invalid"
           THEN /\ accounts' = Persisted(accounts, o)
                /\ \E s \in Slots :
                    /\ IsNextSlot(page[t], s)
                    /\ Becomes(t, ShowSignIn(WithObject(Ended(t, c), k.slot, o), s,
                                             accounts', currentUid))
           ELSE /\ k.answer.result = "failed"
                /\ Becomes(t, Ended(t, c))
                /\ UNCHANGED accounts
        /\ UNCHANGED <<currentUid, server, inbox>>

\* Mutant: a failed check ends the poll.
PollAnsweredOnce(t, c) ==
    LET k == page[t].calls[c]
        o == AfterStatus(page[t].heap[k.slot], k.answer)
        p == WithObject(Ended(t, c), k.slot, o)
        waiting == WithCall(p, c, Request("pollWait", k.slot, NoUid, NoToken))
    IN  /\ Answered(t, c, {"poll"})
        /\ IF k.answer.result = "ok" /\ k.answer.verified
           THEN /\ accounts' = ShowSettingsStores(p, Persisted(accounts, o), currentUid)
                /\ \E s \in Slots :
                    /\ IsNextSlot(page[t], s)
                    /\ Becomes(t, ShowSettings(p, c, s, Persisted(accounts, o), currentUid))
           ELSE /\ Becomes(t, IF k.answer.result = "ok" THEN waiting ELSE p)
                /\ UNCHANGED accounts
        /\ UNCHANGED <<currentUid, server, inbox>>

\* The confirm view's poll.  It asks account.sessionStatus: nothing is
\* stored until the session is verified, when the view calls setAccount and
\* goes to settings.  A failed check is repeated, an invalid session ends it.
PollAnswered(t, c) ==
    LET k == page[t].calls[c]
        o == AfterStatus(page[t].heap[k.slot], k.answer)
        p == WithObject(Ended(t, c), k.slot, o)
        waiting == WithCall(p, c, Request("pollWait", k.slot, NoUid, NoToken))
    IN  /\ Answered(t, c, {"poll"})
        /\ IF k.answer.result = "ok" /\ k.answer.verified
           THEN /\ accounts' = ShowSettingsStores(p, Persisted(accounts, o), currentUid)
                /\ \E s \in Slots :
                    /\ IsNextSlot(page[t], s)
                    /\ Becomes(t, ShowSettings(p, c, s, Persisted(accounts, o), currentUid))
           ELSE /\ Becomes(t, IF k.answer.result = "invalid" THEN p ELSE waiting)
                /\ UNCHANGED accounts
        /\ UNCHANGED <<currentUid, server, inbox>>

\* The check a destroyed confirm view had in flight still sets the object.
StrayPollAnswered(t, c) ==
    LET k == page[t].calls[c]
    IN  /\ Answered(t, c, {"strayPoll"})
        /\ Becomes(t, WithObject(Ended(t, c), k.slot,
                                 AfterStatus(page[t].heap[k.slot], k.answer)))
        /\ UNCHANGED <<storage, server, inbox>>

\* removeAccount(uid) in tab t, whose page is p: isSignedInAccount asks the
\* cached account, clearSignedInAccount clears whatever storage names.
IsSignedIn(p, uid) ==
    uid # NoUid /\ SignedInAccount(p, accounts, currentUid).uid = uid
\* Mutant: the removed account leaves an empty one behind.
WithoutAccountEmpties(uid) == [u \in Uids |-> IF u = uid THEN Blank ELSE accounts[u]]
WithoutAccount(uid) == [u \in Uids |-> IF u = uid THEN NotStored ELSE accounts[u]]
\* The page it leaves: isSignedInAccount fills an empty cache (slot s is
\* free), clearSignedInAccount empties it.
WithoutSignedIn(p, s, uid) ==
    IF IsSignedIn(p, uid) THEN WithCache(p, NoSlot)
    ELSE WithSignedInAccount(p, s, accounts, currentUid)
TellsSignedOut(t, p, uid) ==
    IF IsSignedIn(p, uid)
    THEN CanBroadcast(t) /\ Broadcast(t, "SIGNED_OUT", uid)
    ELSE UNCHANGED inbox
RemoveAccount(t, p, uid) ==
    /\ accounts' = WithoutAccount(uid)
    /\ currentUid' = IF IsSignedIn(p, uid) THEN NoUid ELSE currentUid
    /\ TellsSignedOut(t, p, uid)

\* signOutAccount removes the account even on failure; then
\* clearSessionAndNavigateToSignIn clears the uid and leaves the page.
SignOutAnswered(t, c) ==
    LET k == page[t].calls[c]
        uid == page[t].heap[k.slot].uid
    IN  /\ Answered(t, c, {"signOut"})
        /\ accounts' = WithoutAccount(uid)
        /\ TellsSignedOut(t, page[t], uid)
        /\ currentUid' = NoUid
        /\ page' = [page EXCEPT ![t] = Unloaded("loadingSignin")]
        /\ UNCHANGED server

DestroyAnswered(t, c) ==
    LET k == page[t].calls[c]
        uid == page[t].heap[k.slot].uid
        p == ViewDestroyed(Ended(t, c))
    IN  /\ Answered(t, c, {"destroy"})
        /\ IF k.answer.result = "ok"
           THEN /\ RemoveAccount(t, page[t], uid)
                /\ \E s \in Slots :
                    /\ IsNextSlot(page[t], s)
                    /\ Becomes(t, WithView(WithoutSignedIn(p, s, uid), "signup"))
           ELSE /\ Becomes(t, Ended(t, c))
                /\ UNCHANGED <<storage, inbox>>
        /\ UNCHANGED <<server>>

CheckUidAnswered(t, c) ==
    LET k == page[t].calls[c]
    IN  /\ Answered(t, c, {"checkUid"})
        /\ IF k.answer.result = "invalid"
           THEN /\ RemoveAccount(t, page[t], k.uid)
                /\ \E s \in Slots :
                    /\ IsNextSlot(page[t], s)
                    /\ Becomes(t, WithoutSignedIn(Ended(t, c), s, k.uid))
           ELSE /\ Becomes(t, Ended(t, c))
                /\ UNCHANGED <<storage, inbox>>
        /\ UNCHANGED <<server>>

\* changeAccountPassword: settings are displayed for a verified session, so
\* the new one is verified and is stored without a fetch. (An unverified one,
\* which would be fetched first, takes more steps and sessions than any
\* instance has: the cache of a page on settings must have been emptied by a
\* late checkUid answer and another tab have signed in.)
ChangePasswordAnswered(t, c) ==
    LET k == page[t].calls[c]
        old == page[t].heap[k.slot]
        o == [old EXCEPT !.token = k.answer.token, !.verified = k.answer.verified]
    IN  /\ Answered(t, c, {"changePassword"})
        /\ IF k.answer.result = "ok"
           THEN /\ k.answer.verified
                /\ SetsSignedIn(o)
                /\ Becomes(t, WithCache(WithObject(Ended(t, c), k.slot, o), k.slot))
           ELSE /\ Becomes(t, Ended(t, c))
                /\ UNCHANGED storage
        /\ UNCHANGED <<server, inbox>>

\* Mutant: the account named by SIGNED_IN is stored when it is missing.
HearSignedInStores(t) ==
    LET u == Head(inbox[t]).uid
    IN  /\ inbox[t] # <<>> /\ Head(inbox[t]).command = "SIGNED_IN"
        /\ page[t].view \in {"signin", "signup"}
        /\ accounts' = [accounts EXCEPT ![u] = [token |-> NoToken, verified |-> FALSE]]
        /\ inbox' = [inbox EXCEPT ![t] = Tail(@)]
        /\ UNCHANGED <<currentUid, page, server>>

\* A broadcast is handled by the view displayed when it arrives.  SIGNED_IN
\* leads a signin or signup view to settings; the cache is dropped only when
\* it holds another uid.  SIGNED_OUT leads settings to signin.
HearSignedIn(t) ==
    LET p == page[t]
        u == Head(inbox[t]).uid
        stored == accounts[u] # NotStored
        uid == IF stored THEN u ELSE currentUid
        q == IF stored /\ p.cache # NoSlot /\ p.heap[p.cache].uid # u
             THEN WithCache(p, NoSlot) ELSE p
    IN  /\ inbox[t] # <<>> /\ Head(inbox[t]).command = "SIGNED_IN"
        /\ p.view \in {"signin", "signup"}
        /\ currentUid' = uid
        /\ \E c \in CallIds, s \in Slots :
            /\ IsNextCall(q, c) /\ IsNextSlot(q, s)
            /\ Becomes(t, ShowSettings(q, c, s, accounts, uid))
        /\ accounts' = ShowSettingsStores(q, accounts, uid)
        /\ inbox' = [inbox EXCEPT ![t] = Tail(@)]
        /\ UNCHANGED <<server>>

\* Mutant: a settings page that hears SIGNED_OUT only clears the uid.
HearSignedOutStays(t) ==
    /\ inbox[t] # <<>> /\ Head(inbox[t]).command = "SIGNED_OUT"
    /\ page[t].view \in {"checking", "settings"}
    /\ currentUid' = NoUid
    /\ inbox' = [inbox EXCEPT ![t] = Tail(@)]
    /\ UNCHANGED <<accounts, page, server>>

HearSignedOut(t) ==
    /\ inbox[t] # <<>> /\ Head(inbox[t]).command = "SIGNED_OUT"
    /\ page[t].view \in {"checking", "settings"}
    /\ currentUid' = NoUid
    /\ page' = [page EXCEPT ![t] = Unloaded("loadingSignin")]
    /\ inbox' = [inbox EXCEPT ![t] = <<>>]
    /\ UNCHANGED <<accounts, server>>

Ignore(t) ==
    /\ inbox[t] # <<>>
    /\ page[t].view \notin
        (IF Head(inbox[t]).command = "SIGNED_IN" THEN {"signin", "signup"}
         ELSE {"checking", "settings"})
    /\ inbox' = [inbox EXCEPT ![t] = Tail(@)]
    /\ UNCHANGED <<storage, page, server>>

-----------------------------------------------------------------------------
UserStep(t) ==
    \/ \E u \in Uids : StartSignIn(t, u) \/ StartCheckUid(t, u)
    \/ Focus(t)
    \/ \E kind \in {"signOut", "destroy", "changePassword"} : StartOnSettings(t, kind)
    \/ UseDifferentAccount(t)
    \/ \E v \in Loading : Reload(t, v)

ServerStep(t, c) ==
    \/ ServeSessionCheck(t, c)
    \/ ServeSignIn(t, c)
    \/ ServeCheckUid(t, c)
    \/ ServeSignOut(t, c)
    \/ ServeDestroy(t, c)
    \/ ServeChangePassword(t, c)

AnswerStep(t, c) ==
    \/ SignInAnswered(t, c)
    \/ FetchInAnswered(t, c)
    \/ FetchAnswered(t, c)
    \/ CheckVerified(t, c)
    \/ CheckUnverified(t, c)
    \/ CheckRejected(t, c)
    \/ PollAnswered(t, c)
    \/ StrayPollAnswered(t, c)
    \/ SignOutAnswered(t, c)
    \/ DestroyAnswered(t, c)
    \/ CheckUidAnswered(t, c)
    \/ ChangePasswordAnswered(t, c)
    \/ PollFires(t, c)

LoadStep(t) == LoadSignIn(t) \/ \E u \in Uids \cup {NoUid} : LoadSettings(t, u)

HearStep(t) == HearSignedIn(t) \/ HearSignedOut(t) \/ Ignore(t)

Chosen ==
    \/ \E t \in Tabs : UserStep(t) \/ \E c \in CallIds : Fails(t, c)
    \/ \E k \in Tokens : VerifySession(k) \/ DisconnectSession(k)

Driven ==
    \/ \E t \in Tabs : LoadStep(t) \/ HearStep(t)
    \/ \E t \in Tabs, c \in CallIds : ServerStep(t, c) \/ AnswerStep(t, c)

Next ==
    \/ Chosen /\ steps < MaxSteps /\ steps' = steps + 1
    \/ Driven /\ UNCHANGED steps

Spec == Init /\ [][Next]_vars

\* Event loops run the tasks they have, the server answers what reaches it
\* and pages load; what users, their devices and the network choose is not
\* bound to happen.
Fairness ==
    /\ \A t \in Tabs : /\ WF_vars(LoadStep(t) /\ UNCHANGED steps)
                       /\ WF_vars(HearStep(t) /\ UNCHANGED steps)
    /\ \A t \in Tabs, c \in CallIds : /\ WF_vars(ServerStep(t, c) /\ UNCHANGED steps)
                                      /\ WF_vars(AnswerStep(t, c) /\ UNCHANGED steps)

FairSpec == Spec /\ Fairness

-----------------------------------------------------------------------------
(* Properties.                                                             *)

\* A session token is never paired with another account than the one the
\* server issued it for: not in storage and not in any tab's memory, in
\* whatever order answers set the uid and the token of a shared object.
TokensBelongToTheirAccount ==
    /\ \A u \in Uids : accounts[u] # NotStored /\ accounts[u].token # NoToken
            => sessions[accounts[u].token].uid = u
    /\ \A t \in Tabs, s \in Slots :
            LET o == page[t].heap[s]
            IN  o.token # NoToken => sessions[o.token].uid = o.uid

\* An account stored as verified, which fetch then never asks about again,
\* has a verified session: a late answer about an older session of the same
\* object does not mark a newer, unverified one.
VerifiedNeverAheadOfServer ==
    \A u \in Uids :
        accounts[u] # NotStored /\ accounts[u].token # NoToken /\ accounts[u].verified
            => sessions[accounts[u].token].verified

\* A task of tab t, or a step of its user.
TabStep(t) ==
    UserStep(t) \/ LoadStep(t) \/ HearStep(t) \/ \E c \in CallIds : AnswerStep(t, c)

\* An account removed from storage comes back only by a step of a tab that
\* itself still holds it in memory, or is signing in to it.
Holds(t, u) ==
    \/ \E s \in Slots : page[t].heap[s].uid = u
    \/ \E c \in CallIds : page[t].calls[c].kind = "signIn" /\ page[t].calls[c].uid = u
RestoredOnlyFromMemory ==
    [][\A u \in Uids : accounts[u] = NotStored /\ accounts'[u] # NotStored
            => \E t \in Tabs : TabStep(t) /\ Holds(t, u)]_vars

\* The storage that the tabs share is as if none of them had a memory of its
\* own, whatever objects, answers and broadcasts they write from: AccountStore.
AS == INSTANCE AccountStore
ImplementsAccountStore == AS!Spec

\* Only an account "no longer considered signed in" is stored without its
\* token: no step wipes the token of a session that is alive on the server.
\* (Of one tab: another could store an object that is older than the storage.)
OnlyDeadSessionsAreWiped ==
    [][\A u \in Uids :
        (/\ accounts[u] # NotStored /\ Live(accounts[u].token)
         /\ accounts'[u] # NotStored) => accounts'[u].token # NoToken]_vars

\* A tab on settings that another tab's sign-out reaches leaves settings.
SignedOutIsHeard ==
    \A t \in Tabs :
        (/\ page[t].view \in {"checking", "settings"}
         /\ \E i \in DOMAIN inbox[t] : inbox[t][i].command = "SIGNED_OUT")
            ~> page[t].view \notin {"checking", "settings"}

\* A submitted sign-in comes to an end: its form is never disabled forever,
\* whatever fails between the request and the account being stored.
SignInSettles ==
    \A t \in Tabs :
        ~(Starts(t, "signIn") /\ Starts(t, "fetchIn"))
            ~> (Starts(t, "signIn") /\ Starts(t, "fetchIn"))

\* A confirm view whose session becomes verified goes on, however many of
\* its checks fail, unless the session is ended meanwhile.
AwaitsVerified(t, k) ==
    /\ page[t].view = "confirm" /\ sessions[k].verified
    /\ page[t].cache # NoSlot /\ page[t].heap[page[t].cache].token = k
VerificationIsNoticed ==
    \A t \in Tabs, k \in Tokens :
        AwaitsVerified(t, k) ~> (page[t].view # "confirm" \/ ~sessions[k].live)
=============================================================================
