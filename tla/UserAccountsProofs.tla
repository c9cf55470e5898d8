------------------------- MODULE UserAccountsProofs -------------------------
(***************************************************************************)
(* Theorems about UserAccounts, for any tabs, accounts and bounds: type    *)
(* correctness, then what a removed account is restored from, then that a  *)
(* session token is only ever paired with the account it was issued for    *)
(* and an account said to be verified has a verified session, and last     *)
(* that the tabs together implement AccountStore.                          *)
(***************************************************************************)
EXTENDS UserAccounts, TLAPS

Stored == [Uids -> StoredAccount \cup {NotStored}]

-----------------------------------------------------------------------------
(* What the operators on storage and on a page return.                     *)

LEMMA TokenTypes == /\ NoToken \in Tokens \cup {NoToken}
                    /\ NoSlot \in Slots \cup {NoSlot}
  BY DEF NoToken, NoSlot

LEMMA IdleType == /\ Idle \in Call /\ Blank \in Account /\ NoAnswer \in Answer
  BY DEF Idle, Request, Call, Blank, Account, NoAnswer, Answer, Kinds

LEMMA RequestType ==
  ASSUME NEW kind \in Kinds, NEW slot \in Slots \cup {NoSlot},
         NEW uid \in Uids \cup {NoUid}, NEW sent \in Tokens \cup {NoToken},
         kind \notin {"none", "signIn", "checkUid"} => slot \in Slots
  PROVE  Request(kind, slot, uid, sent) \in Call
  BY IdleType DEF Request, Call

LEMMA PersistedType ==
  ASSUME NEW acc \in Stored, NEW o \in Account
  PROVE  Persisted(acc, o) \in Stored
  BY DEF Persisted, Stored, Account, StoredAccount

LEMMA FromStorageType ==
  ASSUME NEW acc \in Stored, NEW uid \in Uids \cup {NoUid}
  PROVE  FromStorage(acc, uid) \in Account
<1>1. CASE uid = NoUid \/ acc[uid] = NotStored
  BY <1>1, IdleType DEF FromStorage
<1>2. CASE ~(uid = NoUid \/ acc[uid] = NotStored)
  <2>1. acc[uid] \in StoredAccount
    BY <1>2 DEF Stored
  <2>2. QED
    BY <1>2, <2>1 DEF FromStorage, Account, StoredAccount
<1>3. QED
  BY <1>1, <1>2

LEMMA SignedInAccountType ==
  ASSUME NEW p \in Page, NEW acc \in Stored, NEW uid \in Uids \cup {NoUid}
  PROVE  SignedInAccount(p, acc, uid) \in Account
  BY FromStorageType DEF SignedInAccount, Page

LEMMA WithCallType ==
  ASSUME NEW p \in Page, NEW c \in CallIds, NEW call \in Call
  PROVE  WithCall(p, c, call) \in Page
  BY DEF WithCall, Page

LEMMA WithObjectType ==
  ASSUME NEW p \in Page, NEW s \in Slots, NEW o \in Account
  PROVE  WithObject(p, s, o) \in Page
  BY DEF WithObject, Page

LEMMA WithViewType ==
  ASSUME NEW p \in Page, NEW v \in Views
  PROVE  WithView(p, v) \in Page
  BY DEF WithView, Page

LEMMA WithCacheType ==
  ASSUME NEW p \in Page, NEW s \in Slots \cup {NoSlot}
  PROVE  WithCache(p, s) \in Page
  BY DEF WithCache, Page

LEMMA WithSignedInAccountType ==
  ASSUME NEW p \in Page, NEW s \in Slots, NEW acc \in Stored,
         NEW uid \in Uids \cup {NoUid}
  PROVE  /\ WithSignedInAccount(p, s, acc, uid) \in Page
         /\ WithSignedInAccount(p, s, acc, uid).cache \in Slots
  BY FromStorageType DEF WithSignedInAccount, Page

LEMMA AfterStatusType ==
  ASSUME NEW o \in Account, NEW answer \in Answer
  PROVE  AfterStatus(o, answer) \in Account
  BY TokenTypes DEF AfterStatus, Account, Answer

LEMMA ViewDestroyedType ==
  ASSUME NEW p \in Page
  PROVE  ViewDestroyed(p) \in Page
<1>1. ASSUME NEW c \in CallIds
      PROVE  (CASE p.calls[c].kind = "poll"     -> [p.calls[c] EXCEPT !.kind = "strayPoll"]
                [] p.calls[c].kind = "pollWait" -> Idle
                [] p.calls[c].kind = "enter"    -> [p.calls[c] EXCEPT !.kind = "focus"]
                [] OTHER                        -> p.calls[c]) \in Call
  <2>1. p.calls[c] \in Call
    BY DEF Page
  <2>2. QED
    BY <2>1, IdleType DEF Call, Kinds, SessionChecks
<1>2. QED
  BY <1>1 DEF ViewDestroyed, Page

LEMMA UnloadedType ==
  ASSUME NEW v \in Loading
  PROVE  Unloaded(v) \in Page
  BY IdleType, TokenTypes DEF Unloaded, Page, Views

LEMMA SweptType ==
  ASSUME NEW p \in Page
  PROVE  Swept(p) \in Page
  BY IdleType DEF Swept, Page

LEMMA ShowSignInType ==
  ASSUME NEW p \in Page, NEW s \in Slots, NEW acc \in Stored,
         NEW uid \in Uids \cup {NoUid}
  PROVE  ShowSignIn(p, s, acc, uid) \in Page
  BY ViewDestroyedType, WithSignedInAccountType, WithViewType DEF ShowSignIn, Views

LEMMA ShowSettingsType ==
  ASSUME NEW p \in Page, NEW c \in CallIds, NEW s \in Slots, NEW acc \in Stored,
         NEW uid \in Uids \cup {NoUid}
  PROVE  /\ ShowSettings(p, c, s, acc, uid) \in Page
         /\ ShowSettingsStores(p, acc, uid) \in Stored
<1> DEFINE q == WithSignedInAccount(ViewDestroyed(p), s, acc, uid)
           o == SignedInAccount(p, acc, uid)
<1>1. q \in Page /\ q.cache \in Slots
  BY ViewDestroyedType, WithSignedInAccountType
<1>2. o \in Account
  BY SignedInAccountType
<1>3. Request("enter", q.cache, NoUid, o.token) \in Call
  <2>1. o.token \in Tokens \cup {NoToken}
    BY <1>2 DEF Account
  <2>2. QED
    BY <1>1, <2>1, RequestType DEF Kinds, SessionChecks
<1>4. WithView(WithCall(q, c, Request("enter", q.cache, NoUid, o.token)), "checking") \in Page
  BY <1>1, <1>3, WithCallType, WithViewType DEF Views
<1>5. WithView(q, "signin") \in Page
  BY <1>1, WithViewType DEF Views
<1>6. QED
  BY <1>2, <1>4, <1>5, PersistedType DEF ShowSettings, ShowSettingsStores

LEMMA ShowConfirmType ==
  ASSUME NEW p \in Page, NEW c \in CallIds, NEW s \in Slots
  PROVE  ShowConfirm(p, c, s) \in Page
<1>1. ViewDestroyed(p) \in Page
  BY ViewDestroyedType
<1>2. Request("poll", s, NoUid, p.heap[s].token) \in Call
  <2>1. p.heap[s].token \in Tokens \cup {NoToken}
    BY DEF Page, Account
  <2>2. QED
    BY <2>1, RequestType DEF Kinds, SessionChecks
<1>3. QED
  BY <1>1, <1>2, WithCallType, WithViewType DEF ShowConfirm, Views

-----------------------------------------------------------------------------
(* Every action keeps the types of what it changes.                        *)

\* TypeOK without the step budget, which no action changes itself.
Typed ==
    /\ accounts \in Stored
    /\ currentUid \in Uids \cup {NoUid}
    /\ page \in [Tabs -> Page]
    /\ inbox \in [Tabs -> Seq(Message)]
    /\ sessions \in [Tokens -> Session]
    /\ registered \in SUBSET Uids

LEMMA BecomesType ==
  ASSUME page \in [Tabs -> Page], NEW t \in Tabs, NEW p \in Page, Becomes(t, p)
  PROVE  page' \in [Tabs -> Page]
  BY SweptType DEF Becomes

LEMMA BroadcastType ==
  ASSUME inbox \in [Tabs -> Seq(Message)], NEW t \in Tabs,
         NEW command \in {"SIGNED_IN", "SIGNED_OUT"}, NEW uid \in Uids \cup {NoUid},
         Broadcast(t, command, uid)
  PROVE  inbox' \in [Tabs -> Seq(Message)]
<1>1. [command |-> command, uid |-> uid] \in Message
  BY DEF Message
<1>2. ASSUME NEW o \in Tabs
      PROVE  Append(inbox[o], [command |-> command, uid |-> uid]) \in Seq(Message)
  BY <1>1
<1>3. QED
  BY <1>2 DEF Broadcast

LEMMA TailType ==
  ASSUME inbox \in [Tabs -> Seq(Message)], NEW t \in Tabs, inbox[t] # <<>>
  PROVE  /\ [inbox EXCEPT ![t] = Tail(@)] \in [Tabs -> Seq(Message)]
         /\ Head(inbox[t]) \in Message
  OBVIOUS

LEMMA CallFields ==
  ASSUME Typed, NEW t \in Tabs, NEW c \in CallIds
  PROVE  /\ page[t] \in Page
         /\ page[t].calls[c] \in Call
         /\ page[t].calls[c].uid \in Uids \cup {NoUid}
         /\ page[t].calls[c].sent \in Tokens \cup {NoToken}
         /\ page[t].calls[c].slot \in Slots \cup {NoSlot}
         /\ page[t].calls[c].answer \in Answer
         /\ page[t].calls[c].answer.token \in Tokens \cup {NoToken}
         /\ page[t].calls[c].answer.verified \in BOOLEAN
         /\ page[t].calls[c].kind \notin {"none", "signIn", "checkUid"}
                => page[t].calls[c].slot \in Slots
  BY DEF Typed, Page, Call, Answer

LEMMA AnswerCallType ==
  ASSUME Typed, NEW t \in Tabs, NEW c \in CallIds,
         NEW result \in {"none", "ok", "invalid", "failed"},
         NEW token \in Tokens \cup {NoToken}, NEW verified \in BOOLEAN,
         AnswerCall(t, c, result, token, verified)
  PROVE  page' \in [Tabs -> Page]
<1>1. [result |-> result, token |-> token, verified |-> verified] \in Answer
  BY DEF Answer
<1>2. [page[t].calls[c] EXCEPT !.answer =
          [result |-> result, token |-> token, verified |-> verified]] \in Call
  BY <1>1, CallFields DEF Call
<1>3. QED
  BY <1>2, CallFields, WithCallType DEF AnswerCall, Typed

LEMMA HeldObject ==
  ASSUME Typed, NEW t \in Tabs, NEW c \in CallIds,
         page[t].calls[c].kind \notin {"none", "signIn", "checkUid"}
  PROVE  /\ page[t].calls[c].slot \in Slots
         /\ page[t].heap[page[t].calls[c].slot] \in Account
         /\ AfterStatus(page[t].heap[page[t].calls[c].slot], page[t].calls[c].answer)
                \in Account
  BY CallFields, AfterStatusType DEF Page

LEMMA EndedType ==
  ASSUME Typed, NEW t \in Tabs, NEW c \in CallIds
  PROVE  Ended(t, c) \in Page
  BY CallFields, IdleType, WithCallType DEF Ended

LEMMA StartSignInType ==
  ASSUME Typed, NEW t \in Tabs, NEW u \in Uids, StartSignIn(t, u)
  PROVE  Typed'
<1>1. PICK c \in CallIds :
         Becomes(t, WithCall(page[t], c, Request("signIn", NoSlot, u, NoToken)))
  BY DEF StartSignIn
<1>2. WithCall(page[t], c, Request("signIn", NoSlot, u, NoToken)) \in Page
  BY CallFields, TokenTypes, RequestType, WithCallType DEF Kinds
<1>3. page' \in [Tabs -> Page]
  BY <1>1, <1>2, BecomesType DEF Typed
<1>4. QED
  BY <1>3 DEF StartSignIn, Typed, storage, server

LEMMA StartCheckUidType ==
  ASSUME Typed, NEW t \in Tabs, NEW u \in Uids, StartCheckUid(t, u)
  PROVE  Typed'
<1>1. PICK c \in CallIds :
         Becomes(t, WithCall(page[t], c, Request("checkUid", NoSlot, u, NoToken)))
  BY DEF StartCheckUid
<1>2. WithCall(page[t], c, Request("checkUid", NoSlot, u, NoToken)) \in Page
  BY CallFields, TokenTypes, RequestType, WithCallType DEF Kinds
<1>3. page' \in [Tabs -> Page]
  BY <1>1, <1>2, BecomesType DEF Typed
<1>4. QED
  BY <1>3 DEF StartCheckUid, Typed, storage, server

LEMMA FocusType ==
  ASSUME Typed, NEW t \in Tabs, Focus(t)
  PROVE  Typed'
<1>1. PICK c \in CallIds, s \in Slots :
        LET q == WithSignedInAccount(page[t], s, accounts, currentUid)
            o == q.heap[q.cache]
        IN  IF o.token = NoToken
            THEN /\ Becomes(t, ShowSignIn(page[t], s, accounts, currentUid))
                 /\ accounts' = Persisted(accounts, o)
            ELSE /\ Becomes(t, WithCall(q, c, Request("focus", q.cache, NoUid, o.token)))
                 /\ UNCHANGED accounts
  BY DEF Focus
<1> DEFINE q == WithSignedInAccount(page[t], s, accounts, currentUid)
           o == q.heap[q.cache]
<1>2. q \in Page /\ q.cache \in Slots /\ page[t] \in Page
  BY WithSignedInAccountType DEF Typed
<1>3. o \in Account /\ o.token \in Tokens \cup {NoToken}
  BY <1>2 DEF Page, Account
<1>4. WithCall(q, c, Request("focus", q.cache, NoUid, o.token)) \in Page
  BY <1>2, <1>3, RequestType, WithCallType DEF Kinds, SessionChecks
<1>5. ShowSignIn(page[t], s, accounts, currentUid) \in Page
  BY <1>2, ShowSignInType DEF Typed
<1>6. Persisted(accounts, o) \in Stored
  BY <1>3, PersistedType DEF Typed
<1>7. page' \in [Tabs -> Page] /\ accounts' \in Stored
  BY <1>1, <1>4, <1>5, <1>6, BecomesType DEF Typed
<1>8. QED
  BY <1>7 DEF Focus, Typed, server

LEMMA StartOnSettingsType ==
  ASSUME Typed, NEW t \in Tabs, NEW kind \in {"signOut", "destroy", "changePassword"},
         StartOnSettings(t, kind)
  PROVE  Typed'
<1>1. PICK c \in CallIds, s \in Slots :
        LET q == WithSignedInAccount(page[t], s, accounts, currentUid)
            o == q.heap[q.cache]
        IN  Becomes(t, WithCall(q, c, Request(kind, q.cache, o.uid, o.token)))
  BY DEF StartOnSettings
<1> DEFINE q == WithSignedInAccount(page[t], s, accounts, currentUid)
           o == q.heap[q.cache]
<1>2. q \in Page /\ q.cache \in Slots
  BY WithSignedInAccountType DEF Typed
<1>3. o.uid \in Uids \cup {NoUid} /\ o.token \in Tokens \cup {NoToken}
  BY <1>2 DEF Page, Account
<1>4. WithCall(q, c, Request(kind, q.cache, o.uid, o.token)) \in Page
  BY <1>2, <1>3, RequestType, WithCallType DEF Kinds
<1>5. page' \in [Tabs -> Page]
  BY <1>1, <1>4, BecomesType DEF Typed
<1>6. QED
  BY <1>5 DEF StartOnSettings, Typed, storage, server

LEMMA UseDifferentAccountType ==
  ASSUME Typed, NEW t \in Tabs, UseDifferentAccount(t)
  PROVE  Typed'
<1>1. PICK s \in Slots :
         Becomes(t, WithObject(WithCache(page[t], s), s, Blank))
  BY DEF UseDifferentAccount
<1>2. WithObject(WithCache(page[t], s), s, Blank) \in Page
  BY WithCacheType, WithObjectType, IdleType DEF Typed
<1>3. page' \in [Tabs -> Page]
  BY <1>1, <1>2, BecomesType DEF Typed
<1>4. accounts' \in Stored
  BY DEF UseDifferentAccount, Stored
<1>5. QED
  BY <1>3, <1>4 DEF UseDifferentAccount, Typed, server

LEMMA PollFiresType ==
  ASSUME Typed, NEW t \in Tabs, NEW c \in CallIds, PollFires(t, c)
  PROVE  Typed'
<1> DEFINE k == page[t].calls[c]
           token == page[t].heap[k.slot].token
           next == IF token = NoToken THEN Idle ELSE Request("poll", k.slot, NoUid, token)
<1>1. k.slot \in Slots /\ token \in Tokens \cup {NoToken}
  BY HeldObject DEF PollFires, Account
<1>2. next \in Call
  BY <1>1, IdleType, RequestType DEF Kinds, SessionChecks
<1>3. WithCall(page[t], c, next) \in Page
  BY <1>2, WithCallType DEF Typed
<1>4. page' \in [Tabs -> Page]
  BY <1>3, BecomesType DEF PollFires, Typed
<1>5. QED
  BY <1>4 DEF PollFires, Typed, storage, server

LEMMA ReloadType ==
  ASSUME Typed, NEW t \in Tabs, NEW v \in Loading, Reload(t, v)
  PROVE  Typed'
  BY UnloadedType DEF Reload, Typed, storage, server

LEMMA LoadSignInType ==
  ASSUME Typed, NEW t \in Tabs, LoadSignIn(t)
  PROVE  Typed'
<1>1. PICK s \in Slots : Becomes(t, ShowSignIn(page[t], s, accounts, currentUid))
  BY DEF LoadSignIn
<1>2. page' \in [Tabs -> Page]
  BY <1>1, ShowSignInType, BecomesType DEF Typed
<1>3. QED
  BY <1>2 DEF LoadSignIn, Typed, storage, server

LEMMA LoadSettingsType ==
  ASSUME Typed, NEW t \in Tabs, NEW u \in Uids \cup {NoUid}, LoadSettings(t, u)
  PROVE  Typed'
<1> DEFINE known == u # NoUid /\ accounts[u] # NotStored
           forced == u # NoUid /\ ~known
           uid == IF known THEN u ELSE IF forced THEN NoUid ELSE currentUid
<1>1. uid \in Uids \cup {NoUid}
  BY DEF Typed
<1>2. PICK c \in CallIds, s \in Slots :
         Becomes(t, ShowSettings(page[t], c, s, accounts, uid))
  BY DEF LoadSettings
<1>3. /\ ShowSettings(page[t], c, s, accounts, uid) \in Page
      /\ ShowSettingsStores(page[t], accounts, uid) \in Stored
  BY <1>1, ShowSettingsType DEF Typed
<1>4. page' \in [Tabs -> Page] /\ accounts' \in Stored /\ currentUid' \in Uids \cup {NoUid}
  BY <1>1, <1>2, <1>3, BecomesType DEF LoadSettings, Typed
<1>5. inbox' \in [Tabs -> Seq(Message)]
  <2>1. FromStorage(accounts, currentUid).uid \in Uids \cup {NoUid}
    BY FromStorageType DEF Typed, Account
  <2>2. CASE forced
    BY <2>1, <2>2, BroadcastType DEF LoadSettings, Typed
  <2>3. CASE ~forced
    BY <2>3 DEF LoadSettings, Typed
  <2>4. QED
    BY <2>2, <2>3
<1>6. QED
  BY <1>4, <1>5 DEF LoadSettings, Typed, server

LEMMA ServerTypes ==
  ASSUME Typed, NEW t \in Tabs, NEW c \in CallIds, ServerStep(t, c)
  PROVE  Typed'
<1> USE DEF storage, server
<1>1. CASE ServeSessionCheck(t, c)
  <2>1. page[t].calls[c].sent \in Tokens \/ ~Live(page[t].calls[c].sent)
    BY CallFields DEF Live
  <2>2. ASSUME Live(page[t].calls[c].sent)
        PROVE  sessions[page[t].calls[c].sent].verified \in BOOLEAN
    BY <2>1, <2>2 DEF Typed, Session
  <2>3. page' \in [Tabs -> Page]
    BY <1>1, <2>2, AnswerCallType, TokenTypes DEF ServeSessionCheck
  <2>4. QED
    BY <1>1, <2>3 DEF ServeSessionCheck, Typed
<1>2. CASE ServeSignIn(t, c)
  <2> DEFINE u == page[t].calls[c].uid
  <2>1. ASSUME u \in registered, NEW k \in Tokens, NEW verified \in BOOLEAN,
               sessions' = [sessions EXCEPT
                   ![k] = [uid |-> u, verified |-> verified, live |-> TRUE]],
               AnswerCall(t, c, "ok", k, verified)
        PROVE  Typed'
    <3>1. page' \in [Tabs -> Page]
      BY <2>1, AnswerCallType
    <3>2. sessions' \in [Tokens -> Session]
      BY <2>1, CallFields DEF Typed, Session
    <3>3. QED
      BY <1>2, <3>1, <3>2 DEF ServeSignIn, Typed
  <2>2. ASSUME AnswerCall(t, c, "failed", NoToken, FALSE), UNCHANGED sessions
        PROVE  Typed'
    <3>1. page' \in [Tabs -> Page]
      BY <2>2, AnswerCallType, TokenTypes
    <3>2. QED
      BY <1>2, <2>2, <3>1 DEF ServeSignIn, Typed
  <2>3. QED
    BY <1>2, <2>1, <2>2 DEF ServeSignIn
<1>3. CASE ServeCheckUid(t, c)
  <2>1. page' \in [Tabs -> Page]
    BY <1>3, AnswerCallType, TokenTypes DEF ServeCheckUid
  <2>2. QED
    BY <1>3, <2>1 DEF ServeCheckUid, Typed
<1>4. CASE ServeSignOut(t, c)
  <2>1. page' \in [Tabs -> Page]
    BY <1>4, AnswerCallType, TokenTypes DEF ServeSignOut
  <2>2. sessions' \in [Tokens -> Session]
    BY <1>4 DEF ServeSignOut, Typed, Session
  <2>3. QED
    BY <1>4, <2>1, <2>2 DEF ServeSignOut, Typed
<1>5. CASE ServeDestroy(t, c)
  <2>1. page' \in [Tabs -> Page]
    BY <1>5, AnswerCallType, TokenTypes DEF ServeDestroy
  <2>2. sessions' \in [Tokens -> Session]
    BY <1>5 DEF ServeDestroy, Typed, Session
  <2>3. registered' \in SUBSET Uids
    BY <1>5 DEF ServeDestroy, Typed
  <2>4. QED
    BY <1>5, <2>1, <2>2, <2>3 DEF ServeDestroy, Typed
<1>6. CASE ServeChangePassword(t, c)
  <2> DEFINE sent == page[t].calls[c].sent
  <2>1. ASSUME Live(sent), NEW k \in Tokens,
               sessions' = [j \in Tokens |->
                   IF j = k THEN sessions[sent]
                   ELSE [sessions[j] EXCEPT
                           !.live = @ /\ sessions[j].uid # sessions[sent].uid]],
               AnswerCall(t, c, "ok", k, sessions[sent].verified)
        PROVE  Typed'
    <3>1. sent \in Tokens /\ sessions[sent] \in Session
      BY <2>1, CallFields DEF Live, Typed
    <3>2. page' \in [Tabs -> Page]
      BY <2>1, <3>1, AnswerCallType DEF Session
    <3>3. sessions' \in [Tokens -> Session]
      BY <2>1, <3>1 DEF Typed, Session
    <3>4. QED
      BY <1>6, <3>2, <3>3 DEF ServeChangePassword, Typed
  <2>2. ASSUME AnswerCall(t, c, "failed", NoToken, FALSE), UNCHANGED sessions
        PROVE  Typed'
    <3>1. page' \in [Tabs -> Page]
      BY <2>2, AnswerCallType, TokenTypes
    <3>2. QED
      BY <1>6, <2>2, <3>1 DEF ServeChangePassword, Typed
  <2>3. QED
    BY <1>6, <2>1, <2>2 DEF ServeChangePassword
<1>7. QED
  BY <1>1, <1>2, <1>3, <1>4, <1>5, <1>6 DEF ServerStep

LEMMA NetworkTypes ==
  ASSUME Typed
  PROVE  /\ \A t \in Tabs, c \in CallIds : Fails(t, c) => Typed'
         /\ \A k \in Tokens : VerifySession(k) \/ DisconnectSession(k) => Typed'
<1>1. ASSUME NEW t \in Tabs, NEW c \in CallIds, Fails(t, c)
      PROVE  Typed'
  <2>1. page' \in [Tabs -> Page]
    BY <1>1, AnswerCallType, TokenTypes DEF Fails
  <2>2. QED
    BY <1>1, <2>1 DEF Fails, Typed, storage, server
<1>2. ASSUME NEW k \in Tokens, VerifySession(k) \/ DisconnectSession(k)
      PROVE  Typed'
  <2>1. sessions' \in [Tokens -> Session]
    BY <1>2 DEF VerifySession, DisconnectSession, Typed, Session
  <2>2. QED
    BY <1>2, <2>1 DEF VerifySession, DisconnectSession, Typed, storage
<1>3. QED
  BY <1>1, <1>2

LEMMA SignInAnsweredType ==
  ASSUME Typed, NEW t \in Tabs, NEW c \in CallIds, SignInAnswered(t, c)
  PROVE  Typed'
<1> DEFINE k == page[t].calls[c]
           o == [uid |-> k.uid, token |-> k.answer.token, verified |-> k.answer.verified]
<1>1. Ended(t, c) \in Page /\ o \in Account
  BY EndedType, CallFields DEF Account
<1>2. CASE k.answer.result = "ok"
  <2>1. PICK s \in Slots :
          /\ Broadcast(t, "SIGNED_IN", k.uid)
          /\ LET p == WithObject(Ended(t, c), s, o)
             IN  IF o.verified
                 THEN /\ SetsSignedIn(o)
                      /\ Becomes(t, ShowSettings(WithCache(p, s), c, s,
                                                 accounts', currentUid'))
                 ELSE /\ Becomes(t, WithCall(p, c, Request("fetchIn", s, NoUid, o.token)))
                      /\ UNCHANGED storage
    BY <1>2 DEF SignInAnswered
  <2> DEFINE p == WithObject(Ended(t, c), s, o)
  <2>2. p \in Page /\ WithCache(p, s) \in Page
    BY <1>1, WithObjectType, WithCacheType
  <2>3. accounts' \in Stored /\ currentUid' \in Uids \cup {NoUid}
    BY <1>1, <2>1, PersistedType DEF SetsSignedIn, Typed, Account, storage
  <2>4. WithCall(p, c, Request("fetchIn", s, NoUid, o.token)) \in Page
    <3>1. Request("fetchIn", s, NoUid, o.token) \in Call
      BY <1>1, RequestType DEF Kinds, SessionChecks, Account
    <3>2. QED
      BY <2>2, <3>1, WithCallType
  <2>5. ShowSettings(WithCache(p, s), c, s, accounts', currentUid') \in Page
    BY <2>2, <2>3, ShowSettingsType
  <2>6. page' \in [Tabs -> Page]
    BY <2>1, <2>4, <2>5, BecomesType DEF Typed
  <2>7. inbox' \in [Tabs -> Seq(Message)]
    BY <2>1, CallFields, BroadcastType DEF Typed
  <2>8. QED
    BY <2>3, <2>6, <2>7 DEF SignInAnswered, Typed, server
<1>3. CASE k.answer.result # "ok"
  <2>1. page' \in [Tabs -> Page]
    BY <1>1, <1>3, BecomesType DEF SignInAnswered, Typed
  <2>2. QED
    BY <1>3, <2>1 DEF SignInAnswered, Typed, storage, server
<1>4. QED
  BY <1>2, <1>3

LEMMA FetchInAnsweredType ==
  ASSUME Typed, NEW t \in Tabs, NEW c \in CallIds, FetchInAnswered(t, c)
  PROVE  Typed'
<1> DEFINE k == page[t].calls[c]
           o == AfterStatus(page[t].heap[k.slot], k.answer)
           p == WithCache(WithObject(Ended(t, c), k.slot, o), k.slot)
<1>1. k.slot \in Slots /\ o \in Account
  BY HeldObject DEF FetchInAnswered, Answered
<1>2. p \in Page
  BY <1>1, EndedType, WithObjectType, WithCacheType
<1>3. accounts' \in Stored /\ currentUid' \in Uids \cup {NoUid}
  BY <1>1, PersistedType DEF FetchInAnswered, SetsSignedIn, Typed, Account
<1>4. /\ ShowSettings(p, c, k.slot, accounts', currentUid') \in Page
      /\ ShowConfirm(p, c, k.slot) \in Page
  BY <1>1, <1>2, <1>3, ShowSettingsType, ShowConfirmType
<1>5. page' \in [Tabs -> Page]
  BY <1>4, BecomesType DEF FetchInAnswered, Typed
<1>6. QED
  BY <1>3, <1>5 DEF FetchInAnswered, Typed, server

LEMMA FetchAnsweredType ==
  ASSUME Typed, NEW t \in Tabs, NEW c \in CallIds, FetchAnswered(t, c)
  PROVE  Typed'
<1> DEFINE k == page[t].calls[c]
           o == AfterStatus(page[t].heap[k.slot], k.answer)
<1>1. k.slot \in Slots /\ o \in Account
  BY HeldObject DEF FetchAnswered, Answered
<1>2. WithObject(Ended(t, c), k.slot, o) \in Page
  BY <1>1, EndedType, WithObjectType
<1>3. page' \in [Tabs -> Page] /\ accounts' \in Stored
  BY <1>1, <1>2, BecomesType, PersistedType DEF FetchAnswered, Typed
<1>4. QED
  BY <1>3 DEF FetchAnswered, Typed, server

LEMMA CheckTypes ==
  ASSUME Typed, NEW t \in Tabs, NEW c \in CallIds,
         CheckVerified(t, c) \/ CheckUnverified(t, c) \/ CheckRejected(t, c)
  PROVE  Typed'
<1> DEFINE k == page[t].calls[c]
           o == AfterStatus(page[t].heap[k.slot], k.answer)
           p == WithObject(Ended(t, c), k.slot, o)
<1>1. k.slot \in Slots /\ o \in Account
  BY HeldObject DEF CheckVerified, CheckUnverified, CheckRejected, Answered
<1>2. p \in Page /\ Ended(t, c) \in Page
  BY <1>1, EndedType, WithObjectType
<1>3. Persisted(accounts, o) \in Stored
  BY <1>1, PersistedType DEF Typed
<1>4. CASE CheckVerified(t, c)
  <2>1. (IF k.kind = "enter" THEN WithView(p, "settings") ELSE p) \in Page
    BY <1>2, WithViewType DEF Views
  <2>2. page' \in [Tabs -> Page]
    BY <1>4, <2>1, BecomesType DEF CheckVerified, Typed
  <2>3. QED
    BY <1>3, <1>4, <2>2 DEF CheckVerified, Typed, server
<1>5. CASE CheckUnverified(t, c)
  <2>1. CASE o.token = NoToken
    <3>1. page' \in [Tabs -> Page]
      BY <1>1, <1>2, <1>5, <2>1, ShowConfirmType, BecomesType DEF CheckUnverified, Typed
    <3>2. QED
      BY <1>3, <1>5, <2>1, <3>1 DEF CheckUnverified, Typed, server
  <2>2. CASE o.token # NoToken
    <3> DEFINE r == WithCall(p, c, Request("fetch", k.slot, NoUid, o.token))
    <3>1. PICK d \in CallIds : Becomes(t, ShowConfirm(r, d, k.slot))
      BY <1>5, <2>2 DEF CheckUnverified
    <3>2. Request("fetch", k.slot, NoUid, o.token) \in Call
      BY <1>1, RequestType DEF Kinds, SessionChecks, Account
    <3>3. ShowConfirm(r, d, k.slot) \in Page
      BY <1>1, <1>2, <3>2, WithCallType, ShowConfirmType
    <3>4. page' \in [Tabs -> Page]
      BY <3>1, <3>3, BecomesType DEF Typed
    <3>5. QED
      BY <1>5, <2>2, <3>4 DEF CheckUnverified, Typed, server
  <2>3. QED
    BY <2>1, <2>2
<1>6. CASE CheckRejected(t, c)
  <2>1. CASE k.answer.result = "invalid"
    <3>1. PICK s \in Slots : Becomes(t, ShowSignIn(p, s, accounts', currentUid))
      BY <1>6, <2>1 DEF CheckRejected
    <3>2. accounts' \in Stored
      BY <1>3, <1>6, <2>1 DEF CheckRejected
    <3>3. ShowSignIn(p, s, accounts', currentUid) \in Page
      BY <1>2, <3>2, ShowSignInType DEF Typed
    <3>4. page' \in [Tabs -> Page]
      BY <3>1, <3>3, BecomesType DEF Typed
    <3>5. QED
      BY <1>6, <3>2, <3>4 DEF CheckRejected, Typed, server
  <2>2. CASE k.answer.result # "invalid"
    <3>1. page' \in [Tabs -> Page]
      BY <1>2, <1>6, <2>2, BecomesType DEF CheckRejected, Typed
    <3>2. QED
      BY <1>6, <2>2, <3>1 DEF CheckRejected, Typed, server
  <2>3. QED
    BY <2>1, <2>2
<1>7. QED
  BY <1>4, <1>5, <1>6

LEMMA PollTypes ==
  ASSUME Typed, NEW t \in Tabs, NEW c \in CallIds,
         PollAnswered(t, c) \/ StrayPollAnswered(t, c)
  PROVE  Typed'
<1> DEFINE k == page[t].calls[c]
           o == AfterStatus(page[t].heap[k.slot], k.answer)
           p == WithObject(Ended(t, c), k.slot, o)
           acc == Persisted(accounts, o)
           waiting == WithCall(p, c, Request("pollWait", k.slot, NoUid, NoToken))
<1>1. k.slot \in Slots /\ o \in Account
  BY HeldObject DEF PollAnswered, StrayPollAnswered, Answered
<1>2. p \in Page /\ acc \in Stored
  BY <1>1, EndedType, WithObjectType, PersistedType DEF Typed
<1>3. CASE PollAnswered(t, c)
  <2>1. CASE k.answer.result = "ok" /\ k.answer.verified
    <3>1. PICK s \in Slots : Becomes(t, ShowSettings(p, c, s, acc, currentUid))
      BY <1>3, <2>1 DEF PollAnswered
    <3>2. /\ ShowSettings(p, c, s, acc, currentUid) \in Page
          /\ ShowSettingsStores(p, acc, currentUid) \in Stored
      BY <1>2, ShowSettingsType DEF Typed
    <3>3. page' \in [Tabs -> Page]
      BY <3>1, <3>2, BecomesType DEF Typed
    <3>4. QED
      BY <1>3, <2>1, <3>2, <3>3 DEF PollAnswered, Typed, server
  <2>2. CASE ~(k.answer.result = "ok" /\ k.answer.verified)
    <3>1. Request("pollWait", k.slot, NoUid, NoToken) \in Call
      BY <1>1, RequestType, TokenTypes DEF Kinds
    <3>2. waiting \in Page
      BY <1>2, <3>1, WithCallType
    <3>3. page' \in [Tabs -> Page]
      BY <1>2, <1>3, <2>2, <3>2, BecomesType DEF PollAnswered, Typed
    <3>4. QED
      BY <1>3, <2>2, <3>3 DEF PollAnswered, Typed, server
  <2>3. QED
    BY <2>1, <2>2
<1>4. CASE StrayPollAnswered(t, c)
  <2>1. page' \in [Tabs -> Page]
    BY <1>2, <1>4, BecomesType DEF StrayPollAnswered, Typed
  <2>2. QED
    BY <1>4, <2>1 DEF StrayPollAnswered, Typed, storage, server
<1>5. QED
  BY <1>3, <1>4

LEMMA RemovalTypes ==
  ASSUME Typed, NEW t \in Tabs, NEW p, NEW uid \in Uids \cup {NoUid}
  PROVE  /\ WithoutAccount(uid) \in Stored
         /\ TellsSignedOut(t, p, uid) => inbox' \in [Tabs -> Seq(Message)]
<1>1. WithoutAccount(uid) \in Stored
  BY DEF WithoutAccount, Stored, Typed
<1>2. TellsSignedOut(t, p, uid) => inbox' \in [Tabs -> Seq(Message)]
  BY BroadcastType DEF TellsSignedOut, Typed
<1>3. QED
  BY <1>1, <1>2

LEMMA SignOutAnsweredType ==
  ASSUME Typed, NEW t \in Tabs, NEW c \in CallIds, SignOutAnswered(t, c)
  PROVE  Typed'
<1> DEFINE k == page[t].calls[c]
           uid == page[t].heap[k.slot].uid
<1>1. uid \in Uids \cup {NoUid}
  BY HeldObject DEF SignOutAnswered, Answered, Account
<1>2. accounts' \in Stored /\ inbox' \in [Tabs -> Seq(Message)]
  BY <1>1, RemovalTypes DEF SignOutAnswered
<1>3. page' \in [Tabs -> Page]
  BY UnloadedType DEF SignOutAnswered, Typed, Loading
<1>4. QED
  BY <1>2, <1>3 DEF SignOutAnswered, Typed, server

LEMMA WithoutSignedInType ==
  ASSUME Typed, NEW p \in Page, NEW s \in Slots, NEW uid
  PROVE  WithoutSignedIn(p, s, uid) \in Page
  BY WithCacheType, WithSignedInAccountType, TokenTypes DEF WithoutSignedIn, Typed

LEMMA RemoveAnsweredTypes ==
  ASSUME Typed, NEW t \in Tabs, NEW c \in CallIds,
         DestroyAnswered(t, c) \/ CheckUidAnswered(t, c)
  PROVE  Typed'
<1> DEFINE k == page[t].calls[c]
<1>1. /\ Ended(t, c) \in Page
      /\ ViewDestroyed(Ended(t, c)) \in Page
  BY EndedType, ViewDestroyedType
<1>2. ASSUME NEW uid \in Uids \cup {NoUid}, RemoveAccount(t, page[t], uid)
      PROVE  /\ accounts' \in Stored
             /\ currentUid' \in Uids \cup {NoUid}
             /\ inbox' \in [Tabs -> Seq(Message)]
  BY <1>2, RemovalTypes DEF RemoveAccount, Typed
<1>3. CASE DestroyAnswered(t, c)
  <2> DEFINE uid == page[t].heap[k.slot].uid
             p == ViewDestroyed(Ended(t, c))
  <2>1. uid \in Uids \cup {NoUid}
    BY <1>3, HeldObject DEF DestroyAnswered, Answered, Account
  <2>2. \A s \in Slots : WithView(WithoutSignedIn(p, s, uid), "signup") \in Page
    BY <1>1, WithoutSignedInType, WithViewType DEF Views
  <2>3. page' \in [Tabs -> Page]
    BY <1>1, <1>3, <2>2, BecomesType DEF DestroyAnswered, Typed
  <2>4. CASE k.answer.result = "ok"
    BY <1>2, <1>3, <2>1, <2>3, <2>4 DEF DestroyAnswered, Typed, server
  <2>5. CASE k.answer.result # "ok"
    BY <1>3, <2>3, <2>5 DEF DestroyAnswered, Typed, server, storage
  <2>6. QED
    BY <2>4, <2>5
<1>4. CASE CheckUidAnswered(t, c)
  <2>1. page' \in [Tabs -> Page]
    BY <1>1, <1>4, WithoutSignedInType, BecomesType DEF CheckUidAnswered, Typed
  <2>2. CASE k.answer.result = "invalid"
    BY <1>2, <1>4, <2>1, <2>2, CallFields DEF CheckUidAnswered, Typed, server
  <2>3. CASE k.answer.result # "invalid"
    BY <1>4, <2>1, <2>3 DEF CheckUidAnswered, Typed, server, storage
  <2>4. QED
    BY <2>2, <2>3
<1>5. QED
  BY <1>3, <1>4

LEMMA ChangePasswordAnsweredType ==
  ASSUME Typed, NEW t \in Tabs, NEW c \in CallIds, ChangePasswordAnswered(t, c)
  PROVE  Typed'
<1> DEFINE k == page[t].calls[c]
           old == page[t].heap[k.slot]
           o == [old EXCEPT !.token = k.answer.token, !.verified = k.answer.verified]
<1>1. k.slot \in Slots /\ old \in Account
  BY HeldObject DEF ChangePasswordAnswered, Answered
<1>2. o \in Account
  BY <1>1, CallFields DEF Account
<1>3. /\ Ended(t, c) \in Page
      /\ WithCache(WithObject(Ended(t, c), k.slot, o), k.slot) \in Page
  BY <1>1, <1>2, EndedType, WithObjectType, WithCacheType
<1>4. page' \in [Tabs -> Page]
  BY <1>3, BecomesType DEF ChangePasswordAnswered, Typed
<1>5. accounts' \in Stored /\ currentUid' \in Uids \cup {NoUid}
  BY <1>2, PersistedType DEF ChangePasswordAnswered, SetsSignedIn, Typed, Account, storage
<1>6. QED
  BY <1>4, <1>5 DEF ChangePasswordAnswered, Typed, server

LEMMA HearTypes ==
  ASSUME Typed, NEW t \in Tabs, HearStep(t)
  PROVE  Typed'
<1>1. CASE HearSignedIn(t)
  <2> DEFINE p == page[t]
             u == Head(inbox[t]).uid
             stored == accounts[u] # NotStored
             uid == IF stored THEN u ELSE currentUid
             q == IF stored /\ p.cache # NoSlot /\ p.heap[p.cache].uid # u
                  THEN WithCache(p, NoSlot) ELSE p
  <2>1. u \in Uids \cup {NoUid} /\ uid \in Uids \cup {NoUid}
    BY <1>1, TailType DEF HearSignedIn, Typed, Message
  <2>2. q \in Page
    BY WithCacheType, TokenTypes DEF Typed
  <2>3. PICK c \in CallIds, s \in Slots : Becomes(t, ShowSettings(q, c, s, accounts, uid))
    BY <1>1 DEF HearSignedIn
  <2>4. /\ ShowSettings(q, c, s, accounts, uid) \in Page
        /\ ShowSettingsStores(q, accounts, uid) \in Stored
    BY <2>1, <2>2, ShowSettingsType DEF Typed
  <2>5. page' \in [Tabs -> Page]
    BY <2>3, <2>4, BecomesType DEF Typed
  <2>6. inbox' \in [Tabs -> Seq(Message)]
    BY <1>1, TailType DEF HearSignedIn, Typed
  <2>7. QED
    BY <1>1, <2>1, <2>4, <2>5, <2>6 DEF HearSignedIn, Typed, server
<1>2. CASE HearSignedOut(t)
  <2>1. page' \in [Tabs -> Page]
    BY <1>2, UnloadedType DEF HearSignedOut, Typed, Loading
  <2>2. QED
    BY <1>2, <2>1 DEF HearSignedOut, Typed, server
<1>3. CASE Ignore(t)
  BY <1>3, TailType DEF Ignore, Typed, storage, server
<1>4. QED
  BY <1>1, <1>2, <1>3 DEF HearStep

LEMMA AnswerTypes ==
  ASSUME Typed, NEW t \in Tabs, NEW c \in CallIds, AnswerStep(t, c)
  PROVE  Typed'
  BY SignInAnsweredType, FetchInAnsweredType, FetchAnsweredType, CheckTypes, PollTypes,
     SignOutAnsweredType, RemoveAnsweredTypes, ChangePasswordAnsweredType, PollFiresType
  DEF AnswerStep

LEMMA UserTypes ==
  ASSUME Typed, NEW t \in Tabs, UserStep(t)
  PROVE  Typed'
  BY StartSignInType, StartCheckUidType, FocusType, StartOnSettingsType,
     UseDifferentAccountType, ReloadType
  DEF UserStep

LEMMA LoadTypes ==
  ASSUME Typed, NEW t \in Tabs, LoadStep(t)
  PROVE  Typed'
  BY LoadSignInType, LoadSettingsType DEF LoadStep

LEMMA TypeStep ==
  ASSUME TypeOK, [Next]_vars
  PROVE  TypeOK'
<1> USE UserAccountsAssumption
<1>1. Typed
  BY DEF TypeOK, Typed, Stored
<1>2. CASE Chosen /\ steps < MaxSteps /\ steps' = steps + 1
  <2>1. Typed'
    BY <1>1, <1>2, UserTypes, NetworkTypes DEF Chosen
  <2>2. steps' \in 0..MaxSteps
    BY <1>2 DEF TypeOK
  <2>3. QED
    BY <2>1, <2>2 DEF TypeOK, Typed, Stored
<1>3. CASE Driven /\ UNCHANGED steps
  <2>1. Typed'
    BY <1>1, <1>3, LoadTypes, HearTypes, ServerTypes, AnswerTypes DEF Driven
  <2>2. QED
    BY <1>3, <2>1 DEF TypeOK, Typed, Stored
<1>4. CASE UNCHANGED vars
  BY <1>4 DEF TypeOK, vars
<1>5. QED
  BY <1>2, <1>3, <1>4 DEF Next

LEMMA TypeInit == Init => TypeOK
<1> SUFFICES ASSUME Init PROVE TypeOK
  OBVIOUS
<1>1. page \in [Tabs -> Page]
  BY UnloadedType DEF Init, Loading
<1>2. accounts \in [Uids -> StoredAccount \cup {NotStored}]
  BY DEF Init
<1>3. inbox \in [Tabs -> Seq(Message)]
  <2>1. <<>> \in Seq(Message)
    OBVIOUS
  <2>2. QED
    BY <2>1 DEF Init
<1>4. sessions \in [Tokens -> Session]
  BY DEF Init, Session
<1>5. steps \in 0..MaxSteps
  BY UserAccountsAssumption DEF Init
<1>6. QED
  BY <1>1, <1>2, <1>3, <1>4, <1>5 DEF Init, TypeOK

-----------------------------------------------------------------------------
\* Storage, pages, broadcasts and sessions keep their shape whatever users,
\* tabs, server and network do: in particular a call in flight that updates
\* an Account object always has an object to update.
THEOREM TypeCorrect == Spec => []TypeOK
<1>1. TypeOK /\ [Next]_vars => TypeOK'
  BY TypeStep
<1>2. QED
  BY <1>1, TypeInit, PTL DEF Spec

-----------------------------------------------------------------------------
(* What stores an account that storage does not have.                      *)

Restores(acc, acc2, u) == acc[u] = NotStored /\ acc2[u] # NotStored

\* The object in slot s of p is of account u.
HasObject(p, u) == \E s \in Slots : p.heap[s].uid = u

LEMMA PersistedRestores ==
  ASSUME NEW acc \in Stored, NEW o \in Account, NEW u \in Uids,
         Restores(acc, Persisted(acc, o), u)
  PROVE  o.uid = u
  BY DEF Restores, Persisted, Stored

\* An account that is read from storage is stored there already.
LEMMA SignedInRestores ==
  ASSUME NEW p \in Page, NEW acc \in Stored, NEW uid \in Uids \cup {NoUid}, NEW u \in Uids,
         Restores(acc, Persisted(acc, SignedInAccount(p, acc, uid)), u)
  PROVE  HasObject(p, u)
<1>1. SignedInAccount(p, acc, uid).uid = u /\ acc[u] = NotStored
  BY SignedInAccountType, PersistedRestores DEF Restores
<1>2. CASE p.cache = NoSlot
  <2>1. FromStorage(acc, uid).uid = u
    BY <1>1, <1>2 DEF SignedInAccount
  <2>2. CASE uid = NoUid \/ acc[uid] = NotStored
    BY <2>1, <2>2, UserAccountsAssumption DEF FromStorage, Blank
  <2>3. CASE ~(uid = NoUid \/ acc[uid] = NotStored)
    BY <1>1, <2>1, <2>3 DEF FromStorage
  <2>4. QED
    BY <2>2, <2>3
<1>3. CASE p.cache # NoSlot
  BY <1>1, <1>3 DEF SignedInAccount, HasObject, Page
<1>4. QED
  BY <1>2, <1>3

LEMMA SettingsRestore ==
  ASSUME NEW p \in Page, NEW acc \in Stored, NEW uid \in Uids \cup {NoUid}, NEW u \in Uids,
         Restores(acc, ShowSettingsStores(p, acc, uid), u)
  PROVE  HasObject(p, u)
  BY SignedInRestores DEF ShowSettingsStores, Restores

\* The answer to a check leaves every object its account.
LEMMA HeldUids ==
  ASSUME Typed, NEW t \in Tabs, NEW c \in CallIds,
         page[t].calls[c].kind \notin {"none", "signIn", "checkUid"}
  PROVE  LET k == page[t].calls[c]
             old == page[t].heap[k.slot]
             o == AfterStatus(old, k.answer)
             p == WithObject(Ended(t, c), k.slot, o)
         IN  /\ k.slot \in Slots /\ o \in Account /\ o.uid = old.uid
             /\ p \in Page
             /\ \A u \in Uids : HasObject(p, u) => HasObject(page[t], u)
<1> DEFINE k == page[t].calls[c]
           old == page[t].heap[k.slot]
           o == AfterStatus(old, k.answer)
           p == WithObject(Ended(t, c), k.slot, o)
<1>1. k.slot \in Slots /\ old \in Account /\ o \in Account
  BY HeldObject
<1>2. o.uid = old.uid
  BY <1>1 DEF AfterStatus, Account
<1>3. Ended(t, c) \in Page /\ Ended(t, c).heap = page[t].heap /\ page[t] \in Page
  BY EndedType, CallFields DEF Ended, WithCall, Page
<1>4. p \in Page
  BY <1>1, <1>3, WithObjectType
<1>5. ASSUME NEW s \in Slots PROVE p.heap[s].uid = page[t].heap[s].uid
  BY <1>1, <1>2, <1>3 DEF WithObject, Page
<1>6. QED
  BY <1>1, <1>2, <1>4, <1>5 DEF HasObject

LEMMA PageRestores ==
  ASSUME Typed, NEW t \in Tabs, NEW u \in Uids, Restores(accounts, accounts', u),
         Focus(t) \/ LoadStep(t) \/ HearStep(t)
  PROVE  HasObject(page[t], u)
<1>1. page[t] \in Page /\ accounts \in Stored /\ currentUid \in Uids \cup {NoUid}
  BY DEF Typed
<1>2. CASE Focus(t)
  <2>1. PICK s \in Slots :
          LET q == WithSignedInAccount(page[t], s, accounts, currentUid)
          IN  accounts' = Persisted(accounts, q.heap[q.cache]) \/ accounts' = accounts
    BY <1>2 DEF Focus
  <2> DEFINE q == WithSignedInAccount(page[t], s, accounts, currentUid)
  <2>2. q.heap[q.cache] = SignedInAccount(page[t], accounts, currentUid)
    BY <1>1 DEF WithSignedInAccount, SignedInAccount, Page
  <2>3. QED
    BY <1>1, <2>1, <2>2, SignedInRestores DEF Restores
<1>3. CASE LoadStep(t)
  <2>1. PICK uid \in Uids \cup {NoUid} :
          accounts' = ShowSettingsStores(page[t], accounts, uid) \/ accounts' = accounts
    BY <1>1, <1>3 DEF LoadStep, LoadSignIn, LoadSettings, storage
  <2>2. QED
    BY <1>1, <2>1, SettingsRestore DEF Restores
<1>4. CASE HearStep(t)
  <2>1. CASE HearSignedIn(t)
    <3> DEFINE v == Head(inbox[t]).uid
               stored == accounts[v] # NotStored
               uid == IF stored THEN v ELSE currentUid
               q == IF stored /\ page[t].cache # NoSlot /\ page[t].heap[page[t].cache].uid # v
                    THEN WithCache(page[t], NoSlot) ELSE page[t]
    <3>1. uid \in Uids \cup {NoUid}
      BY <1>1, <2>1, TailType DEF HearSignedIn, Typed, Message
    <3>2. q \in Page /\ q.heap = page[t].heap
      BY <1>1, WithCacheType, TokenTypes DEF WithCache, Page
    <3>3. accounts' = ShowSettingsStores(q, accounts, uid)
      BY <2>1 DEF HearSignedIn
    <3>4. QED
      BY <1>1, <3>1, <3>2, <3>3, SettingsRestore DEF HasObject
  <2>2. CASE HearSignedOut(t) \/ Ignore(t)
    BY <2>2 DEF HearSignedOut, Ignore, storage, Restores
  <2>3. QED
    BY <1>4, <2>1, <2>2 DEF HearStep
<1>5. QED
  BY <1>2, <1>3, <1>4

LEMMA AnswerRestores ==
  ASSUME Typed, NEW t \in Tabs, NEW c \in CallIds, NEW u \in Uids,
         Restores(accounts, accounts', u), AnswerStep(t, c)
  PROVE  Holds(t, u)
<1> DEFINE k == page[t].calls[c]
           old == page[t].heap[k.slot]
           o == AfterStatus(old, k.answer)
           p == WithObject(Ended(t, c), k.slot, o)
<1>1. accounts \in Stored /\ currentUid \in Uids \cup {NoUid}
  BY DEF Typed
<1>2. HasObject(page[t], u) => Holds(t, u)
  BY DEF HasObject, Holds
<1>3. ASSUME k.kind \in SessionChecks,
             accounts' = Persisted(accounts, o)
      PROVE  HasObject(page[t], u)
  <2>1. k.slot \in Slots /\ o \in Account /\ o.uid = old.uid
    BY <1>3, HeldUids DEF SessionChecks
  <2>2. QED
    BY <1>1, <1>3, <2>1, PersistedRestores DEF HasObject
<1>4. CASE SignInAnswered(t, c)
  <2> DEFINE n == [uid |-> k.uid, token |-> k.answer.token, verified |-> k.answer.verified]
  <2>1. accounts' = Persisted(accounts, n)
    BY <1>4 DEF SignInAnswered, SetsSignedIn, Restores, storage
  <2>2. n \in Account
    BY CallFields DEF Account
  <2>3. k.uid = u
    BY <1>1, <2>1, <2>2, PersistedRestores
  <2>4. QED
    BY <1>4, <2>3 DEF Holds, SignInAnswered, Answered
<1>5. CASE FetchInAnswered(t, c) \/ FetchAnswered(t, c) \/ CheckVerified(t, c)
  <2>1. k.kind \in SessionChecks /\ accounts' = Persisted(accounts, o)
    BY <1>5 DEF FetchInAnswered, FetchAnswered, CheckVerified, SetsSignedIn, Answered,
                SessionChecks
  <2>2. QED
    BY <1>2, <1>3, <2>1
<1>6. CASE CheckUnverified(t, c) \/ CheckRejected(t, c)
  <2>1. k.kind \in SessionChecks /\ accounts' \in {accounts, Persisted(accounts, o)}
    BY <1>6 DEF CheckUnverified, CheckRejected, Answered, SessionChecks
  <2>2. QED
    BY <1>2, <1>3, <2>1 DEF Restores
<1>7. CASE PollAnswered(t, c)
  <2> DEFINE acc == Persisted(accounts, o)
  <2>1. k.kind = "poll" /\ accounts' = ShowSettingsStores(p, acc, currentUid)
    BY <1>7 DEF PollAnswered, Answered, Restores
  <2>2. /\ k.slot \in Slots /\ o \in Account /\ o.uid = old.uid /\ p \in Page
        /\ HasObject(p, u) => HasObject(page[t], u)
    BY <2>1, HeldUids
  <2>3. acc \in Stored
    BY <1>1, <2>2, PersistedType
  <2>4. CASE acc[u] = NotStored
    BY <1>1, <1>2, <2>1, <2>2, <2>3, <2>4, SettingsRestore DEF Restores
  <2>5. CASE acc[u] # NotStored
    BY <1>1, <1>2, <2>2, <2>5, PersistedRestores DEF Restores, HasObject
  <2>6. QED
    BY <2>4, <2>5
<1>8. CASE ChangePasswordAnswered(t, c)
  <2> DEFINE n == [old EXCEPT !.token = k.answer.token, !.verified = k.answer.verified]
  <2>1. accounts' = Persisted(accounts, n)
    BY <1>8 DEF ChangePasswordAnswered, SetsSignedIn, Restores, storage
  <2>2. k.slot \in Slots /\ old \in Account
    BY <1>8, HeldObject DEF ChangePasswordAnswered, Answered
  <2>3. n \in Account /\ n.uid = old.uid
    BY <2>2, CallFields DEF Account
  <2>4. QED
    BY <1>1, <1>2, <2>1, <2>2, <2>3, PersistedRestores DEF HasObject
<1>9. CASE StrayPollAnswered(t, c) \/ PollFires(t, c)
  BY <1>9 DEF StrayPollAnswered, PollFires, Restores, storage
<1>10. CASE SignOutAnswered(t, c) \/ DestroyAnswered(t, c) \/ CheckUidAnswered(t, c)
  <2>1. \A uid : accounts' = WithoutAccount(uid) => accounts'[u] \in {NotStored, accounts[u]}
    BY DEF WithoutAccount
  <2>2. QED
    BY <1>10, <2>1
    DEF SignOutAnswered, DestroyAnswered, CheckUidAnswered, RemoveAccount, Restores, storage
<1>11. QED
  BY <1>4, <1>5, <1>6, <1>7, <1>8, <1>9, <1>10 DEF AnswerStep

LEMMA RestoresStep ==
  ASSUME TypeOK, [Next]_vars, NEW u \in Uids, Restores(accounts, accounts', u)
  PROVE  \E t \in Tabs : TabStep(t) /\ Holds(t, u)
<1>1. Typed
  BY DEF TypeOK, Typed, Stored
<1>2. ASSUME NEW t \in Tabs, Focus(t) \/ LoadStep(t) \/ HearStep(t)
      PROVE  TabStep(t) /\ Holds(t, u)
  <2>1. Holds(t, u)
    BY <1>1, <1>2, PageRestores DEF HasObject, Holds
  <2>2. QED
    BY <1>2, <2>1 DEF TabStep, UserStep
<1>3. ASSUME NEW t \in Tabs, UserStep(t), ~Focus(t)
      PROVE  FALSE
  BY <1>3 DEF UserStep, StartSignIn, StartCheckUid, StartOnSettings, UseDifferentAccount,
              Reload, Restores, storage
<1>4. \A t \in Tabs, c \in CallIds : ~Fails(t, c) /\ ~ServerStep(t, c)
  BY DEF Fails, ServerStep, ServeSessionCheck, ServeSignIn, ServeCheckUid, ServeSignOut,
         ServeDestroy, ServeChangePassword, Restores, storage
<1>5. \A k \in Tokens : ~VerifySession(k) /\ ~DisconnectSession(k)
  BY DEF VerifySession, DisconnectSession, Restores, storage
<1>6. ~UNCHANGED vars
  BY DEF vars, Restores
<1>7. CASE Chosen
  BY <1>2, <1>3, <1>4, <1>5, <1>7 DEF Chosen
<1>8. ASSUME NEW t \in Tabs, NEW c \in CallIds, AnswerStep(t, c)
      PROVE  TabStep(t) /\ Holds(t, u)
  BY <1>1, <1>8, AnswerRestores DEF TabStep
<1>9. CASE Driven
  BY <1>2, <1>4, <1>8, <1>9 DEF Driven
<1>10. QED
  BY <1>6, <1>7, <1>9 DEF Next

\* Whichever of render, focus, broadcasts and late answers stores an account
\* that is not stored, the tab it happens in had it in memory or was signing in
\* to it.
THEOREM OnlyFromMemory == Spec => RestoredOnlyFromMemory
<1>1. TypeOK /\ [Next]_vars =>
        [\A u \in Uids : accounts[u] = NotStored /\ accounts'[u] # NotStored
            => \E t \in Tabs : TabStep(t) /\ Holds(t, u)]_vars
  BY RestoresStep DEF Restores
<1>2. QED
  BY <1>1, TypeCorrect, PTL DEF Spec, RestoredOnlyFromMemory

-----------------------------------------------------------------------------
(* The inductive invariant.  S stands for the server's sessions.  Besides  *)
(* storage and the Account objects it follows tokens through answers: to a *)
(* sign-in, the token of the uid that signs in; to a password change, the  *)
(* token of the uid of the object that is going to hold it, which is the   *)
(* uid the request was made for.                                           *)
(*                                                                         *)
(* The verified flag of an object is set by the answer to a check, which   *)
(* may be about an older token than the object holds by then.  It is true  *)
(* of the newer one because a token is replaced only by a password change, *)
(* which ends the older sessions and is as verified as they were: a check  *)
(* of the same object was answered before, or finds its session ended.     *)

Owned(S, token, uid) == token # NoToken => uid \in Uids /\ S[token].uid = uid

Vouched(S, token) == token # NoToken => S[token].verified

Over(S, token) == token # NoToken => ~S[token].live

ObjectOwned(S, o) ==
    /\ Owned(S, o.token, o.uid)
    /\ o.verified => Vouched(S, o.token)

StorageOwned(S, acc) ==
    \A u \in Uids : acc[u] # NotStored =>
        /\ Owned(S, acc[u].token, u)
        /\ acc[u].verified => Vouched(S, acc[u].token)

SignInOwned(S, k) ==
    k.answer.result = "ok" =>
        /\ Owned(S, k.answer.token, k.uid)
        /\ k.answer.verified => Vouched(S, k.answer.token)

CheckOwned(S, o, k) ==
    /\ Owned(S, k.sent, o.uid)
    /\ k.answer.result = "none" => o.token \in {k.sent, NoToken} \/ Over(S, k.sent)
    /\ k.answer.result = "ok" /\ k.answer.verified => Vouched(S, o.token)

ChangeOwned(S, o, k) ==
    /\ o.uid = k.uid
    /\ Owned(S, k.sent, k.uid)
    /\ k.answer.result = "ok" =>
        /\ Owned(S, k.answer.token, k.uid)
        /\ k.answer.verified => Vouched(S, k.answer.token)
        /\ Over(S, o.token)

CallOwned(S, heap, k) ==
    /\ k.kind = "signIn" => SignInOwned(S, k)
    /\ k.kind \in SessionChecks => CheckOwned(S, heap[k.slot], k)
    /\ k.kind = "changePassword" => ChangeOwned(S, heap[k.slot], k)

\* A page has one password change in flight; once it is served, the sessions
\* that checks of its object ask about have ended.
ChangesOwned(S, calls) ==
    \A c, d \in CallIds : calls[d].kind = "changePassword" =>
        /\ calls[c].kind = "changePassword" => c = d
        /\ (/\ calls[d].answer.result = "ok"
            /\ calls[c].kind \in SessionChecks /\ calls[c].slot = calls[d].slot)
                => Over(S, calls[c].sent)

PageOwned(S, p) ==
    /\ \A s \in Slots : ObjectOwned(S, p.heap[s])
    /\ \A c \in CallIds : CallOwned(S, p.heap, p.calls[c])
    /\ ChangesOwned(S, p.calls)

Ownership ==
    /\ StorageOwned(sessions, accounts)
    /\ \A t \in Tabs : PageOwned(sessions, page[t])

-----------------------------------------------------------------------------
(* The operators on storage and on a page respect ownership.               *)

\* No call in flight holds slot s, so an object may be put there.
Free(p, s) == s \in Slots /\ \A c \in CallIds : p.calls[c].slot # s

\* Kinds of calls whose answer sets no token and no flag of an object.
Harmless == Kinds \ (SessionChecks \cup {"signIn", "changePassword"})

LEMMA HarmlessOwned ==
  ASSUME NEW S, NEW heap, NEW kind \in Harmless, NEW slot, NEW uid, NEW sent
  PROVE  /\ CallOwned(S, heap, Request(kind, slot, uid, sent))
         /\ CallOwned(S, heap, Idle)
  BY DEF CallOwned, Request, Idle, Harmless, SessionChecks

LEMMA BlankOwned ==
  ASSUME NEW S
  PROVE  ObjectOwned(S, Blank)
  BY DEF ObjectOwned, Owned, Vouched, Blank

LEMMA PersistedOwned ==
  ASSUME NEW S, NEW acc \in Stored, NEW o \in Account,
         StorageOwned(S, acc), ObjectOwned(S, o)
  PROVE  StorageOwned(S, Persisted(acc, o))
  BY DEF StorageOwned, ObjectOwned, Owned, Vouched, Persisted, Stored, Account

LEMMA FromStorageOwned ==
  ASSUME NEW S, NEW acc \in Stored, NEW uid \in Uids \cup {NoUid}, StorageOwned(S, acc)
  PROVE  ObjectOwned(S, FromStorage(acc, uid))
  BY BlankOwned DEF StorageOwned, ObjectOwned, Owned, Vouched, FromStorage

LEMMA AfterStatusOwned ==
  ASSUME NEW S, NEW o \in Account, NEW answer \in Answer, ObjectOwned(S, o),
         answer.result = "ok" /\ answer.verified => Vouched(S, o.token)
  PROVE  /\ ObjectOwned(S, AfterStatus(o, answer))
         /\ AfterStatus(o, answer).uid = o.uid
         /\ AfterStatus(o, answer).token \in {o.token, NoToken}
  BY DEF ObjectOwned, Owned, Vouched, AfterStatus, Account

LEMMA WithCallOwned ==
  ASSUME NEW S, NEW p \in Page, NEW c \in CallIds, NEW call \in Call,
         PageOwned(S, p), CallOwned(S, p.heap, call),
         ChangesOwned(S, [p.calls EXCEPT ![c] = call])
  PROVE  PageOwned(S, WithCall(p, c, call))
  BY DEF PageOwned, WithCall, Page

LEMMA WithHarmlessOwned ==
  ASSUME NEW S, NEW p \in Page, NEW c \in CallIds, NEW call \in Call,
         PageOwned(S, p), call.kind \in Harmless \/ call.kind = "signIn",
         CallOwned(S, p.heap, call)
  PROVE  PageOwned(S, WithCall(p, c, call))
<1> DEFINE calls == [p.calls EXCEPT ![c] = call]
<1>1. \A d \in CallIds : calls[d] = IF d = c THEN call ELSE p.calls[d]
  BY DEF Page
<1>2. call.kind # "changePassword" /\ call.kind \notin SessionChecks
  BY DEF Harmless, SessionChecks
<1>3. ChangesOwned(S, calls)
  BY <1>1, <1>2 DEF PageOwned, ChangesOwned
<1>4. QED
  BY <1>3, WithCallOwned

\* A check asks about the token that its object holds.
LEMMA WithCheckOwned ==
  ASSUME NEW S, NEW p \in Page, NEW c \in CallIds, NEW kind \in SessionChecks,
         NEW slot \in Slots, PageOwned(S, p)
  PROVE  LET call == Request(kind, slot, NoUid, p.heap[slot].token)
         IN  /\ call \in Call
             /\ WithCall(p, c, call) \in Page
             /\ PageOwned(S, WithCall(p, c, call))
<1> DEFINE call == Request(kind, slot, NoUid, p.heap[slot].token)
           calls == [p.calls EXCEPT ![c] = call]
<1>1. /\ kind \in Kinds /\ kind \notin {"none", "signIn", "checkUid", "changePassword"}
      /\ NoUid \in Uids \cup {NoUid}
      /\ p.heap[slot].token \in Tokens \cup {NoToken}
  BY DEF Kinds, SessionChecks, Page, Account
<1>2. call \in Call
  BY <1>1, RequestType
<1>3. /\ call.kind = kind /\ call.slot = slot /\ call.sent = p.heap[slot].token
      /\ call.answer.result = "none"
  BY DEF Request, NoAnswer
<1>4. CallOwned(S, p.heap, call)
  BY <1>1, <1>3 DEF CallOwned, CheckOwned, PageOwned, ObjectOwned
<1>5. \A d \in CallIds : calls[d] = IF d = c THEN call ELSE p.calls[d]
  BY DEF Page
<1>6. ASSUME NEW d \in CallIds, p.calls[d].kind = "changePassword",
             p.calls[d].answer.result = "ok", p.calls[d].slot = slot
      PROVE  Over(S, p.heap[slot].token)
  BY <1>6 DEF PageOwned, CallOwned, ChangeOwned
<1>7. ChangesOwned(S, calls)
  BY <1>1, <1>3, <1>5, <1>6 DEF PageOwned, ChangesOwned
<1>8. QED
  BY <1>2, <1>4, <1>7, WithCallType, WithCallOwned

\* The object of slot s may get a new token: its password change has ended,
\* and checks in flight ask about sessions that have ended too.
Renewable(S, p, s) ==
    \A c \in CallIds : p.calls[c].slot = s =>
        /\ p.calls[c].kind # "changePassword"
        /\ p.calls[c].kind \in SessionChecks => Over(S, p.calls[c].sent)

LEMMA WithObjectOwned ==
  ASSUME NEW S, NEW p \in Page, NEW s \in Slots, NEW o \in Account,
         PageOwned(S, p), ObjectOwned(S, o),
         \/ Free(p, s)
         \/ /\ o.uid = p.heap[s].uid
            /\ \/ o.token \in {p.heap[s].token, NoToken}
               \/ Renewable(S, p, s) /\ Vouched(S, o.token)
  PROVE  PageOwned(S, WithObject(p, s, o))
<1> DEFINE h == [p.heap EXCEPT ![s] = o]
<1>1. /\ WithObject(p, s, o).heap = h
      /\ WithObject(p, s, o).calls = p.calls
  BY DEF WithObject, Page
<1>2. ASSUME NEW r \in Slots PROVE ObjectOwned(S, h[r])
  BY DEF PageOwned, Page
<1>3. ASSUME NEW c \in CallIds PROVE CallOwned(S, h, p.calls[c])
  <2> DEFINE k == p.calls[c]
  <2>1. CallOwned(S, p.heap, k) /\ k \in Call
    BY DEF PageOwned, Page
  <2>2. CASE k.slot # s
    <3>1. h[k.slot] = p.heap[k.slot] \/ k.slot \notin Slots
      BY <2>2 DEF Page
    <3>2. k.kind \in SessionChecks \cup {"changePassword"} => k.slot \in Slots
      BY <2>1 DEF Call, SessionChecks
    <3>3. QED
      BY <2>1, <3>1, <3>2 DEF CallOwned
  <2>3. CASE k.slot = s
    <3>1. h[k.slot] = o
      BY <2>3 DEF Page
    <3>2. ~Free(p, s)
      BY <2>3 DEF Free
    <3>3. CASE o.token \in {p.heap[s].token, NoToken}
      BY <2>1, <2>3, <3>1, <3>2, <3>3
      DEF CallOwned, CheckOwned, ChangeOwned, Vouched, Over
    <3>4. CASE Renewable(S, p, s) /\ Vouched(S, o.token)
      BY <2>1, <2>3, <3>1, <3>2, <3>4 DEF CallOwned, CheckOwned, Renewable
    <3>5. QED
      BY <3>2, <3>3, <3>4
  <2>4. QED
    BY <2>2, <2>3
<1>4. QED
  BY <1>1, <1>2, <1>3 DEF PageOwned

LEMMA WithViewOwned ==
  ASSUME NEW S, NEW p \in Page, NEW v \in Views, PageOwned(S, p)
  PROVE  PageOwned(S, WithView(p, v))
  BY DEF PageOwned, WithView, Page

LEMMA WithCacheOwned ==
  ASSUME NEW S, NEW p \in Page, NEW s \in Slots \cup {NoSlot}, PageOwned(S, p)
  PROVE  PageOwned(S, WithCache(p, s))
  BY DEF PageOwned, WithCache, Page

LEMMA WithSignedInAccountOwned ==
  ASSUME NEW S, NEW p \in Page, NEW s \in Slots, NEW acc \in Stored,
         NEW uid \in Uids \cup {NoUid},
         PageOwned(S, p), StorageOwned(S, acc), p.cache = NoSlot => Free(p, s)
  PROVE  LET q == WithSignedInAccount(p, s, acc, uid)
         IN  /\ PageOwned(S, q)
             /\ q.heap[q.cache] = SignedInAccount(p, acc, uid)
<1>1. CASE p.cache # NoSlot
  BY <1>1 DEF WithSignedInAccount, SignedInAccount
<1>2. CASE p.cache = NoSlot
  <2> DEFINE o == FromStorage(acc, uid)
             h == [p.heap EXCEPT ![s] = o]
             q == [p EXCEPT !.cache = s, !.heap = h]
  <2>1. ObjectOwned(S, o)
    BY FromStorageOwned
  <2>2. q.heap = h /\ q.calls = p.calls
    BY DEF Page
  <2>3. ASSUME NEW r \in Slots PROVE ObjectOwned(S, h[r])
    BY <2>1 DEF PageOwned, Page
  <2>4. ASSUME NEW c \in CallIds PROVE CallOwned(S, h, p.calls[c])
    <3>1. p.calls[c].slot # s /\ p.calls[c] \in Call
      BY <1>2 DEF Free, Page
    <3>2. p.calls[c].kind \in SessionChecks \cup {"changePassword"}
            => p.calls[c].slot \in Slots
      BY <3>1 DEF Call, SessionChecks
    <3>3. QED
      BY <3>1, <3>2 DEF PageOwned, CallOwned, Page
  <2>5. WithSignedInAccount(p, s, acc, uid) = q
    BY <1>2 DEF WithSignedInAccount
  <2>6. q.heap[q.cache] = SignedInAccount(p, acc, uid)
    BY <1>2 DEF SignedInAccount, Page
  <2>7. QED
    BY <2>2, <2>3, <2>4, <2>5, <2>6 DEF PageOwned
<1>3. QED
  BY <1>1, <1>2

LEMMA ViewDestroyedOwned ==
  ASSUME NEW S, NEW p \in Page
  PROVE  /\ PageOwned(S, p) => PageOwned(S, ViewDestroyed(p))
         /\ ViewDestroyed(p).heap = p.heap
         /\ ViewDestroyed(p).cache = p.cache
         /\ \A s \in Slots : Free(p, s) => Free(ViewDestroyed(p), s)
<1> DEFINE q == ViewDestroyed(p)
<1>1. q.heap = p.heap /\ q.cache = p.cache
  BY DEF ViewDestroyed, Page
<1>2. ASSUME NEW c \in CallIds
      PROVE  /\ CallOwned(S, p.heap, p.calls[c]) => CallOwned(S, p.heap, q.calls[c])
             /\ q.calls[c].slot \in {p.calls[c].slot, NoSlot}
             /\ q.calls[c].kind = "changePassword" => q.calls[c] = p.calls[c]
             /\ q.calls[c].kind \in SessionChecks =>
                    /\ p.calls[c].kind \in SessionChecks
                    /\ q.calls[c].slot = p.calls[c].slot
                    /\ q.calls[c].sent = p.calls[c].sent
  <2>1. p.calls[c] \in Call
    BY DEF Page
  <2>2. q.calls[c] =
          CASE p.calls[c].kind = "poll"     -> [p.calls[c] EXCEPT !.kind = "strayPoll"]
            [] p.calls[c].kind = "pollWait" -> Idle
            [] p.calls[c].kind = "enter"    -> [p.calls[c] EXCEPT !.kind = "focus"]
            [] OTHER                        -> p.calls[c]
    BY DEF ViewDestroyed, Page
  <2>3. QED
    BY <2>1, <2>2 DEF CallOwned, CheckOwned, Idle, Request, Call, SessionChecks
<1>3. NoSlot \notin Slots
  BY DEF NoSlot, Slots
<1>4. ChangesOwned(S, p.calls) => ChangesOwned(S, q.calls)
  BY <1>2 DEF ChangesOwned
<1>5. QED
  BY <1>1, <1>2, <1>3, <1>4 DEF PageOwned, Free

LEMMA SweptOwned ==
  ASSUME NEW S, NEW p \in Page, PageOwned(S, p)
  PROVE  PageOwned(S, Swept(p))
<1> DEFINE h == [s \in Slots |-> IF s \in InUse(p) THEN p.heap[s] ELSE Blank]
<1>1. Swept(p).heap = h /\ Swept(p).calls = p.calls
  BY DEF Swept, Page
<1>2. ASSUME NEW s \in Slots PROVE ObjectOwned(S, h[s])
  BY BlankOwned DEF PageOwned
<1>3. ASSUME NEW c \in CallIds PROVE CallOwned(S, h, p.calls[c])
  <2>1. p.calls[c] \in Call /\ p.calls[c].slot \in InUse(p)
    BY DEF Page, InUse
  <2>2. p.calls[c].kind \in SessionChecks \cup {"changePassword"} =>
          h[p.calls[c].slot] = p.heap[p.calls[c].slot]
    BY <2>1 DEF Call, SessionChecks
  <2>3. QED
    BY <2>2 DEF PageOwned, CallOwned
<1>4. QED
  BY <1>1, <1>2, <1>3 DEF PageOwned

LEMMA NextSlotIsFree ==
  ASSUME NEW p \in Page, NEW s \in Slots, IsNextSlot(p, s)
  PROVE  Free(p, s)
  BY DEF IsNextSlot, InUse, Free

LEMMA ShowSignInOwned ==
  ASSUME NEW S, NEW p \in Page, NEW s \in Slots, NEW acc \in Stored,
         NEW uid \in Uids \cup {NoUid},
         PageOwned(S, p), StorageOwned(S, acc), p.cache = NoSlot => Free(p, s)
  PROVE  PageOwned(S, ShowSignIn(p, s, acc, uid))
<1> DEFINE q == WithSignedInAccount(ViewDestroyed(p), s, acc, uid)
<1>1. PageOwned(S, q) /\ q \in Page
  BY ViewDestroyedOwned, ViewDestroyedType, WithSignedInAccountOwned,
     WithSignedInAccountType
<1>2. QED
  BY <1>1, WithViewOwned DEF ShowSignIn, Views

LEMMA SignedInAccountOwned ==
  ASSUME NEW S, NEW p \in Page, NEW acc \in Stored, NEW uid \in Uids \cup {NoUid},
         PageOwned(S, p), StorageOwned(S, acc)
  PROVE  ObjectOwned(S, SignedInAccount(p, acc, uid))
  BY FromStorageOwned DEF SignedInAccount, PageOwned, Page

LEMMA ShowSettingsOwned ==
  ASSUME NEW S, NEW p \in Page, NEW c \in CallIds, NEW s \in Slots, NEW acc \in Stored,
         NEW uid \in Uids \cup {NoUid},
         PageOwned(S, p), StorageOwned(S, acc), p.cache = NoSlot => Free(p, s)
  PROVE  /\ PageOwned(S, ShowSettings(p, c, s, acc, uid))
         /\ StorageOwned(S, ShowSettingsStores(p, acc, uid))
<1> DEFINE q == WithSignedInAccount(ViewDestroyed(p), s, acc, uid)
           o == SignedInAccount(p, acc, uid)
           k == Request("enter", q.cache, NoUid, o.token)
<1>1. /\ q \in Page /\ q.cache \in Slots /\ PageOwned(S, q)
      /\ q.heap[q.cache] = SignedInAccount(ViewDestroyed(p), acc, uid)
  <2> DEFINE d == ViewDestroyed(p)
  <2>1. d \in Page /\ PageOwned(S, d) /\ (d.cache = NoSlot => Free(d, s))
    BY ViewDestroyedOwned, ViewDestroyedType
  <2> HIDE DEF d
  <2>2. /\ WithSignedInAccount(d, s, acc, uid) \in Page
        /\ WithSignedInAccount(d, s, acc, uid).cache \in Slots
    BY <2>1, WithSignedInAccountType
  <2>3. LET r == WithSignedInAccount(d, s, acc, uid)
        IN  PageOwned(S, r) /\ r.heap[r.cache] = SignedInAccount(d, acc, uid)
    BY <2>1, WithSignedInAccountOwned
  <2>4. QED
    BY <2>2, <2>3 DEF d
<1>2. o \in Account /\ ObjectOwned(S, o)
  BY SignedInAccountType, SignedInAccountOwned
<1>3. q.heap[q.cache] = o
  BY <1>1, ViewDestroyedOwned DEF SignedInAccount
<1>4. /\ WithCall(q, c, k) \in Page
      /\ PageOwned(S, WithCall(q, c, k))
  BY <1>1, <1>3, WithCheckOwned DEF SessionChecks
<1>5. /\ PageOwned(S, WithView(q, "signin"))
      /\ PageOwned(S, WithView(WithCall(q, c, k), "checking"))
  BY <1>1, <1>4, WithViewOwned DEF Views
<1>6. QED
  BY <1>2, <1>5, PersistedOwned DEF ShowSettings, ShowSettingsStores

LEMMA ShowConfirmOwned ==
  ASSUME NEW S, NEW p \in Page, NEW c \in CallIds, NEW s \in Slots, PageOwned(S, p)
  PROVE  PageOwned(S, ShowConfirm(p, c, s))
<1> DEFINE q == ViewDestroyed(p)
           k == Request("poll", s, NoUid, p.heap[s].token)
<1>1. q \in Page /\ PageOwned(S, q) /\ q.heap = p.heap
  BY ViewDestroyedType, ViewDestroyedOwned
<1>2. /\ WithCall(q, c, k) \in Page
      /\ PageOwned(S, WithCall(q, c, k))
  BY <1>1, WithCheckOwned DEF SessionChecks
<1>3. QED
  BY <1>1, <1>2, WithViewOwned DEF ShowConfirm, Views

-----------------------------------------------------------------------------
(* Steps of a tab: the server's sessions do not change.                    *)

LEMMA BecomesOwned ==
  ASSUME Typed, Ownership, NEW t \in Tabs, NEW p \in Page,
         PageOwned(sessions, p), Becomes(t, p)
  PROVE  \A r \in Tabs : PageOwned(sessions, page'[r])
<1>1. PageOwned(sessions, Swept(p))
  BY SweptOwned
<1>2. QED
  BY <1>1 DEF Becomes, Ownership, Typed

LEMMA UnloadedOwned ==
  ASSUME NEW S, NEW v \in Loading
  PROVE  PageOwned(S, Unloaded(v))
  BY DEF PageOwned, Unloaded, ObjectOwned, Owned, Vouched, CallOwned, ChangesOwned, Blank, Idle,
         Request, SessionChecks

LEMMA EndedOwned ==
  ASSUME Typed, Ownership, NEW t \in Tabs, NEW c \in CallIds
  PROVE  /\ PageOwned(sessions, Ended(t, c))
         /\ Ended(t, c).heap = page[t].heap
         /\ Ended(t, c).cache = page[t].cache
         /\ \A s \in Slots : Free(page[t], s) => Free(Ended(t, c), s)
         /\ \A d \in CallIds :
                Ended(t, c).calls[d] = IF d = c THEN Idle ELSE page[t].calls[d]
<1>1. page[t] \in Page /\ PageOwned(sessions, page[t])
  BY DEF Typed, Ownership
<1>2. CallOwned(sessions, page[t].heap, Idle) /\ Idle \in Call /\ Idle.kind \in Harmless
  BY IdleType DEF CallOwned, Idle, Request, SessionChecks, Harmless, Kinds
<1>3. NoSlot \notin Slots
  BY DEF NoSlot, Slots
<1>4. ASSUME NEW s \in Slots, Free(page[t], s)
      PROVE  Free(Ended(t, c), s)
  BY <1>1, <1>3, <1>4 DEF Free, Ended, WithCall, Idle, Request, Page
<1>5. Ended(t, c).heap = page[t].heap /\ Ended(t, c).cache = page[t].cache
  BY <1>1 DEF Ended, WithCall, Page
<1>6. ASSUME NEW d \in CallIds
      PROVE  Ended(t, c).calls[d] = IF d = c THEN Idle ELSE page[t].calls[d]
  BY <1>1 DEF Ended, WithCall, Page
<1>7. PageOwned(sessions, Ended(t, c))
  BY <1>1, <1>2, WithHarmlessOwned DEF Ended
<1>8. QED
  BY <1>4, <1>5, <1>6, <1>7

LEMMA StartOwned ==
  ASSUME Typed, Ownership, NEW t \in Tabs, NEW u \in Uids,
         StartSignIn(t, u) \/ StartCheckUid(t, u)
  PROVE  Ownership'
<1>1. PICK c \in CallIds, kind \in {"signIn", "checkUid"} :
         Becomes(t, WithCall(page[t], c, Request(kind, NoSlot, u, NoToken)))
  BY DEF StartSignIn, StartCheckUid
<1> DEFINE k == Request(kind, NoSlot, u, NoToken)
<1>2. page[t] \in Page /\ PageOwned(sessions, page[t])
  BY DEF Typed, Ownership
<1>3. k \in Call
  BY TokenTypes, RequestType DEF Kinds
<1>4. CallOwned(sessions, page[t].heap, k) /\ (k.kind \in Harmless \/ k.kind = "signIn")
  BY DEF CallOwned, SignInOwned, Request, NoAnswer, SessionChecks, Harmless, Kinds
<1>5. /\ WithCall(page[t], c, k) \in Page
      /\ PageOwned(sessions, WithCall(page[t], c, k))
  BY <1>2, <1>3, <1>4, WithCallType, WithHarmlessOwned
<1>6. \A r \in Tabs : PageOwned(sessions, page'[r])
  BY <1>1, <1>5, BecomesOwned
<1>7. QED
  BY <1>6 DEF StartSignIn, StartCheckUid, Ownership, storage, server

LEMMA FocusOwned ==
  ASSUME Typed, Ownership, NEW t \in Tabs, Focus(t)
  PROVE  Ownership'
<1>1. PICK c \in CallIds, s \in Slots :
        /\ IsNextSlot(page[t], s)
        /\ LET q == WithSignedInAccount(page[t], s, accounts, currentUid)
               o == q.heap[q.cache]
           IN  IF o.token = NoToken
               THEN /\ Becomes(t, ShowSignIn(page[t], s, accounts, currentUid))
                    /\ accounts' = Persisted(accounts, o)
               ELSE /\ Becomes(t, WithCall(q, c, Request("focus", q.cache, NoUid, o.token)))
                    /\ UNCHANGED accounts
  BY DEF Focus
<1> DEFINE q == WithSignedInAccount(page[t], s, accounts, currentUid)
           o == q.heap[q.cache]
           k == Request("focus", q.cache, NoUid, o.token)
<1>2. /\ page[t] \in Page /\ PageOwned(sessions, page[t])
      /\ StorageOwned(sessions, accounts) /\ Free(page[t], s)
  BY <1>1, NextSlotIsFree DEF Typed, Ownership
<1>3. q \in Page /\ q.cache \in Slots /\ PageOwned(sessions, q)
  BY <1>2, WithSignedInAccountType, WithSignedInAccountOwned DEF Typed
<1>4. o \in Account /\ o.token \in Tokens \cup {NoToken} /\ ObjectOwned(sessions, o)
  BY <1>3 DEF Page, Account, PageOwned
<1>5. WithCall(q, c, k) \in Page /\ PageOwned(sessions, WithCall(q, c, k))
  BY <1>3, WithCheckOwned DEF SessionChecks
<1>6. /\ ShowSignIn(page[t], s, accounts, currentUid) \in Page
      /\ PageOwned(sessions, ShowSignIn(page[t], s, accounts, currentUid))
  BY <1>2, ShowSignInType, ShowSignInOwned DEF Typed
<1>7. StorageOwned(sessions, Persisted(accounts, o))
  BY <1>2, <1>4, PersistedOwned DEF Typed
<1>8. /\ \A r \in Tabs : PageOwned(sessions, page'[r])
      /\ StorageOwned(sessions, accounts')
  BY <1>1, <1>2, <1>5, <1>6, <1>7, BecomesOwned
<1>9. QED
  BY <1>8 DEF Focus, Ownership, server

LEMMA StartOnSettingsOwned ==
  ASSUME Typed, Ownership, NEW t \in Tabs,
         NEW kind \in {"signOut", "destroy", "changePassword"}, StartOnSettings(t, kind)
  PROVE  Ownership'
<1>1. PICK c \in CallIds, s \in Slots :
        /\ IsNextSlot(page[t], s)
        /\ LET q == WithSignedInAccount(page[t], s, accounts, currentUid)
               o == q.heap[q.cache]
           IN  Becomes(t, WithCall(q, c, Request(kind, q.cache, o.uid, o.token)))
  BY DEF StartOnSettings
<1> DEFINE q == WithSignedInAccount(page[t], s, accounts, currentUid)
           o == q.heap[q.cache]
           k == Request(kind, q.cache, o.uid, o.token)
<1>2. q \in Page /\ q.cache \in Slots /\ PageOwned(sessions, q)
  BY <1>1, NextSlotIsFree, WithSignedInAccountType, WithSignedInAccountOwned
  DEF Typed, Ownership
<1>3. /\ o.uid \in Uids \cup {NoUid} /\ o.token \in Tokens \cup {NoToken}
      /\ ObjectOwned(sessions, o)
  BY <1>2 DEF Page, Account, PageOwned
<1>4. k \in Call
  BY <1>2, <1>3, RequestType DEF Kinds
<1>5. CallOwned(sessions, q.heap, k)
  BY <1>3 DEF CallOwned, ChangeOwned, Request, NoAnswer, ObjectOwned, SessionChecks
<1>6. ChangesOwned(sessions, [q.calls EXCEPT ![c] = k])
  <2> DEFINE calls == [q.calls EXCEPT ![c] = k]
  <2>1. q.calls = page[t].calls
    BY DEF WithSignedInAccount, Typed, Page
  <2>2. \A d \in CallIds : calls[d] = IF d = c THEN k ELSE q.calls[d]
    BY <1>2 DEF Page
  <2>3. k.kind = kind /\ k.answer.result = "none" /\ kind \notin SessionChecks
    BY DEF Request, NoAnswer, SessionChecks
  <2>4. \A d \in CallIds : q.calls[d].kind # kind
    BY <2>1 DEF StartOnSettings, Starts
  <2>5. ChangesOwned(sessions, q.calls)
    BY <1>2 DEF PageOwned
  <2>6. QED
    BY <2>2, <2>3, <2>4, <2>5 DEF ChangesOwned
<1>7. WithCall(q, c, k) \in Page /\ PageOwned(sessions, WithCall(q, c, k))
  BY <1>2, <1>4, <1>5, <1>6, WithCallType, WithCallOwned
<1>8. \A r \in Tabs : PageOwned(sessions, page'[r])
  BY <1>1, <1>7, BecomesOwned
<1>9. QED
  BY <1>8 DEF StartOnSettings, Ownership, storage, server

LEMMA UseDifferentAccountOwned ==
  ASSUME Typed, Ownership, NEW t \in Tabs, UseDifferentAccount(t)
  PROVE  Ownership'
<1>1. PICK s \in Slots :
        /\ IsNextSlot(WithCache(page[t], NoSlot), s)
        /\ Becomes(t, WithObject(WithCache(page[t], s), s, Blank))
  BY DEF UseDifferentAccount
<1> DEFINE p == WithCache(page[t], s)
<1>2. /\ WithCache(page[t], NoSlot) \in Page
      /\ p \in Page /\ PageOwned(sessions, p)
  BY WithCacheType, WithCacheOwned, TokenTypes DEF Typed, Ownership
<1>3. Free(p, s)
  <2>1. Free(WithCache(page[t], NoSlot), s)
    BY <1>1, <1>2, NextSlotIsFree
  <2>2. QED
    BY <2>1 DEF Free, WithCache, Typed, Page
<1>4. WithObject(p, s, Blank) \in Page /\ PageOwned(sessions, WithObject(p, s, Blank))
  BY <1>2, <1>3, IdleType, BlankOwned, WithObjectType, WithObjectOwned
<1>5. \A r \in Tabs : PageOwned(sessions, page'[r])
  BY <1>1, <1>4, BecomesOwned
<1>6. StorageOwned(sessions, accounts')
  BY DEF UseDifferentAccount, StorageOwned
<1>7. QED
  BY <1>5, <1>6 DEF UseDifferentAccount, Ownership, server

LEMMA LeavePageOwned ==
  ASSUME Typed, Ownership, NEW t \in Tabs, NEW v \in Loading,
         page' = [page EXCEPT ![t] = Unloaded(v)]
  PROVE  \A r \in Tabs : PageOwned(sessions, page'[r])
  BY UnloadedOwned DEF Ownership, Typed

LEMMA UserOwned ==
  ASSUME Typed, Ownership, NEW t \in Tabs, UserStep(t)
  PROVE  Ownership'
<1>1. ASSUME NEW v \in Loading, Reload(t, v)
      PROVE  Ownership'
  BY <1>1, LeavePageOwned DEF Reload, Ownership, storage, server
<1>2. QED
  BY <1>1, StartOwned, FocusOwned, StartOnSettingsOwned, UseDifferentAccountOwned
  DEF UserStep

LEMMA LoadOwned ==
  ASSUME Typed, Ownership, NEW t \in Tabs, LoadStep(t)
  PROVE  Ownership'
<1>1. CASE LoadSignIn(t)
  <2>1. PICK s \in Slots :
          /\ IsNextSlot(page[t], s)
          /\ Becomes(t, ShowSignIn(page[t], s, accounts, currentUid))
    BY <1>1 DEF LoadSignIn
  <2> DEFINE q == ShowSignIn(page[t], s, accounts, currentUid)
  <2>2. q \in Page /\ PageOwned(sessions, q)
    BY <2>1, NextSlotIsFree, ShowSignInType, ShowSignInOwned DEF Typed, Ownership
  <2>3. \A r \in Tabs : PageOwned(sessions, page'[r])
    BY <2>1, <2>2, BecomesOwned
  <2>4. QED
    BY <1>1, <2>3 DEF LoadSignIn, Ownership, storage, server
<1>2. ASSUME NEW u \in Uids \cup {NoUid}, LoadSettings(t, u)
      PROVE  Ownership'
  <2> DEFINE uid == currentUid'
  <2>1. uid \in Uids \cup {NoUid}
    BY <1>2 DEF LoadSettings, Typed
  <2>2. PICK c \in CallIds, s \in Slots :
          /\ IsNextSlot(page[t], s)
          /\ Becomes(t, ShowSettings(page[t], c, s, accounts, uid))
    BY <1>2 DEF LoadSettings
  <2> DEFINE q == ShowSettings(page[t], c, s, accounts, uid)
  <2>3. /\ q \in Page /\ PageOwned(sessions, q)
        /\ StorageOwned(sessions, ShowSettingsStores(page[t], accounts, uid))
    BY <2>1, <2>2, NextSlotIsFree, ShowSettingsType, ShowSettingsOwned DEF Typed, Ownership
  <2>4. \A r \in Tabs : PageOwned(sessions, page'[r])
    BY <2>2, <2>3, BecomesOwned
  <2>5. StorageOwned(sessions, accounts')
    BY <1>2, <2>3 DEF LoadSettings
  <2>6. QED
    BY <1>2, <2>4, <2>5 DEF LoadSettings, Ownership, server
<1>3. QED
  BY <1>1, <1>2 DEF LoadStep

LEMMA HearOwned ==
  ASSUME Typed, Ownership, NEW t \in Tabs, HearStep(t)
  PROVE  Ownership'
<1>1. CASE HearSignedIn(t)
  <2> DEFINE p == page[t]
             u == Head(inbox[t]).uid
             stored == accounts[u] # NotStored
             uid == IF stored THEN u ELSE currentUid
             q == IF stored /\ p.cache # NoSlot /\ p.heap[p.cache].uid # u
                  THEN WithCache(p, NoSlot) ELSE p
  <2>1. uid \in Uids \cup {NoUid}
    BY <1>1, TailType DEF HearSignedIn, Typed, Message
  <2>2. q \in Page /\ PageOwned(sessions, q)
    BY WithCacheType, WithCacheOwned, TokenTypes DEF Typed, Ownership
  <2>3. PICK c \in CallIds, s \in Slots :
          /\ IsNextSlot(q, s)
          /\ Becomes(t, ShowSettings(q, c, s, accounts, uid))
    BY <1>1 DEF HearSignedIn
  <2> DEFINE r == ShowSettings(q, c, s, accounts, uid)
  <2>4. /\ r \in Page /\ PageOwned(sessions, r)
        /\ StorageOwned(sessions, ShowSettingsStores(q, accounts, uid))
    BY <2>1, <2>2, <2>3, NextSlotIsFree, ShowSettingsType, ShowSettingsOwned
    DEF Typed, Ownership
  <2>5. \A o \in Tabs : PageOwned(sessions, page'[o])
    BY <2>3, <2>4, BecomesOwned
  <2>6. StorageOwned(sessions, accounts')
    BY <1>1, <2>4 DEF HearSignedIn
  <2>7. QED
    BY <1>1, <2>5, <2>6 DEF HearSignedIn, Ownership, server
<1>2. CASE HearSignedOut(t)
  BY <1>2, LeavePageOwned DEF HearSignedOut, Ownership, server, Loading
<1>3. CASE Ignore(t)
  BY <1>3 DEF Ignore, Ownership, storage, server
<1>4. QED
  BY <1>1, <1>2, <1>3 DEF HearStep

\* A check that has its answer: what it finds is true of the object it holds.
LEMMA HeldOwned ==
  ASSUME Typed, Ownership, NEW t \in Tabs, NEW c \in CallIds,
         page[t].calls[c].kind \in SessionChecks
  PROVE  LET k == page[t].calls[c]
             o == AfterStatus(page[t].heap[k.slot], k.answer)
             p == WithObject(Ended(t, c), k.slot, o)
         IN  /\ k.slot \in Slots /\ o \in Account /\ ObjectOwned(sessions, o)
             /\ p \in Page /\ PageOwned(sessions, p)
             /\ p.cache = page[t].cache /\ p.heap[k.slot] = o
             /\ \A s \in Slots : Free(page[t], s) => Free(p, s)
<1> DEFINE k == page[t].calls[c]
           old == page[t].heap[k.slot]
           o == AfterStatus(old, k.answer)
           p == WithObject(Ended(t, c), k.slot, o)
<1>1. /\ k.slot \in Slots /\ k.answer \in Answer /\ old \in Account /\ o \in Account
  <2>1. k.kind \notin {"none", "signIn", "checkUid"}
    BY DEF SessionChecks
  <2>2. QED
    BY <2>1, HeldObject, CallFields
<1>2. /\ ObjectOwned(sessions, old)
      /\ k.answer.result = "ok" /\ k.answer.verified => Vouched(sessions, old.token)
  BY <1>1 DEF Ownership, PageOwned, CallOwned, CheckOwned
<1>3. /\ ObjectOwned(sessions, o) /\ o.uid = old.uid
      /\ o.token \in {old.token, NoToken}
  BY <1>1, <1>2, AfterStatusOwned
<1>4. /\ Ended(t, c) \in Page /\ PageOwned(sessions, Ended(t, c))
      /\ Ended(t, c).heap = page[t].heap
      /\ Ended(t, c).cache = page[t].cache
      /\ \A s \in Slots : Free(page[t], s) => Free(Ended(t, c), s)
  BY EndedType, EndedOwned
<1>5. p \in Page /\ PageOwned(sessions, p)
  BY <1>1, <1>3, <1>4, WithObjectType, WithObjectOwned
<1>6. p.cache = page[t].cache /\ p.calls = Ended(t, c).calls /\ p.heap[k.slot] = o
  BY <1>1, <1>4 DEF WithObject, Page
<1>7. QED
  BY <1>1, <1>3, <1>4, <1>5, <1>6 DEF Free

LEMMA SignInAnsweredOwned ==
  ASSUME Typed, Ownership, NEW t \in Tabs, NEW c \in CallIds, SignInAnswered(t, c)
  PROVE  Ownership'
<1> DEFINE k == page[t].calls[c]
           o == [uid |-> k.uid, token |-> k.answer.token, verified |-> k.answer.verified]
<1>1. o \in Account
  BY CallFields DEF Account
<1>2. /\ Ended(t, c) \in Page /\ PageOwned(sessions, Ended(t, c))
      /\ \A s \in Slots : Free(page[t], s) => Free(Ended(t, c), s)
  BY EndedType, EndedOwned
<1>3. CASE k.answer.result = "ok"
  <2>1. PICK s \in Slots :
          /\ IsNextSlot(page[t], s)
          /\ LET p == WithObject(Ended(t, c), s, o)
             IN  IF o.verified
                 THEN /\ SetsSignedIn(o)
                      /\ Becomes(t, ShowSettings(WithCache(p, s), c, s,
                                                 accounts', currentUid'))
                 ELSE /\ Becomes(t, WithCall(p, c, Request("fetchIn", s, NoUid, o.token)))
                      /\ UNCHANGED storage
    BY <1>3 DEF SignInAnswered
  <2> DEFINE p == WithObject(Ended(t, c), s, o)
             f == Request("fetchIn", s, NoUid, o.token)
  <2>2. ObjectOwned(sessions, o)
    BY <1>3 DEF SignInAnswered, Answered, Ownership, PageOwned, CallOwned, SignInOwned,
               ObjectOwned
  <2>3. Free(Ended(t, c), s)
    BY <1>2, <2>1, NextSlotIsFree DEF Typed
  <2>4. p \in Page /\ PageOwned(sessions, p)
    BY <1>1, <1>2, <2>2, <2>3, WithObjectType, WithObjectOwned
  <2>5. /\ accounts' \in Stored /\ StorageOwned(sessions, accounts')
        /\ currentUid' \in Uids \cup {NoUid}
    BY <1>1, <2>1, <2>2, PersistedType, PersistedOwned
    DEF SetsSignedIn, storage, Typed, Ownership, Account
  <2>6. WithCall(p, c, f) \in Page /\ PageOwned(sessions, WithCall(p, c, f))
    <3>1. p.heap[s] = o
      BY <1>2 DEF WithObject, Page
    <3>2. QED
      BY <2>4, <3>1, WithCheckOwned DEF SessionChecks
  <2>7. /\ ShowSettings(WithCache(p, s), c, s, accounts', currentUid') \in Page
        /\ PageOwned(sessions, ShowSettings(WithCache(p, s), c, s, accounts', currentUid'))
    <3>1. WithCache(p, s) \in Page /\ PageOwned(sessions, WithCache(p, s))
      BY <2>4, WithCacheType, WithCacheOwned
    <3>2. WithCache(p, s).cache # NoSlot
      BY <2>4 DEF WithCache, Page, NoSlot, Slots
    <3>3. QED
      BY <2>5, <3>1, <3>2, ShowSettingsType, ShowSettingsOwned
  <2>8. \A r \in Tabs : PageOwned(sessions, page'[r])
    BY <2>1, <2>6, <2>7, BecomesOwned
  <2>9. QED
    BY <2>5, <2>8 DEF SignInAnswered, Ownership, server
<1>4. CASE k.answer.result # "ok"
  <2>1. \A r \in Tabs : PageOwned(sessions, page'[r])
    BY <1>2, <1>4, BecomesOwned DEF SignInAnswered
  <2>2. QED
    BY <1>4, <2>1 DEF SignInAnswered, Ownership, storage, server
<1>5. QED
  BY <1>3, <1>4

LEMMA FetchInAnsweredOwned ==
  ASSUME Typed, Ownership, NEW t \in Tabs, NEW c \in CallIds, FetchInAnswered(t, c)
  PROVE  Ownership'
<1> DEFINE k == page[t].calls[c]
           o == AfterStatus(page[t].heap[k.slot], k.answer)
           p == WithCache(WithObject(Ended(t, c), k.slot, o), k.slot)
<1>1. /\ k.slot \in Slots /\ o \in Account /\ ObjectOwned(sessions, o)
      /\ WithObject(Ended(t, c), k.slot, o) \in Page
      /\ PageOwned(sessions, WithObject(Ended(t, c), k.slot, o))
  BY HeldOwned DEF FetchInAnswered, Answered, SessionChecks
<1>2. p \in Page /\ PageOwned(sessions, p)
  BY <1>1, WithCacheType, WithCacheOwned
<1>3. /\ accounts' \in Stored /\ StorageOwned(sessions, accounts')
      /\ currentUid' \in Uids \cup {NoUid}
  BY <1>1, PersistedType, PersistedOwned
  DEF FetchInAnswered, SetsSignedIn, Typed, Ownership, Account
<1>4. p.cache # NoSlot
  <2>1. p.cache = k.slot
    BY <1>1 DEF WithCache, Page
  <2>2. QED
    BY <1>1, <2>1 DEF NoSlot, Slots
<1>5. /\ ShowSettings(p, c, k.slot, accounts', currentUid') \in Page
      /\ PageOwned(sessions, ShowSettings(p, c, k.slot, accounts', currentUid'))
      /\ ShowConfirm(p, c, k.slot) \in Page
      /\ PageOwned(sessions, ShowConfirm(p, c, k.slot))
  BY <1>1, <1>2, <1>3, <1>4, ShowSettingsType, ShowSettingsOwned,
     ShowConfirmType, ShowConfirmOwned
<1>6. \A r \in Tabs : PageOwned(sessions, page'[r])
  BY <1>5, BecomesOwned DEF FetchInAnswered
<1>7. QED
  BY <1>3, <1>6 DEF FetchInAnswered, Ownership, server

LEMMA FetchAnsweredOwned ==
  ASSUME Typed, Ownership, NEW t \in Tabs, NEW c \in CallIds, FetchAnswered(t, c)
  PROVE  Ownership'
<1> DEFINE k == page[t].calls[c]
           o == AfterStatus(page[t].heap[k.slot], k.answer)
           p == WithObject(Ended(t, c), k.slot, o)
<1>1. o \in Account /\ ObjectOwned(sessions, o) /\ p \in Page /\ PageOwned(sessions, p)
  BY HeldOwned DEF FetchAnswered, Answered, SessionChecks
<1>2. StorageOwned(sessions, accounts')
  BY <1>1, PersistedOwned DEF FetchAnswered, Typed, Ownership
<1>3. \A r \in Tabs : PageOwned(sessions, page'[r])
  BY <1>1, BecomesOwned DEF FetchAnswered
<1>4. QED
  BY <1>2, <1>3 DEF FetchAnswered, Ownership, server

LEMMA ChecksOwned ==
  ASSUME Typed, Ownership, NEW t \in Tabs, NEW c \in CallIds,
         CheckVerified(t, c) \/ CheckUnverified(t, c) \/ CheckRejected(t, c)
  PROVE  Ownership'
<1> DEFINE k == page[t].calls[c]
           o == AfterStatus(page[t].heap[k.slot], k.answer)
           p == WithObject(Ended(t, c), k.slot, o)
<1>1. /\ k.slot \in Slots /\ o \in Account /\ ObjectOwned(sessions, o)
      /\ p \in Page /\ PageOwned(sessions, p) /\ p.cache = page[t].cache
      /\ p.heap[k.slot] = o
      /\ \A s \in Slots : Free(page[t], s) => Free(p, s)
  BY HeldOwned DEF CheckVerified, CheckUnverified, CheckRejected, Answered, SessionChecks
<1>2. /\ Persisted(accounts, o) \in Stored
      /\ StorageOwned(sessions, Persisted(accounts, o))
      /\ StorageOwned(sessions, accounts)
  BY <1>1, PersistedType, PersistedOwned DEF Typed, Ownership
<1>3. CASE CheckVerified(t, c)
  <2> DEFINE q == IF k.kind = "enter" THEN WithView(p, "settings") ELSE p
  <2>1. q \in Page /\ PageOwned(sessions, q)
    BY <1>1, WithViewType, WithViewOwned DEF Views
  <2>2. \A r \in Tabs : PageOwned(sessions, page'[r])
    BY <1>3, <2>1, BecomesOwned DEF CheckVerified
  <2>3. QED
    BY <1>2, <1>3, <2>2 DEF CheckVerified, Ownership, server
<1>4. CASE CheckUnverified(t, c)
  <2>1. ASSUME NEW q \in Page, PageOwned(sessions, q), NEW d \in CallIds,
               Becomes(t, ShowConfirm(q, d, k.slot))
        PROVE  \A r \in Tabs : PageOwned(sessions, page'[r])
    BY <1>1, <2>1, ShowConfirmType, ShowConfirmOwned, BecomesOwned
  <2>2. CASE o.token = NoToken
    BY <1>1, <1>2, <1>4, <2>1, <2>2 DEF CheckUnverified, Ownership, server
  <2>3. CASE o.token # NoToken
    <3> DEFINE f == Request("fetch", k.slot, NoUid, o.token)
    <3>1. PICK d \in CallIds : Becomes(t, ShowConfirm(WithCall(p, c, f), d, k.slot))
      BY <1>4, <2>3 DEF CheckUnverified
    <3>2. WithCall(p, c, f) \in Page /\ PageOwned(sessions, WithCall(p, c, f))
      BY <1>1, WithCheckOwned DEF SessionChecks
    <3>3. \A r \in Tabs : PageOwned(sessions, page'[r])
      BY <2>1, <3>1, <3>2
    <3>4. QED
      BY <1>2, <1>4, <2>3, <3>3 DEF CheckUnverified, Ownership, server
  <2>4. QED
    BY <2>2, <2>3
<1>5. CASE CheckRejected(t, c)
  <2>1. CASE k.answer.result = "invalid"
    <3>1. PICK s \in Slots :
            /\ IsNextSlot(page[t], s)
            /\ Becomes(t, ShowSignIn(p, s, accounts', currentUid))
      BY <1>5, <2>1 DEF CheckRejected
    <3>2. accounts' \in Stored /\ StorageOwned(sessions, accounts')
      BY <1>2, <1>5, <2>1 DEF CheckRejected
    <3>3. Free(p, s)
      BY <1>1, <3>1, NextSlotIsFree DEF Typed
    <3>4. /\ ShowSignIn(p, s, accounts', currentUid) \in Page
          /\ PageOwned(sessions, ShowSignIn(p, s, accounts', currentUid))
      BY <1>1, <3>2, <3>3, ShowSignInType, ShowSignInOwned DEF Typed
    <3>5. \A r \in Tabs : PageOwned(sessions, page'[r])
      BY <3>1, <3>4, BecomesOwned
    <3>6. QED
      BY <1>5, <3>2, <3>5 DEF CheckRejected, Ownership, server
  <2>2. CASE k.answer.result # "invalid"
    <3>1. \A r \in Tabs : PageOwned(sessions, page'[r])
      BY <1>5, <2>2, EndedType, EndedOwned, BecomesOwned DEF CheckRejected
    <3>2. QED
      BY <1>5, <2>2, <3>1 DEF CheckRejected, Ownership, server
  <2>3. QED
    BY <2>1, <2>2
<1>6. QED
  BY <1>3, <1>4, <1>5

LEMMA PollOwned ==
  ASSUME Typed, Ownership, NEW t \in Tabs, NEW c \in CallIds,
         PollAnswered(t, c) \/ StrayPollAnswered(t, c)
  PROVE  Ownership'
<1> DEFINE k == page[t].calls[c]
           o == AfterStatus(page[t].heap[k.slot], k.answer)
           p == WithObject(Ended(t, c), k.slot, o)
           acc == Persisted(accounts, o)
           waiting == Request("pollWait", k.slot, NoUid, NoToken)
<1>1. /\ k.slot \in Slots /\ o \in Account /\ ObjectOwned(sessions, o)
      /\ p \in Page /\ PageOwned(sessions, p)
      /\ \A s \in Slots : Free(page[t], s) => Free(p, s)
  BY HeldOwned DEF PollAnswered, StrayPollAnswered, Answered, SessionChecks
<1>2. acc \in Stored /\ StorageOwned(sessions, acc)
  BY <1>1, PersistedType, PersistedOwned DEF Typed, Ownership
<1>3. CASE PollAnswered(t, c)
  <2>1. CASE k.answer.result = "ok" /\ k.answer.verified
    <3>1. PICK s \in Slots :
            /\ IsNextSlot(page[t], s)
            /\ Becomes(t, ShowSettings(p, c, s, acc, currentUid))
      BY <1>3, <2>1 DEF PollAnswered
    <3>2. Free(p, s)
      BY <1>1, <3>1, NextSlotIsFree DEF Typed
    <3>3. /\ ShowSettings(p, c, s, acc, currentUid) \in Page
          /\ PageOwned(sessions, ShowSettings(p, c, s, acc, currentUid))
          /\ StorageOwned(sessions, ShowSettingsStores(p, acc, currentUid))
      BY <1>1, <1>2, <3>2, ShowSettingsType, ShowSettingsOwned DEF Typed
    <3>4. \A r \in Tabs : PageOwned(sessions, page'[r])
      BY <3>1, <3>3, BecomesOwned
    <3>5. QED
      BY <1>3, <2>1, <3>3, <3>4 DEF PollAnswered, Ownership, server
  <2>2. CASE ~(k.answer.result = "ok" /\ k.answer.verified)
    <3>1. "pollWait" \in Kinds /\ "pollWait" \in Harmless
      BY DEF Kinds, Harmless, SessionChecks
    <3>2. /\ waiting \in Call /\ CallOwned(sessions, p.heap, waiting)
          /\ waiting.kind = "pollWait"
      BY <1>1, <3>1, RequestType, HarmlessOwned, TokenTypes DEF Request
    <3>3. WithCall(p, c, waiting) \in Page /\ PageOwned(sessions, WithCall(p, c, waiting))
      BY <1>1, <3>1, <3>2, WithCallType, WithHarmlessOwned
    <3>4. \A r \in Tabs : PageOwned(sessions, page'[r])
      BY <1>1, <1>3, <2>2, <3>3, BecomesOwned DEF PollAnswered
    <3>5. QED
      BY <1>3, <2>2, <3>4 DEF PollAnswered, Ownership, server
  <2>3. QED
    BY <2>1, <2>2
<1>4. CASE StrayPollAnswered(t, c)
  <2>1. \A r \in Tabs : PageOwned(sessions, page'[r])
    BY <1>1, <1>4, BecomesOwned DEF StrayPollAnswered
  <2>2. QED
    BY <1>4, <2>1 DEF StrayPollAnswered, Ownership, storage, server
<1>5. QED
  BY <1>3, <1>4

LEMMA PollFiresOwned ==
  ASSUME Typed, Ownership, NEW t \in Tabs, NEW c \in CallIds, PollFires(t, c)
  PROVE  Ownership'
<1> DEFINE k == page[t].calls[c]
           token == page[t].heap[k.slot].token
           next == IF token = NoToken THEN Idle ELSE Request("poll", k.slot, NoUid, token)
<1>1. k.slot \in Slots /\ token \in Tokens \cup {NoToken}
  BY HeldObject DEF PollFires, Account
<1>2. WithCall(page[t], c, next) \in Page /\ PageOwned(sessions, WithCall(page[t], c, next))
  <2>1. page[t] \in Page /\ PageOwned(sessions, page[t])
    BY DEF Typed, Ownership
  <2>2. CASE token = NoToken
    BY <2>2, EndedType, EndedOwned DEF Ended
  <2>3. CASE token # NoToken
    BY <1>1, <2>1, <2>3, WithCheckOwned DEF SessionChecks
  <2>4. QED
    BY <2>2, <2>3
<1>3. \A r \in Tabs : PageOwned(sessions, page'[r])
  BY <1>2, BecomesOwned DEF PollFires
<1>4. QED
  BY <1>3 DEF PollFires, Ownership, storage, server

LEMMA WithoutSignedInOwned ==
  ASSUME Typed, Ownership, NEW p \in Page, NEW s \in Slots, NEW uid,
         PageOwned(sessions, p), Free(p, s)
  PROVE  PageOwned(sessions, WithoutSignedIn(p, s, uid))
  BY WithCacheOwned, WithSignedInAccountOwned, TokenTypes
  DEF WithoutSignedIn, Typed, Ownership

LEMMA RemovalOwned ==
  ASSUME Typed, Ownership, NEW t \in Tabs, NEW c \in CallIds,
         SignOutAnswered(t, c) \/ DestroyAnswered(t, c) \/ CheckUidAnswered(t, c)
  PROVE  Ownership'
<1> DEFINE k == page[t].calls[c]
<1>1. \A uid \in Uids \cup {NoUid} : StorageOwned(sessions, WithoutAccount(uid))
  BY DEF WithoutAccount, StorageOwned, Ownership
<1>2. /\ Ended(t, c) \in Page /\ PageOwned(sessions, Ended(t, c))
      /\ ViewDestroyed(Ended(t, c)) \in Page
      /\ PageOwned(sessions, ViewDestroyed(Ended(t, c)))
      /\ \A s \in Slots : IsNextSlot(page[t], s) =>
            Free(Ended(t, c), s) /\ Free(ViewDestroyed(Ended(t, c)), s)
  <2>1. Ended(t, c) \in Page /\ PageOwned(sessions, Ended(t, c)) /\ page[t] \in Page
    BY EndedType, EndedOwned DEF Typed
  <2>2. \A s \in Slots : IsNextSlot(page[t], s) => Free(Ended(t, c), s)
    BY <2>1, NextSlotIsFree, EndedOwned
  <2>3. QED
    BY <2>1, <2>2, ViewDestroyedType, ViewDestroyedOwned
<1>3. CASE SignOutAnswered(t, c)
  <2>1. page[t].heap[k.slot].uid \in Uids \cup {NoUid}
    BY <1>3, HeldObject DEF SignOutAnswered, Answered, Account
  <2>2. \A r \in Tabs : PageOwned(sessions, page'[r])
    BY <1>3, LeavePageOwned DEF SignOutAnswered, Loading
  <2>3. QED
    BY <1>1, <1>3, <2>1, <2>2 DEF SignOutAnswered, Ownership, server
<1>4. CASE DestroyAnswered(t, c)
  <2> DEFINE uid == page[t].heap[k.slot].uid
             p == ViewDestroyed(Ended(t, c))
  <2>1. uid \in Uids \cup {NoUid}
    BY <1>4, HeldObject DEF DestroyAnswered, Answered, Account
  <2>2. ASSUME NEW s \in Slots, IsNextSlot(page[t], s)
        PROVE  LET q == WithView(WithoutSignedIn(p, s, uid), "signup")
               IN  q \in Page /\ PageOwned(sessions, q)
    <3>1. WithoutSignedIn(p, s, uid) \in Page /\ PageOwned(sessions, WithoutSignedIn(p, s, uid))
      BY <1>2, <2>2, WithoutSignedInType, WithoutSignedInOwned
    <3>2. QED
      BY <3>1, WithViewType, WithViewOwned DEF Views
  <2>3. \A r \in Tabs : PageOwned(sessions, page'[r])
    BY <1>2, <1>4, <2>2, BecomesOwned DEF DestroyAnswered
  <2>4. QED
    BY <1>1, <1>4, <2>1, <2>3 DEF DestroyAnswered, RemoveAccount, Ownership, server, storage
<1>5. CASE CheckUidAnswered(t, c)
  <2>1. \A r \in Tabs : PageOwned(sessions, page'[r])
    BY <1>2, <1>5, WithoutSignedInType, WithoutSignedInOwned, BecomesOwned
    DEF CheckUidAnswered
  <2>2. QED
    BY <1>1, <1>5, <2>1, CallFields
    DEF CheckUidAnswered, RemoveAccount, Ownership, server, storage
<1>6. QED
  BY <1>3, <1>4, <1>5

LEMMA ChangePasswordAnsweredOwned ==
  ASSUME Typed, Ownership, NEW t \in Tabs, NEW c \in CallIds, ChangePasswordAnswered(t, c)
  PROVE  Ownership'
<1> DEFINE k == page[t].calls[c]
           old == page[t].heap[k.slot]
           o == [old EXCEPT !.token = k.answer.token, !.verified = k.answer.verified]
           p == WithObject(Ended(t, c), k.slot, o)
<1>1. k.slot \in Slots /\ old \in Account
  BY HeldObject DEF ChangePasswordAnswered, Answered
<1>2. o \in Account /\ o.uid = old.uid
  BY <1>1, CallFields DEF Account
<1>3. /\ Ended(t, c) \in Page /\ PageOwned(sessions, Ended(t, c))
      /\ Ended(t, c).heap = page[t].heap
  BY EndedType, EndedOwned
<1>4. CASE k.answer.result = "ok"
  <2>1. /\ old.uid = k.uid /\ Owned(sessions, k.answer.token, k.uid)
        /\ Vouched(sessions, k.answer.token)
    BY <1>4 DEF ChangePasswordAnswered, Answered, Ownership, PageOwned, CallOwned, ChangeOwned
  <2>2. ObjectOwned(sessions, o) /\ o.token = k.answer.token
    BY <1>1, <2>1 DEF ObjectOwned, Account
  <2>3. Renewable(sessions, Ended(t, c), k.slot)
    <3>1. ChangesOwned(sessions, page[t].calls)
      BY DEF Ownership, PageOwned
    <3>2. Idle.kind = "none" /\ "none" \notin SessionChecks
      BY DEF Idle, Request, SessionChecks
    <3>3. QED
      BY <1>4, <3>1, <3>2, EndedOwned
      DEF Renewable, ChangesOwned, ChangePasswordAnswered, Answered
  <2>4. p \in Page /\ PageOwned(sessions, p)
    BY <1>1, <1>2, <1>3, <2>1, <2>2, <2>3, WithObjectType, WithObjectOwned
  <2>5. WithCache(p, k.slot) \in Page /\ PageOwned(sessions, WithCache(p, k.slot))
    BY <1>1, <2>4, WithCacheType, WithCacheOwned
  <2>6. \A r \in Tabs : PageOwned(sessions, page'[r])
    BY <1>4, <2>5, BecomesOwned DEF ChangePasswordAnswered
  <2>7. StorageOwned(sessions, accounts')
    BY <1>2, <1>4, <2>2, PersistedOwned
    DEF ChangePasswordAnswered, SetsSignedIn, Typed, Ownership
  <2>8. QED
    BY <2>6, <2>7 DEF ChangePasswordAnswered, Ownership, server
<1>5. CASE k.answer.result # "ok"
  <2>1. \A r \in Tabs : PageOwned(sessions, page'[r])
    BY <1>3, <1>5, BecomesOwned DEF ChangePasswordAnswered
  <2>2. QED
    BY <1>5, <2>1 DEF ChangePasswordAnswered, Ownership, storage, server
<1>6. QED
  BY <1>4, <1>5

LEMMA AnswerOwned ==
  ASSUME Typed, Ownership, NEW t \in Tabs, NEW c \in CallIds, AnswerStep(t, c)
  PROVE  Ownership'
  BY SignInAnsweredOwned, FetchInAnsweredOwned, FetchAnsweredOwned, ChecksOwned, PollOwned,
     PollFiresOwned, RemovalOwned, ChangePasswordAnsweredOwned
  DEF AnswerStep

-----------------------------------------------------------------------------
(* Steps of the server and the network: a session, once created, stays the *)
(* session of its account, is never less verified and does not come back;  *)
(* and every answer goes to a call in flight.                              *)

KeepsIssued(S, S2) ==
    \A k \in Tokens : S[k].uid \in Uids =>
        /\ S2[k].uid = S[k].uid
        /\ S[k].verified => S2[k].verified
        /\ S2[k].live => S[k].live

LEMMA StaysOwned ==
  ASSUME NEW S, NEW S2, KeepsIssued(S, S2),
         NEW token \in Tokens \cup {NoToken}, NEW uid, Owned(S, token, uid)
  PROVE  /\ Owned(S2, token, uid)
         /\ Vouched(S, token) => Vouched(S2, token)
         /\ Over(S, token) => Over(S2, token)
  BY DEF Owned, Vouched, Over, KeepsIssued

LEMMA StorageStaysOwned ==
  ASSUME NEW S, NEW S2, KeepsIssued(S, S2), NEW acc \in Stored, StorageOwned(S, acc)
  PROVE  StorageOwned(S2, acc)
<1>1. ASSUME NEW u \in Uids, acc[u] # NotStored
      PROVE  /\ Owned(S2, acc[u].token, u)
             /\ acc[u].verified => Vouched(S2, acc[u].token)
  <2>1. acc[u].token \in Tokens \cup {NoToken}
    BY <1>1 DEF Stored, StoredAccount
  <2>2. QED
    BY <1>1, <2>1, StaysOwned DEF StorageOwned
<1>2. QED
  BY <1>1 DEF StorageOwned

LEMMA PageStaysOwned ==
  ASSUME NEW S, NEW S2, KeepsIssued(S, S2), NEW p \in Page, PageOwned(S, p)
  PROVE  PageOwned(S2, p)
<1>1. ASSUME NEW s \in Slots PROVE ObjectOwned(S2, p.heap[s])
  <2>1. p.heap[s].token \in Tokens \cup {NoToken}
    BY DEF Page, Account
  <2>2. QED
    BY <2>1, StaysOwned DEF ObjectOwned, PageOwned
<1>2. ASSUME NEW c \in CallIds PROVE CallOwned(S2, p.heap, p.calls[c])
  <2>1. /\ p.calls[c].sent \in Tokens \cup {NoToken}
        /\ p.calls[c].answer.token \in Tokens \cup {NoToken}
    BY DEF Page, Call, Answer
  <2>2. CallOwned(S, p.heap, p.calls[c])
    BY DEF PageOwned
  <2>3. ASSUME p.calls[c].kind \in SessionChecks \cup {"changePassword"}
        PROVE  /\ p.heap[p.calls[c].slot].token \in Tokens \cup {NoToken}
               /\ Owned(S, p.heap[p.calls[c].slot].token, p.heap[p.calls[c].slot].uid)
    <3>1. p.calls[c].slot \in Slots
      BY <2>3 DEF Page, Call, SessionChecks
    <3>2. QED
      BY <3>1 DEF PageOwned, ObjectOwned, Page, Account
  <2>4. p.calls[c].kind = "signIn" => SignInOwned(S2, p.calls[c])
    BY <2>1, <2>2, StaysOwned DEF CallOwned, SignInOwned
  <2>5. p.calls[c].kind \in SessionChecks
          => CheckOwned(S2, p.heap[p.calls[c].slot], p.calls[c])
    BY <2>1, <2>2, <2>3, StaysOwned DEF CallOwned, CheckOwned
  <2>6. p.calls[c].kind = "changePassword"
          => ChangeOwned(S2, p.heap[p.calls[c].slot], p.calls[c])
    BY <2>1, <2>2, <2>3, StaysOwned DEF CallOwned, ChangeOwned
  <2>7. QED
    BY <2>4, <2>5, <2>6 DEF CallOwned
<1>3. ASSUME NEW c \in CallIds, p.calls[c].kind \in SessionChecks, Over(S, p.calls[c].sent)
      PROVE  Over(S2, p.calls[c].sent)
  <2>1. p.calls[c].sent \in Tokens \cup {NoToken}
    BY DEF Page, Call
  <2>2. Owned(S, p.calls[c].sent, p.heap[p.calls[c].slot].uid)
    BY <1>3 DEF PageOwned, CallOwned, CheckOwned
  <2>3. QED
    BY <1>3, <2>1, <2>2, StaysOwned
<1>4. ChangesOwned(S2, p.calls)
  BY <1>3 DEF PageOwned, ChangesOwned
<1>5. QED
  BY <1>1, <1>2, <1>4 DEF PageOwned

\* What an "ok" answer to call k must be worth, when o is the object k holds.
OkOwned(S, o, k, token, verified) ==
    /\ k.kind \in {"signIn", "changePassword"} =>
        Owned(S, token, k.uid) /\ (verified => Vouched(S, token))
    /\ k.kind = "changePassword" => Over(S, o.token)
    /\ k.kind \in SessionChecks /\ verified => Vouched(S, o.token)

LEMMA AnswerCallOwned ==
  ASSUME Typed, Ownership, NEW t \in Tabs, NEW c \in CallIds, KeepsIssued(sessions, sessions'),
         NEW result \in {"ok", "invalid", "failed"},
         NEW token \in Tokens \cup {NoToken}, NEW verified \in BOOLEAN,
         AnswerCall(t, c, result, token, verified),
         result = "ok" =>
            LET k == page[t].calls[c]
            IN  /\ OkOwned(sessions', page[t].heap[k.slot], k, token, verified)
                /\ k.kind = "changePassword" =>
                    \A d \in CallIds : (/\ page[t].calls[d].kind \in SessionChecks
                                        /\ page[t].calls[d].slot = k.slot)
                        => Over(sessions', page[t].calls[d].sent)
  PROVE  \A r \in Tabs : PageOwned(sessions', page'[r])
<1> DEFINE a == [result |-> result, token |-> token, verified |-> verified]
           old == page[t].calls[c]
           k == [old EXCEPT !.answer = a]
           calls == [page[t].calls EXCEPT ![c] = k]
<1>1. \A r \in Tabs : page[r] \in Page /\ PageOwned(sessions', page[r])
  BY PageStaysOwned DEF Typed, Ownership
<1>2. a \in Answer /\ k \in Call
  BY CallFields DEF Answer, Call
<1>3. CallOwned(sessions', page[t].heap, old) /\ ChangesOwned(sessions', page[t].calls)
  BY <1>1 DEF PageOwned
<1>4. /\ k.kind = old.kind /\ k.slot = old.slot
      /\ k.uid = old.uid /\ k.sent = old.sent
      /\ k.answer.result = result /\ k.answer.token = token
      /\ k.answer.verified = verified
  BY CallFields DEF Call
<1>5. CallOwned(sessions', page[t].heap, k)
  <2>1. result # "none"
    OBVIOUS
  <2> HIDE DEF k
  <2>2. "signIn" \notin SessionChecks /\ "changePassword" \notin SessionChecks
    BY DEF SessionChecks
  <2>3. k.kind = "signIn" => SignInOwned(sessions', k)
    BY <1>4 DEF SignInOwned, OkOwned
  <2>4. k.kind \in SessionChecks => CheckOwned(sessions', page[t].heap[k.slot], k)
    BY <1>3, <1>4, <2>1 DEF CallOwned, CheckOwned, OkOwned
  <2>5. k.kind = "changePassword" => ChangeOwned(sessions', page[t].heap[k.slot], k)
    BY <1>3, <1>4 DEF CallOwned, ChangeOwned, OkOwned
  <2>6. QED
    BY <2>3, <2>4, <2>5 DEF CallOwned
<1>6. ChangesOwned(sessions', calls)
  <2>1. \A d \in CallIds : calls[d] = IF d = c THEN k ELSE page[t].calls[d]
    BY <1>1 DEF Page
  <2>2. "changePassword" \notin SessionChecks
    BY DEF SessionChecks
  <2> HIDE DEF k, calls
  <2>3. ASSUME NEW d \in CallIds
        PROVE  /\ calls[d].kind = page[t].calls[d].kind
               /\ calls[d].slot = page[t].calls[d].slot
               /\ calls[d].sent = page[t].calls[d].sent
               /\ d # c => calls[d].answer = page[t].calls[d].answer
    BY <1>4, <2>1
  <2>4. calls[c].answer.result = result
    BY <1>4, <2>1
  <2>5. QED
    BY <1>3, <2>2, <2>3, <2>4 DEF ChangesOwned
<1>7. PageOwned(sessions', WithCall(page[t], c, k))
  BY <1>1, <1>2, <1>5, <1>6, WithCallOwned
<1>8. QED
  BY <1>1, <1>7 DEF AnswerCall, Typed

LEMMA FlagsKeepIssued ==
  ASSUME Typed, NEW k \in Tokens
  PROVE  /\ KeepsIssued(sessions, [sessions EXCEPT ![k].live = FALSE])
         /\ KeepsIssued(sessions, [sessions EXCEPT ![k].verified = TRUE])
<1>1. \A j \in Tokens : sessions[j] \in Session
  BY DEF Typed
<1>2. ASSUME NEW j \in Tokens
      PROVE  LET over == [sessions EXCEPT ![k].live = FALSE]
                 verified == [sessions EXCEPT ![k].verified = TRUE]
             IN  /\ over[j].uid = sessions[j].uid
                 /\ over[j].verified = sessions[j].verified
                 /\ over[j].live => sessions[j].live
                 /\ verified[j].uid = sessions[j].uid
                 /\ sessions[j].verified => verified[j].verified
                 /\ verified[j].live = sessions[j].live
  <2>1. CASE j = k
    BY <1>1, <2>1 DEF Typed, Session
  <2>2. CASE j # k
    BY <2>2 DEF Typed
  <2>3. QED
    BY <2>1, <2>2
<1>3. QED
  BY <1>2 DEF KeepsIssued

LEMMA ServerKeepsIssued ==
  ASSUME Typed, NEW t \in Tabs, NEW c \in CallIds, ServerStep(t, c) \/ Fails(t, c)
  PROVE  KeepsIssued(sessions, sessions') /\ registered' \subseteq registered
         /\ UNCHANGED storage
<1> DEFINE call == page[t].calls[c]
<1> USE UserAccountsAssumption
<1>1. UNCHANGED sessions => KeepsIssued(sessions, sessions')
  BY DEF KeepsIssued
<1>2. CASE ServeSessionCheck(t, c) \/ ServeCheckUid(t, c) \/ Fails(t, c)
  BY <1>1, <1>2 DEF ServeSessionCheck, ServeCheckUid, Fails, server
<1>3. CASE ServeSignIn(t, c)
  <2>1. ASSUME NEW k \in Tokens, NEW verified \in BOOLEAN, IsNextToken(k),
               sessions' = [sessions EXCEPT
                   ![k] = [uid |-> call.uid, verified |-> verified, live |-> TRUE]]
        PROVE  KeepsIssued(sessions, sessions')
    BY <2>1 DEF KeepsIssued, IsNextToken, IsUnused, Typed
  <2>2. QED
    BY <1>1, <1>3, <2>1 DEF ServeSignIn
<1>4. CASE ServeSignOut(t, c)
  <2>1. CASE Live(call.sent)
    BY <1>4, <2>1, CallFields, FlagsKeepIssued DEF ServeSignOut, Live
  <2>2. CASE ~Live(call.sent)
    BY <1>1, <1>4, <2>2 DEF ServeSignOut
  <2>3. QED
    BY <2>1, <2>2
<1>5. CASE ServeDestroy(t, c)
  BY <1>5 DEF ServeDestroy, KeepsIssued, Typed, Session
<1>6. CASE ServeChangePassword(t, c)
  <2>1. ASSUME NEW k \in Tokens, IsNextToken(k),
               sessions' = [j \in Tokens |->
                   IF j = k THEN sessions[call.sent]
                   ELSE [sessions[j] EXCEPT
                           !.live = @ /\ sessions[j].uid # sessions[call.sent].uid]]
        PROVE  KeepsIssued(sessions, sessions')
    BY <2>1 DEF KeepsIssued, IsNextToken, IsUnused, Typed, Session
  <2>2. QED
    BY <1>1, <1>6, <2>1 DEF ServeChangePassword
<1>7. QED
  BY <1>2, <1>3, <1>4, <1>5, <1>6
  DEF ServerStep, ServeSessionCheck, ServeCheckUid, ServeSignIn, ServeSignOut, ServeDestroy,
      ServeChangePassword, Fails, server, storage

LEMMA NoTokenOwned ==
  ASSUME NEW S, NEW uid
  PROVE  Owned(S, NoToken, uid)
  BY DEF Owned

LEMMA ServerOwned ==
  ASSUME Typed, Ownership, NEW t \in Tabs, NEW c \in CallIds, ServerStep(t, c)
  PROVE  Ownership'
<1> DEFINE call == page[t].calls[c]
<1> USE UserAccountsAssumption
<1>1. ASSUME UNCHANGED accounts, KeepsIssued(sessions, sessions'),
             \A r \in Tabs : PageOwned(sessions', page'[r])
      PROVE  Ownership'
  BY <1>1, StorageStaysOwned DEF Typed, Ownership
<1>2. ASSUME UNCHANGED accounts, KeepsIssued(sessions, sessions'),
             NEW result \in {"ok", "invalid", "failed"},
             AnswerCall(t, c, result, NoToken, FALSE),
             call.kind # "changePassword" \/ result # "ok"
      PROVE  Ownership'
  <2>1. result = "ok" => OkOwned(sessions', page[t].heap[call.slot], call, NoToken, FALSE)
    BY <1>2, NoTokenOwned DEF OkOwned
  <2>2. FALSE \in BOOLEAN /\ result \in {"ok", "invalid", "failed"}
    BY <1>2
  <2>3. \A r \in Tabs : PageOwned(sessions', page'[r])
    BY <1>2, <2>1, <2>2, AnswerCallOwned, TokenTypes
  <2>4. QED
    BY <1>1, <1>2, <2>3
<1>3. KeepsIssued(sessions, sessions')
  BY ServerKeepsIssued
<1>4. CASE ServeSessionCheck(t, c)
  <2>1. CASE Live(call.sent)
    <3> DEFINE verified == sessions[call.sent].verified
    <3>1. verified \in BOOLEAN
      BY <2>1, CallFields DEF Live, Typed, Session
    <3>2. CheckOwned(sessions, page[t].heap[call.slot], call) /\ call.kind \in SessionChecks
      BY <1>4 DEF ServeSessionCheck, Pending, Ownership, PageOwned, CallOwned
    <3>3. verified => Vouched(sessions, page[t].heap[call.slot].token)
      BY <1>4, <2>1, <3>2 DEF ServeSessionCheck, Pending, CheckOwned, Vouched, Over, Live
    <3>4. OkOwned(sessions', page[t].heap[call.slot], call, NoToken, verified)
      BY <1>4, <3>2, <3>3 DEF OkOwned, SessionChecks, ServeSessionCheck, server
    <3>5. AnswerCall(t, c, "ok", NoToken, verified) /\ UNCHANGED <<accounts, sessions>>
      BY <1>4, <2>1 DEF ServeSessionCheck, storage, server
    <3>6. call.kind # "changePassword"
      BY <3>2 DEF SessionChecks
    <3> HIDE DEF verified
    <3>7. \A r \in Tabs : PageOwned(sessions', page'[r])
      BY <1>3, <3>1, <3>4, <3>5, <3>6, AnswerCallOwned, TokenTypes
    <3>8. QED
      BY <1>1, <1>3, <3>5, <3>7
  <2>2. CASE ~Live(call.sent)
    BY <1>2, <1>3, <1>4, <2>2 DEF ServeSessionCheck, storage, server
  <2>3. QED
    BY <2>1, <2>2
<1>5. CASE ServeSignIn(t, c)
  <2>1. ASSUME NEW k \in Tokens, NEW verified \in BOOLEAN, call.uid \in registered,
               IsNextToken(k), AnswerCall(t, c, "ok", k, verified),
               sessions' = [sessions EXCEPT
                   ![k] = [uid |-> call.uid, verified |-> verified, live |-> TRUE]]
        PROVE  Ownership'
    <3>1. KeepsIssued(sessions, sessions')
      BY <1>3
    <3>2. OkOwned(sessions', page[t].heap[call.slot], call, k, verified)
      BY <1>5, <2>1 DEF OkOwned, Owned, Vouched, Typed, SessionChecks, ServeSignIn, Pending
    <3>3. call.kind # "changePassword"
      BY <1>5 DEF ServeSignIn, Pending
    <3>4. \A r \in Tabs : PageOwned(sessions', page'[r])
      BY <2>1, <3>1, <3>2, <3>3, AnswerCallOwned
    <3>5. QED
      BY <1>1, <1>5, <3>1, <3>4 DEF ServeSignIn, storage
  <2>2. ASSUME AnswerCall(t, c, "failed", NoToken, FALSE), UNCHANGED sessions
        PROVE  Ownership'
    BY <1>2, <1>3, <1>5, <2>2 DEF ServeSignIn, storage
  <2>3. QED
    BY <1>5, <2>1, <2>2 DEF ServeSignIn
<1>6. CASE ServeCheckUid(t, c)
  BY <1>2, <1>3, <1>6 DEF ServeCheckUid, Pending, storage, server
<1>7. CASE ServeSignOut(t, c)
  BY <1>2, <1>3, <1>7 DEF ServeSignOut, Pending, storage
<1>8. CASE ServeDestroy(t, c)
  BY <1>2, <1>3, <1>8 DEF ServeDestroy, Pending, storage
<1>9. CASE ServeChangePassword(t, c)
  <2>1. ASSUME Live(call.sent), NEW k \in Tokens, IsNextToken(k),
               sessions' = [j \in Tokens |->
                   IF j = k THEN sessions[call.sent]
                   ELSE [sessions[j] EXCEPT
                           !.live = @ /\ sessions[j].uid # sessions[call.sent].uid]],
               AnswerCall(t, c, "ok", k, sessions[call.sent].verified)
        PROVE  Ownership'
    <3>1. call.sent \in Tokens /\ sessions[call.sent] \in Session
      BY <2>1, CallFields DEF Live, Typed
    <3>2. /\ call.kind = "changePassword" /\ page[t].heap[call.slot].uid = call.uid
          /\ call.uid \in Uids /\ sessions[call.sent].uid = call.uid
      BY <1>9, <2>1 DEF ServeChangePassword, Pending, Live, Ownership, PageOwned,
                        CallOwned, ChangeOwned, Owned
    <3>3. KeepsIssued(sessions, sessions')
      BY <1>3
    <3>4. ASSUME NEW j \in Tokens \cup {NoToken}, Owned(sessions, j, call.uid)
          PROVE  Over(sessions', j)
      BY <2>1, <3>2, <3>4 DEF Owned, Over, IsNextToken, IsUnused, Typed, Session
    <3>5. OkOwned(sessions', page[t].heap[call.slot], call, k, sessions[call.sent].verified)
      <4>1. call.slot \in Slots /\ "changePassword" \notin SessionChecks
        BY <3>2, CallFields DEF SessionChecks
      <4>2. /\ page[t].heap[call.slot].token \in Tokens \cup {NoToken}
            /\ Owned(sessions, page[t].heap[call.slot].token, call.uid)
        BY <3>2, <4>1 DEF Typed, Page, Account, Ownership, PageOwned, ObjectOwned
      <4>3. Over(sessions', page[t].heap[call.slot].token)
        BY <3>4, <4>2
      <4>4. Owned(sessions', k, call.uid)
        BY <2>1, <3>2 DEF Owned
      <4>5. sessions[call.sent].verified => Vouched(sessions', k)
        BY <2>1 DEF Vouched
      <4>6. QED
        BY <3>2, <4>1, <4>3, <4>4, <4>5 DEF OkOwned
    <3>6. ASSUME NEW d \in CallIds, page[t].calls[d].kind \in SessionChecks,
                 page[t].calls[d].slot = call.slot
          PROVE  Over(sessions', page[t].calls[d].sent)
      <4>1. Owned(sessions, page[t].calls[d].sent, call.uid)
        BY <3>2, <3>6 DEF Ownership, PageOwned, CallOwned, CheckOwned
      <4>2. QED
        BY <3>4, <4>1, CallFields
    <3>7. \A r \in Tabs : PageOwned(sessions', page'[r])
      <4>1. sessions[call.sent].verified \in BOOLEAN
        BY <3>1 DEF Session
      <4>2. QED
        BY <2>1, <3>3, <3>5, <3>6, <4>1, AnswerCallOwned
    <3>8. QED
      BY <1>1, <1>9, <3>3, <3>7 DEF ServeChangePassword, storage
  <2>2. ASSUME AnswerCall(t, c, "failed", NoToken, FALSE), UNCHANGED sessions
        PROVE  Ownership'
    BY <1>2, <1>3, <1>9, <2>2 DEF ServeChangePassword, storage
  <2>3. QED
    BY <1>9, <2>1, <2>2 DEF ServeChangePassword
<1>10. QED
  BY <1>4, <1>5, <1>6, <1>7, <1>8, <1>9 DEF ServerStep

LEMMA NetworkOwned ==
  ASSUME Typed, Ownership
  PROVE  /\ \A t \in Tabs, c \in CallIds : Fails(t, c) => Ownership'
         /\ \A k \in Tokens : VerifySession(k) \/ DisconnectSession(k) => Ownership'
<1>1. ASSUME NEW t \in Tabs, NEW c \in CallIds, Fails(t, c)
      PROVE  Ownership'
  <2>1. KeepsIssued(sessions, sessions')
    BY <1>1 DEF Fails, KeepsIssued, server
  <2>2. \A r \in Tabs : PageOwned(sessions', page'[r])
    BY <1>1, <2>1, AnswerCallOwned, TokenTypes DEF Fails
  <2>3. QED
    BY <1>1, <2>2 DEF Fails, Ownership, storage, server
<1>2. ASSUME NEW k \in Tokens, VerifySession(k) \/ DisconnectSession(k)
      PROVE  Ownership'
  <2>1. KeepsIssued(sessions, sessions')
    BY <1>2, FlagsKeepIssued DEF VerifySession, DisconnectSession
  <2>2. \A t \in Tabs : PageOwned(sessions', page[t])
    BY <2>1, PageStaysOwned DEF Typed, Ownership
  <2>3. StorageOwned(sessions', accounts)
    BY <2>1, StorageStaysOwned DEF Typed, Ownership
  <2>4. QED
    BY <1>2, <2>2, <2>3 DEF VerifySession, DisconnectSession, Ownership, storage
<1>3. QED
  BY <1>1, <1>2

LEMMA OwnershipInit == Init => Ownership
  BY UnloadedOwned DEF Init, Ownership, StorageOwned, Loading

LEMMA OwnershipStep ==
  ASSUME TypeOK, Ownership, [Next]_vars
  PROVE  Ownership'
<1>1. Typed
  BY DEF TypeOK, Typed, Stored
<1>2. CASE Chosen
  BY <1>1, <1>2, UserOwned, NetworkOwned DEF Chosen
<1>3. CASE Driven
  BY <1>1, <1>3, LoadOwned, HearOwned, ServerOwned, AnswerOwned DEF Driven
<1>4. CASE UNCHANGED vars
  BY <1>4 DEF vars, Ownership
<1>5. QED
  BY <1>2, <1>3, <1>4 DEF Next

LEMMA OwnershipHolds == Spec => []Ownership
<1>1. TypeOK /\ Ownership /\ [Next]_vars => Ownership'
  BY OwnershipStep
<1>2. QED
  BY <1>1, OwnershipInit, TypeCorrect, PTL DEF Spec

\* No interleaving of answers, removals, broadcasts, reloads and password
\* changes pairs a session token with an account the server did not issue it
\* for, although answers write to whatever object their call still holds.
THEOREM TokensCorrect == Spec => []TokensBelongToTheirAccount
<1>1. Ownership => TokensBelongToTheirAccount
  BY DEF Ownership, StorageOwned, PageOwned, ObjectOwned, Owned, TokensBelongToTheirAccount
<1>2. QED
  BY <1>1, OwnershipHolds, PTL

\* No account is stored as verified with a session that is not, although the
\* flag is set by answers that may be about an older session of the object.
THEOREM VerifiedCorrect == Spec => []VerifiedNeverAheadOfServer
<1>1. Ownership => VerifiedNeverAheadOfServer
  BY DEF Ownership, StorageOwned, Vouched, VerifiedNeverAheadOfServer
<1>2. QED
  BY <1>1, OwnershipHolds, PTL

-----------------------------------------------------------------------------
(* The tabs implement AccountStore.  That what they write is true follows  *)
(* from Ownership in the next state; what is left is that a step only adds *)
(* accounts or only removes some, and what it makes the current account.   *)

\* No account that acc has is missing from acc2.
KeepsAll(acc, acc2) == \A u \in Uids : acc[u] # NotStored => acc2[u] # NotStored

\* What may become the current account when acc2 is stored.
MayBeCurrent(acc2) == {currentUid, NoUid} \cup {u \in Uids : acc2[u] # NotStored}

\* Storing an object, or showing the settings, adds an account or replaces it.
LEMMA PersistedKeeps ==
  ASSUME NEW acc \in Stored, NEW o \in Account
  PROVE  /\ KeepsAll(acc, Persisted(acc, o))
         /\ o.uid \in MayBeCurrent(Persisted(acc, o))
<1>1. [token |-> o.token, verified |-> o.verified] # NotStored
  BY UserAccountsAssumption DEF Account, StoredAccount
<1>2. QED
  BY <1>1 DEF KeepsAll, MayBeCurrent, Persisted, Stored, Account

LEMMA SettingsKeep ==
  ASSUME NEW p \in Page, NEW acc \in Stored, NEW uid \in Uids \cup {NoUid}
  PROVE  KeepsAll(acc, ShowSettingsStores(p, acc, uid))
<1>1. SignedInAccount(p, acc, uid) \in Account
  BY SignedInAccountType
<1>2. KeepsAll(acc, acc)
  BY DEF KeepsAll
<1>3. QED
  BY <1>1, <1>2, PersistedKeeps DEF ShowSettingsStores

\* What remains in storage is as it was or true of the server's sessions.
LEMMA PersistRefines ==
  ASSUME TypeOK', Ownership', UNCHANGED server,
         KeepsAll(accounts, accounts'), currentUid' \in MayBeCurrent(accounts')
  PROVE  AS!Persist
<1>1. ASSUME NEW u \in Uids
      PROVE  accounts'[u] \in {accounts[u]} \cup AS!Sound(u)
  <2>1. CASE accounts'[u] = NotStored
    BY <1>1, <2>1 DEF KeepsAll
  <2>2. CASE accounts'[u] # NotStored
    <3>1. accounts'[u] \in StoredAccount
      BY <1>1, <2>2 DEF TypeOK
    <3>2. /\ Owned(sessions, accounts'[u].token, u)
          /\ accounts'[u].verified => Vouched(sessions, accounts'[u].token)
      BY <1>1, <2>2 DEF Ownership, StorageOwned, server
    <3>3. QED
      BY <3>1, <3>2 DEF AS!Sound, StoredAccount, Owned, Vouched
  <2>3. QED
    BY <2>1, <2>2
<1>2. accounts' = [u \in Uids |-> accounts'[u]]
  BY DEF TypeOK
<1>3. QED
  BY <1>1, <1>2 DEF AS!Persist, MayBeCurrent, server

\* A step that only removes accounts, one or all, and may clear the current
\* one.
LEMMA RemoveRefines ==
  ASSUME Typed, UNCHANGED server, NEW uid,
         \/ accounts' = WithoutAccount(uid)
         \/ accounts' = [u \in Uids |-> NotStored],
         currentUid' \in {currentUid, NoUid}
  PROVE  AS!Next
<1>1. PICK us \in SUBSET Uids :
        accounts' = [u \in Uids |-> IF u \in us THEN NotStored ELSE accounts[u]]
  <2>1. CASE accounts' = WithoutAccount(uid)
    <3>1. accounts' = [u \in Uids |-> IF u \in Uids \cap {uid} THEN NotStored ELSE accounts[u]]
      BY <2>1 DEF WithoutAccount
    <3>2. QED
      BY <3>1
  <2>2. CASE accounts' = [u \in Uids |-> NotStored]
    BY <2>2
  <2>3. QED
    BY <2>1, <2>2
<1>2. QED
  BY <1>1 DEF AS!Next, AS!Remove, server

\* Loading a page, hearing a broadcast and the check on focus choose the
\* current account from storage, and store nothing but the account shown.
LEMMA PageRefines ==
  ASSUME Typed, TypeOK', Ownership', NEW t \in Tabs,
         Focus(t) \/ LoadStep(t) \/ HearStep(t)
  PROVE  [AS!Next]_AS!vars
<1>1. page[t] \in Page /\ accounts \in Stored /\ currentUid \in Uids \cup {NoUid}
  BY DEF Typed
<1>2. KeepsAll(accounts, accounts) /\ currentUid \in MayBeCurrent(accounts')
  BY DEF KeepsAll, MayBeCurrent
<1>3. CASE Focus(t)
  <2>1. PICK s \in Slots :
          LET q == WithSignedInAccount(page[t], s, accounts, currentUid)
          IN  accounts' = Persisted(accounts, q.heap[q.cache]) \/ accounts' = accounts
    BY <1>3 DEF Focus
  <2> DEFINE q == WithSignedInAccount(page[t], s, accounts, currentUid)
  <2>2. q.heap[q.cache] = SignedInAccount(page[t], accounts, currentUid)
    BY <1>1 DEF WithSignedInAccount, SignedInAccount, Page
  <2>3. KeepsAll(accounts, accounts')
    BY <1>1, <1>2, <2>1, <2>2, SignedInAccountType, PersistedKeeps
  <2>4. QED
    BY <1>2, <1>3, <2>3, PersistRefines DEF Focus, AS!Next
<1>4. CASE LoadStep(t)
  <2>1. CASE LoadSignIn(t)
    BY <2>1 DEF LoadSignIn, storage, server, AS!vars
  <2>2. ASSUME NEW u \in Uids \cup {NoUid}, LoadSettings(t, u)
        PROVE  AS!Persist
    <3> DEFINE known == u # NoUid /\ accounts[u] # NotStored
               forced == u # NoUid /\ ~known
               uid == IF known THEN u ELSE IF forced THEN NoUid ELSE currentUid
    <3>1. uid \in Uids \cup {NoUid} /\ (uid \in {currentUid, NoUid} \/ accounts[uid] # NotStored)
      BY <1>1
    <3>2. currentUid' = uid /\ accounts' = ShowSettingsStores(page[t], accounts, uid)
          /\ UNCHANGED server
      BY <2>2 DEF LoadSettings
    <3> HIDE DEF uid
    <3>3. KeepsAll(accounts, accounts')
      BY <1>1, <3>1, <3>2, SettingsKeep
    <3>4. currentUid' \in MayBeCurrent(accounts')
      BY <1>1, <3>1, <3>2, <3>3 DEF MayBeCurrent, KeepsAll
    <3>5. QED
      BY <3>2, <3>3, <3>4, PersistRefines
  <2>3. QED
    BY <1>4, <2>1, <2>2 DEF LoadStep, AS!Next
<1>5. CASE HearStep(t)
  <2>1. CASE HearSignedIn(t)
    <3> DEFINE v == Head(inbox[t]).uid
               stored == accounts[v] # NotStored
               uid == IF stored THEN v ELSE currentUid
               q == IF stored /\ page[t].cache # NoSlot /\ page[t].heap[page[t].cache].uid # v
                    THEN WithCache(page[t], NoSlot) ELSE page[t]
    <3>1. v \in Uids \cup {NoUid}
      BY <2>1, TailType DEF HearSignedIn, Typed, Message
    <3>2. uid \in Uids \cup {NoUid} /\ (uid \in {currentUid, NoUid} \/ accounts[uid] # NotStored)
      BY <1>1, <3>1
    <3>3. q \in Page
      BY <1>1, WithCacheType, TokenTypes
    <3>4. currentUid' = uid /\ accounts' = ShowSettingsStores(q, accounts, uid)
          /\ UNCHANGED server
      BY <2>1 DEF HearSignedIn
    <3> HIDE DEF uid, q
    <3>5. KeepsAll(accounts, accounts')
      BY <1>1, <3>2, <3>3, <3>4, SettingsKeep
    <3>6. currentUid' \in MayBeCurrent(accounts')
      BY <1>1, <3>2, <3>4, <3>5 DEF MayBeCurrent, KeepsAll
    <3>7. QED
      BY <3>4, <3>5, <3>6, PersistRefines DEF AS!Next
  <2>2. CASE HearSignedOut(t)
    <3>1. currentUid' = NoUid /\ UNCHANGED <<accounts, server>>
      BY <2>2 DEF HearSignedOut
    <3>2. QED
      BY <1>2, <3>1, PersistRefines DEF MayBeCurrent, AS!Next
  <2>3. CASE Ignore(t)
    BY <2>3 DEF Ignore, storage, server, AS!vars
  <2>4. QED
    BY <1>5, <2>1, <2>2, <2>3 DEF HearStep
<1>6. QED
  BY <1>3, <1>4, <1>5

LEMMA UserRefines ==
  ASSUME Typed, TypeOK', Ownership', NEW t \in Tabs, UserStep(t)
  PROVE  [AS!Next]_AS!vars
<1>1. CASE Focus(t)
  BY <1>1, PageRefines
<1>2. CASE UseDifferentAccount(t)
  BY <1>2, RemoveRefines DEF UseDifferentAccount
<1>3. CASE UserStep(t) /\ ~Focus(t) /\ ~UseDifferentAccount(t)
  BY <1>3 DEF UserStep, StartSignIn, StartCheckUid, StartOnSettings, Reload,
              storage, server, AS!vars
<1>4. QED
  BY <1>1, <1>2, <1>3

\* An answer stores the account of its call or object, or removes one.
LEMMA AnswerRefines ==
  ASSUME Typed, TypeOK', Ownership', NEW t \in Tabs, NEW c \in CallIds, AnswerStep(t, c)
  PROVE  [AS!Next]_AS!vars
<1> DEFINE k == page[t].calls[c]
           old == page[t].heap[k.slot]
           o == AfterStatus(old, k.answer)
           p == WithObject(Ended(t, c), k.slot, o)
<1>1. page[t] \in Page /\ accounts \in Stored /\ currentUid \in Uids \cup {NoUid}
  BY DEF Typed
<1>2. KeepsAll(accounts, accounts) /\ currentUid \in MayBeCurrent(accounts')
  BY DEF KeepsAll, MayBeCurrent
<1>3. ASSUME NEW n \in Account, UNCHANGED server,
             SetsSignedIn(n) \/ (accounts' = Persisted(accounts, n) /\ UNCHANGED currentUid)
      PROVE  AS!Persist
  BY <1>1, <1>2, <1>3, PersistedKeeps, PersistRefines DEF SetsSignedIn
<1>4. k.kind \in SessionChecks => o \in Account /\ p \in Page
  BY HeldUids DEF SessionChecks
<1>5. CASE SignInAnswered(t, c)
  <2> DEFINE n == [uid |-> k.uid, token |-> k.answer.token, verified |-> k.answer.verified]
  <2>1. n \in Account
    BY CallFields DEF Account
  <2>2. UNCHANGED server /\ (SetsSignedIn(n) \/ UNCHANGED storage)
    BY <1>5 DEF SignInAnswered
  <2>3. QED
    BY <1>3, <2>1, <2>2 DEF storage, server, AS!vars, AS!Next
<1>6. CASE FetchInAnswered(t, c) \/ FetchAnswered(t, c) \/ CheckVerified(t, c)
           \/ CheckUnverified(t, c) \/ CheckRejected(t, c)
  <2>1. /\ k.kind \in SessionChecks /\ UNCHANGED server
        /\ \/ SetsSignedIn(o)
           \/ accounts' \in {accounts, Persisted(accounts, o)} /\ UNCHANGED currentUid
    BY <1>6 DEF FetchInAnswered, FetchAnswered, CheckVerified, CheckUnverified,
                CheckRejected, Answered, SessionChecks
  <2>2. QED
    BY <1>3, <1>4, <2>1 DEF server, AS!vars, AS!Next
<1>7. CASE PollAnswered(t, c)
  <2> DEFINE acc == Persisted(accounts, o)
  <2>1. /\ k.kind \in SessionChecks /\ UNCHANGED <<currentUid, server>>
        /\ accounts' \in {accounts, ShowSettingsStores(p, acc, currentUid)}
    BY <1>7 DEF PollAnswered, Answered, SessionChecks
  <2>2. acc \in Stored /\ KeepsAll(accounts, acc)
    BY <1>1, <1>4, <2>1, PersistedType, PersistedKeeps
  <2>3. KeepsAll(acc, ShowSettingsStores(p, acc, currentUid))
    BY <1>1, <1>4, <2>1, <2>2, SettingsKeep
  <2> HIDE DEF acc
  <2>4. KeepsAll(accounts, accounts')
    BY <1>2, <2>1, <2>2, <2>3 DEF KeepsAll
  <2>5. QED
    BY <1>2, <2>1, <2>4, PersistRefines DEF AS!Next
<1>8. CASE ChangePasswordAnswered(t, c)
  <2> DEFINE n == [old EXCEPT !.token = k.answer.token, !.verified = k.answer.verified]
  <2>1. k.slot \in Slots /\ old \in Account
    BY <1>8, HeldObject DEF ChangePasswordAnswered, Answered
  <2>2. n \in Account
    BY <2>1, CallFields DEF Account
  <2>3. UNCHANGED server /\ (SetsSignedIn(n) \/ UNCHANGED storage)
    BY <1>8 DEF ChangePasswordAnswered
  <2>4. QED
    BY <1>3, <2>2, <2>3 DEF storage, server, AS!vars, AS!Next
<1>9. CASE SignOutAnswered(t, c) \/ DestroyAnswered(t, c) \/ CheckUidAnswered(t, c)
  <2>1. /\ UNCHANGED server
        /\ \/ \E uid : accounts' = WithoutAccount(uid) /\ currentUid' \in {currentUid, NoUid}
           \/ UNCHANGED storage
    BY <1>9 DEF SignOutAnswered, DestroyAnswered, CheckUidAnswered, RemoveAccount
  <2>2. QED
    BY <2>1, RemoveRefines DEF storage, server, AS!vars
<1>10. CASE StrayPollAnswered(t, c) \/ PollFires(t, c)
  BY <1>10 DEF StrayPollAnswered, PollFires, storage, server, AS!vars
<1>11. QED
  BY <1>5, <1>6, <1>7, <1>8, <1>9, <1>10 DEF AnswerStep

-----------------------------------------------------------------------------
(* The server of the model is that of AccountStore.                        *)

\* No session of a deleted account is alive.
LiveAreRegistered == \A k \in Tokens : sessions[k].live => sessions[k].uid \in registered

LEMMA FlagsKeepRegistered ==
  ASSUME Typed, LiveAreRegistered, NEW k \in Tokens, UNCHANGED registered,
         \/ sessions' = [sessions EXCEPT ![k].live = FALSE]
         \/ Live(k) /\ sessions' = [sessions EXCEPT ![k].verified = TRUE]
  PROVE  LiveAreRegistered'
<1>1. \A j \in Tokens : sessions[j] \in Session
  BY DEF Typed
<1>2. ASSUME NEW j \in Tokens, sessions'[j].live
      PROVE  sessions[j].live /\ sessions'[j].uid = sessions[j].uid
  <2>1. CASE j = k
    BY <1>1, <1>2, <2>1 DEF Typed, Session, Live
  <2>2. CASE j # k
    BY <1>2, <2>2 DEF Typed
  <2>3. QED
    BY <2>1, <2>2
<1>3. QED
  BY <1>2 DEF LiveAreRegistered

\* Deleting an account and changing its password end its sessions; what a
\* sign-in and a change of password begin is of an account that exists.
LEMMA ServerKeepsRegistered ==
  ASSUME Typed, LiveAreRegistered, NEW t \in Tabs, NEW c \in CallIds,
         ServerStep(t, c) \/ Fails(t, c)
  PROVE  LiveAreRegistered'
<1> DEFINE call == page[t].calls[c]
<1>1. UNCHANGED server => LiveAreRegistered'
  BY DEF server, LiveAreRegistered
<1>2. CASE ServeSessionCheck(t, c) \/ ServeCheckUid(t, c) \/ Fails(t, c)
  BY <1>1, <1>2 DEF ServeSessionCheck, ServeCheckUid, Fails
<1>3. CASE ServeSignIn(t, c)
  <2>1. ASSUME NEW k \in Tokens, NEW verified \in BOOLEAN, call.uid \in registered,
               sessions' = [sessions EXCEPT
                   ![k] = [uid |-> call.uid, verified |-> verified, live |-> TRUE]]
        PROVE  LiveAreRegistered'
    BY <1>3, <2>1 DEF ServeSignIn, LiveAreRegistered, Typed
  <2>2. QED
    BY <1>1, <1>3, <2>1 DEF ServeSignIn, server
<1>4. CASE ServeSignOut(t, c)
  <2>1. CASE Live(call.sent)
    BY <1>4, <2>1, CallFields, FlagsKeepRegistered DEF ServeSignOut, Live
  <2>2. CASE ~Live(call.sent)
    BY <1>1, <1>4, <2>2 DEF ServeSignOut, server
  <2>3. QED
    BY <2>1, <2>2
<1>5. CASE ServeDestroy(t, c)
  BY <1>5 DEF ServeDestroy, LiveAreRegistered, Typed, Session
<1>6. CASE ServeChangePassword(t, c)
  <2>1. ASSUME Live(call.sent), NEW k \in Tokens,
               sessions' = [j \in Tokens |->
                   IF j = k THEN sessions[call.sent]
                   ELSE [sessions[j] EXCEPT
                           !.live = @ /\ sessions[j].uid # sessions[call.sent].uid]]
        PROVE  LiveAreRegistered'
    <3>1. call.sent \in Tokens
      BY <2>1, CallFields DEF Live
    <3>2. QED
      BY <1>6, <2>1, <3>1 DEF ServeChangePassword, LiveAreRegistered, Live, Typed, Session
  <2>2. QED
    BY <1>1, <1>6, <2>1 DEF ServeChangePassword, server
<1>7. QED
  BY <1>2, <1>3, <1>4, <1>5, <1>6 DEF ServerStep

LEMMA RegisteredStep ==
  ASSUME TypeOK, LiveAreRegistered, [Next]_vars
  PROVE  LiveAreRegistered'
<1>1. Typed
  BY DEF TypeOK, Typed, Stored
<1>2. UNCHANGED server => LiveAreRegistered'
  BY DEF server, LiveAreRegistered
<1>3. \A k \in Tokens : VerifySession(k) \/ DisconnectSession(k) => LiveAreRegistered'
  BY <1>1, FlagsKeepRegistered DEF VerifySession, DisconnectSession
<1>4. \A t \in Tabs : UserStep(t) \/ LoadStep(t) \/ HearStep(t) => UNCHANGED server
  BY DEF UserStep, StartSignIn, StartCheckUid, Focus, StartOnSettings, UseDifferentAccount,
         Reload, LoadStep, LoadSignIn, LoadSettings, HearStep, HearSignedIn, HearSignedOut,
         Ignore
<1>5. ASSUME NEW t \in Tabs, NEW c \in CallIds, AnswerStep(t, c)
      PROVE  UNCHANGED server
  <2>1. CASE SignInAnswered(t, c) \/ FetchInAnswered(t, c) \/ FetchAnswered(t, c)
             \/ ChangePasswordAnswered(t, c)
    BY <2>1 DEF SignInAnswered, FetchInAnswered, FetchAnswered, ChangePasswordAnswered
  <2>2. CASE CheckVerified(t, c) \/ CheckUnverified(t, c) \/ CheckRejected(t, c)
    BY <2>2 DEF CheckVerified, CheckUnverified, CheckRejected
  <2>3. CASE PollAnswered(t, c) \/ StrayPollAnswered(t, c) \/ PollFires(t, c)
    BY <2>3 DEF PollAnswered, StrayPollAnswered, PollFires
  <2>4. CASE SignOutAnswered(t, c) \/ DestroyAnswered(t, c) \/ CheckUidAnswered(t, c)
    BY <2>4 DEF SignOutAnswered, DestroyAnswered, CheckUidAnswered
  <2>5. QED
    BY <1>5, <2>1, <2>2, <2>3, <2>4 DEF AnswerStep
<1>6. CASE Chosen
  BY <1>1, <1>2, <1>3, <1>4, <1>6, ServerKeepsRegistered DEF Chosen
<1>7. CASE Driven
  BY <1>1, <1>2, <1>4, <1>5, <1>7, ServerKeepsRegistered DEF Driven
<1>8. CASE UNCHANGED vars
  BY <1>2, <1>8 DEF vars, server
<1>9. QED
  BY <1>6, <1>7, <1>8 DEF Next

\* What the server does keeps what it issued.
LEMMA ServeRefines ==
  ASSUME Typed, TypeOK', LiveAreRegistered', KeepsIssued(sessions, sessions'),
         registered' \subseteq registered, UNCHANGED storage
  PROVE  AS!Next
<1>1. \A k \in Tokens : sessions[k].uid # NoUid => sessions[k].uid \in Uids
  BY DEF Typed, Session
<1>2. sessions' \in [Tokens -> [uid : Uids \cup {NoUid}, verified : BOOLEAN, live : BOOLEAN]]
  BY DEF TypeOK, Session
<1>3. AS!Serve
  BY <1>1, <1>2 DEF AS!Serve, KeepsIssued, LiveAreRegistered, storage
<1>4. QED
  BY <1>3 DEF AS!Next

LEMMA StoreInit == Init => AS!Init /\ LiveAreRegistered
  BY DEF Init, AS!Init, LiveAreRegistered

LEMMA StoreStep ==
  ASSUME TypeOK, TypeOK', Ownership', LiveAreRegistered', [Next]_vars
  PROVE  [AS!Next]_AS!vars
<1>1. Typed
  BY DEF TypeOK, Typed, Stored
<1>2. \A t \in Tabs, c \in CallIds : ServerStep(t, c) \/ Fails(t, c) => AS!Next
  BY <1>1, ServerKeepsIssued, ServeRefines
<1>3. ASSUME NEW k \in Tokens, VerifySession(k) \/ DisconnectSession(k)
      PROVE  AS!Next
  <2>1. KeepsIssued(sessions, sessions')
    BY <1>1, <1>3, FlagsKeepIssued DEF VerifySession, DisconnectSession
  <2>2. QED
    BY <1>1, <1>3, <2>1, ServeRefines DEF VerifySession, DisconnectSession
<1>4. CASE Chosen
  BY <1>1, <1>2, <1>3, <1>4, UserRefines DEF Chosen
<1>5. CASE Driven
  BY <1>1, <1>2, <1>5, PageRefines, AnswerRefines DEF Driven
<1>6. CASE UNCHANGED vars
  BY <1>6 DEF vars, AS!vars
<1>7. QED
  BY <1>4, <1>5, <1>6 DEF Next

\* Tabs with caches, objects in flight and late answers write the storage
\* they share as a browser would that remembers nothing.
THEOREM AccountsImplementAccountStore == Spec => ImplementsAccountStore
<1>1. TypeOK /\ LiveAreRegistered /\ [Next]_vars => LiveAreRegistered'
  BY RegisteredStep
<1>2. Spec => []LiveAreRegistered
  BY <1>1, StoreInit, TypeCorrect, PTL DEF Spec
<1>3. TypeOK /\ TypeOK' /\ Ownership' /\ LiveAreRegistered' /\ [Next]_vars => [AS!Next]_AS!vars
  BY StoreStep
<1>4. Init => AS!Init
  BY StoreInit
<1>5. QED
  BY <1>2, <1>3, <1>4, TypeCorrect, OwnershipHolds, PTL DEF Spec, AS!Spec, ImplementsAccountStore
=============================================================================
