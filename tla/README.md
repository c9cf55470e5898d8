# A TLA+ model of the Firefox Accounts content server

fxa-content-server is the web front end of Firefox Accounts: a Backbone
application that runs in the tabs of one browser, talks over HTTP to the
auth, OAuth and profile servers, over browser events to the browser that
hosts it, and over a BroadcastChannel and localStorage to its other tabs.
The Node process under `server/` only serves the pages. What is hard in this
code is asynchrony: promises that resolve after the state they were started
from has changed, in one tab or in another.

The modules here model that part. TLC checks them on small instances, and
TLAPS proves the central safety properties for every instance. `PROJECT.json`
maps every definition to the lines it models.

## 1. Inventory

All paths are below `app/scripts/` unless they start with `server`.

| Component | State | Operations | Hard behaviour | What makes it correct | Module |
|---|---|---|---|---|---|
| User (`models/user.js`) | localStorage `accounts`, `currentAccountUid`; a cached signed-in Account per tab | sign in, sign up, sign out, delete, change password, complete a reset, `sessionStatus`, `setAccount`, `removeAccount`, `checkAccountUidExists` | every operation persists after an asynchronous step; the storage is shared by tabs, the cache is not | a token is stored only with its account; a removed account comes back only from memory; sign-ins end | `UserAccounts`, `AccountStore`, `PasswordReset` |
| Account (`models/account.js`), session part | session token, verified flag | `fetch`, `sessionStatus`, `signIn`, `signOut`, `changePassword` | answers mutate the object whatever it holds by then | the verified flag follows the session, not an older answer | `UserAccounts` |
| Account, tokens (`models/account.js`, `lib/assertion.js`, `lib/profile-client.js`, `lib/oauth-client.js`) | access token, `_assertionPromises`, `_profileFetchPromise` | `createOAuthToken`, `profileClient`, `fetchProfile`, `fetchOAuthApps`, `destroyOAuthApp`, avatar and display name | chains of up to five requests, retries, caches that changes of the account clear | one profile fetch, one signing per session, retries with newer tokens, operations end | `AccountTokens` |
| Session verification poll (`models/polls/session-verification.js`, its view mixin) | `_isWaiting`, `_pollTimeout`, a retry timer of the view | start, stop, poll, retry, destroy | answers after stop; an error event that stops and restarts the poll; a nested call that may fail | one chain of checks, none after destroy, a view is told once and truly, verification is noticed | `SessionVerificationPoll`, `VerificationWait` |
| Channels to the browser (`lib/channels/duplex.js`, `web.js`, senders, receivers) | table of outstanding requests, their timers, a shared id suffix | request, message, error, reject all, timeout, teardown | two channels hear the same events; answers in any order, or never | each request is settled once and by its own answer | `DuplexChannel`, `RequestReply` |
| Sync brokers (`models/auth_brokers/fx-sync*.js`), sign-in, sign-up, unblock, confirm, token-code and choose-what-to-sync views | `_verifiedCanLinkEmail`, `_uidOfLoginNotification`, the account given from view to view | `beforeSignIn`, `afterSignIn`, `beforeSignUpConfirmationPoll`, ... | permission is asked in one form and used by another; several views may do the telling | the browser hears of permitted logins, once, and of all of them | `SyncLogin`, `LoginNotice` |
| OAuth brokers and reliers (`models/auth_brokers/oauth*.js`, `models/reliers/oauth.js`, `lib/session.js`) | `Session.oauth` in localStorage and in memory, `originalTab` in sessionStorage | begin, persist, finish, load a link | links opened in any tab, polls of others; one record for all tabs | results are of verified users, from original tabs, with the relier's own state; the original tab finishes | `OAuthFlow` |
| Password reset views, e-mail resend (`views/confirm_reset_password.js`, `complete_reset_password.js`, `models/email-resend.js`) | a poll, a listener, timers, tries | wait, open a link, complete, resend | poll, message of another tab and failures race | the wait ends once and truly; the limit on e-mails holds | `PasswordReset`, `ResetWait` |
| Router, application view, base view, settings panels (`lib/router.js`, `views/app.js`, `views/base.js`, `views/settings.js`, `views/sub_panels.js`) | the current view, views being rendered, the URL | navigate, render, destroy, open a panel, check on focus | renders end in any order, after their view was replaced | one live view, panels in it, it is displayed | `ViewNavigation` |
| Inter-tab channel, notifier (`lib/channels/inter-tab.js`, `notifier.js`) | listeners | `triggerRemote`, `triggerAll` | a message is handled by whatever view is displayed on arrival | a sign-out reaches the settings of other tabs | `UserAccounts`, `PasswordReset` |
| Old channels (`fx-desktop-v1.js`, `iframe.js`) | as the channels, the id is the command | as above | two requests of one command collide | - | - |
| Same-browser verification (`models/verification/`) | record in localStorage | persist, load, clear | link opened before or after the record | - | - |
| Attached clients, metrics, experiments, templates, `server/` | little or none | I/O, parsing, rendering | - | - | - |

Tabs interact through localStorage (read and written synchronously, so that
one task is atomic) and through BroadcastChannel messages (asynchronous,
ordered per tab). A tab interacts with a server by a request and an answer,
with anything in between; with the browser by events. Within a tab, views hand
Account objects to one another by navigation, brokers are called by views
before and after each operation, and models tell views by events.

## 2. Modules

| Module | Models | Kind |
|---|---|---|
| `UserAccounts` | User, the session part of Account, the inter-tab channel, the settings, sign-in, force-auth and confirm views, the auth server and the network around them | state machine |
| `AccountStore` | what the User model promises of the storage | abstract specification |
| `UserAccountsProofs` | type correctness, restored accounts, tokens and the verified flag, the refinement of `AccountStore` | proofs |
| `RequestReply` | what a channel promises its callers | abstract specification |
| `DuplexChannel` | the channels of one page, and its refinement of `RequestReply` | state machine |
| `DuplexChannelProofs` | type correctness, outstanding requests, the refinement | proofs |
| `VerificationWait` | what the poll promises its views | abstract specification |
| `SessionVerificationPoll` | the poll and the mixin that owns it, and its refinement of `VerificationWait` | state machine |
| `SessionVerificationPollProofs` | type correctness, one chain of checks, quiet after destruction, the refinement | proofs |
| `AccountTokens` | access tokens, assertions and the profile cache of an account | state machine |
| `AccountTokensProofs` | type correctness, one signing per session, one fetch, newer retries, no forgotten wait | proofs |
| `ResetWait` | what the wait for a reset promises what follows it | abstract specification |
| `PasswordReset` | the view that waits, the tabs of links, the resend button, and its refinement of `ResetWait` | state machine |
| `PasswordResetProofs` | type correctness, the safety properties, the refinement, no forgotten wait | proofs |
| `LoginNotice` | what a Sync broker promises the browser | abstract specification |
| `SyncLogin` | forms, confirmation views and the Sync broker of one page, and its refinement of `LoginNotice` | state machine |
| `SyncLoginProofs` | type correctness, finished logins, the refinement | proofs |
| `OAuthFlow` | the OAuth redirect broker and relier in the tabs of one browser | state machine |
| `OAuthFlowProofs` | type correctness and the safety properties | proofs |
| `ViewNavigation` | router, application view, rendering, panels | state machine |
| `ViewNavigationProofs` | type correctness, `LiveIsCurrent`, `PanelsStartInCurrent` | proofs |
| `MC...` | instances for TLC, with symmetry where the properties allow it | MC |

In all modules one step is one task of an event loop or one action of a server
or of the user; what promise callbacks do in the same task is part of the step.
A request is sent, served and answered in steps of its own unless stated.

### UserAccounts and AccountStore

`accounts` and `currentUid` are the two keys of localStorage. `page[t]` is what
tab `t` has in memory: the view it displays, its cached signed-in account, its
Account objects and its calls in flight. Objects live in numbered slots, so
that the cache and a call can alias one object as they do in the code: an
answer changes the object its call holds, not a copy. A call records the token
it was sent with; the server answers about that token, and `AfterStatus`
applies the answer to the object as it is by then. `sessions` and `registered`
are the auth server; `inbox[t]` are the broadcasts that have not reached `t`.

One step is one task: a user action, a served request, an answer, a broadcast
heard, a page load. The promise callbacks that run in the same task are part of
the step, so `SignInAnswered` notifies, stores and navigates in one step when
the session is verified (then `fetch` asks nothing), and starts another request
when it is not. A step that navigates runs the `beforeRender` of the view it
shows: `ShowSettings`, `ShowSignIn` and `ShowConfirm`. Leaving a view stops its
poll (`ViewDestroyed`), but not the check it has in flight. `Reload` discards
everything a tab has in memory.

Abstractions. Profile data, access tokens, permissions, keys and e-mail
addresses are left out: an account is its uid, token and verified flag. The
profile fetch of settings (see `AccountTokens`) is left out, as are sign-up,
sign-in with a cached session, OAuth and Sync flows (see `SyncLogin` and
`OAuthFlow`), which add callers of the same storage operations.
`changeAccountPassword` is one call that carries the token the object has when
it starts. Its new session is verified, as settings are displayed only of
verified ones, so that `setSignedInAccount` needs no fetch; an unverified one
takes a page on settings whose cache a late answer about another account emptied
and a sign-in of another tab, more than any instance here has. A sign-in is not started while one is in flight
(`allowOnlyOneSubmit`). A storage operation of one task is not interleaved
with another tab's. A poll's "failed" is UNEXPECTED_ERROR, which is retried;
the detail is in `SessionVerificationPoll`. The two errors INVALID_TOKEN and
"any other" are told apart because the code does. A request may fail before
or after the server served it (`Fails`).

Bounds. `MaxSessions` bounds the sessions the server creates, `MaxCalls` the
calls of a tab in flight, `MaxInbox` undelivered broadcasts, and `MaxSteps`
what users, other devices and the network choose to do; consequences of these
choices are not bounded. When the steps are used up and every consequence is
done nothing is enabled, hence `CHECK_DEADLOCK FALSE`.

Fairness. `FairSpec` says that pages load, broadcasts that have arrived are
handled, the server serves what it received, and answers and poll timers run:
the event loop and the server. It does not say that users act, that sessions
become verified or that requests fail.

`AccountStore` is the storage as every page that loads may rely on it: what a
step stores is true of the server's sessions at that moment (a token is stored
with the account it was issued for, and as verified only if its session is), no
step both writes accounts and removes some, and an account that becomes the
current one is stored. It has no tabs: caches, calls in flight, answers and
broadcasts of `UserAccounts` are behind it, and none of them shows. It does not
promise that a removed account stays away, since the memory of a tab may bring
it back (`RestoredOnlyFromMemory`).

### DuplexChannel and RequestReply

`table[c]` is the `OutstandingRequests` of channel `c`, keyed by id; `state` is
the promise of each request; `id` is `<<Date.now(), suffix>>`, which determines
the string the code builds because `Date.now()` has thirteen digits until the
year 2286. `clock` moves freely, also backwards. The browser answers a request
it received once, with a message, an error, or "no such channel"; every open
channel hears the answer, because the notification channel and the channel of
the Sync broker have the same WebChannel id. A sender sends inside a promise
that `request` drops, so the choice `dispatched` of `Request` covers a send
that fails; such a request is in `unsent` and nothing else happens. The
`catch` of `request` removes the id of a rejected request a second time, which
changes nothing. `Teardown` follows `clear()`, which passes a request where
`remove()` takes an id. Messages without an id and one-way `send` change
nothing in this state. Nothing is enabled when all is answered.

`RequestReply` is the promise made to callers: a request is resolved only by a
message that answers it, rejected only by an error that answers it or by an
answer that there is no such channel, and never settled twice.

The only fairness is that an answer which reached the page is delivered.
Nothing says that the browser answers.

### SessionVerificationPoll and VerificationWait

`poll[v]` is the poll of view `v`: `_isWaiting`, whether `_pollTimeout` is
armed, whether the view's retry timer is armed, and how many calls are where.
The number of calls is a count, so that a poll that ran twice would show;
`Links` are the calls and timers a poll has. `live`, `verified` and `exists`
are the session and the account at the server. The views share one Account
object, so a check of an old view can take the token away from the poll of the displayed one. An invalid session leads to a second
request, `checkUidExists`, before any error is told. Views are destroyed when
another one is shown or the user leaves. The views of the model are shown only
with a session token, as `confirm.js` requires. `MaxFailures` bounds failing
requests. Fairness: timers fire and requests are answered or fail.

`VerificationWait` is the promise to the views: each is told at most once how
its wait ended, with `onVerified` only if the session was verified, and sent
back to sign up only if the account is gone. Checks, timers, the shared account
and destroyed views are behind it.

### AccountTokens

One Account object and the operations of the settings views that need an
access token. `kind[o]` says which operation `o` is (any choice, by `Init`) and
`op[o]` where it is: asking for the session status, waiting for the assertion
promise of a session, asking for a token, or making its call. `with` is the
token of the call and `first` that of the call before a retry. `assertion[s]`
is `_assertionPromises[s]`, which is reused for an hour however it was settled,
and `cached` the profile promise, which `onChange` clears while it is bound.
All operations change one account, so that a token or a session one of them
stores is what another finds. Sessions are revoked, confirmed or replaced by a
password change, and tokens expire, at any time. The message of an error and
the data of a profile are left out; the three avatar calls and the display
name are one kind, as they go through one function.

Bounds: tokens the server issues, failing requests, hours that pass. Two
operations and two tokens let each operation retry while the other changes the
account; with fewer tokens a request for one may wait for ever, which
`OperationsEnd` excepts. Fairness: requests are answered or fail, and answers
are handled. Nothing is fair about starting, revoking or expiring.

### PasswordReset and ResetWait

`view` is `confirm_reset_password` with `check`, the chain of its status
requests and the timer between them, `polling` and `forLogin`, its two flags,
and `outcome`, which settles its promise once. `tab[t]` are tabs opened from
links of this account or another; each step of `complete_reset_password` is a
step. A tab tells the others that it is open even when its link was used up,
and tells of a sign-in before the account is stored, so `inbox` orders the two
against the view's own checks. A timer set by an answer that comes after the
view was destroyed is kept, as in the code. `resend` is the model of the
button: a click counts and asks in one task, its answer comes later. A SIGNED_IN
ends the wait, but its account is stored only by `setSignedInAccount`, which
asks the server first, as the message does not say whether the session is
verified: `finish` is that request. The account is stored when it is answered
or fails (`fetch` catches its errors), also for a view the user has left, but
not when the page is closed (`ClosePage`). Only an account that storage holds as
verified needs no request. `elsewhere` are the accounts other tabs have told of
and will store. The server marks the link as used when the code is verified and sets the password
by a second request; `SubmitFails` covers a failure between them.

Bounds: failing requests, sign-ins in other tabs, and the limit on e-mails,
which is two instead of four so that a click at the limit is one step away.
Fairness: checks are answered, timers fire, messages that arrived are heard.
The tab of the link is not fair: the user may close it, and the code then waits
for a login that never comes (a hazard without a property in `PROJECT.json`).
`ResetIsNoticed` claims what holds of the view that goes on polling.

`ResetWait` is the promise of `_waitForConfirmation` to what follows it: the
wait ends at most once, with "different browser" only once the link was used or
expired, and with the sign-in of another tab only with its account, which is
stored by a later step, once and unchanged, that only the loss of the page
prevents. It does not promise that the account was stored by the tab that told
of it. Polls, timers, messages, tabs and the resend button
are behind it.

### SyncLogin and LoginNotice

`calls[f]` is the submission of form view `f`: it waits for the browser
(`link`), then for the server (`auth`). A form that was left goes on. `linked`
and `noticed` are the two fields of the broker, `shown` the account the
displayed view was given, and `told` the last LOGIN message. `allowed` is a
history variable: the addresses the browser did not refuse on this page.
Accounts that were never verified may be signed up anew, which gives the same
address another uid. `Load` is a page load, after which the stored account has
no keys, so that nothing is told of it.

`LoginNotice` is the promise: a login is told only of an allowed address and
not twice in a row of one account. `FinishedIsKnown` and `VerifiedIsTold` are
the other half, that logins are told at all.

Abstractions: the answer of the server and the creation of the session are one
step; the browser can choose what to sync; a message that is sent arrives.
The VERIFIED, CHANGE_PASSWORD and DELETE messages, which carry no state, and
the first-run, Fennec and iOS brokers, which differ from the Sync broker in
capabilities, are left out. Fairness: the poll of a view that stays displayed
sees a verified session, as `SessionVerificationPoll` shows of the poll itself.

### OAuthFlow

`tab[t]` is the page of a tab: the view, the user, the `grant` (client and
state) of its relier, its copy `mem` of `Session.oauth`, `marker`, the
`originalTab` of sessionStorage, and `token`, whether the Account object of the
page has a session. `accounts` are the stored accounts that have one: a user who
chooses a different account removes them all, and a page that loads then has
none and cannot get a code. The form waits for its code in view "asked", from
which a failure leads back to it; other views wait in "code". `stored` is `Session.oauth` in localStorage.
A page reads it when it loads and writes it when a sign-up is persisted or
finished. A link carries a user and a service, and any tab may open it; the
relier of that page comes from the storage if there is one and from the link
otherwise, which is `RelierOfLink`. A flow ends by the form, by the poll of the
confirm view, or by the link.

Abstractions: the delay of 100 ms before a redirect is part of the step; the
record of `models/verification`, which repeats the service of the link, is left
out, as are sign-in confirmation, scoped keys and WebChannel OAuth. `started`
and `upset` are history variables: a pair of a tab and a flow is in `upset` once
that tab was left or reloaded, opened a link, lost its session or met an error
while it displayed the flow, and only this excuses the tab. Fairness: codes are
served, answers handled,
the poll and the request for an OAuth code go on.

### ViewNavigation

`views[v]` is one view from its creation in `router.showView` to its
destruction; `phase` is how far its rendering came. `current` is
`_currentView` of the application view, `displayed` what the DOM contains, and
`url` the fragment. `Goes` is a navigation: a URL that does not change shows
nothing, a class that is current is not rendered again, and any other view is
destroyed and replaced in the same task. `beforeRender` may redirect, halt for
ever, or fail; an authorization check on focus may end after the view was
replaced. `Opens` is `showChildView` once its parent has settled.

Abstractions: what views display, their models and the stack of models in the
router. `MaxViews` bounds the views a page creates; three are needed for a view
whose rendering ends after it was replaced while a third one waits for it.
Fairness: what a rendering waits for settles.

## 3. Runs

| Run | Instance | States | Shows |
|---|---|---|---|
| `user_accounts_two_tabs` | two tabs, two accounts, two sessions, four choices | 1 850 912 | no token is paired with another account, in storage or in memory; an account stored as verified has a verified session, whatever order the answers arrive in; a removed account returns only by a step of a tab that itself still holds it or signs in to it; refinement of `AccountStore` |
| `user_accounts_progress` | two tabs, one account, one session, three choices | 44 085 | a sign-in ends; a confirm view notices a verified session; a sign-out reaches the settings of another tab |
| `duplex` | two channels, two requests, two times | 71 944 | one table entry as long as the promise is pending; refinement of `RequestReply`; an answer settles its request |
| `poll` | three views, two failures | 76 892 | one chain of checks; quiet once destroyed; verification is noticed; refinement of `VerificationWait` |
| `account_tokens` | two operations of any kinds, two sessions, two tokens, a failure, an hour | 712 067 | one profile fetch, one signing per session, newer retries, every operation ends |
| `password_reset` | two accounts, one tab, two failures, a sign-in elsewhere, limit of two | 1 883 390 | refinement of `ResetWait`; the limit hides the button for a while; an opened tab stops the poll; a reset elsewhere is noticed |
| `sync_login` | two addresses, three forms, two sessions, two generations | 710 776 | refinement of `LoginNotice`; what ends or is verified is known to the browser |
| `oauth_flow` | two tabs, one user, two reliers, two flows, one failure | 1 045 176 | verified users, original tabs, own state; the original tab finishes |
| `view_navigation` | three pages, a panel, three views | 84 071 | only the current view lives, panels open in it, it is displayed |
| `user_accounts_wiped` | one tab, one account, two sessions, three choices | | violated, see below |
| `account_tokens_retry` | as `account_tokens` | | violated, see below |
| `view_replaced` | as `view_navigation` | | violated, see below |

The bounds are chosen by the shortest behaviours that matter: replacing a
session on one object takes a sign-in, a password change or a second sign-in
and a late answer; a race between tabs takes two tabs that both hold an account
and one removal; ids collide with two requests in one millisecond; a shared
token is lost with two views; a permission is used by the wrong form with two
addresses and two forms; two reliers and two flows mix in one storage record.
Every property has a mutant of one mapped definition that breaks it within
these bounds (`PROJECT.json`), so none holds because its case never happens.
Systems stop when their bounds are used up and every consequence is done, hence
`CHECK_DEADLOCK FALSE` throughout.

Disagreements between the code and what it says of itself:

- `OnlyDeadSessionsAreWiped` (`models/account.js:281`): the session check of
  a focus event is in flight when the password of the same object is changed;
  the server refuses it, as the old session ended, and the refusal arrives after
  the new token was stored. It unsets the new token, and the account is stored
  without it although the new session is alive. The instance has one tab, so
  that there is no other way.
- `RetriesWithFreshToken` (`models/account.js:969`): "retry once with a fresh
  token" fetches one, and then sends the variable that was read before the
  first call. The other retries do what they say (`RetryIsNewer`).
- `ReplacedIsNotWritten` (`views/app.js:139`): a view whose rendering ends after
  it was replaced and destroyed is written over its successor.

Properties that were considered and are not claimed, because TLC shows behaviours
against them and no line of the repository promises them: an account that another
tab signed out or removed stays away (an answer to an earlier session check is
persisted afterwards; `RestoredOnlyFromMemory` is what holds); a request to the
browser that timed out is settled (the timeout only logs); the poll tells an
error when `checkUidExists` fails inside its error handler.

One more disagreement is in the model without a run of its own. The comment in
`request` (`lib/channels/duplex.js:156-157`) says that a request "is no longer
considered outstanding if there was a problem sending", and a test expects the
error to be returned. The test stubs a sender that throws. The sender of
WebChannels sends inside a promise, which `request` drops, so a failure never
reaches the `catch`: the request stays in the table and its caller waits for
ever. In `DuplexChannel` this is a `Request` with `dispatched` FALSE: the browser
answers only what was sent, so nothing but "no such channel" in answer to another
request settles it. TLC shows this at once, with fair delivery.

## 4. Proofs

All proofs hold for every value of the constants that satisfies the assumptions
named in the modules: the special values are distinct from the ordinary ones,
the bounds are natural numbers, and `Settings` and `Panel`, `Mine` and `First`
are what they are named for. Each `...Proofs` module states an invariant, one
lemma per operator and per action, and derives the theorems from
`Spec => []IInv`.

- `UserAccountsProofs!TypeCorrect`: `Spec => []TypeOK`. One lemma per operator
  on pages (what `WithCall`, `ShowSettings` or `ViewDestroyed` returns), then one
  lemma per action.
- `UserAccountsProofs!OnlyFromMemory`: `Spec => RestoredOnlyFromMemory`. The tab
  that holds the account is the one whose step stores it. What a step persists
  is an object of that tab, a sign-in's account, or an account just
  read from storage, and the last is stored already; that an answer leaves every
  object its account carries this through the steps that set an object first.
- `UserAccountsProofs!TokensCorrect`: `Spec => []TokensBelongToTheirAccount`.
  The property alone is not inductive: a token enters storage from an object,
  an object from an answer, and an answer from a session. The strengthening
  `Ownership` says that the token of every stored account and of every account
  object belongs to the account's uid, that the token in an "ok" answer of a
  sign-in belongs to the uid the call is for, and that the slot of a password
  change in flight still holds the account of the call, to which both the token
  sent and the token of an "ok" answer belong.
- `UserAccountsProofs!VerifiedCorrect`:
  `Spec => []VerifiedNeverAheadOfServer`, from the same invariant. The answer
  that sets the flag may be about an older token than the object holds when it
  arrives. `CheckOwned` says that a check not yet answered asks about the token
  of its object or about an ended session, and that an answer "verified" is
  true of the token the object holds now; `ChangeOwned` and `ChangesOwned` say
  why a password change keeps that: once served it has ended the sessions that
  checks of the same object ask about, and a page has one in flight.
- `UserAccountsProofs!AccountsImplementAccountStore`: the tabs implement
  `AccountStore`. That a step stores only what is true follows from `Ownership`
  in the next state, whatever the step was. What is left is that a step only
  adds accounts or only removes some (`KeepsAll`, lemma by lemma for what a page
  shows, a call stores and an answer removes), that the account it makes current
  is stored, and that the server issues sessions only for accounts that exist:
  `LiveAreRegistered`, an invariant of its own, as deleting an account ends its
  sessions and a changed password replaces a live one.
- `DuplexChannelProofs!DuplexImplementsRequestReply`: `DuplexChannel` implements
  `RequestReply`; `DuplexTypeCorrect` and `OutstandingArePending`. The invariant
  `IInv` says that ids handed out carry a suffix of at most `messageIdSuffix`
  (`IdsAreOld`), hence differ (`IdsDiffer`), that what a table holds is pending,
  and that answers are to requests that were made. With it, what an answer hits
  is at most the request it answers (`HitIsOwn`), and each step maps to a step or
  a stutter. That a pending request is held by exactly one channel
  (`PendingAreHeld`) needs that a new id is under no channel yet.
- `SyncLoginProofs!SyncLoginImplementsLoginNotice`, `FinishedLoginIsKnown` and
  `SyncLoginTypeCorrect`.
  The telling is the last step of a flow that asked the browser long before, so
  the invariant follows the permission: from the answer to the broker
  (`LinkedIsAllowed`), to the request in flight (`AuthIsAllowed`) and to the
  account a view was given (`ShownIsAllowed`). That a uid is not told twice
  needs that `noticed` and `told` name one account. That a finished login is
  known (`ShownIsTold`) holds from the confirm view on: it is told before.
- `OAuthFlowProofs`: `OnlyVerifiedUsers`, `OnlyOriginalTabs`, `StatesOfClients`,
  `OAuthTypeCorrect`. A result leaves a tab in its last step, so the invariant
  says of every page what must hold before it asks for a code (`PageIsSound`):
  its user is verified, a flow was begun in its tab, and its client and state
  are of one flow, wherever the page read them, memory and storage included.
- `ViewNavigationProofs`: `OnlyCurrentIsLive`, `PanelsOpenInCurrentView`,
  `NavigationTypeCorrect`. `LiveIsCurrent` becomes inductive with
  `UsedAreMade`: the view that a navigation creates was not used before. Lemmas
  say what `Goes`, `Opens` and `Settled` do to the views, so that an action that
  ends a rendering, navigates and opens a panel at once is three citations.
- `SessionVerificationPollProofs`: `PollTypeCorrect`, `OneChain`,
  `DestroyedViewsAreQuiet`, `PollImplementsVerificationWait`. One chain is not
  inductive alone: `start()` would make a second one if it were called while a
  call is in flight. `PollIsSound` says that the retry timer, the only other
  caller, is armed only when the poll does not wait and has no other link, and
  that the uid is asked only once the token is lost; `ViewIsSound` says what is
  left of the poll of a view that is new, destroyed or was told of an end. That
  a view is told once follows: with no link left nothing can tell it again.
  `AnswersAreTrue` carries the truth of an answer over the time it travels.
  The lemmas say what each operator on a poll (`Calling`, `Answering`, `Polled`,
  `Stopped`, ...) does to its links; each action is then a citation or two.
- `PasswordResetProofs`: `OnlyUsedLinks`, `HeardSignIns`, `OpenedTabs`,
  `LimitHides`, `ResetTypeCorrect`, `WaitsGoOn`, and
  `ResetImplementsResetWait`. `WaitIsSound` says that a view waiting for a login
  message has stopped to poll, and that a check answered "complete" was served after the
  link was used; `HeardSignIns` says that a wait which ends with a
  sign-in has its account, stored or with its request in flight unless the page
  is gone (`HeardSignInSucceeds`), and `OnlyHeardIsStored` that nothing else is
  stored by a wait. `ButtonIsSound` ties count, hidden button and timer together,
  and bounds the e-mails asked for by the clicks counted, without which the
  count is not well typed. The refinement needs that a wait which is over
  neither polls nor listens: a check that is answered later, even one of a
  destroyed view, finds the poll stopped. `WaitsGoOn` is the safety half of
  `ResetIsNoticed`: a displayed view whose wait has not ended hears the other
  tabs and, unless one of them stopped the poll, has a check or its timer.
- `AccountTokensProofs`: `OneSigning`, `RetriesAreNewer`, `OneFetch`,
  `TokensTypeCorrect`. A signing in flight implies that its promise is "asked"
  (`SigningIsSound`); a token that an operation holds was issued before the one
  its retry asks for (`OpIsSound`), and the answer of a request for a token
  carries the newest. While a profile is fetched the cache is pending and the
  handler that clears it is not bound (`FetchIsCached`), so no second fetch
  starts. `WaitersServed` is the safety half of `OperationsEnd`: whoever waits
  for an assertion waits for a promise whose request is in flight or answered.

Five modules are proved to implement an abstract specification: `UserAccounts`
(`AccountStore`), `DuplexChannel` (`RequestReply`), `SyncLogin` (`LoginNotice`),
`SessionVerificationPoll` (`VerificationWait`) and `PasswordReset`
(`ResetWait`). The refinement mappings are the identity on the variables of the
abstract module, but for `used` of `ResetWait`, which is `token[Mine] # "valid"`.

Every type invariant, safety invariant and action property the passing runs
check is proved. Only model-checked are the liveness properties
(`SignInSettles`, `VerificationIsNoticed`, `SignedOutIsHeard`, `AnswerSettles`,
`VerifiedIsNoticed`, `ResetIsNoticed`, `OperationsEnd`, `VerifiedIsTold`,
`OriginalTabFinishes`, `CurrentIsDisplayed`), as fairness and ENABLED are out
of the prover's reach, and of course the properties that are violated.
No module declares a recursive operator.

## 5. Not modelled

Most of the remaining lines of the repository are rendering (views and
templates), validation of query parameters and forms, tables of messages,
configuration, metrics and experiments, and wrappers of single requests: they
hold no state that outlives a task, or report it without changing accounts.
Their correctness is a matter of input and output, which tests reach.
In detail:

- `server/`: serves pages, configuration and metrics without state.
- `lib/fxa-client.js` beyond the calls of the modelled operations: each method
  is one request; the modules of its callers model its answer.
- Old channels: with the command as id, two requests of one command take each
  other's answer by design, so `RequestReply` is false of them and no comment
  claims it.
- Same-browser verification: a record of the context in which a sign-up began;
  for OAuth it repeats what the link says.
- Attached clients: a list for display, fetched anew by each visit.
- First-run, Fennec and iOS brokers, scoped keys, sign-in confirmation in OAuth,
  permissions, SMS, recovery e-mails, marketing opt-in.
- The stack of models in the router: nothing says which model a view that is
  reached by the buttons of the browser should get.

## 6. Where to go on

The plan of this project was to model what several actors can interleave, the
storage first, then tokens, resets, brokers and navigation; that is done. What
would add most next:

1. Safety halves of the other liveness properties, as `WaitsGoOn` and
   `WaitersServed` are: a sign-in in flight has a request or an answer under way
   (`UserAccounts`), a current view that is not displayed is being rendered
   (`ViewNavigation`), an original tab that waits has a poll or a code on its
   way (`OAuthFlow`), a verified login that was not told has a view that polls
   (`SyncLogin`).
2. The metrics flush (`lib/metrics.js`): events recorded while a flush is in
   flight, and the flush when the page is left.
3. Sign-in confirmation and scoped keys in `OAuthFlow`, and the brokers that
   vary `SyncLogin` in capabilities.
