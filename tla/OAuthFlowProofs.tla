--------------------------- MODULE OAuthFlowProofs ---------------------------
(***************************************************************************)
(* What a relier is handed, for any number of tabs, users, reliers and     *)
(* flows.  A result leaves a tab in its last step, so the invariant says   *)
(* of every page what must hold before it asks for a code (PageIsSound):   *)
(* its user is verified, a flow was begun in its tab, and its client and   *)
(* state are of one flow, wherever the page read them.                     *)
(***************************************************************************)
EXTENDS OAuthFlow, TLAPS

\* A flow was begun in tab t.
BegunIn(t) == \E f \in Flows : f <= begun /\ started[f] = t

\* The state of a grant was passed by its client.
OfOneFlow(g) == g \in Grant /\ g.flow # None => rp[g.flow] = g.client

PageIsSound(t) ==
    /\ tab[t].view # "away" => tab[t].grant \in Grant
    /\ tab[t].view \in {"confirm", "verify", "asked", "code"} => tab[t].user \in Users
    /\ tab[t].view \in {"asked", "code"} => tab[t].user \in verified
    /\ tab[t].view = "verify" /\ t \in received => tab[t].user \in verified
    /\ tab[t].marker \/ tab[t].view \in {"form", "confirm", "asked", "code"} => BegunIn(t)
    /\ OfOneFlow(tab[t].grant) /\ OfOneFlow(tab[t].mem)

PagesAreSound == \A t \in Tabs : PageIsSound(t)

SentIsSound ==
    \A r \in sent :
        /\ r.user \in verified /\ BegunIn(r.tab)
        /\ r.flow # None => rp[r.flow] = r.client

IInv == TypeOK /\ PagesAreSound /\ OfOneFlow(stored) /\ SentIsSound

USE OAuthAssumption, NoneIsNoGrant

-----------------------------------------------------------------------------
(* What the actions have in common.                                        *)

LEMMA AwayIsTyped ==
    ASSUME NEW m \in BOOLEAN
    PROVE  Away(m) \in Tab
  BY DEF Away, Tab

LEMMA LoadedIsTyped ==
    ASSUME TypeOK, NEW t \in Tabs, NEW v \in {"form", "verify"}, NEW g \in Grant,
           NEW u \in Users \cup {None}
    PROVE  Loaded(v, g, u, t) \in Tab
  BY DEF Loaded, Tab, TypeOK

LEMMA FlowsOfAreFlows ==
    ASSUME TypeOK, NEW t \in Tabs
    PROVE  FlowsOf(t) \subseteq Tabs \X Flows
  BY DEF FlowsOf, TypeOK, Tab, Grant

\* A page that a step leaves alone stays sound.
LEMMA UntouchedStaySound ==
    ASSUME IInv, NEW o \in Tabs, tab'[o] = tab[o], o \in received' => o \in received,
           verified \subseteq verified', UNCHANGED rp, BegunIn(o) => BegunIn(o)'
    PROVE  PageIsSound(o)'
  BY DEF IInv, PagesAreSound, PageIsSound, OfOneFlow

\* A step of tab t alone: what is left to show is its new page.
LEMMA OneTabMoves ==
    ASSUME IInv, NEW t \in Tabs, NEW p \in Tab, tab' = [tab EXCEPT ![t] = p],
           received' \subseteq received, UNCHANGED <<rp, begun, started, verified>>,
           PageIsSound(t)'
    PROVE  tab' \in [Tabs -> Tab] /\ PagesAreSound'
  <1>1. tab' \in [Tabs -> Tab]
    BY DEF IInv, TypeOK
  <1>2. \A o \in Tabs \ {t} : PageIsSound(o)'
    <2> SUFFICES ASSUME NEW o \in Tabs \ {t} PROVE PageIsSound(o)'
      OBVIOUS
    <2>1. tab'[o] = tab[o]
      BY DEF IInv, TypeOK
    <2>2. BegunIn(o) => BegunIn(o)'
      BY DEF BegunIn
    <2>3. QED
      BY <2>1, <2>2, UntouchedStaySound
  <1>3. QED
    BY <1>1, <1>2 DEF PagesAreSound

\* The results already sent stay right when nothing a result is judged by is
\* taken back.
LEMMA SentStaysSound ==
    ASSUME IInv, UNCHANGED <<sent, rp>>, verified \subseteq verified',
           \A t \in Tabs : BegunIn(t) => BegunIn(t)'
    PROVE  SentIsSound'
  <1>1. \A r \in sent : r.tab \in Tabs
    BY DEF IInv, TypeOK, Result
  <1>2. QED
    BY <1>1 DEF IInv, SentIsSound

\* finishOAuthFlow asks for a code only for a verified user in a tab that a
\* flow was begun in.
LEMMA FinishesKeeps ==
    ASSUME IInv, NEW t \in Tabs, NEW u \in Users, u \in verified, BegunIn(t),
           tab[t].view # "away", Finishes(t, u),
           UNCHANGED <<rp, begun, started, verified, received>>
    PROVE  /\ tab' \in [Tabs -> Tab] /\ stored' \in Grant \cup {None}
           /\ upset' \in SUBSET (Tabs \X Flows)
           /\ PagesAreSound' /\ OfOneFlow(stored)'
  <1> DEFINE w == IF tab[t].view = "form" THEN "asked"
                  ELSE IF tab[t].token THEN "code" ELSE "over"
             p == [tab[t] EXCEPT !.view = w, !.user = u, !.mem = None,
                                 !.marker = FALSE, !.waits = FALSE]
  <1>1. w \in {"asked", "code", "over"}
    OBVIOUS
  <1>2. tab[t] \in Tab
    BY DEF IInv, TypeOK
  <1>3. p \in Tab /\ p.view = w /\ p.user = u /\ p.mem = None /\ p.marker = FALSE
        /\ p.grant = tab[t].grant
    BY <1>1, <1>2 DEF Tab
  <1>4. tab' = [tab EXCEPT ![t] = p]
    BY <1>2 DEF Finishes, IInv, TypeOK, Tab
  <1> HIDE DEF p, w
  <1>5. tab'[t] = p
    BY <1>4 DEF IInv, TypeOK
  <1>6. BegunIn(t)'
    BY DEF BegunIn
  <1>7. PageIsSound(t)'
    BY <1>1, <1>3, <1>5, <1>6 DEF IInv, PagesAreSound, PageIsSound, OfOneFlow
  <1>8. tab' \in [Tabs -> Tab] /\ PagesAreSound'
    BY <1>3, <1>4, <1>7, OneTabMoves
  <1>9. stored' \in Grant \cup {None} /\ OfOneFlow(stored)'
    BY DEF Finishes, ClearsSession, IInv, TypeOK, OfOneFlow
  <1>10. upset' \in SUBSET (Tabs \X Flows)
    BY FlowsOfAreFlows DEF Finishes, IInv, TypeOK
  <1>11. QED
    BY <1>8, <1>9, <1>10

-----------------------------------------------------------------------------
(* The actions.                                                            *)

LEMMA InitKeeps == Init => IInv
  <1> SUFFICES ASSUME Init PROVE IInv
    OBVIOUS
  <1>1. TypeOK
    <2>1. Away(FALSE) \in Tab
      BY AwayIsTyped
    <2>2. tab \in [Tabs -> Tab]
      BY <2>1 DEF Init
    <2>3. rp \in [Flows -> Reliers] /\ started \in [Flows -> Tabs \cup {None}]
          /\ begun \in 0..MaxFlows /\ failures \in 0..MaxFailures
          /\ stored \in Grant \cup {None}
      BY DEF Init
    <2>4. QED
      BY <2>2, <2>3 DEF Init, TypeOK
  <1>2. PagesAreSound
    BY DEF Init, PagesAreSound, PageIsSound, Away, OfOneFlow
  <1>3. OfOneFlow(stored) /\ SentIsSound
    BY DEF Init, OfOneFlow, SentIsSound
  <1>4. QED
    BY <1>1, <1>2, <1>3 DEF IInv

LEMMA BeginKeeps ==
    ASSUME IInv, NEW t \in Tabs, Begin(t)
    PROVE  IInv'
  <1> DEFINE f == begun + 1
             g == [client |-> rp[f], flow |-> f]
             p == Loaded("form", g, None, t)
  <1>1. f \in Flows /\ begun \in Nat
    BY DEF Begin, IInv, TypeOK, Flows
  <1>2. g \in Grant /\ OfOneFlow(g)
    BY <1>1 DEF Grant, OfOneFlow, IInv, TypeOK
  <1>3. p \in Tab
    BY <1>2, LoadedIsTyped DEF IInv
  <1>4. p.view = "form" /\ p.grant = g /\ p.mem = stored
    BY DEF Loaded
  <1>5. tab' = [tab EXCEPT ![t] = p] /\ tab'[t] = p
    BY DEF Begin, IInv, TypeOK
  <1> HIDE DEF g, p
  <1>6. TypeOK'
    <2>1. tab' \in [Tabs -> Tab]
      BY <1>3, <1>5 DEF IInv, TypeOK
    <2>2. begun' \in 0..MaxFlows /\ started' \in [Flows -> Tabs \cup {None}]
      BY <1>1 DEF Begin, IInv, TypeOK, Flows
    <2>3. upset' \in SUBSET (Tabs \X Flows)
      BY FlowsOfAreFlows DEF Begin, IInv, TypeOK
    <2>4. QED
      BY <2>1, <2>2, <2>3 DEF Begin, IInv, TypeOK
  <1>7. \A o \in Tabs : BegunIn(o) => BegunIn(o)'
    BY <1>1 DEF BegunIn, Begin, IInv, TypeOK, Flows
  <1>8. BegunIn(t)'
    BY <1>1 DEF BegunIn, Begin, IInv, TypeOK, Flows
  <1>9. PagesAreSound'
    <2>1. PageIsSound(t)'
      BY <1>2, <1>4, <1>5, <1>8 DEF PageIsSound, OfOneFlow, Begin, IInv
    <2>2. ASSUME NEW o \in Tabs, o # t PROVE PageIsSound(o)'
      <3>1. tab'[o] = tab[o]
        BY <1>5, <2>2 DEF IInv, TypeOK
      <3>2. QED
        BY <1>7, <3>1, UntouchedStaySound DEF Begin
    <2>3. QED
      BY <2>1, <2>2 DEF PagesAreSound
  <1>10. OfOneFlow(stored)'
    BY DEF Begin, IInv, OfOneFlow
  <1>11. SentIsSound'
    BY <1>7, SentStaysSound DEF Begin
  <1>12. QED
    BY <1>6, <1>9, <1>10, <1>11 DEF IInv

LEMMA SubmitKeeps ==
    ASSUME IInv, NEW t \in Tabs, NEW u \in Users, Submit(t, u)
    PROVE  IInv'
  <1> DEFINE p == Persisted(t, u)
  <1>1. tab[t] \in Tab /\ tab[t].view = "form" /\ PageIsSound(t)
    BY DEF Submit, IInv, TypeOK, PagesAreSound
  <1>2. tab[t].grant \in Grant /\ BegunIn(t)
    BY <1>1 DEF PageIsSound
  <1>3. /\ tab' \in [Tabs -> Tab] /\ stored' \in Grant \cup {None}
        /\ upset' \in SUBSET (Tabs \X Flows) /\ links' \in SUBSET (Users \X Reliers)
        /\ PagesAreSound' /\ OfOneFlow(stored)'
    <2>1. CASE u \in verified
      <3>1. Finishes(t, u) /\ links' = links
        BY <2>1 DEF Submit
      <3>2. UNCHANGED <<rp, begun, started, verified, received>>
        BY DEF Submit
      <3>3. QED
        BY <1>1, <1>2, <2>1, <3>1, <3>2, FinishesKeeps DEF IInv, TypeOK
    <2>2. CASE u \notin verified
      <3>1. tab' = [tab EXCEPT ![t] = p] /\ stored' = tab[t].grant /\ upset' = upset
            /\ links' = links \cup {<<u, tab[t].grant.client>>}
        BY <2>2 DEF Submit
      <3>2. p \in Tab
        BY <1>1, <1>2 DEF Persisted, Tab
      <3>3. p.view = "confirm" /\ p.user = u /\ p.marker = TRUE
            /\ p.mem = tab[t].grant /\ p.grant = tab[t].grant
        BY <1>1 DEF Persisted, Tab
      <3> HIDE DEF p
      <3>4. tab'[t] = p
        BY <3>1 DEF IInv, TypeOK
      <3>5. BegunIn(t)' /\ UNCHANGED <<rp, begun, started, verified>>
        BY <1>2 DEF Submit, BegunIn
      <3>6. PageIsSound(t)'
        BY <1>1, <1>2, <3>3, <3>4, <3>5 DEF PageIsSound, OfOneFlow
      <3>7. tab' \in [Tabs -> Tab] /\ PagesAreSound'
        BY <3>1, <3>2, <3>5, <3>6, OneTabMoves DEF Submit
      <3>8. tab[t].grant.client \in Reliers
        BY <1>2 DEF Grant
      <3>9. QED
        BY <1>1, <1>2, <3>1, <3>5, <3>7, <3>8
           DEF IInv, TypeOK, PageIsSound, OfOneFlow
    <2>3. QED
      BY <2>1, <2>2
  <1>4. TypeOK'
    BY <1>3 DEF Submit, IInv, TypeOK
  <1>5. SentIsSound'
    BY SentStaysSound DEF Submit, BegunIn
  <1>6. QED
    BY <1>3, <1>4, <1>5 DEF IInv

\* A step that gives tab t a sound page, and touches neither reliers nor servers.
LEMMA NewPageKeeps ==
    ASSUME IInv, NEW t \in Tabs, NEW p \in Tab, tab' = [tab EXCEPT ![t] = p],
           stored' \in Grant \cup {None}, OfOneFlow(stored)',
           received' \subseteq received, upset' \in SUBSET (Tabs \X Flows),
           failures' \in 0..MaxFailures, accounts' \in SUBSET Users,
           UNCHANGED <<servers, sent>>, PageIsSound(t)'
    PROVE  IInv'
  <1>1. UNCHANGED <<begun, rp, started, verified, links>>
    BY DEF servers
  <1>2. tab' \in [Tabs -> Tab] /\ PagesAreSound'
    BY <1>1, OneTabMoves
  <1>3. TypeOK'
    BY <1>1, <1>2 DEF IInv, TypeOK
  <1>4. SentIsSound'
    BY <1>1, SentStaysSound DEF BegunIn
  <1>5. QED
    BY <1>2, <1>3, <1>4 DEF IInv

LEMMA UseDifferentAccountKeeps ==
    ASSUME IInv, NEW t \in Tabs, UseDifferentAccount(t)
    PROVE  IInv'
  <1> DEFINE p == [tab[t] EXCEPT !.mem = None]
  <1>1. tab[t] \in Tab /\ PageIsSound(t)
    BY DEF IInv, TypeOK, PagesAreSound
  <1>2. p \in Tab /\ tab' = [tab EXCEPT ![t] = p]
    BY <1>1 DEF UseDifferentAccount, Tab
  <1>3. p.mem = None /\ p.view = tab[t].view /\ p.grant = tab[t].grant
        /\ p.user = tab[t].user /\ p.marker = tab[t].marker
    BY <1>1 DEF Tab
  <1> HIDE DEF p
  <1>4. tab'[t] = p
    BY <1>2 DEF IInv, TypeOK
  <1>5. PageIsSound(t)'
    BY <1>1, <1>3, <1>4
       DEF PageIsSound, OfOneFlow, BegunIn, UseDifferentAccount, servers
  <1>6. stored' \in Grant \cup {None} /\ OfOneFlow(stored)'
    BY DEF UseDifferentAccount, ClearsSession, IInv, TypeOK, OfOneFlow, servers
  <1>7. UNCHANGED <<servers, sent, received, upset, failures>> /\ accounts' \in SUBSET Users
    BY DEF UseDifferentAccount
  <1>8. received' \subseteq received /\ upset' \in SUBSET (Tabs \X Flows)
        /\ failures' \in 0..MaxFailures
    BY <1>7 DEF IInv, TypeOK
  <1>9. QED
    BY <1>2, <1>5, <1>6, <1>7, <1>8, NewPageKeeps

LEMMA ReloadKeeps ==
    ASSUME IInv, NEW t \in Tabs, Reload(t)
    PROVE  IInv'
  <1> DEFINE p == Loaded("form", tab[t].grant, None, t)
  <1>1. tab[t].view \in {"form", "confirm"} /\ PageIsSound(t)
    BY DEF Reload, IInv, PagesAreSound
  <1>2. tab[t].grant \in Grant /\ BegunIn(t)
    BY <1>1 DEF PageIsSound
  <1>3. p \in Tab
    BY <1>2, LoadedIsTyped DEF IInv
  <1>4. p.view = "form" /\ p.grant = tab[t].grant /\ p.mem = stored
    BY DEF Loaded
  <1>5. tab' = [tab EXCEPT ![t] = p] /\ tab'[t] = p
    BY DEF Reload, IInv, TypeOK
  <1> HIDE DEF p
  <1>6. PageIsSound(t)'
    BY <1>1, <1>2, <1>4, <1>5
       DEF IInv, PageIsSound, OfOneFlow, BegunIn, Reload, servers
  <1>7. UNCHANGED <<servers, stored, sent, received, failures>> /\ accounts' \in SUBSET Users
    BY DEF Reload, IInv, TypeOK
  <1>8. upset' \in SUBSET (Tabs \X Flows)
    BY FlowsOfAreFlows DEF Reload, IInv, TypeOK
  <1>9. stored' \in Grant \cup {None} /\ OfOneFlow(stored)'
        /\ received' \subseteq received /\ failures' \in 0..MaxFailures
    BY <1>7 DEF IInv, TypeOK, OfOneFlow, servers
  <1>10. QED
    BY <1>3, <1>5, <1>6, <1>7, <1>8, <1>9, NewPageKeeps

LEMMA LeaveKeeps ==
    ASSUME IInv, NEW t \in Tabs, NEW closes \in BOOLEAN, Leave(t, closes)
    PROVE  IInv'
  <1> DEFINE m == ~closes /\ tab[t].marker
             p == Away(m)
  <1>1. PageIsSound(t) /\ m \in BOOLEAN
    BY DEF IInv, PagesAreSound
  <1>2. p \in Tab /\ tab' = [tab EXCEPT ![t] = p] /\ tab'[t] = p
    BY <1>1, AwayIsTyped DEF Leave, IInv, TypeOK
  <1>3. p.view = "away" /\ p.grant = None /\ p.mem = None /\ p.marker = m
    BY DEF Away
  <1>4. m => BegunIn(t)
    BY <1>1 DEF PageIsSound
  <1> HIDE DEF p, m
  <1>5. PageIsSound(t)'
    BY <1>2, <1>3, <1>4 DEF PageIsSound, OfOneFlow, BegunIn, Leave, servers
  <1>6. UNCHANGED <<servers, stored, sent, received, failures>> /\ accounts' \in SUBSET Users
    BY DEF Leave, IInv, TypeOK
  <1>7. upset' \in SUBSET (Tabs \X Flows)
    BY FlowsOfAreFlows DEF Leave, IInv, TypeOK
  <1>8. stored' \in Grant \cup {None} /\ OfOneFlow(stored)'
        /\ received' \subseteq received /\ failures' \in 0..MaxFailures
    BY <1>6 DEF IInv, TypeOK, OfOneFlow, servers
  <1>9. QED
    BY <1>2, <1>5, <1>6, <1>7, <1>8, NewPageKeeps

\* The relier of a link is that of the stored flow, or has no state.
LEMMA OpenLinkKeeps ==
    ASSUME IInv, NEW t \in Tabs, NEW u \in Users, NEW c \in Reliers, OpenLink(t, u, c)
    PROVE  IInv'
  <1> DEFINE g == RelierOfLink(c)
             p == Loaded("verify", g, u, t)
  <1>1. g \in Grant /\ OfOneFlow(g)
    <2>1. CASE stored = None
      BY <2>1 DEF RelierOfLink, Grant, OfOneFlow
    <2>2. CASE stored # None
      BY <2>2 DEF RelierOfLink, IInv, TypeOK
    <2>3. QED
      BY <2>1, <2>2
  <1>2. p \in Tab
    BY <1>1, LoadedIsTyped DEF IInv
  <1>3. p.view = "verify" /\ p.grant = g /\ p.mem = stored /\ p.user = u
        /\ p.marker = tab[t].marker
    BY DEF Loaded
  <1>4. tab' = [tab EXCEPT ![t] = p] /\ tab'[t] = p
    BY DEF OpenLink, IInv, TypeOK
  <1> HIDE DEF g, p
  <1>5. PageIsSound(t)'
    <2>1. PageIsSound(t) /\ t \notin received'
      BY DEF OpenLink, IInv, PagesAreSound
    <2>2. QED
      BY <1>1, <1>3, <1>4, <2>1
         DEF IInv, PageIsSound, OfOneFlow, BegunIn, OpenLink, servers
  <1>6. UNCHANGED <<servers, stored, sent, failures>> /\ accounts' \in SUBSET Users
    BY DEF OpenLink, IInv, TypeOK
  <1>7. upset' \in SUBSET (Tabs \X Flows)
    BY FlowsOfAreFlows DEF OpenLink, IInv, TypeOK
  <1>8. stored' \in Grant \cup {None} /\ OfOneFlow(stored)'
        /\ received' \subseteq received /\ failures' \in 0..MaxFailures
    BY <1>6 DEF OpenLink, IInv, TypeOK, OfOneFlow, servers
  <1>9. QED
    BY <1>2, <1>4, <1>5, <1>6, <1>7, <1>8, NewPageKeeps

LEMMA FollowElsewhereKeeps ==
    ASSUME IInv, NEW u \in Users, FollowElsewhere(u)
    PROVE  IInv'
  <1>1. TypeOK'
    BY DEF FollowElsewhere, IInv, TypeOK
  <1>2. PagesAreSound'
    BY UntouchedStaySound DEF FollowElsewhere, PagesAreSound, BegunIn
  <1>3. SentIsSound'
    BY SentStaysSound DEF FollowElsewhere, BegunIn
  <1>4. OfOneFlow(stored)'
    BY DEF FollowElsewhere, IInv, OfOneFlow
  <1>5. QED
    BY <1>1, <1>2, <1>3, <1>4 DEF IInv

LEMMA ServeCodeKeeps ==
    ASSUME IInv, NEW t \in Tabs, ServeCode(t)
    PROVE  IInv'
  <1>1. PageIsSound(t) /\ tab[t].view = "verify" /\ tab[t].user \in Users
    BY DEF ServeCode, IInv, PagesAreSound, PageIsSound
  <1>2. TypeOK'
    BY <1>1 DEF ServeCode, IInv, TypeOK
  <1>3. PagesAreSound'
    <2>1. PageIsSound(t)'
      BY <1>1 DEF ServeCode, PageIsSound, OfOneFlow, BegunIn
    <2>2. \A o \in Tabs \ {t} : PageIsSound(o)'
      BY UntouchedStaySound DEF ServeCode, BegunIn
    <2>3. QED
      BY <2>1, <2>2 DEF PagesAreSound
  <1>4. SentIsSound'
    BY SentStaysSound DEF ServeCode, BegunIn
  <1>5. OfOneFlow(stored)'
    BY DEF ServeCode, IInv, OfOneFlow
  <1>6. QED
    BY <1>2, <1>3, <1>4, <1>5 DEF IInv

LEMMA FinishingKeeps ==
    ASSUME IInv, NEW t \in Tabs, NEW u \in Users, u \in verified, BegunIn(t),
           tab[t].view # "away", Finishes(t, u),
           accounts' \in SUBSET Users, UNCHANGED <<servers, received, sent, failures>>
    PROVE  IInv'
  <1>1. UNCHANGED <<begun, rp, started, verified, links>>
    BY DEF servers
  <1>2. /\ tab' \in [Tabs -> Tab] /\ stored' \in Grant \cup {None}
        /\ upset' \in SUBSET (Tabs \X Flows) /\ PagesAreSound' /\ OfOneFlow(stored)'
    BY <1>1, FinishesKeeps
  <1>3. TypeOK'
    BY <1>1, <1>2 DEF IInv, TypeOK
  <1>4. SentIsSound'
    BY <1>1, SentStaysSound DEF BegunIn
  <1>5. QED
    BY <1>2, <1>3, <1>4 DEF IInv

LEMMA LinkVerifiedKeeps ==
    ASSUME IInv, NEW t \in Tabs, LinkVerified(t)
    PROVE  IInv'
  <1>1. tab[t] \in Tab /\ PageIsSound(t) /\ tab[t].view = "verify" /\ t \in received
    BY DEF LinkVerified, Completes, IInv, TypeOK, PagesAreSound
  <1>2. tab[t].user \in Users /\ tab[t].user \in verified
    BY <1>1 DEF PageIsSound
  <1>3. UNCHANGED <<servers, received, sent, failures>> /\ accounts' \in SUBSET Users
    BY <1>2 DEF LinkVerified, StoresAccount, IInv, TypeOK
  <1>4. CASE tab[t].marker
    <2>1. Finishes(t, tab[t].user)
      BY <1>4 DEF LinkVerified, IsOriginalTab
    <2>2. BegunIn(t)
      BY <1>1, <1>4 DEF PageIsSound
    <2>3. QED
      BY <1>1, <1>2, <1>3, <2>1, <2>2, FinishingKeeps
  <1>5. CASE ~tab[t].marker
    <2> DEFINE p == [tab[t] EXCEPT !.view = "over"]
    <2>1. p \in Tab /\ tab' = [tab EXCEPT ![t] = p]
      BY <1>1, <1>5 DEF LinkVerified, IsOriginalTab, Tab
    <2>2. p.view = "over" /\ p.grant = tab[t].grant /\ p.mem = tab[t].mem
          /\ p.marker = tab[t].marker
      BY <1>1 DEF Tab
    <2> HIDE DEF p
    <2>3. tab'[t] = p
      BY <2>1 DEF IInv, TypeOK
    <2>4. UNCHANGED <<stored, upset>>
      BY <1>5 DEF LinkVerified, IsOriginalTab
    <2>5. PageIsSound(t)'
      BY <1>1, <1>3, <1>5, <2>2, <2>3 DEF PageIsSound, OfOneFlow, servers
    <2>6. stored' \in Grant \cup {None} /\ OfOneFlow(stored)'
          /\ received' \subseteq received /\ failures' \in 0..MaxFailures
          /\ upset' \in SUBSET (Tabs \X Flows)
      BY <1>3, <2>4 DEF IInv, TypeOK, OfOneFlow, servers
    <2>7. QED
      BY <1>3, <2>1, <2>5, <2>6, NewPageKeeps
  <1>6. QED
    BY <1>4, <1>5

LEMMA PollAnsweredKeeps ==
    ASSUME IInv, NEW t \in Tabs, PollAnswered(t)
    PROVE  IInv'
  <1>1. PageIsSound(t) /\ tab[t].view = "confirm" /\ tab[t].user \in verified
    BY DEF PollAnswered, PollSees, IInv, PagesAreSound
  <1>2. tab[t].user \in Users /\ BegunIn(t)
    BY <1>1 DEF PageIsSound
  <1>3. UNCHANGED <<servers, received, sent, failures>> /\ accounts' \in SUBSET Users
    BY <1>2 DEF PollAnswered, StoresAccount, IInv, TypeOK
  <1>4. QED
    BY <1>1, <1>2, <1>3, FinishingKeeps DEF PollAnswered

LEMMA CodeAnsweredKeeps ==
    ASSUME IInv, NEW t \in Tabs, CodeAnswered(t)
    PROVE  IInv'
  <1> DEFINE r == [client |-> tab[t].grant.client, flow |-> tab[t].grant.flow,
                   user |-> tab[t].user, tab |-> t]
             p == Away(tab[t].marker)
  <1>1. tab[t] \in Tab /\ PageIsSound(t) /\ tab[t].view \in {"asked", "code"}
    BY DEF CodeAnswered, IInv, TypeOK, PagesAreSound
  <1>2. tab[t].grant \in Grant /\ tab[t].user \in Users /\ tab[t].user \in verified
        /\ BegunIn(t) /\ OfOneFlow(tab[t].grant)
    BY <1>1 DEF PageIsSound
  <1>3. r \in Result /\ (r.flow # None => rp[r.flow] = r.client)
    BY <1>2 DEF Result, Grant, OfOneFlow
  <1>4. UNCHANGED <<begun, rp, started, verified, links, stored, accounts, received,
                    upset, failures>> /\ sent' = sent \cup {r}
    BY DEF CodeAnswered, servers
  <1>5. tab[t].marker \in BOOLEAN
    BY <1>1 DEF Tab
  <1>6. p \in Tab /\ tab' = [tab EXCEPT ![t] = p] /\ tab'[t] = p
    BY <1>5, AwayIsTyped DEF CodeAnswered, IInv, TypeOK
  <1>7. PageIsSound(t)'
    BY <1>1, <1>2, <1>4, <1>6 DEF PageIsSound, OfOneFlow, Away, BegunIn
  <1>8. tab' \in [Tabs -> Tab] /\ PagesAreSound'
    BY <1>4, <1>6, <1>7, OneTabMoves
  <1>9. TypeOK'
    BY <1>3, <1>4, <1>8 DEF IInv, TypeOK
  <1>10. OfOneFlow(stored)'
    BY <1>4 DEF IInv, OfOneFlow
  <1>11. SentIsSound'
    <2>1. \A o \in sent : o.tab \in Tabs
      BY DEF IInv, TypeOK, Result
    <2>2. \A o \in Tabs : BegunIn(o) => BegunIn(o)'
      BY <1>4 DEF BegunIn
    <2>3. r.user = tab[t].user /\ r.tab = t
      OBVIOUS
    <2> HIDE DEF r
    <2>4. QED
      BY <1>2, <1>3, <1>4, <2>1, <2>2, <2>3 DEF IInv, SentIsSound
  <1>12. QED
    BY <1>8, <1>9, <1>10, <1>11 DEF IInv

LEMMA FailsKeeps ==
    ASSUME IInv, NEW t \in Tabs, Fails(t)
    PROVE  IInv'
  <1> DEFINE w == IF tab[t].view = "asked" THEN "form" ELSE "over"
             p == [tab[t] EXCEPT !.view = w]
  <1>1. tab[t] \in Tab /\ PageIsSound(t) /\ tab[t].view \in {"verify", "asked", "code"}
    BY DEF Fails, IInv, TypeOK, PagesAreSound
  <1>2. p \in Tab /\ tab' = [tab EXCEPT ![t] = p]
    BY <1>1 DEF Fails, Tab
  <1>3. p.view \in {"form", "over"} /\ p.grant = tab[t].grant /\ p.mem = tab[t].mem
        /\ p.marker = tab[t].marker /\ (p.view = "form" => tab[t].view = "asked")
    BY <1>1 DEF Tab
  <1> HIDE DEF p
  <1>4. tab'[t] = p
    BY <1>2 DEF IInv, TypeOK
  <1>5. UNCHANGED <<servers, stored, received, sent>> /\ accounts' \in SUBSET Users
    BY DEF Fails, IInv, TypeOK
  <1>6. PageIsSound(t)'
    BY <1>1, <1>3, <1>4, <1>5 DEF PageIsSound, OfOneFlow, BegunIn, servers
  <1>7. upset' \in SUBSET (Tabs \X Flows)
    BY FlowsOfAreFlows DEF Fails, IInv, TypeOK
  <1>8. stored' \in Grant \cup {None} /\ OfOneFlow(stored)'
        /\ received' \subseteq received
    BY <1>5 DEF IInv, TypeOK, OfOneFlow, servers
  <1>9. failures' \in 0..MaxFailures
    BY DEF Fails, IInv, TypeOK
  <1>10. QED
    BY <1>2, <1>5, <1>6, <1>7, <1>8, <1>9, NewPageKeeps

LEMMA StutterKeeps ==
    ASSUME IInv, UNCHANGED vars
    PROVE  IInv'
  BY DEF vars, IInv, TypeOK, PagesAreSound, PageIsSound, BegunIn, OfOneFlow, SentIsSound

LEMMA NextKeeps ==
    ASSUME IInv, [Next]_vars
    PROVE  IInv'
  <1>1. ASSUME NEW t \in Tabs,
               \/ Begin(t) \/ UseDifferentAccount(t) \/ Reload(t) \/ ServeCode(t)
               \/ LinkVerified(t) \/ PollAnswered(t) \/ CodeAnswered(t) \/ Fails(t)
        PROVE  IInv'
    BY <1>1, BeginKeeps, UseDifferentAccountKeeps, ReloadKeeps, ServeCodeKeeps,
       LinkVerifiedKeeps, PollAnsweredKeeps, CodeAnsweredKeeps, FailsKeeps
  <1>2. ASSUME NEW t \in Tabs, NEW u \in Users, Submit(t, u)
        PROVE  IInv'
    BY <1>2, SubmitKeeps
  <1>3. ASSUME NEW t \in Tabs, NEW closes \in BOOLEAN, Leave(t, closes)
        PROVE  IInv'
    BY <1>3, LeaveKeeps
  <1>4. ASSUME NEW t \in Tabs, NEW u \in Users, NEW c \in Reliers, OpenLink(t, u, c)
        PROVE  IInv'
    BY <1>4, OpenLinkKeeps
  <1>5. ASSUME NEW u \in Users, FollowElsewhere(u)
        PROVE  IInv'
    BY <1>5, FollowElsewhereKeeps
  <1>6. QED
    BY <1>1, <1>2, <1>3, <1>4, <1>5, StutterKeeps DEF Next

LEMMA Invariance == Spec => []IInv
  <1>1. IInv /\ [Next]_vars => IInv'
    BY NextKeeps
  <1>2. QED
    BY InitKeeps, <1>1, PTL DEF Spec

-----------------------------------------------------------------------------

\* Every reachable state is well typed.
THEOREM OAuthTypeCorrect == Spec => []TypeOK
  <1>1. IInv => TypeOK
    BY DEF IInv
  <1>2. QED
    BY Invariance, <1>1, PTL

\* No relier is handed a user whose account is not verified, for any number of
\* tabs and flows. (oauth.js, finishOAuthFlow)
THEOREM OnlyVerifiedUsers == Spec => []OnlyVerifiedUsersAreSent
  <1>1. IInv => OnlyVerifiedUsersAreSent
    BY DEF IInv, SentIsSound, OnlyVerifiedUsersAreSent
  <1>2. QED
    BY Invariance, <1>1, PTL

\* A flow was begun in every tab that went to a relier. (oauth-redirect.js,
\* isOriginalTab)
THEOREM OnlyOriginalTabs == Spec => []OnlyOriginalTabsGoBack
  <1>1. IInv => OnlyOriginalTabsGoBack
    BY DEF IInv, SentIsSound, BegunIn, OnlyOriginalTabsGoBack
  <1>2. QED
    BY Invariance, <1>1, PTL

\* A relier that gets a state back gets its own. (reliers/oauth.js,
\* _setupVerificationFlow)
THEOREM StatesOfClients == Spec => []StateIsOfClient
  <1>1. IInv => StateIsOfClient
    BY DEF IInv, SentIsSound, StateIsOfClient
  <1>2. QED
    BY Invariance, <1>1, PTL
==============================================================================
