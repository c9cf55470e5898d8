------------------------- MODULE DuplexChannelProofs -------------------------
(***************************************************************************)
(* DuplexChannel implements RequestReply, for any number of channels and   *)
(* of requests.  The step that needs an invariant is Receive: an answer    *)
(* settles what the open channels hold under its messageId, and this is at *)
(* most the request it answers because no two requests share an id         *)
(* (IdsDiffer), which in turn holds because the suffix of every id handed  *)
(* out is at most messageIdSuffix (IdsAreOld).                             *)
(***************************************************************************)
EXTENDS DuplexChannel, FiniteSetTheorems, TLAPS

IdsAreOld == \A r \in Requests : state[r] # "new" => id[r][2] <= suffix

IdsDiffer ==
    \A r, q \in Requests :
        state[r] # "new" /\ state[q] # "new" /\ r # q => id[r] # id[q]

HeldArePending == \A c \in Channels : \A r \in table[c] : state[r] = "pending"

AnswersAreAsked ==
    /\ arriving \subseteq answers
    /\ \A a \in answers : state[a.re] # "new"

IInv == TypeOK /\ IdsAreOld /\ IdsDiffer /\ HeldArePending /\ AnswersAreAsked

\* Everything a channel would settle on an answer is pending, and is the
\* request answered unless the browser knows no such channel.
LEMMA HitIsOwn ==
    ASSUME IInv, NEW a \in arriving
    PROVE  /\ \A r \in Hit(a) : r \in Requests /\ state[r] = "pending"
           /\ a.kind # "noSuchChannel" => Hit(a) \subseteq {a.re}
  <1>1. a \in Answer /\ a.re \in Requests /\ state[a.re] # "new"
    BY DEF IInv, TypeOK, AnswersAreAsked, Answer
  <1>2. ASSUME NEW r \in Hit(a)
        PROVE  r \in Requests /\ state[r] = "pending"
    BY <1>2 DEF IInv, TypeOK, HeldArePending, Hit, Under
  <1>3. ASSUME a.kind # "noSuchChannel", NEW r \in Hit(a)
        PROVE  r = a.re
    <2>1. id[r] = id[a.re]
      BY <1>3 DEF Hit, Under
    <2>2. QED
      BY <1>1, <1>2, <2>1 DEF IInv, IdsDiffer
  <1>4. QED
    BY <1>2, <1>3

LEMMA RequestKeepsIInv ==
    ASSUME IInv, NEW c \in Channels, NEW r \in Requests, NEW dispatched \in BOOLEAN,
           Request(c, r, dispatched)
    PROVE  IInv'
  <1> USE DEF IInv
  <1>1. MessageId \in Clock \X Nat /\ MessageId[2] = suffix + 1 /\ suffix \in Nat
    BY DEF TypeOK, MessageId
  <1>2. TypeOK'
    <2>1. suffix' \in Nat /\ clock' \in Clock /\ open' \in SUBSET Channels
          /\ late' \in SUBSET Requests /\ answers' \in SUBSET Answer
          /\ arriving' \in SUBSET Answer
      BY <1>1 DEF TypeOK, Request
    <2>2. state' \in [Requests -> {"new", "pending", "resolved", "rejected"}]
      BY DEF TypeOK, Request
    <2>3. id' \in [Requests -> Clock \X Nat]
      BY <1>1 DEF TypeOK, Request
    <2>4. table' \in [Channels -> SUBSET Requests]
      BY DEF TypeOK, Request
    <2>5. timers' \in SUBSET Requests /\ unsent' \in SUBSET Requests
      BY DEF TypeOK, Request
    <2>6. QED
      BY <2>1, <2>2, <2>3, <2>4, <2>5 DEF TypeOK
  <1>3. \A q \in Requests :
            /\ q # r => state'[q] = state[q] /\ id'[q] = id[q]
            /\ q = r => state'[q] = "pending" /\ id'[q] = MessageId
    BY DEF TypeOK, Request
  <1>4. suffix' = suffix + 1 /\ state[r] = "new"
    BY DEF Request
  <1>5. \A q \in Requests : id[q][2] \in Nat
    BY DEF TypeOK
  <1>6. IdsAreOld'
    BY <1>1, <1>3, <1>4, <1>5 DEF IdsAreOld
  <1>7. IdsDiffer'
    <2>1. \A q \in Requests : q # r /\ state[q] # "new" => id[q] # MessageId
      BY <1>1, <1>5 DEF IdsAreOld
    <2>2. QED
      BY <1>3, <2>1 DEF IdsDiffer
  <1>8. HeldArePending'
    <2>1. \A d \in Channels : table'[d] \subseteq table[d] \cup {r}
      BY DEF TypeOK, Request
    <2>2. \A d \in Channels : table[d] \subseteq Requests
      BY DEF TypeOK
    <2>3. QED
      BY <1>3, <2>1, <2>2 DEF HeldArePending
  <1>9. AnswersAreAsked'
    <2>1. answers' = answers /\ arriving' = arriving
      BY DEF Request
    <2>2. \A a \in answers : a.re \in Requests
      BY DEF TypeOK, Answer
    <2>3. QED
      BY <1>3, <2>1, <2>2 DEF AnswersAreAsked
  <1>10. QED
    BY <1>2, <1>6, <1>7, <1>8, <1>9

LEMMA BrowserAnswersKeepsIInv ==
    ASSUME IInv, NEW r \in Requests, NEW kind \in Kinds, BrowserAnswers(r, kind)
    PROVE  IInv'
  <1> USE DEF IInv
  <1>1. [re |-> r, kind |-> kind] \in Answer
    BY DEF Answer
  <1>2. TypeOK'
    BY <1>1 DEF TypeOK, BrowserAnswers
  <1>3. IdsAreOld' /\ IdsDiffer' /\ HeldArePending'
    BY DEF IdsAreOld, IdsDiffer, HeldArePending, BrowserAnswers
  <1>4. AnswersAreAsked'
    BY DEF AnswersAreAsked, BrowserAnswers
  <1>5. QED
    BY <1>2, <1>3, <1>4

LEMMA ReceiveKeepsIInv ==
    ASSUME IInv, NEW a \in Answer, Receive(a)
    PROVE  IInv'
  <1>1. \A r \in Hit(a) : r \in Requests /\ state[r] = "pending"
    BY HitIsOwn DEF Receive
  <1> USE DEF IInv
  <1>2. \A r \in Requests :
            /\ r \in Hit(a) => state'[r] = Outcome(a.kind)
            /\ r \notin Hit(a) => state'[r] = state[r]
    BY DEF Receive
  <1>3. Outcome(a.kind) \in {"resolved", "rejected"}
    BY DEF Outcome
  <1>4. \A r \in Requests : state[r] = "new" <=> state'[r] = "new"
    BY <1>1, <1>2, <1>3
  <1>5. TypeOK'
    <2>1. state' \in [Requests -> {"new", "pending", "resolved", "rejected"}]
      BY <1>3 DEF TypeOK, Receive
    <2>2. table' \in [Channels -> SUBSET Requests]
      BY DEF TypeOK, Receive, Removed
    <2>3. QED
      BY <2>1, <2>2 DEF TypeOK, Receive
  <1>6. IdsAreOld' /\ IdsDiffer'
    BY <1>4 DEF IdsAreOld, IdsDiffer, Receive
  <1>7. HeldArePending'
    <2>1. \A c \in Channels : table'[c] = table[c] \ Hit(a)
      BY DEF TypeOK, Receive, Removed
    <2>2. \A c \in Channels : table[c] \subseteq Requests
      BY DEF TypeOK
    <2>3. QED
      BY <1>2, <2>1, <2>2 DEF HeldArePending
  <1>8. AnswersAreAsked'
    <2>1. \A b \in answers : b.re \in Requests
      BY DEF TypeOK, Answer
    <2>2. QED
      BY <1>4, <2>1 DEF AnswersAreAsked, Receive
  <1>9. QED
    BY <1>5, <1>6, <1>7, <1>8

\* The invariant holds initially and every step keeps it.
LEMMA IInvHolds == Spec => []IInv
  <1>1. Init => IInv
    BY DuplexAssumption DEF Init, IInv, TypeOK, IdsAreOld, IdsDiffer, HeldArePending,
       AnswersAreAsked, Clock
  <1>2. ASSUME IInv, [Next]_vars
        PROVE  IInv'
    <2>1. CASE Tick
      BY <1>2, <2>1 DEF IInv, TypeOK, IdsAreOld, IdsDiffer, HeldArePending, AnswersAreAsked, Tick
    <2>2. ASSUME NEW c \in Channels, NEW r \in Requests, NEW dispatched \in BOOLEAN,
                 Request(c, r, dispatched)
          PROVE  IInv'
      BY <1>2, <2>2, RequestKeepsIInv
    <2>3. ASSUME NEW r \in Requests, NEW kind \in Kinds, BrowserAnswers(r, kind)
          PROVE  IInv'
      BY <1>2, <2>3, BrowserAnswersKeepsIInv
    <2>4. ASSUME NEW a \in Answer, Receive(a)
          PROVE  IInv'
      BY <1>2, <2>4, ReceiveKeepsIInv
    <2>5. ASSUME NEW r \in Requests, TimerFires(r)
          PROVE  IInv'
      BY <1>2, <2>5 DEF IInv, TypeOK, IdsAreOld, IdsDiffer, HeldArePending,
         AnswersAreAsked, TimerFires
    <2>6. ASSUME NEW c \in Channels, Teardown(c)
          PROVE  IInv'
      BY <1>2, <2>6 DEF IInv, TypeOK, IdsAreOld, IdsDiffer, HeldArePending,
         AnswersAreAsked, Teardown
    <2>7. CASE UNCHANGED vars
      BY <1>2, <2>7 DEF IInv, TypeOK, IdsAreOld, IdsDiffer, HeldArePending,
         AnswersAreAsked, vars
    <2>8. QED
      BY <1>2, <2>1, <2>2, <2>3, <2>4, <2>5, <2>6, <2>7 DEF Next
  <1>3. QED
    BY <1>1, <1>2, PTL DEF Spec

\* Every reachable state is well typed.
THEOREM DuplexTypeCorrect == Spec => []TypeOK
  BY IInvHolds, PTL DEF IInv

\* Each pending request is held by one channel, and only pending requests
\* have a timeout.
Holders(r) == {c \in Channels : r \in table[c]}

PendingAreHeld ==
    \A r \in Requests : state[r] = "pending" => \E c \in Channels : Holders(r) = {c}

TimersArePending == \A r \in timers : state[r] = "pending"

OInv == PendingAreHeld /\ TimersArePending

\* The id of a new request is not that of an outstanding one, so that the
\* request takes no other one's place.
LEMMA NothingUnderNewId ==
    ASSUME IInv, NEW c \in Channels
    PROVE  Under(c, MessageId) = {}
  <1>1. MessageId[2] = suffix + 1 /\ suffix \in Nat
    BY DEF MessageId, IInv, TypeOK
  <1>2. ASSUME NEW r \in table[c]
        PROVE  id[r] # MessageId
    <2>1. r \in Requests /\ state[r] = "pending" /\ id[r][2] \in Nat
      BY DEF IInv, TypeOK, HeldArePending
    <2>2. id[r][2] <= suffix
      BY <2>1 DEF IInv, IdsAreOld
    <2>3. QED
      BY <1>1, <2>1, <2>2
  <1>3. QED
    BY <1>2 DEF Under

LEMMA RequestKeepsOInv ==
    ASSUME IInv, OInv, NEW c \in Channels, NEW r \in Requests, NEW dispatched \in BOOLEAN,
           Request(c, r, dispatched)
    PROVE  OInv'
  <1>1. /\ state[r] = "new" /\ state' = [state EXCEPT ![r] = "pending"]
        /\ table' = [table EXCEPT ![c] = @ \cup {r}]
        /\ timers' = timers \cup {r}
    BY NothingUnderNewId DEF Request
  <1>2. /\ state \in [Requests -> {"new", "pending", "resolved", "rejected"}]
        /\ table \in [Channels -> SUBSET Requests] /\ timers \subseteq Requests
    BY DEF IInv, TypeOK
  <1>3. \A d \in Channels : r \notin table[d]
    BY <1>1 DEF IInv, HeldArePending
  <1>4. Holders(r)' = {c}
    BY <1>1, <1>2, <1>3 DEF Holders
  <1>5. \A q \in Requests \ {r} : Holders(q)' = Holders(q) /\ state'[q] = state[q]
    BY <1>1, <1>2 DEF Holders
  <1>6. PendingAreHeld'
    BY <1>4, <1>5 DEF OInv, PendingAreHeld
  <1>7. TimersArePending'
    BY <1>1, <1>2, <1>5 DEF OInv, TimersArePending
  <1>8. QED
    BY <1>6, <1>7 DEF OInv

LEMMA ReceiveKeepsOInv ==
    ASSUME IInv, OInv, NEW a \in Answer, Receive(a)
    PROVE  OInv'
  <1>1. /\ state' = [r \in Requests |-> IF r \in Hit(a) THEN Outcome(a.kind) ELSE state[r]]
        /\ table' = [c \in Channels |-> table[c] \ Hit(a)]
        /\ timers' = timers \ Hit(a)
    BY DEF Receive, Removed
  <1>2. Outcome(a.kind) # "pending"
    BY DEF Outcome
  <1>3. timers \subseteq Requests
    BY DEF IInv, TypeOK
  <1>4. ASSUME NEW r \in Requests, r \notin Hit(a)
        PROVE  Holders(r)' = Holders(r) /\ state'[r] = state[r]
    BY <1>1, <1>4 DEF Holders
  <1>5. \A r \in Hit(a) : r \in Requests => state'[r] # "pending"
    BY <1>1, <1>2
  <1>6. PendingAreHeld'
    BY <1>4, <1>5 DEF OInv, PendingAreHeld
  <1>7. TimersArePending'
    BY <1>1, <1>3, <1>4 DEF OInv, TimersArePending
  <1>8. QED
    BY <1>6, <1>7 DEF OInv

LEMMA OInvHolds == Spec => []OInv
  <1>1. Init => OInv
    BY DEF Init, OInv, PendingAreHeld, TimersArePending
  <1>2. ASSUME IInv, OInv, [Next]_vars
        PROVE  OInv'
    <2>1. ASSUME NEW c \in Channels, NEW r \in Requests, NEW dispatched \in BOOLEAN,
                 Request(c, r, dispatched)
          PROVE  OInv'
      BY <1>2, <2>1, RequestKeepsOInv
    <2>2. ASSUME NEW a \in Answer, Receive(a)
          PROVE  OInv'
      BY <1>2, <2>2, ReceiveKeepsOInv
    <2>3. CASE UNCHANGED <<state, table>> /\ timers' \subseteq timers
      BY <1>2, <2>3 DEF OInv, PendingAreHeld, TimersArePending, Holders
    <2>4. QED
      BY <1>2, <2>1, <2>2, <2>3 DEF Next, Tick, BrowserAnswers, TimerFires, Teardown, vars
  <1>3. QED
    BY <1>1, <1>2, IInvHolds, PTL DEF Spec

\* A request is in the table of exactly one channel as long as its promise is
\* pending, and in none from then on.
THEOREM OutstandingArePending == Spec => []OutstandingIsPending
  <1>1. IInv /\ OInv => OutstandingIsPending
    <2> SUFFICES ASSUME IInv, OInv PROVE OutstandingIsPending
      OBVIOUS
    <2>1. ASSUME NEW r \in Requests
          PROVE  Cardinality(Holders(r)) = IF state[r] = "pending" THEN 1 ELSE 0
      <3>1. CASE state[r] = "pending"
        BY <3>1, FS_Singleton DEF OInv, PendingAreHeld
      <3>2. CASE state[r] # "pending"
        <4>1. Holders(r) = {}
          BY <3>2 DEF Holders, IInv, HeldArePending
        <4>2. QED
          BY <3>2, <4>1, FS_EmptySet
      <3>3. QED
        BY <3>1, <3>2
    <2>2. QED
      BY <2>1 DEF OutstandingIsPending, Holders, OInv, TimersArePending
  <1>2. QED
    BY <1>1, IInvHolds, OInvHolds, PTL

\* A received answer resolves or rejects the request it answers, rejects
\* whatever is outstanding when the browser has no such channel, or comes
\* too late and changes no promise.
LEMMA ReceiveRefines ==
    ASSUME IInv, NEW a \in Answer, Receive(a)
    PROVE  [RR!Next]_<<state, answers>>
  <1>1. a \in answers /\ answers' = answers /\ a.re \in Requests
    BY DEF IInv, AnswersAreAsked, Receive, Answer
  <1>2. /\ \A r \in Hit(a) : r \in Requests /\ state[r] = "pending"
        /\ a.kind # "noSuchChannel" => Hit(a) \subseteq {a.re}
    BY HitIsOwn DEF Receive
  <1>3. state \in [Requests -> {"new", "pending", "resolved", "rejected"}]
    BY DEF IInv, TypeOK
  <1>4. state' = [r \in Requests |-> IF r \in Hit(a) THEN Outcome(a.kind) ELSE state[r]]
    BY DEF Receive
  <1>5. CASE a.kind = "message"
    <2>1. a = [re |-> a.re, kind |-> "message"]
      BY <1>5 DEF Answer
    <2>2. Outcome(a.kind) = "resolved"
      BY <1>5 DEF Outcome
    <2>3. CASE Hit(a) = {}
      <3>1. state' = state
        BY <1>3, <1>4, <2>3
      <3>2. QED
        BY <1>1, <3>1
    <2>4. CASE Hit(a) = {a.re}
      <3>1. state' = [state EXCEPT ![a.re] = "resolved"]
        BY <1>3, <1>4, <2>2, <2>4
      <3>2. state[a.re] = "pending"
        BY <1>2, <2>4
      <3>3. RR!Resolve(a.re)
        BY <1>1, <2>1, <3>1, <3>2 DEF RR!Resolve
      <3>4. QED
        BY <1>1, <3>3 DEF RR!Next
    <2>5. QED
      BY <1>2, <1>5, <2>3, <2>4
  <1>6. CASE a.kind # "message"
    <2>1. Outcome(a.kind) = "rejected"
      BY <1>6 DEF Outcome
    <2>2. Hit(a) \in SUBSET Requests
      BY <1>2
    <2>3. CASE Hit(a) = {}
      <3>1. state' = state
        BY <1>3, <1>4, <2>3
      <3>2. QED
        BY <1>1, <3>1
    <2>4. CASE Hit(a) # {}
      <3>1. a.kind = "noSuchChannel" \/ (a.kind = "error" /\ Hit(a) = {a.re})
        BY <1>2, <1>6, <2>4 DEF Answer, Kinds
      <3>2. RR!Reject(Hit(a))
        BY <1>1, <1>2, <1>4, <2>1, <3>1 DEF RR!Reject
      <3>3. QED
        BY <2>2, <3>2 DEF RR!Next
    <2>5. QED
      BY <2>3, <2>4
  <1>7. QED
    BY <1>5, <1>6

\* DuplexChannel implements RequestReply: whatever the times, the channels
\* and the order of the answers, request() settles with its own answer.
THEOREM DuplexImplementsRequestReply == Spec => ImplementsRequestReply
  <1>1. Init => RR!Init
    BY DEF Init, RR!Init
  <1>2. ASSUME IInv, [Next]_vars
        PROVE  [RR!Next]_<<state, answers>>
    <2>1. ASSUME NEW c \in Channels, NEW r \in Requests, NEW dispatched \in BOOLEAN,
                 Request(c, r, dispatched)
          PROVE  RR!Next
      BY <2>1 DEF Request, RR!Next, RR!Ask
    <2>2. ASSUME NEW r \in Requests, NEW kind \in Kinds, BrowserAnswers(r, kind)
          PROVE  RR!Next
      <3> DEFINE a == [re |-> r, kind |-> kind]
      <3>1. a \in RR!Answer /\ a.re = r
        BY DEF Kinds, RR!Answer, RR!Kinds
      <3>2. RR!Reply(a)
        BY <2>2, <3>1 DEF BrowserAnswers, RR!Reply
      <3>3. QED
        BY <3>1, <3>2 DEF RR!Next
    <2>3. ASSUME NEW a \in Answer, Receive(a)
          PROVE  [RR!Next]_<<state, answers>>
      BY <1>2, <2>3, ReceiveRefines
    <2>4. ASSUME NEW r \in Requests, TimerFires(r)
          PROVE  UNCHANGED <<state, answers>>
      BY <2>4 DEF TimerFires
    <2>5. ASSUME NEW c \in Channels, Teardown(c)
          PROVE  UNCHANGED <<state, answers>>
      BY <2>5 DEF Teardown
    <2>6. CASE Tick
      BY <2>6 DEF Tick
    <2>7. CASE UNCHANGED vars
      BY <2>7 DEF vars
    <2>8. QED
      BY <1>2, <2>1, <2>2, <2>3, <2>4, <2>5, <2>6, <2>7 DEF Next
  <1>3. QED
    BY <1>1, <1>2, IInvHolds, PTL DEF Spec, ImplementsRequestReply, RR!Spec
=============================================================================
