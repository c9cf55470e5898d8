---------------------------- MODULE DuplexChannel ----------------------------
(***************************************************************************)
(* Request and answer over the channels of one page to the browser that    *)
(* hosts it (lib/channels/duplex.js, its WebChannel and the senders and    *)
(* receivers under it).  A page opens two WebChannels of one id: the       *)
(* notification channel and that of the Sync broker.  Every answer is an   *)
(* event that both hear, so that only its messageId tells whose it is.     *)
(***************************************************************************)
EXTENDS Naturals, FiniteSets

CONSTANTS
    Channels,  \* the channels of the page
    Requests,  \* the calls of request(), each made once
    MaxClock   \* bound: values of Date.now()

ASSUME DuplexAssumption == MaxClock \in Nat

Clock == 0..MaxClock
Kinds == {"message", "error", "noSuchChannel"}
Answer == [re : Requests, kind : Kinds]

VARIABLES
    clock,     \* Date.now(), which may also go back
    suffix,    \* messageIdSuffix, shared by the channels
    state,     \* the promise of each request
    id,        \* its messageId
    table,     \* the requests outstanding on each channel
    timers,    \* the requests whose timeout is set
    late,      \* the requests reported as "Response not received"
    open,      \* the channels not torn down
    unsent,    \* the requests whose message was never dispatched
    answers,   \* history: what the browser answered
    arriving   \* answers on their way to the page, in any order

vars == <<clock, suffix, state, id, table, timers, late, open, unsent, answers, arriving>>

TypeOK ==
    /\ clock \in Clock
    /\ suffix \in Nat
    /\ state \in [Requests -> {"new", "pending", "resolved", "rejected"}]
    /\ id \in [Requests -> Clock \X Nat]
    /\ table \in [Channels -> SUBSET Requests]
    /\ timers \in SUBSET Requests
    /\ late \in SUBSET Requests
    /\ open \in SUBSET Channels
    /\ unsent \in SUBSET Requests
    /\ answers \in SUBSET Answer
    /\ arriving \in SUBSET Answer

Init ==
    /\ clock = 0
    /\ suffix = 0
    /\ state = [r \in Requests |-> "new"]
    /\ id = [r \in Requests |-> <<0, 0>>]
    /\ table = [c \in Channels |-> {}]
    /\ timers = {}
    /\ late = {}
    /\ open = Channels
    /\ unsent = {}
    /\ answers = {}
    /\ arriving = {}

-----------------------------------------------------------------------------
Tick ==
    /\ clock' \in Clock \ {clock}
    /\ UNCHANGED <<suffix, state, id, table, timers, late, open, unsent, answers, arriving>>

\* Mutant: the id is the time alone.
MessageIdIsTime == <<clock, 0>>

\* `${Date.now()}${++messageIdSuffix}`: the pair determines the string, for
\* Date.now() has thirteen digits until the year 2286.
MessageId == <<clock, suffix + 1>>

\* The requests a channel holds under the id i.
Under(c, i) == {r \in table[c] : id[r] = i}

\* request(): the outstanding request is added, in the place of one with the
\* same id, and handed to the sender.  The senders send in a promise which
\* request() does not look at: a failure to send leaves no other trace.
Request(c, r, dispatched) ==
    LET old == Under(c, MessageId)
    IN  /\ state[r] = "new"
        /\ state' = [state EXCEPT ![r] = "pending"]
        /\ suffix' = suffix + 1
        /\ id' = [id EXCEPT ![r] = MessageId]
        /\ table' = [table EXCEPT ![c] = (@ \ old) \cup {r}]
        /\ timers' = (timers \ old) \cup {r}
        /\ unsent' = IF dispatched THEN unsent ELSE unsent \cup {r}
        /\ UNCHANGED <<clock, late, open, answers, arriving>>

\* The browser answers a message it received, once, with its messageId.
BrowserAnswers(r, kind) ==
    LET a == [re |-> r, kind |-> kind]
    IN  /\ state[r] # "new" /\ r \notin unsent
        /\ \A b \in answers : b.re # r
        /\ answers' = answers \cup {a}
        /\ arriving' = arriving \cup {a}
        /\ UNCHANGED <<clock, suffix, state, id, table, timers, late, open, unsent>>

\* Mutant: a rejected request stays in the table.
RemovedOnSuccess(hit, kind) ==
    [c \in Channels |-> IF kind = "message" THEN table[c] \ hit ELSE table[c]]

\* What remains outstanding when the requests in hit are settled.
Removed(hit, kind) == [c \in Channels |-> table[c] \ hit]

\* Mutant: a promise holds the kind of its answer.
OutcomeIsKind(kind) == kind

Outcome(kind) == IF kind = "message" THEN "resolved" ELSE "rejected"

\* The requests that an answer settles: those under its id on any open
\* channel, or all of them when the browser knows no such channel.
Hit(a) ==
    {r \in Requests : \E c \in open :
        r \in (IF a.kind = "noSuchChannel" THEN table[c] ELSE Under(c, id[a.re]))}

Receive(a) ==
    /\ a \in arriving
    /\ arriving' = arriving \ {a}
    /\ state' = [r \in Requests |-> IF r \in Hit(a) THEN Outcome(a.kind) ELSE state[r]]
    /\ table' = Removed(Hit(a), a.kind)
    /\ timers' = timers \ Hit(a)
    /\ UNCHANGED <<clock, suffix, id, late, open, unsent, answers>>

\* The timeout only writes to the log: the request stays outstanding.
TimerFires(r) ==
    /\ r \in timers
    /\ timers' = timers \ {r}
    /\ late' = late \cup {r}
    /\ UNCHANGED <<clock, suffix, state, id, table, open, unsent, answers, arriving>>

\* clear() calls remove() with a request where it takes a messageId, and so
\* removes nothing: a channel torn down only hears no more answers.
Teardown(c) ==
    /\ c \in open
    /\ open' = open \ {c}
    /\ UNCHANGED <<clock, suffix, state, id, table, timers, late, unsent, answers, arriving>>

Next ==
    \/ Tick
    \/ \E c \in Channels, r \in Requests, dispatched \in BOOLEAN :
            c \in open /\ Request(c, r, dispatched)
    \/ \E r \in Requests, kind \in Kinds : BrowserAnswers(r, kind)
    \/ \E a \in Answer : Receive(a)
    \/ \E r \in Requests : TimerFires(r)
    \/ \E c \in Channels : Teardown(c)

Spec == Init /\ [][Next]_vars

\* An event that was dispatched reaches the listeners of the page.
FairSpec == Spec /\ \A a \in Answer : WF_vars(Receive(a))

-----------------------------------------------------------------------------
(* Properties.                                                             *)

\* The tables and the promises agree: a request is outstanding on exactly
\* one channel as long as its promise is pending, and on none from then on;
\* a timeout is set only for a request still outstanding, so that none is
\* reported as unanswered after its answer came.
OutstandingIsPending ==
    /\ \A r \in Requests :
        Cardinality({c \in Channels : r \in table[c]}) =
            (IF state[r] = "pending" THEN 1 ELSE 0)
    /\ \A r \in timers : state[r] = "pending"

\* Two channels of one page that hear each other's answers, with requests
\* made in the same millisecond, still give each caller its own answer.
RR == INSTANCE RequestReply WITH Requests <- Requests, state <- state, answers <- answers
ImplementsRequestReply == RR!Spec

\* An answer of the browser settles the request it answers, as long as no
\* channel is torn down.
Waits(r) == state[r] = "pending" /\ open = Channels
AnswerSettles ==
    \A a \in Answer : (a \in answers /\ Waits(a.re)) ~> ~Waits(a.re)
=============================================================================
