-------------------- MODULE SessionVerificationPollProofs --------------------
(***************************************************************************)
(* The poll of a view that waits for its session, for any number of views  *)
(* and of failures.  That each view has one chain of checks is not         *)
(* inductive alone: a poll is started again only by the retry timer, which *)
(* is armed only by a poll that stopped itself (PollIsSound), and what a   *)
(* view was told, or that it is gone, says what its poll may still do      *)
(* (ViewIsSound).                                                          *)
(***************************************************************************)
EXTENDS SessionVerificationPoll, TLAPS

\* At most one link: a call, the timer of the poll or that of the view.
OneLink(p) ==
    /\ \A x \in CallStates : p.calls[x] <= 1
    /\ \A x, y \in Links(p) : x = y

\* A poll p of an account that has a token, or has not.  The retry timer
\* belongs to a poll that does not wait, as start() does nothing for one that
\* does.  Whether the uid exists is asked only once the token is lost.
PollIsSound(p, has) ==
    /\ OneLink(p)
    /\ p.waiting /\ has => Links(p) # {}
    /\ p.retry => ~p.waiting
    /\ \A x \in {"uid"} \cup UidAnswers : p.calls[x] > 0 => ~has

\* Answers stay true while they are on their way.
AnswersAreTrue(p, isVerified, doesExist) ==
    /\ p.calls["verified"] > 0 => isVerified
    /\ p.calls["gone"] > 0 => ~doesExist

\* What is left of the poll of a view before and after its time, and once
\* the view was told how its wait ended.
ViewIsSound(v) ==
    /\ shown[v] = "new" => ~poll[v].waiting /\ notified[v] = 0 /\ outcome[v] = "none"
    /\ shown[v] = "destroyed" => ~poll[v].waiting /\ ~poll[v].retry
    /\ shown[v] = "new" \/ notified[v] # 0 \/ outcome[v] # "none" => Links(poll[v]) = {}

IInv ==
    /\ TypeOK
    /\ ~exists => ~live
    /\ \A v \in Views : /\ PollIsSound(poll[v], hasToken)
                        /\ AnswersAreTrue(poll[v], verified, exists)
                        /\ ViewIsSound(v)

USE PollAssumption

-----------------------------------------------------------------------------
(* The links of a poll.                                                    *)

AllLinks == CallStates \cup {"timer", "retry"}

\* The links of p are those in L, each once.
Has(p, L) ==
    /\ \A x \in CallStates : p.calls[x] = IF x \in L THEN 1 ELSE 0
    /\ p.timer <=> "timer" \in L
    /\ p.retry <=> "retry" \in L

\* A link of a poll is its only one.
LEMMA OnlyLink ==
    ASSUME NEW p \in Poll, OneLink(p), NEW l \in Links(p)
    PROVE  Has(p, {l})
  <1>1. \A x \in CallStates : p.calls[x] \in Nat
    BY DEF Poll
  <1>2. p.timer \in BOOLEAN /\ p.retry \in BOOLEAN
    BY DEF Poll
  <1>3. \A x \in CallStates : p.calls[x] = IF x \in {l} THEN 1 ELSE 0
    <2> SUFFICES ASSUME NEW x \in CallStates
                 PROVE  p.calls[x] = IF x = l THEN 1 ELSE 0
      OBVIOUS
    <2>1. p.calls[x] \in Nat /\ p.calls[x] <= 1
      BY <1>1 DEF OneLink
    <2>2. p.calls[x] > 0 => x = l
      BY DEF OneLink, Links
    <2>3. x = l => p.calls[x] > 0
      BY DEF Links, CallStates, StatusAnswers, UidAnswers
    <2>4. QED
      BY <2>1, <2>2, <2>3
  <1>4. (p.timer <=> l = "timer") /\ (p.retry <=> l = "retry")
    <2>1. p.timer => l = "timer"
      BY DEF OneLink, Links
    <2>2. p.retry => l = "retry"
      BY DEF OneLink, Links
    <2>3. (l = "timer" => p.timer) /\ (l = "retry" => p.retry)
      BY DEF Links, CallStates, StatusAnswers, UidAnswers
    <2>4. QED
      BY <1>2, <2>1, <2>2, <2>3
  <1>5. QED
    BY <1>3, <1>4 DEF Has

\* So is a call, and a timer.
LEMMA CallIsLink ==
    ASSUME NEW p \in Poll, OneLink(p)
    PROVE  /\ \A x \in CallStates : p.calls[x] > 0 => Has(p, {x})
           /\ p.timer => Has(p, {"timer"})
           /\ p.retry => Has(p, {"retry"})
  <1>1. ASSUME NEW x \in CallStates, p.calls[x] > 0 PROVE Has(p, {x})
    BY <1>1, OnlyLink DEF Links
  <1>2. ASSUME p.timer PROVE Has(p, {"timer"})
    BY <1>2, OnlyLink DEF Links
  <1>3. ASSUME p.retry PROVE Has(p, {"retry"})
    BY <1>3, OnlyLink DEF Links
  <1>4. QED
    BY <1>1, <1>2, <1>3

LEMMA NoLinks ==
    ASSUME NEW p \in Poll, Links(p) = {}
    PROVE  Has(p, {})
  <1>1. \A x \in CallStates : p.calls[x] \in Nat /\ ~(p.calls[x] > 0)
    BY DEF Poll, Links
  <1>2. ~p.timer /\ ~p.retry /\ p.timer \in BOOLEAN /\ p.retry \in BOOLEAN
    BY DEF Links, Poll
  <1>3. QED
    BY <1>1, <1>2 DEF Has

\* What has one link, or none, is sound if that link may be there.
LEMMA LinkedIsSound ==
    ASSUME NEW p \in Poll, NEW l \in AllLinks, Has(p, {l}), NEW has \in BOOLEAN,
           l = "retry" => ~p.waiting,
           l \in {"uid"} \cup UidAnswers => ~has
    PROVE  PollIsSound(p, has) /\ Links(p) = {l}
  <1>1. \A x \in CallStates : (p.calls[x] > 0 <=> x = l) /\ p.calls[x] <= 1
    BY DEF Has
  <1>2. (p.timer <=> l = "timer") /\ (p.retry <=> l = "retry")
    BY DEF Has
  <1>3. Links(p) = {l}
    BY <1>1, <1>2 DEF Links, AllLinks
  <1>4. \A x \in {"uid"} \cup UidAnswers : p.calls[x] > 0 => ~has
    BY <1>1 DEF CallStates
  <1>5. QED
    BY <1>1, <1>2, <1>3, <1>4 DEF PollIsSound, OneLink

LEMMA UnlinkedIsSound ==
    ASSUME NEW p \in Poll, Has(p, {}), NEW has \in BOOLEAN,
           p.waiting => ~has
    PROVE  PollIsSound(p, has) /\ Links(p) = {}
  <1>1. \A x \in CallStates : ~(p.calls[x] > 0) /\ p.calls[x] <= 1
    BY DEF Has
  <1>2. ~p.timer /\ ~p.retry
    BY DEF Has
  <1>3. Links(p) = {}
    BY <1>1, <1>2 DEF Links
  <1>4. \A x \in {"uid"} \cup UidAnswers : ~(p.calls[x] > 0)
    BY <1>1 DEF CallStates
  <1>5. QED
    BY <1>1, <1>2, <1>3, <1>4 DEF PollIsSound, OneLink

LEMMA AnswersOfOthers ==
    ASSUME NEW p \in Poll, NEW L, Has(p, L), NEW ver \in BOOLEAN, NEW ex \in BOOLEAN,
           "verified" \in L => ver, "gone" \in L => ~ex
    PROVE  AnswersAreTrue(p, ver, ex)
  <1>1. "verified" \in CallStates /\ "gone" \in CallStates
    BY DEF CallStates, StatusAnswers, UidAnswers
  <1>2. /\ p.calls["verified"] = IF "verified" \in L THEN 1 ELSE 0
        /\ p.calls["gone"] = IF "gone" \in L THEN 1 ELSE 0
    BY <1>1 DEF Has
  <1>3. QED
    BY <1>2 DEF AnswersAreTrue

-----------------------------------------------------------------------------
(* What the operations of a poll do to its links.                          *)

LEMMA CallingAdds ==
    ASSUME NEW p \in Poll, NEW x \in CallStates, Has(p, {})
    PROVE  /\ Calling(p, x) \in Poll /\ Has(Calling(p, x), {x})
           /\ Calling(p, x).waiting = p.waiting
  <1> DEFINE c == [p.calls EXCEPT ![x] = @ + 1]
  <1>1. c \in [CallStates -> Nat]
    BY DEF Poll
  <1>2. Calling(p, x) = [p EXCEPT !.calls = c]
    BY DEF Calling
  <1>3. \A y \in CallStates : c[y] = IF y = x THEN 1 ELSE 0
    BY DEF Poll, Has
  <1> HIDE DEF c
  <1>4. x # "timer" /\ x # "retry"
    BY DEF CallStates, StatusAnswers, UidAnswers
  <1>5. /\ Calling(p, x) \in Poll
        /\ Calling(p, x).calls = c /\ Calling(p, x).waiting = p.waiting
        /\ Calling(p, x).timer = p.timer /\ Calling(p, x).retry = p.retry
    BY <1>1, <1>2 DEF Poll
  <1>6. QED
    BY <1>3, <1>4, <1>5 DEF Has

LEMMA WithoutRemoves ==
    ASSUME NEW p \in Poll, NEW x \in CallStates, Has(p, {x})
    PROVE  /\ Without(p, x) \in Poll /\ Has(Without(p, x), {})
           /\ Without(p, x).waiting = p.waiting
  <1> DEFINE c == [p.calls EXCEPT ![x] = @ - 1]
  <1>1. p.calls[x] = 1
    BY DEF Has
  <1>2. c \in [CallStates -> Nat]
    BY <1>1 DEF Poll
  <1>3. Without(p, x) = [p EXCEPT !.calls = c]
    BY DEF Without
  <1>4. \A y \in CallStates : c[y] = 0
    BY DEF Poll, Has
  <1> HIDE DEF c
  <1>5. x # "timer" /\ x # "retry"
    BY DEF CallStates, StatusAnswers, UidAnswers
  <1>6. /\ Without(p, x) \in Poll
        /\ Without(p, x).calls = c /\ Without(p, x).waiting = p.waiting
        /\ Without(p, x).timer = p.timer /\ Without(p, x).retry = p.retry
    BY <1>2, <1>3 DEF Poll
  <1>7. QED
    BY <1>4, <1>5, <1>6 DEF Has

LEMMA AnsweringMoves ==
    ASSUME NEW p \in Poll, NEW x \in CallStates, NEW y \in CallStates, Has(p, {x})
    PROVE  /\ Answering(p, x, y) \in Poll /\ Has(Answering(p, x, y), {y})
           /\ Answering(p, x, y).waiting = p.waiting
  BY WithoutRemoves, CallingAdds DEF Answering

\* A poll that waits asks; one that does not is left as it is.
Asked(has) == IF has THEN "status" ELSE "uid"

LEMMA PolledAsks ==
    ASSUME NEW p \in Poll, Has(p, {})
    PROVE  /\ Polled(p) \in Poll /\ Polled(p).waiting = p.waiting
           /\ Has(Polled(p), IF p.waiting THEN {Asked(hasToken)} ELSE {})
  <1>1. Asked(hasToken) \in CallStates
    BY DEF Asked, CallStates
  <1>2. CASE ~p.waiting
    BY <1>2 DEF Polled
  <1>3. CASE p.waiting
    <2>1. Polled(p) = Calling(p, Asked(hasToken))
      BY <1>3 DEF Polled, Asked
    <2>2. QED
      BY <1>1, <1>3, <2>1, CallingAdds
  <1>4. QED
    BY <1>2, <1>3

\* start() of a poll that rests.
LEMMA StartedAsks ==
    ASSUME NEW p \in Poll, Has(p, {}), ~p.waiting
    PROVE  /\ Started(p) \in Poll /\ Started(p).waiting
           /\ Has(Started(p), {Asked(hasToken)})
  <1> DEFINE q == [p EXCEPT !.waiting = TRUE]
  <1>1. q \in Poll /\ q.waiting /\ Has(q, {})
    BY DEF Poll, Has
  <1>2. Started(p) = Polled(q)
    BY DEF Started
  <1> HIDE DEF q
  <1>3. QED
    BY <1>1, <1>2, PolledAsks

\* stop() clears the timer of the poll and leaves calls in flight.
LEMMA StoppedRests ==
    ASSUME NEW p \in Poll
    PROVE  /\ Stopped(p) \in Poll /\ ~Stopped(p).waiting /\ ~Stopped(p).timer
           /\ Stopped(p).calls = p.calls /\ Stopped(p).retry = p.retry
  BY DEF Stopped, Poll

\* A poll that is stopped keeps at most the link it has.
LEMMA StoppedLinks ==
    ASSUME NEW p \in Poll, Has(p, {})
    PROVE  Stopped(p) \in Poll /\ ~Stopped(p).waiting /\ Has(Stopped(p), {})
  <1> DEFINE q == Stopped(p)
  <1>1. q \in Poll /\ ~q.waiting /\ ~q.timer /\ q.calls = p.calls /\ q.retry = p.retry
    BY StoppedRests
  <1> HIDE DEF q
  <1>2. Has(q, {})
    BY <1>1 DEF Has
  <1>3. QED
    BY <1>1, <1>2 DEF q

LEMMA DestroyedRests ==
    ASSUME NEW p \in Poll
    PROVE  /\ Destroyed(p) \in Poll /\ ~Destroyed(p).waiting
           /\ ~Destroyed(p).timer /\ ~Destroyed(p).retry
           /\ Destroyed(p).calls = p.calls
  <1>1. Stopped(p) \in Poll /\ ~Stopped(p).waiting /\ ~Stopped(p).timer
        /\ Stopped(p).calls = p.calls
    BY StoppedRests
  <1>2. QED
    BY <1>1 DEF Destroyed, Poll

\* The view that is destroyed takes the timers of its poll with it.
LEMMA DestroyedIsSound ==
    ASSUME NEW p \in Poll, NEW has \in BOOLEAN, PollIsSound(p, has),
           NEW ver, NEW ex, AnswersAreTrue(p, ver, ex)
    PROVE  /\ PollIsSound(Destroyed(p), has) /\ AnswersAreTrue(Destroyed(p), ver, ex)
           /\ Links(p) = {} => Links(Destroyed(p)) = {}
  <1> DEFINE q == Destroyed(p)
  <1>1. q \in Poll /\ ~q.waiting /\ ~q.timer /\ ~q.retry /\ q.calls = p.calls
    BY DestroyedRests
  <1> HIDE DEF q
  <1>2. Links(q) \subseteq Links(p)
    BY <1>1 DEF Links
  <1>3. PollIsSound(q, has)
    BY <1>1, <1>2 DEF PollIsSound, OneLink
  <1>4. AnswersAreTrue(q, ver, ex)
    BY <1>1 DEF AnswersAreTrue
  <1>5. QED
    BY <1>2, <1>3, <1>4 DEF q

-----------------------------------------------------------------------------
(* One view's step.                                                        *)

LEMMA InitKeeps == Init => IInv
  <1> SUFFICES ASSUME Init PROVE IInv
    OBVIOUS
  <1> DEFINE c == [x \in CallStates |-> 0]
             p == [waiting |-> FALSE, timer |-> FALSE, retry |-> FALSE, calls |-> c]
  <1>1. c \in [CallStates -> Nat] /\ \A x \in CallStates : c[x] = 0
    OBVIOUS
  <1>2. poll = [v \in Views |-> p]
    BY DEF Init
  <1> HIDE DEF c
  <1>3. p \in Poll /\ ~p.waiting /\ Has(p, {})
    <2>1. p \in Poll
      BY <1>1 DEF Poll
    <2>2. ~p.waiting /\ ~p.timer /\ ~p.retry /\ p.calls = c
      OBVIOUS
    <2> HIDE DEF p
    <2>3. QED
      BY <1>1, <2>1, <2>2 DEF Has
  <1> HIDE DEF p
  <1>4. hasToken = TRUE /\ live = TRUE /\ verified = FALSE /\ exists = TRUE
    BY DEF Init
  <1>5. PollIsSound(p, TRUE) /\ Links(p) = {}
    BY <1>3, UnlinkedIsSound
  <1>6. AnswersAreTrue(p, FALSE, TRUE)
    BY <1>3 DEF Has, AnswersAreTrue, CallStates, StatusAnswers, UidAnswers
  <1>7. TypeOK
    <2>1. poll \in [Views -> Poll]
      BY <1>2, <1>3
    <2>2. failures \in 0..MaxFailures
      BY DEF Init
    <2>3. QED
      BY <2>1, <2>2 DEF Init, TypeOK
  <1>8. ASSUME NEW v \in Views
        PROVE  /\ PollIsSound(poll[v], hasToken)
               /\ AnswersAreTrue(poll[v], verified, exists)
               /\ ViewIsSound(v)
    <2>1. poll[v] = p /\ shown[v] = "new" /\ notified[v] = 0 /\ outcome[v] = "none"
      BY <1>2 DEF Init
    <2>2. QED
      BY <1>3, <1>4, <1>5, <1>6, <2>1 DEF ViewIsSound
  <1>9. QED
    BY <1>4, <1>7, <1>8 DEF IInv

\* What a state in which the token is lost, the session verified or the
\* account gone leaves sound.
LEMMA LaterIsSound ==
    ASSUME NEW p, NEW has \in BOOLEAN, NEW ver \in BOOLEAN, NEW ex \in BOOLEAN,
           NEW has2 \in BOOLEAN, NEW ver2 \in BOOLEAN, NEW ex2 \in BOOLEAN,
           has2 => has, ver => ver2, ex2 => ex,
           PollIsSound(p, has), AnswersAreTrue(p, ver, ex)
    PROVE  PollIsSound(p, has2) /\ AnswersAreTrue(p, ver2, ex2)
  BY DEF PollIsSound, AnswersAreTrue

\* The server is left alone, and the poll of view v becomes q.
LEMMA OneViewKeeps ==
    ASSUME IInv, NEW v \in Views, NEW q \in Poll,
           poll' = [poll EXCEPT ![v] = q],
           UNCHANGED <<server, shown>>,
           hasToken' \in BOOLEAN, hasToken' => hasToken,
           failures' \in 0..MaxFailures,
           notified' \in [Views -> {0, 1}],
           outcome' \in [Views -> {"none", "bounced", "displayed"}],
           \A w \in Views \ {v} : notified'[w] = notified[w] /\ outcome'[w] = outcome[w],
           PollIsSound(q, hasToken'), AnswersAreTrue(q, verified, exists),
           shown[v] = "new" => ~q.waiting /\ notified'[v] = 0 /\ outcome'[v] = "none",
           shown[v] = "destroyed" => ~q.waiting /\ ~q.retry,
           shown[v] = "new" \/ notified'[v] # 0 \/ outcome'[v] # "none" => Links(q) = {}
    PROVE  IInv'
  <1>1. TypeOK'
    BY DEF IInv, TypeOK, server
  <1>2. hasToken \in BOOLEAN /\ verified \in BOOLEAN /\ exists \in BOOLEAN
        /\ poll \in [Views -> Poll]
    BY DEF IInv, TypeOK
  <1>3. ASSUME NEW w \in Views
        PROVE  /\ PollIsSound(poll[w], hasToken)'
               /\ AnswersAreTrue(poll[w], verified, exists)'
               /\ ViewIsSound(w)'
    <2>1. CASE w = v
      <3>1. poll'[w] = q
        BY <1>2, <2>1
      <3>2. QED
        BY <2>1, <3>1 DEF ViewIsSound, server
    <2>2. CASE w # v
      <3>1. poll'[w] = poll[w]
        BY <1>2, <2>2
      <3>2. PollIsSound(poll[w], hasToken') /\ AnswersAreTrue(poll[w], verified, exists)
        BY <1>2, LaterIsSound DEF IInv
      <3>3. ViewIsSound(w)
        BY DEF IInv
      <3>4. notified'[w] = notified[w] /\ outcome'[w] = outcome[w] /\ shown' = shown
        BY <2>2
      <3>5. QED
        BY <3>1, <3>2, <3>3, <3>4 DEF ViewIsSound, server
    <2>3. QED
      BY <2>1, <2>2
  <1>4. ~exists' => ~live'
    BY DEF IInv, server
  <1>5. QED
    BY <1>1, <1>3, <1>4 DEF IInv

\* Nothing but the poll of view v changes, and the account may lose its token.
LEMMA OnlyPollKeeps ==
    ASSUME IInv, NEW v \in Views, NEW q \in Poll,
           poll' = [poll EXCEPT ![v] = q],
           UNCHANGED <<server, shown, notified, outcome>>,
           hasToken' \in BOOLEAN, hasToken' => hasToken,
           failures' \in 0..MaxFailures,
           PollIsSound(q, hasToken'), AnswersAreTrue(q, verified, exists),
           q.waiting => poll[v].waiting \/ shown[v] = "shown",
           q.retry => shown[v] = "shown",
           Links(poll[v]) # {}
    PROVE  IInv'
  <1>1. /\ shown[v] # "new" /\ notified[v] = 0 /\ outcome[v] = "none"
        /\ shown[v] = "destroyed" => ~poll[v].waiting
    BY DEF IInv, ViewIsSound
  <1>2. notified \in [Views -> {0, 1}]
        /\ outcome \in [Views -> {"none", "bounced", "displayed"}]
    BY DEF IInv, TypeOK
  <1>3. UNCHANGED <<server, shown>> /\ notified' = notified /\ outcome' = outcome
    OBVIOUS
  <1>4. shown[v] = "destroyed" => ~q.waiting /\ ~q.retry
    BY <1>1
  <1> QED
    BY <1>1, <1>2, <1>3, <1>4, OneViewKeeps

\* What a view's poll looks like before a step of it.
LEMMA PollOf ==
    ASSUME IInv, NEW v \in Views
    PROVE  /\ poll[v] \in Poll /\ poll[v].waiting \in BOOLEAN
           /\ PollIsSound(poll[v], hasToken) /\ OneLink(poll[v])
           /\ AnswersAreTrue(poll[v], verified, exists) /\ ViewIsSound(v)
           /\ hasToken \in BOOLEAN /\ verified \in BOOLEAN /\ exists \in BOOLEAN
           /\ failures \in 0..MaxFailures
           /\ \A x \in CallStates : poll[v].calls[x] > 0 =>
                 Has(poll[v], {x}) /\ Links(poll[v]) # {}
           /\ poll[v].timer => Has(poll[v], {"timer"}) /\ Links(poll[v]) # {}
           /\ poll[v].retry => Has(poll[v], {"retry"}) /\ Links(poll[v]) # {}
  <1>1. poll[v] \in Poll
    BY DEF IInv, TypeOK
  <1>2. PollIsSound(poll[v], hasToken) /\ OneLink(poll[v])
        /\ AnswersAreTrue(poll[v], verified, exists) /\ ViewIsSound(v)
    BY DEF IInv, PollIsSound
  <1>3. hasToken \in BOOLEAN /\ verified \in BOOLEAN /\ exists \in BOOLEAN
        /\ failures \in 0..MaxFailures
    BY DEF IInv, TypeOK
  <1>4. poll[v].waiting \in BOOLEAN
    BY <1>1 DEF Poll
  <1>5. /\ \A x \in CallStates : poll[v].calls[x] > 0 => Links(poll[v]) # {}
        /\ poll[v].timer \/ poll[v].retry => Links(poll[v]) # {}
    BY DEF Links
  <1>6. QED
    BY <1>1, <1>2, <1>3, <1>4, <1>5, CallIsLink

-----------------------------------------------------------------------------
(* The actions of one view.                                                *)

LEMMA AskedMayBe ==
    ASSUME NEW q \in Poll, NEW has \in BOOLEAN, Has(q, {Asked(has)})
    PROVE  /\ PollIsSound(q, has)
           /\ \A ver, ex \in BOOLEAN : AnswersAreTrue(q, ver, ex)
           /\ ~q.retry
  <1>1. Asked(has) \in AllLinks /\ Asked(has) # "retry" /\ Asked(has) \notin UidAnswers
        /\ Asked(has) # "verified" /\ Asked(has) # "gone" /\ (Asked(has) = "uid" => ~has)
    BY DEF Asked, AllLinks, CallStates, UidAnswers
  <1>2. PollIsSound(q, has)
    BY <1>1, LinkedIsSound
  <1>3. \A ver, ex \in BOOLEAN : AnswersAreTrue(q, ver, ex)
    BY <1>1, AnswersOfOthers
  <1>4. QED
    BY <1>1, <1>2, <1>3 DEF Has

\* A poll without links that does not wait for a session it can ask about.
LEMMA NoneMayBe ==
    ASSUME NEW q \in Poll, NEW has \in BOOLEAN, Has(q, {}), q.waiting => ~has
    PROVE  /\ PollIsSound(q, has) /\ Links(q) = {}
           /\ \A ver, ex \in BOOLEAN : AnswersAreTrue(q, ver, ex)
           /\ ~q.retry
  <1>1. \A ver, ex \in BOOLEAN : AnswersAreTrue(q, ver, ex)
    BY DEF Has, AnswersAreTrue, CallStates, StatusAnswers, UidAnswers
  <1>2. QED
    BY <1>1, UnlinkedIsSound DEF Has

LEMMA TimerFiresKeeps == ASSUME IInv, NEW v \in Views, TimerFires(v) PROVE IInv'
  <1> DEFINE p == poll[v]
             r == [p EXCEPT !.timer = FALSE]
             q == Polled(r)
  <1>1. p \in Poll /\ Has(p, {"timer"}) /\ Links(p) # {} /\ p.waiting \in BOOLEAN
    BY PollOf DEF TimerFires
  <1>2. r \in Poll /\ Has(r, {}) /\ r.waiting = p.waiting
    <2>1. r \in Poll /\ r.waiting = p.waiting /\ r.calls = p.calls /\ ~r.timer
          /\ r.retry = p.retry
      BY <1>1 DEF Poll
    <2> HIDE DEF r, p
    <2>2. QED
      BY <1>1, <2>1 DEF Has, CallStates, StatusAnswers, UidAnswers
  <1>3. poll' = [poll EXCEPT ![v] = q]
        /\ UNCHANGED <<hasToken, server, shown, notified, outcome, failures>>
    BY DEF TimerFires
  <1>4. hasToken \in BOOLEAN /\ verified \in BOOLEAN /\ exists \in BOOLEAN
        /\ failures \in 0..MaxFailures
    BY PollOf
  <1> HIDE DEF r
  <1>5. q \in Poll /\ q.waiting = p.waiting
        /\ Has(q, IF p.waiting THEN {Asked(hasToken)} ELSE {})
    BY <1>2, PolledAsks
  <1> HIDE DEF q
  <1>6. PollIsSound(q, hasToken) /\ AnswersAreTrue(q, verified, exists) /\ ~q.retry
    <2>1. CASE p.waiting
      BY <1>4, <1>5, <2>1, AskedMayBe
    <2>2. CASE ~p.waiting
      BY <1>4, <1>5, <2>2, NoneMayBe
    <2>3. QED
      BY <2>1, <2>2
  <1>7. QED
    BY <1>1, <1>3, <1>4, <1>5, <1>6, OnlyPollKeeps

LEMMA RetryFiresKeeps == ASSUME IInv, NEW v \in Views, RetryFires(v) PROVE IInv'
  <1> DEFINE p == poll[v]
             r == [p EXCEPT !.retry = FALSE]
             q == Started(r)
  <1>1. p \in Poll /\ Has(p, {"retry"}) /\ Links(p) # {} /\ ~p.waiting
    BY PollOf DEF RetryFires, PollIsSound
  <1>2. shown[v] = "shown"
    <2>1. shown[v] # "new" /\ shown[v] # "destroyed"
      BY <1>1, PollOf DEF RetryFires, ViewIsSound
    <2>2. QED
      BY <2>1 DEF IInv, TypeOK
  <1>3. r \in Poll /\ Has(r, {}) /\ ~r.waiting
    <2>1. r \in Poll /\ r.waiting = p.waiting /\ r.calls = p.calls /\ ~r.retry
          /\ r.timer = p.timer
      BY <1>1 DEF Poll
    <2> HIDE DEF r, p
    <2>2. QED
      BY <1>1, <2>1 DEF Has, CallStates, StatusAnswers, UidAnswers
  <1>4. poll' = [poll EXCEPT ![v] = q]
        /\ UNCHANGED <<hasToken, server, shown, notified, outcome, failures>>
    BY DEF RetryFires
  <1>5. hasToken \in BOOLEAN /\ verified \in BOOLEAN /\ exists \in BOOLEAN
        /\ failures \in 0..MaxFailures
    BY PollOf
  <1> HIDE DEF r
  <1>6. q \in Poll /\ Has(q, {Asked(hasToken)})
    BY <1>3, StartedAsks
  <1> HIDE DEF q
  <1>7. PollIsSound(q, hasToken) /\ AnswersAreTrue(q, verified, exists) /\ ~q.retry
    BY <1>5, <1>6, AskedMayBe
  <1>8. QED
    BY <1>1, <1>2, <1>4, <1>5, <1>6, <1>7, OnlyPollKeeps

\* A call of view v is answered, or its answer leads to another call.
LEMMA CallMoves ==
    ASSUME IInv, NEW v \in Views, NEW x \in CallStates, NEW y \in CallStates,
           poll[v].calls[x] > 0,
           poll' = [poll EXCEPT ![v] = Answering(@, x, y)],
           UNCHANGED <<server, shown, notified, outcome>>,
           hasToken' \in BOOLEAN, hasToken' => hasToken,
           failures' \in 0..MaxFailures,
           y \in {"uid"} \cup UidAnswers => ~hasToken',
           y = "verified" => verified, y = "gone" => ~exists
    PROVE  IInv'
  <1> DEFINE q == Answering(poll[v], x, y)
  <1>1. poll[v] \in Poll /\ Has(poll[v], {x}) /\ Links(poll[v]) # {}
        /\ verified \in BOOLEAN /\ exists \in BOOLEAN
    BY PollOf
  <1>2. q \in Poll /\ Has(q, {y}) /\ q.waiting = poll[v].waiting
    BY <1>1, AnsweringMoves
  <1>3. poll' = [poll EXCEPT ![v] = q]
    OBVIOUS
  <1> HIDE DEF q
  <1>4. y \in AllLinks /\ y # "retry"
    BY DEF AllLinks, CallStates, StatusAnswers, UidAnswers
  <1>5. PollIsSound(q, hasToken')
    BY <1>2, <1>4, LinkedIsSound
  <1>6. AnswersAreTrue(q, verified, exists)
    BY <1>1, <1>2, AnswersOfOthers
  <1>7. ~q.retry
    BY <1>2, <1>4 DEF Has
  <1>8. QED
    BY <1>1, <1>2, <1>3, <1>5, <1>6, <1>7, OnlyPollKeeps

LEMMA ServeStatusKeeps == ASSUME IInv, NEW v \in Views, ServeStatus(v) PROVE IInv'
  <1> DEFINE y == IF ~live THEN "invalid" ELSE IF verified THEN "verified" ELSE "unverified"
  <1>1. y \in CallStates /\ "status" \in CallStates /\ y \notin {"uid", "gone"} \cup UidAnswers
        /\ (y = "verified" => verified)
    BY DEF CallStates, StatusAnswers, UidAnswers
  <1>2. /\ poll[v].calls["status"] > 0
        /\ poll' = [poll EXCEPT ![v] = Answering(@, "status", y)]
        /\ UNCHANGED <<hasToken, server, shown, notified, outcome, failures>>
    BY DEF ServeStatus
  <1>3. hasToken \in BOOLEAN /\ failures \in 0..MaxFailures
    BY PollOf
  <1> HIDE DEF y
  <1>4. QED
    BY <1>1, <1>2, <1>3, CallMoves

LEMMA ServeUidKeeps == ASSUME IInv, NEW v \in Views, ServeUid(v) PROVE IInv'
  <1> DEFINE y == IF exists THEN "exists" ELSE "gone"
  <1>1. y \in CallStates /\ "uid" \in CallStates /\ y # "verified" /\ (y = "gone" => ~exists)
    BY DEF CallStates, StatusAnswers, UidAnswers
  <1>2. /\ poll[v].calls["uid"] > 0
        /\ poll' = [poll EXCEPT ![v] = Answering(@, "uid", y)]
        /\ UNCHANGED <<hasToken, server, shown, notified, outcome, failures>>
    BY DEF ServeUid
  <1>3. hasToken \in BOOLEAN /\ failures \in 0..MaxFailures /\ ~hasToken
    BY <1>2, PollOf DEF PollIsSound
  <1> HIDE DEF y
  <1>4. QED
    BY <1>1, <1>2, <1>3, CallMoves

LEMMA FailsKeeps ==
    ASSUME IInv, NEW v \in Views, NEW x, NEW y, Fails(v, x, y),
           (x = "status" /\ y \in {"failed", "refused"}) \/ (x = "uid" /\ y = "uidFailed")
    PROVE  IInv'
  <1>1. x \in CallStates /\ y \in CallStates /\ y # "verified" /\ y # "gone"
        /\ (y \in {"uid"} \cup UidAnswers => x = "uid")
    BY DEF CallStates, StatusAnswers, UidAnswers
  <1>2. /\ poll[v].calls[x] > 0
        /\ poll' = [poll EXCEPT ![v] = Answering(@, x, y)]
        /\ UNCHANGED <<hasToken, server, shown, notified, outcome>>
    BY DEF Fails
  <1>3. hasToken \in BOOLEAN /\ failures' \in 0..MaxFailures
    BY PollOf DEF Fails
  <1>4. x = "uid" => ~hasToken
    BY <1>2, PollOf DEF PollIsSound
  <1>5. QED
    BY <1>1, <1>2, <1>3, <1>4, CallMoves

LEMMA StatusInvalidKeeps == ASSUME IInv, NEW v \in Views, StatusInvalid(v) PROVE IInv'
  <1>1. "invalid" \in CallStates /\ "uid" \in CallStates
    BY DEF CallStates, StatusAnswers, UidAnswers
  <1>2. /\ poll[v].calls["invalid"] > 0
        /\ poll' = [poll EXCEPT ![v] = Answering(@, "invalid", "uid")]
        /\ hasToken' = FALSE
        /\ UNCHANGED <<server, shown, notified, outcome, failures>>
    BY DEF StatusInvalid
  <1>3. hasToken' \in BOOLEAN /\ ~hasToken' /\ failures \in 0..MaxFailures
    BY <1>2, PollOf
  <1>4. QED
    BY <1>1, <1>2, <1>3, CallMoves

LEMMA StatusVerifiedKeeps == ASSUME IInv, NEW v \in Views, StatusVerified(v) PROVE IInv'
  <1> DEFINE p == poll[v]
             r == Without(p, "verified")
             q == IF p.waiting THEN Stopped(r) ELSE r
  <1>1. "verified" \in CallStates
    BY DEF CallStates, StatusAnswers
  <1>2. p.calls["verified"] > 0
    BY DEF StatusVerified
  <1>3. p \in Poll /\ Has(p, {"verified"}) /\ Links(p) # {}
    BY <1>1, <1>2, PollOf
  <1>4. hasToken \in BOOLEAN /\ verified \in BOOLEAN /\ exists \in BOOLEAN
        /\ failures \in 0..MaxFailures
    BY PollOf
  <1>5. r \in Poll /\ Has(r, {}) /\ r.waiting = p.waiting
    BY <1>1, <1>3, WithoutRemoves
  <1>6. q \in Poll /\ Has(q, {}) /\ ~q.waiting
    BY <1>5, StoppedLinks
  <1>7. poll' = [poll EXCEPT ![v] = q]
    BY DEF StatusVerified, Noticed
  <1>8. UNCHANGED <<server, shown>> /\ hasToken' = hasToken /\ outcome' = outcome
        /\ failures' = failures
    BY DEF StatusVerified
  <1>9. /\ notified' = notified \/ notified' = [notified EXCEPT ![v] = @ + 1]
        /\ shown[v] # "new"
    BY <1>3, PollOf DEF StatusVerified, ViewIsSound
  <1>10. notified \in [Views -> {0, 1}] /\ notified[v] = 0
         /\ outcome \in [Views -> {"none", "bounced", "displayed"}]
    BY <1>3, PollOf DEF IInv, TypeOK, ViewIsSound
  <1>11. /\ notified' \in [Views -> {0, 1}]
         /\ \A w \in Views \ {v} : notified'[w] = notified[w]
    BY <1>9, <1>10
  <1> HIDE DEF q, r
  <1>12. /\ PollIsSound(q, hasToken) /\ Links(q) = {} /\ ~q.retry
         /\ AnswersAreTrue(q, verified, exists)
    BY <1>4, <1>6, NoneMayBe
  <1>13. QED
    BY <1>4, <1>6, <1>7, <1>8, <1>9, <1>10, <1>11, <1>12, OneViewKeeps

LEMMA StatusUnverifiedKeeps ==
    ASSUME IInv, NEW v \in Views, StatusUnverified(v) PROVE IInv'
  <1> DEFINE p == poll[v]
             r == Without(p, "unverified")
             q == [r EXCEPT !.timer = p.waiting]
  <1>1. "unverified" \in CallStates
    BY DEF CallStates, StatusAnswers
  <1>2. p \in Poll /\ Has(p, {"unverified"}) /\ Links(p) # {} /\ p.waiting \in BOOLEAN
    BY <1>1, PollOf DEF StatusUnverified
  <1>3. hasToken \in BOOLEAN /\ verified \in BOOLEAN /\ exists \in BOOLEAN
        /\ failures \in 0..MaxFailures
    BY PollOf
  <1>4. r \in Poll /\ Has(r, {}) /\ r.waiting = p.waiting
    BY <1>1, <1>2, WithoutRemoves
  <1>5. poll' = [poll EXCEPT ![v] = q]
        /\ UNCHANGED <<hasToken, server, shown, notified, outcome, failures>>
    BY DEF StatusUnverified
  <1> HIDE DEF r
  <1>6. q \in Poll /\ q.waiting = p.waiting /\ q.timer = p.waiting
        /\ q.calls = r.calls /\ q.retry = r.retry
    BY <1>2, <1>4 DEF Poll
  <1> HIDE DEF q
  <1>7. Has(q, IF p.waiting THEN {"timer"} ELSE {})
    BY <1>2, <1>4, <1>6 DEF Has, CallStates, StatusAnswers, UidAnswers
  <1>8. PollIsSound(q, hasToken) /\ AnswersAreTrue(q, verified, exists) /\ ~q.retry
    <2>1. CASE p.waiting
      <3>1. "timer" \in AllLinks /\ "timer" \notin {"uid"} \cup UidAnswers
        BY DEF AllLinks, UidAnswers
      <3>2. Has(q, {"timer"})
        BY <1>7, <2>1
      <3>3. PollIsSound(q, hasToken)
        BY <1>3, <1>6, <3>1, <3>2, LinkedIsSound
      <3>4. AnswersAreTrue(q, verified, exists)
        BY <1>3, <1>6, <3>2, AnswersOfOthers
      <3>5. QED
        BY <3>2, <3>3, <3>4 DEF Has
    <2>2. CASE ~p.waiting
      BY <1>3, <1>6, <1>7, <2>2, NoneMayBe
    <2>3. QED
      BY <2>1, <2>2
  <1>9. QED
    BY <1>2, <1>3, <1>5, <1>6, <1>8, OnlyPollKeeps

LEMMA StatusFailedKeeps == ASSUME IInv, NEW v \in Views, StatusFailed(v) PROVE IInv'
  <1> DEFINE p == poll[v]
             r == Stopped(Without(p, "failed"))
             q == [r EXCEPT !.retry = @ \/ Retries(v)]
  <1>1. "failed" \in CallStates
    BY DEF CallStates, StatusAnswers
  <1>2. p \in Poll /\ Has(p, {"failed"}) /\ Links(p) # {}
    BY <1>1, PollOf DEF StatusFailed
  <1>3. hasToken \in BOOLEAN /\ verified \in BOOLEAN /\ exists \in BOOLEAN
        /\ failures \in 0..MaxFailures
    BY PollOf
  <1>4. r \in Poll /\ Has(r, {}) /\ ~r.waiting
    BY <1>1, <1>2, WithoutRemoves, StoppedLinks
  <1>5. poll' = [poll EXCEPT ![v] = q]
        /\ UNCHANGED <<hasToken, server, shown, notified, outcome, failures>>
    BY DEF StatusFailed
  <1>6. r.retry = FALSE
    BY <1>4 DEF Has, Poll
  <1> HIDE DEF r
  <1>7. q = [r EXCEPT !.retry = (shown[v] = "shown")]
    BY <1>6 DEF Retries, Hears
  <1>8. q \in Poll /\ ~q.waiting /\ q.retry = (shown[v] = "shown")
        /\ q.calls = r.calls /\ q.timer = r.timer
    <2> DEFINE h == shown[v] = "shown"
    <2>1. h \in BOOLEAN
      OBVIOUS
    <2>2. q = [r EXCEPT !.retry = h]
      BY <1>7
    <2> HIDE DEF h, q
    <2>3. q \in Poll /\ ~q.waiting /\ q.retry = h /\ q.calls = r.calls /\ q.timer = r.timer
      BY <1>4, <2>1, <2>2 DEF Poll
    <2>4. QED
      BY <2>3 DEF h
  <1> HIDE DEF q
  <1>9. Has(q, IF shown[v] = "shown" THEN {"retry"} ELSE {})
    BY <1>4, <1>8 DEF Has, CallStates, StatusAnswers, UidAnswers
  <1>10. PollIsSound(q, hasToken) /\ AnswersAreTrue(q, verified, exists)
    <2>1. CASE shown[v] = "shown"
      <3>1. "retry" \in AllLinks /\ "retry" \notin {"uid"} \cup UidAnswers
        BY DEF AllLinks, UidAnswers
      <3>2. Has(q, {"retry"})
        BY <1>9, <2>1
      <3>3. PollIsSound(q, hasToken)
        BY <1>3, <1>8, <3>1, <3>2, LinkedIsSound
      <3>4. AnswersAreTrue(q, verified, exists)
        BY <1>3, <1>8, <3>2, AnswersOfOthers
      <3>5. QED
        BY <3>3, <3>4
    <2>2. CASE shown[v] # "shown"
      BY <1>3, <1>8, <1>9, <2>2, NoneMayBe
    <2>3. QED
      BY <2>1, <2>2
  <1>11. QED
    BY <1>2, <1>3, <1>5, <1>8, <1>10, OnlyPollKeeps

LEMMA ErrorEndsKeeps ==
    ASSUME IInv, NEW v \in Views, NEW x \in CallStates,
           NEW result \in {"bounced", "displayed"}, ErrorEnds(v, x, result)
    PROVE  IInv'
  <1> DEFINE p == poll[v]
             r == Without(p, x)
             q == Stopped(r)
  <1>1. p \in Poll /\ Has(p, {x}) /\ Links(p) # {}
    BY PollOf DEF ErrorEnds
  <1>2. hasToken \in BOOLEAN /\ verified \in BOOLEAN /\ exists \in BOOLEAN
        /\ failures \in 0..MaxFailures
    BY PollOf
  <1>3. r \in Poll /\ Has(r, {})
    BY <1>1, WithoutRemoves
  <1>4. q \in Poll /\ Has(q, {}) /\ ~q.waiting
    BY <1>3, StoppedLinks
  <1>5. poll' = [poll EXCEPT ![v] = q]
    BY DEF ErrorEnds
  <1>6. UNCHANGED <<server, shown>> /\ hasToken' = hasToken /\ notified' = notified
        /\ failures' = failures
    BY DEF ErrorEnds
  <1>7. /\ outcome' = outcome \/ outcome' = [outcome EXCEPT ![v] = result]
        /\ shown[v] # "new"
    BY <1>1, PollOf DEF ErrorEnds, ViewIsSound
  <1>8. notified \in [Views -> {0, 1}]
        /\ outcome \in [Views -> {"none", "bounced", "displayed"}]
    BY DEF IInv, TypeOK
  <1>9. /\ outcome' \in [Views -> {"none", "bounced", "displayed"}]
        /\ \A w \in Views \ {v} : outcome'[w] = outcome[w]
    BY <1>7, <1>8
  <1> HIDE DEF q, r
  <1>10. /\ PollIsSound(q, hasToken) /\ Links(q) = {} /\ ~q.retry
         /\ AnswersAreTrue(q, verified, exists)
    BY <1>2, <1>4, NoneMayBe
  <1>11. QED
    BY <1>2, <1>4, <1>5, <1>6, <1>7, <1>8, <1>9, <1>10, OneViewKeeps

\* A poll whose chain ends here waits for a session it cannot ask about.
LEMMA UidFailedKeeps == ASSUME IInv, NEW v \in Views, UidFailed(v) PROVE IInv'
  <1> DEFINE p == poll[v]
             q == Without(p, "uidFailed")
  <1>1. "uidFailed" \in CallStates /\ "uidFailed" \in UidAnswers
    BY DEF CallStates, UidAnswers
  <1>2. p \in Poll /\ Has(p, {"uidFailed"}) /\ Links(p) # {} /\ ~hasToken
    BY <1>1, PollOf DEF UidFailed, PollIsSound
  <1>3. hasToken \in BOOLEAN /\ verified \in BOOLEAN /\ exists \in BOOLEAN
        /\ failures \in 0..MaxFailures
    BY PollOf
  <1>4. q \in Poll /\ Has(q, {}) /\ q.waiting = p.waiting
    BY <1>1, <1>2, WithoutRemoves
  <1>5. poll' = [poll EXCEPT ![v] = q]
        /\ UNCHANGED <<hasToken, server, shown, notified, outcome, failures>>
    BY DEF UidFailed
  <1> HIDE DEF q
  <1>6. PollIsSound(q, hasToken) /\ AnswersAreTrue(q, verified, exists) /\ ~q.retry
    BY <1>2, <1>3, <1>4, NoneMayBe
  <1>7. QED
    BY <1>2, <1>3, <1>4, <1>5, <1>6, OnlyPollKeeps

-----------------------------------------------------------------------------
(* Views come and go, and what happens elsewhere.                          *)

\* The views that a navigation destroys, and those it leaves alone.
LEMMA OthersAreSound ==
    ASSUME IInv, NEW w \in Views,
           \/ /\ shown[w] = "shown" /\ shown'[w] = "destroyed"
              /\ poll'[w] = Destroyed(poll[w])
           \/ shown'[w] = shown[w] /\ poll'[w] = poll[w],
           UNCHANGED <<hasToken, server, notified, outcome>>
    PROVE  /\ poll'[w] \in Poll
           /\ PollIsSound(poll[w], hasToken)' /\ AnswersAreTrue(poll[w], verified, exists)'
           /\ ViewIsSound(w)'
  <1>1. /\ poll[w] \in Poll /\ PollIsSound(poll[w], hasToken) /\ hasToken \in BOOLEAN
        /\ AnswersAreTrue(poll[w], verified, exists) /\ ViewIsSound(w)
    BY PollOf
  <1>2. CASE /\ shown[w] = "shown" /\ shown'[w] = "destroyed"
             /\ poll'[w] = Destroyed(poll[w])
    <2>1. /\ poll'[w] \in Poll /\ ~poll'[w].waiting /\ ~poll'[w].retry
      BY <1>1, <1>2, DestroyedRests
    <2>2. /\ PollIsSound(poll'[w], hasToken) /\ AnswersAreTrue(poll'[w], verified, exists)
          /\ Links(poll[w]) = {} => Links(poll'[w]) = {}
      BY <1>1, <1>2, DestroyedIsSound
    <2>3. ViewIsSound(w)'
      BY <1>1, <1>2, <2>1, <2>2 DEF ViewIsSound
    <2>4. QED
      BY <2>1, <2>2, <2>3 DEF server
  <1>3. CASE shown'[w] = shown[w] /\ poll'[w] = poll[w]
    BY <1>1, <1>3 DEF ViewIsSound, server
  <1>4. QED
    BY <1>2, <1>3

LEMMA ShowKeeps == ASSUME IInv, NEW v \in Views, Show(v) PROVE IInv'
  <1>1. hasToken /\ shown[v] = "new"
        /\ UNCHANGED <<hasToken, server, notified, outcome, failures>>
    BY DEF Show
  <1>2. poll[v] \in Poll /\ ~poll[v].waiting /\ Has(poll[v], {})
        /\ hasToken \in BOOLEAN /\ verified \in BOOLEAN /\ exists \in BOOLEAN
    BY <1>1, PollOf, NoLinks DEF ViewIsSound
  <1>3. /\ poll'[v] = Started(poll[v]) /\ shown'[v] = "shown"
        /\ \A w \in Views \ {v} :
              \/ /\ shown[w] = "shown" /\ shown'[w] = "destroyed"
                 /\ poll'[w] = Destroyed(poll[w])
              \/ shown'[w] = shown[w] /\ poll'[w] = poll[w]
    BY DEF Show
  <1>4. Started(poll[v]) \in Poll /\ Has(Started(poll[v]), {Asked(hasToken)})
    BY <1>2, StartedAsks
  <1>5. ASSUME NEW w \in Views
        PROVE  /\ poll'[w] \in Poll
               /\ PollIsSound(poll[w], hasToken)'
               /\ AnswersAreTrue(poll[w], verified, exists)'
               /\ ViewIsSound(w)'
    <2>1. CASE w = v
      <3>1. PollIsSound(poll'[v], hasToken) /\ AnswersAreTrue(poll'[v], verified, exists)
        BY <1>2, <1>3, <1>4, AskedMayBe
      <3>2. notified[v] = 0 /\ outcome[v] = "none"
        BY <1>1, PollOf DEF ViewIsSound
      <3>3. ViewIsSound(v)'
        BY <1>1, <1>3, <3>2 DEF ViewIsSound
      <3>4. QED
        BY <1>1, <1>3, <1>4, <2>1, <3>1, <3>3 DEF server
    <2>2. CASE w # v
      BY <1>1, <1>3, <2>2, OthersAreSound
    <2>3. QED
      BY <2>1, <2>2
  <1>6. poll' \in [Views -> Poll] /\ shown' \in [Views -> {"new", "shown", "destroyed"}]
    <2>1. poll' = [w \in Views |-> poll'[w]]
      BY DEF Show
    <2>2. shown' \in [Views -> {"new", "shown", "destroyed"}]
      BY DEF Show, IInv, TypeOK
    <2>3. QED
      BY <1>5, <2>1, <2>2
  <1>7. TypeOK'
    BY <1>1, <1>6 DEF IInv, TypeOK, server
  <1>8. QED
    BY <1>1, <1>5, <1>7 DEF IInv, server

LEMMA LeaveKeeps == ASSUME IInv, NEW v \in Views, Leave(v) PROVE IInv'
  <1>1. UNCHANGED <<hasToken, server, notified, outcome, failures>>
    BY DEF Leave
  <1>2. ASSUME NEW w \in Views
        PROVE  \/ /\ shown[w] = "shown" /\ shown'[w] = "destroyed"
                  /\ poll'[w] = Destroyed(poll[w])
               \/ shown'[w] = shown[w] /\ poll'[w] = poll[w]
    BY DEF Leave, IInv, TypeOK
  <1>3. ASSUME NEW w \in Views
        PROVE  /\ poll'[w] \in Poll
               /\ PollIsSound(poll[w], hasToken)'
               /\ AnswersAreTrue(poll[w], verified, exists)'
               /\ ViewIsSound(w)'
    BY <1>1, <1>2, OthersAreSound
  <1>4. poll' \in [Views -> Poll] /\ shown' \in [Views -> {"new", "shown", "destroyed"}]
    <2>1. Destroyed(poll[v]) \in Poll
      BY PollOf, DestroyedRests
    <2>2. QED
      BY <2>1 DEF Leave, IInv, TypeOK
  <1>5. TypeOK'
    BY <1>1, <1>4 DEF IInv, TypeOK, server
  <1>6. QED
    BY <1>1, <1>3, <1>5 DEF IInv, server

\* The session becomes verified or is ended, or nothing happens.
LEMMA ElsewhereKeeps == ASSUME IInv, Verify \/ End \/ UNCHANGED vars PROVE IInv'
  <1>1. /\ UNCHANGED <<hasToken, shown, poll, notified, outcome, failures>>
        /\ live' \in BOOLEAN /\ verified' \in BOOLEAN /\ exists' \in BOOLEAN
        /\ (verified => verified') /\ (exists' => exists) /\ (~exists' => ~live')
    <2>1. /\ live \in BOOLEAN /\ verified \in BOOLEAN /\ exists \in BOOLEAN
          /\ ~exists => ~live
      BY DEF IInv, TypeOK
    <2>2. CASE Verify
      BY <2>1, <2>2 DEF Verify
    <2>3. CASE End
      BY <2>1, <2>3 DEF End
    <2>4. CASE UNCHANGED vars
      BY <2>1, <2>4 DEF vars
    <2>5. QED
      BY <2>2, <2>3, <2>4
  <1>2. TypeOK'
    BY <1>1 DEF IInv, TypeOK
  <1>3. ASSUME NEW w \in Views
        PROVE  /\ PollIsSound(poll[w], hasToken)'
               /\ AnswersAreTrue(poll[w], verified, exists)'
               /\ ViewIsSound(w)'
    <2>1. /\ PollIsSound(poll[w], hasToken) /\ AnswersAreTrue(poll[w], verified, exists)
          /\ ViewIsSound(w)
      BY PollOf
    <2>2. poll'[w] = poll[w] /\ hasToken' = hasToken
      BY <1>1
    <2>3. ViewIsSound(w)'
      BY <1>1, <2>1, <2>2 DEF ViewIsSound
    <2>4. AnswersAreTrue(poll[w], verified, exists)'
      BY <1>1, <2>1, <2>2 DEF AnswersAreTrue
    <2>5. QED
      BY <2>1, <2>2, <2>3, <2>4
  <1>4. QED
    BY <1>1, <1>2, <1>3 DEF IInv

LEMMA AnsweredKeeps == ASSUME IInv, NEW v \in Views, Answered(v) PROVE IInv'
  <1>1. {"refused", "exists", "gone"} \subseteq CallStates
    BY DEF CallStates, StatusAnswers, UidAnswers
  <1>2. QED
    BY <1>1, StatusVerifiedKeeps, StatusUnverifiedKeeps, StatusInvalidKeeps,
       StatusFailedKeeps, ErrorEndsKeeps, UidFailedKeeps DEF Answered

LEMMA NextKeeps == ASSUME IInv, [Next]_vars PROVE IInv'
  <1>1. CASE Next
    BY <1>1, ShowKeeps, LeaveKeeps, TimerFiresKeeps, RetryFiresKeeps, ServeStatusKeeps,
       ServeUidKeeps, AnsweredKeeps, FailsKeeps, ElsewhereKeeps DEF Next, Serve
  <1>2. CASE UNCHANGED vars
    BY <1>2, ElsewhereKeeps
  <1>3. QED
    BY <1>1, <1>2

THEOREM Invariance == Spec => []IInv
  BY InitKeeps, NextKeeps, PTL DEF Spec

-----------------------------------------------------------------------------
(* The theorems.                                                           *)

\* Every reachable state of the polls is well typed: onVerified is called at
\* most once for a view.
THEOREM PollTypeCorrect == Spec => []TypeOK
  <1>1. IInv => TypeOK
    BY DEF IInv
  <1>2. QED
    BY <1>1, Invariance, PTL

\* Each view runs one chain of checks, and a poll that waits for a session it
\* can ask about has it.
THEOREM OneChain == Spec => []OneCheckAtATime
  <1>1. IInv => OneCheckAtATime
    BY DEF IInv, OneCheckAtATime, PollIsSound, OneLink
  <1>2. QED
    BY <1>1, Invariance, PTL

\* An answer to a call leaves no request for the status behind.
LEMMA AnsweredAsksNothing ==
    ASSUME IInv, NEW v \in Views, ServeStatus(v) \/ ServeUid(v) \/ Answered(v)
                   \/ (\E x \in {"status", "uid"} :
                          \E y \in {"failed", "refused", "uidFailed"} : Fails(v, x, y))
    PROVE  \E q : poll' = [poll EXCEPT ![v] = q] /\ q.calls["status"] = 0
  <1>0. "status" \in CallStates /\ poll[v] \in Poll
    BY PollOf DEF CallStates
  <1>1. ASSUME NEW x \in CallStates, NEW y \in CallStates \ {"status"},
               poll[v].calls[x] > 0
        PROVE  Answering(poll[v], x, y).calls["status"] = 0
    <2>1. Has(Answering(poll[v], x, y), {y})
      BY <1>0, <1>1, PollOf, AnsweringMoves
    <2>2. QED
      BY <1>0, <2>1 DEF Has
  <1>2. ASSUME NEW x \in CallStates, poll[v].calls[x] > 0
        PROVE  /\ Without(poll[v], x).calls["status"] = 0
               /\ Stopped(Without(poll[v], x)).calls["status"] = 0
               /\ \A b : [Without(poll[v], x) EXCEPT !.timer = b].calls["status"] = 0
               /\ \A b : [Stopped(Without(poll[v], x)) EXCEPT !.retry = b].calls["status"] = 0
    <2> DEFINE r == Without(poll[v], x)
    <2>1. r \in Poll /\ Has(r, {})
      BY <1>0, <1>2, PollOf, WithoutRemoves
    <2>2. r.calls["status"] = 0
      BY <1>0, <2>1 DEF Has
    <2> HIDE DEF r
    <2>3. Stopped(r) \in Poll /\ Stopped(r).calls = r.calls
      BY <2>1, StoppedRests
    <2>4. \A b : [r EXCEPT !.timer = b].calls = r.calls
      BY <2>1 DEF Poll
    <2>5. \A b : [Stopped(r) EXCEPT !.retry = b].calls = Stopped(r).calls
      BY <2>3 DEF Poll
    <2>6. QED
      BY <2>2, <2>3, <2>4, <2>5 DEF r
  <1>3. CASE ServeStatus(v)
    BY <1>1, <1>3 DEF ServeStatus, CallStates, StatusAnswers
  <1>4. CASE ServeUid(v)
    <2> DEFINE y == IF exists THEN "exists" ELSE "gone"
    <2>1. "uid" \in CallStates /\ y \in CallStates \ {"status"}
      BY DEF CallStates, StatusAnswers, UidAnswers
    <2>2. poll[v].calls["uid"] > 0 /\ poll' = [poll EXCEPT ![v] = Answering(@, "uid", y)]
      BY <1>4 DEF ServeUid
    <2> HIDE DEF y
    <2>3. QED
      BY <1>1, <2>1, <2>2
  <1>5. CASE \E x \in {"status", "uid"} :
                \E y \in {"failed", "refused", "uidFailed"} : Fails(v, x, y)
    <2>1. PICK x \in {"status", "uid"}, y \in {"failed", "refused", "uidFailed"} :
              Fails(v, x, y)
      BY <1>5
    <2>2. x \in CallStates /\ y \in CallStates \ {"status"}
      BY DEF CallStates, StatusAnswers, UidAnswers
    <2>3. poll[v].calls[x] > 0 /\ poll' = [poll EXCEPT ![v] = Answering(@, x, y)]
      BY <2>1 DEF Fails
    <2>4. QED
      BY <1>1, <2>2, <2>3
  <1>6. CASE StatusVerified(v)
    BY <1>2, <1>6 DEF StatusVerified, Noticed, CallStates, StatusAnswers
  <1>7. CASE StatusUnverified(v)
    BY <1>2, <1>7 DEF StatusUnverified, CallStates, StatusAnswers
  <1>8. CASE StatusInvalid(v)
    BY <1>1, <1>8 DEF StatusInvalid, CallStates, StatusAnswers
  <1>9. CASE StatusFailed(v)
    <2>1. "failed" \in CallStates /\ poll[v].calls["failed"] > 0
      BY <1>9 DEF StatusFailed, CallStates, StatusAnswers
    <2> DEFINE r == Stopped(Without(poll[v], "failed"))
    <2>2. poll' = [poll EXCEPT ![v] = [r EXCEPT !.retry = r.retry \/ Retries(v)]]
      BY <1>9 DEF StatusFailed
    <2>3. [r EXCEPT !.retry = r.retry \/ Retries(v)].calls["status"] = 0
      BY <1>2, <2>1
    <2>4. QED
      BY <2>2, <2>3
  <1>10. CASE UidFailed(v)
    BY <1>2, <1>10 DEF UidFailed, CallStates, UidAnswers
  <1>11. ASSUME NEW x \in {"refused", "exists", "gone"}, NEW result, ErrorEnds(v, x, result)
         PROVE  \E q : poll' = [poll EXCEPT ![v] = q] /\ q.calls["status"] = 0
    BY <1>2, <1>11 DEF ErrorEnds, CallStates, StatusAnswers, UidAnswers
  <1>12. QED
    BY <1>3, <1>4, <1>5, <1>6, <1>7, <1>8, <1>9, <1>10, <1>11 DEF Answered

\* Neither does a timer of a view that is destroyed.
LEMMA DestroyedAsksNothing ==
    ASSUME IInv, [Next]_vars, NEW v \in Views, shown[v] = "destroyed"
    PROVE  poll'[v].calls["status"] <= poll[v].calls["status"]
  <1>1. /\ poll[v] \in Poll /\ ~poll[v].waiting /\ ~poll[v].retry
        /\ poll[v].calls["status"] \in Nat
    BY PollOf DEF ViewIsSound, Poll, CallStates
  <1>2. poll \in [Views -> Poll]
    BY DEF IInv, TypeOK
  <1>3. CASE \E w \in Views : Show(w) \/ Leave(w)
    <2>1. poll'[v] = poll[v] \/ poll'[v] = Destroyed(poll[v])
      BY <1>2, <1>3 DEF Show, Leave
    <2>2. QED
      BY <1>1, <2>1, DestroyedRests
  <1>4. ASSUME NEW w \in Views, TimerFires(w) PROVE poll'[v].calls = poll[v].calls
    <2>1. CASE w = v
      <3> DEFINE r == [poll[v] EXCEPT !.timer = FALSE]
      <3>1. ~r.waiting /\ r.calls = poll[v].calls
        BY <1>1 DEF Poll
      <3>2. poll'[v] = Polled(r)
        BY <1>2, <1>4, <2>1 DEF TimerFires
      <3> HIDE DEF r
      <3>3. QED
        BY <3>1, <3>2 DEF Polled
    <2>2. CASE w # v
      BY <1>2, <1>4, <2>2 DEF TimerFires
    <2>3. QED
      BY <2>1, <2>2
  <1>5. ASSUME NEW w \in Views, RetryFires(w) PROVE poll'[v].calls = poll[v].calls
    BY <1>1, <1>2, <1>5 DEF RetryFires
  <1>6. ASSUME NEW w \in Views, NEW q, poll' = [poll EXCEPT ![w] = q], q.calls["status"] = 0
        PROVE  poll'[v].calls["status"] <= poll[v].calls["status"]
    BY <1>1, <1>2, <1>6
  <1>7. CASE Verify \/ End \/ UNCHANGED vars
    BY <1>1, <1>7 DEF Verify, End, vars
  <1>8. QED
    BY <1>1, <1>3, <1>4, <1>5, <1>6, <1>7, AnsweredAsksNothing DEF Next, Serve

THEOREM DestroyedViewsAreQuiet == Spec => DestroyedIsQuiet
  <1>1. ASSUME IInv, [Next]_vars
        PROVE  [\A v \in Views : shown[v] = "destroyed" =>
                   poll'[v].calls["status"] <= poll[v].calls["status"]]_vars
    BY <1>1, DestroyedAsksNothing
  <1>2. QED
    BY <1>1, Invariance, PTL DEF Spec, DestroyedIsQuiet

-----------------------------------------------------------------------------
(* The refinement.                                                         *)

LEMMA InitRefines == Init => VW!Init
  BY DEF Init, VW!Init

\* What a view hears, it hears once, and it is so.
LEMMA StepRefines == ASSUME IInv, [Next]_vars PROVE [VW!Next]_VW!vars
  <1>1. ASSUME NEW v \in Views, StatusVerified(v) PROVE VW!Notify(v) \/ UNCHANGED VW!vars
    <2>1. "verified" \in CallStates /\ poll[v].calls["verified"] > 0
      BY <1>1 DEF StatusVerified, CallStates, StatusAnswers
    <2>2. notified[v] = 0 /\ outcome[v] = "none" /\ verified
      BY <2>1, PollOf DEF ViewIsSound, AnswersAreTrue
    <2>3. QED
      BY <1>1, <2>2 DEF StatusVerified, VW!Notify, VW!Waits, VW!vars, server
  <1>2. ASSUME NEW v \in Views, NEW x \in CallStates, NEW result, ErrorEnds(v, x, result),
               result = "bounced" => x = "gone"
        PROVE  VW!Refuse(v, result) \/ UNCHANGED VW!vars
    <2>1. poll[v].calls[x] > 0
      BY <1>2 DEF ErrorEnds
    <2>2. /\ notified[v] = 0 /\ outcome[v] = "none"
          /\ result = "bounced" => ~exists
      BY <1>2, <2>1, PollOf DEF ViewIsSound, AnswersAreTrue
    <2>3. QED
      BY <1>2, <2>2 DEF ErrorEnds, VW!Refuse, VW!Waits, VW!vars, server
  <1>3. CASE Verify \/ End
    BY <1>3 DEF Verify, End, VW!Next, VW!Server, IInv, TypeOK
  <1>4. ASSUME NEW v \in Views, Answered(v) PROVE [VW!Next]_VW!vars
    <2>1. {"refused", "exists", "gone"} \subseteq CallStates
      BY DEF CallStates, StatusAnswers, UidAnswers
    <2>2. CASE StatusVerified(v)
      BY <1>1, <2>2 DEF VW!Next
    <2>3. CASE \/ ErrorEnds(v, "refused", "displayed") \/ ErrorEnds(v, "exists", "displayed")
               \/ ErrorEnds(v, "gone", "bounced")
      BY <1>2, <2>1, <2>3 DEF VW!Next
    <2>4. CASE StatusUnverified(v) \/ StatusInvalid(v) \/ StatusFailed(v) \/ UidFailed(v)
      BY <2>4 DEF StatusUnverified, StatusInvalid, StatusFailed, UidFailed, VW!vars, server
    <2>5. QED
      BY <1>4, <2>2, <2>3, <2>4 DEF Answered
  <1>5. ASSUME NEW v \in Views,
               \/ Show(v) \/ Leave(v) \/ TimerFires(v) \/ RetryFires(v) \/ Serve(v)
               \/ \E x, y : Fails(v, x, y)
        PROVE  UNCHANGED VW!vars
    BY <1>5 DEF Show, Leave, TimerFires, RetryFires, Serve, ServeStatus, ServeUid, Fails,
                VW!vars, server
  <1>6. CASE UNCHANGED vars
    BY <1>6 DEF vars, VW!vars
  <1>7. QED
    BY <1>3, <1>4, <1>5, <1>6 DEF Next

\* The polls of all views that wait for one account together keep the promise
\* of VerificationWait.
THEOREM PollImplementsVerificationWait == Spec => ImplementsVerificationWait
  BY InitRefines, StepRefines, Invariance, PTL DEF Spec, VW!Spec, ImplementsVerificationWait
=============================================================================
