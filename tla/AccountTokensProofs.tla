------------------------- MODULE AccountTokensProofs -------------------------
(***************************************************************************)
(* The access tokens of an account, for any operations, sessions and       *)
(* bounds.  One certificate request per session is in flight because its   *)
(* promise is "asked" until it is settled, and only a settled one grows    *)
(* old (SigningIsSound).  The retry of an operation sends a newer token    *)
(* because a token it holds was issued before the one its retry asks for   *)
(* (OpIsSound), wherever the request of the retry is.                      *)
(***************************************************************************)
EXTENDS AccountTokens, TLAPS

SigningIsSound ==
    \A s \in Sessions : signing[s] <= 1 /\ (signing[s] > 0 => assertion[s] = "asked")

\* An operation w of kind k when tokens 1..n were issued.
OpIsSound(w, k, n) ==
    /\ w.with <= n /\ w.first <= n
    /\ w.at \in {"idle", "status", "ok", "failed"} => w.retry = FALSE
    /\ w.at = "assertion" => w.answer = "none"
    /\ k # "destroyApp" /\ w.retry = TRUE /\ w.at = "token" /\ w.answer = "good"
           => w.with > w.first
    /\ k # "destroyApp" /\ w.retry = TRUE /\ w.at = "call" => w.with > w.first

OpsAreSound == \A o \in Ops : OpIsSound(op[o], kind[o], issued)

IInv == TypeOK /\ SigningIsSound /\ OpsAreSound /\ access <= issued

USE TokensAssumption

-----------------------------------------------------------------------------
(* What the actions have in common.                                        *)

\* The parts of the type invariant that the actions share.
OpsTyped == op \in [Ops -> Op]
AccountTyped ==
    /\ session \in Sessions \cup {None} /\ verified \in BOOLEAN /\ access \in 0..MaxTokens
    /\ cached \in {"none", "pending", "good", "failed"} /\ bound \in BOOLEAN
PromisesTyped ==
    /\ assertion \in [Sessions -> {"none", "asked", "good", "refused", "error"}]
    /\ signing \in [Sessions -> Nat]

\* Step by step, operation o becomes w.
LEMMA OpBecomes ==
    ASSUME IInv, NEW o \in Ops, NEW w \in Op, op' = [op EXCEPT ![o] = w], UNCHANGED kind,
           issued' \in 0..MaxTokens, issued <= issued', OpIsSound(w, kind[o], issued')
    PROVE  OpsTyped' /\ OpsAreSound'
  <1>1. OpsTyped'
    BY DEF IInv, TypeOK, OpsTyped
  <1>2. ASSUME NEW p \in Ops \ {o}
        PROVE  OpIsSound(op'[p], kind'[p], issued')
    <2>1. op'[p] = op[p] /\ op[p] \in Op /\ OpIsSound(op[p], kind[p], issued)
      BY DEF IInv, TypeOK, OpsAreSound
    <2>2. op[p].with \in Nat /\ op[p].first \in Nat /\ issued \in Nat /\ issued' \in Nat
      BY <2>1 DEF Op, IInv, TypeOK
    <2>3. op[p].with <= issued' /\ op[p].first <= issued'
      BY <2>1, <2>2 DEF OpIsSound
    <2>4. QED
      BY <2>1, <2>3 DEF OpIsSound
  <1>3. op'[o] = w
    BY DEF IInv, TypeOK
  <1>4. QED
    BY <1>1, <1>2, <1>3 DEF OpsAreSound

\* The same, when no token is issued.
LEMMA OpBecomesUnissued ==
    ASSUME IInv, NEW o \in Ops, NEW w \in Op, op' = [op EXCEPT ![o] = w],
           UNCHANGED <<kind, issued>>, OpIsSound(w, kind[o], issued)
    PROVE  OpsTyped' /\ OpsAreSound'
  <1>1. issued' \in 0..MaxTokens /\ issued <= issued' /\ UNCHANGED kind
    BY DEF IInv, TypeOK
  <1>2. OpIsSound(w, kind[o], issued')
    OBVIOUS
  <1>3. QED
    BY <1>1, <1>2, OpBecomes

LEMMA RestIsOp ==
    ASSUME IInv, NEW at \in {"idle", "ok", "failed"}, NEW o \in Ops
    PROVE  Rest(at) \in Op /\ OpIsSound(Rest(at), kind[o], issued)
  <1>1. Rest(at) \in Op
    BY DEF Rest, Op, Answers, Steps
  <1>2. 0 <= issued
    BY DEF IInv, TypeOK
  <1>3. QED
    BY <1>1, <1>2 DEF Rest, OpIsSound

\* The fields of an operation, and where it is now.
LEMMA OpFields ==
    ASSUME IInv, NEW o \in Ops
    PROVE  /\ op[o] \in Op /\ op[o].at \in Steps /\ op[o].answer \in Answers
           /\ op[o].retry \in BOOLEAN /\ op[o].of \in Sessions \cup {None}
           /\ op[o].with \in 0..MaxTokens /\ op[o].first \in 0..MaxTokens
           /\ OpIsSound(op[o], kind[o], issued)
           /\ issued \in 0..MaxTokens /\ issued \in Nat
           /\ op[o].with \in Nat /\ op[o].first \in Nat
  BY DEF IInv, TypeOK, Op, OpsAreSound

\* Nothing in Cleared is new.
LEMMA ClearedTyped ==
    ASSUME IInv, NEW s, NEW v, NEW a
    PROVE  Cleared(s, v, a) \in {"none", "pending", "good", "failed"}
  BY DEF Cleared, IInv, TypeOK

LEMMA EndsKeeps ==
    ASSUME IInv, NEW o \in Ops, NEW how \in {"ok", "failed"}, NEW s \in Sessions \cup {None},
           NEW v \in BOOLEAN, NEW a \in 0..MaxTokens, a <= issued,
           Ends(o, how, s, v, a), UNCHANGED <<kind, issued>>
    PROVE  OpsTyped' /\ OpsAreSound' /\ AccountTyped' /\ access' <= issued'
  <1>1. Rest(how) \in Op /\ OpIsSound(Rest(how), kind[o], issued)
    BY RestIsOp
  <1>2. op' = [op EXCEPT ![o] = Rest(how)]
    BY DEF Ends
  <1>3. OpsTyped' /\ OpsAreSound'
    BY <1>1, <1>2, OpBecomesUnissued
  <1>4. cached' \in {"none", "pending", "good", "failed"} /\ bound' \in BOOLEAN
    BY ClearedTyped DEF Ends, IInv, TypeOK
  <1>5. session' = s /\ verified' = v /\ access' = a
    BY DEF Ends, Sets
  <1>6. QED
    BY <1>3, <1>4, <1>5 DEF AccountTyped

\* A call is sound when a retry has a token that is newer than the first.
LEMMA CallsKeeps ==
    ASSUME IInv, NEW o \in Ops, NEW a \in 0..MaxTokens, a <= issued,
           op[o].retry = TRUE /\ kind[o] # "destroyApp" => a > op[o].first,
           Calls(o, a), UNCHANGED <<kind, issued>>
    PROVE  OpsTyped' /\ OpsAreSound'
  <1> DEFINE c == CallToken(o, a)
             f == IF op[o].retry THEN op[o].first ELSE a
             w == [op[o] EXCEPT !.at = "call", !.answer = "none", !.of = None,
                                !.with = c, !.first = f]
  <1>0. op[o] \in Op /\ op[o].retry \in BOOLEAN
    BY OpFields
  <1>1. c \in {a, op[o].first} /\ f \in {a, op[o].first}
    BY DEF CallToken
  <1>2. op[o].retry = TRUE /\ kind[o] # "destroyApp" => c = a /\ f = op[o].first
    BY DEF CallToken
  <1>3. c \in 0..MaxTokens /\ f \in 0..MaxTokens /\ c <= issued /\ f <= issued
    BY <1>1, OpFields DEF OpIsSound
  <1>4. op' = [op EXCEPT ![o] = w]
    BY <1>0 DEF Calls, IInv, TypeOK, Op
  <1> HIDE DEF c, f
  <1>5. /\ w \in Op /\ w.at = "call" /\ w.answer = "none" /\ w.retry = op[o].retry
        /\ w.with = c /\ w.first = f
    BY <1>0, <1>3 DEF Op, Steps, Answers
  <1> HIDE DEF w
  <1>6. OpIsSound(w, kind[o], issued)
    BY <1>2, <1>3, <1>5 DEF OpIsSound
  <1>7. QED
    BY <1>4, <1>5, <1>6, OpBecomesUnissued

\* An operation that waits for an assertion lets one be asked for, unless
\* its session has a promise.
LEMMA NeedsTokenKeeps ==
    ASSUME IInv, NEW o \in Ops, NEW retry \in BOOLEAN, session # None,
           NeedsToken(o, retry), UNCHANGED <<kind, issued>>
    PROVE  OpsTyped' /\ OpsAreSound' /\ PromisesTyped' /\ SigningIsSound'
  <1> DEFINE w == [op[o] EXCEPT !.at = "assertion", !.answer = "none", !.of = session,
                                !.retry = retry]
  <1>0. op[o] \in Op /\ session \in Sessions
    BY OpFields DEF IInv, TypeOK
  <1>1. op' = [op EXCEPT ![o] = w]
    BY <1>0 DEF NeedsToken, IInv, TypeOK, Op
  <1>2. /\ w \in Op /\ w.at = "assertion" /\ w.answer = "none"
        /\ w.with = op[o].with /\ w.first = op[o].first
    BY <1>0 DEF Op, Steps, Answers
  <1> HIDE DEF w
  <1>3. OpIsSound(w, kind[o], issued)
    BY <1>2, OpFields DEF OpIsSound
  <1>4. OpsTyped' /\ OpsAreSound'
    BY <1>1, <1>2, <1>3, OpBecomesUnissued
  <1>5. CASE UNCHANGED <<assertion, signing>>
    BY <1>4, <1>5 DEF IInv, TypeOK, PromisesTyped, SigningIsSound
  <1>6. CASE /\ assertion[session] = "none"
             /\ assertion' = [assertion EXCEPT ![session] = "asked"]
             /\ signing' = [signing EXCEPT ![session] = @ + 1]
    <2>1. signing[session] = 0
      BY <1>0, <1>6 DEF IInv, SigningIsSound, TypeOK
    <2>2. PromisesTyped'
      BY <1>0, <1>6 DEF IInv, TypeOK, PromisesTyped
    <2>3. SigningIsSound'
      BY <1>0, <1>6, <2>1 DEF IInv, TypeOK, SigningIsSound
    <2>4. QED
      BY <1>4, <2>2, <2>3
  <1>7. QED
    BY <1>5, <1>6 DEF NeedsToken, Generates, Reuses

LEMMA AskStatusKeeps ==
    ASSUME IInv, NEW o \in Ops, op[o].at = "idle", AskStatus(o), UNCHANGED <<kind, issued>>
    PROVE  OpsTyped' /\ OpsAreSound'
  <1> DEFINE w == [op[o] EXCEPT !.at = "status", !.of = session]
  <1>0. op[o] \in Op /\ session \in Sessions \cup {None}
    BY OpFields DEF IInv, TypeOK
  <1>1. op' = [op EXCEPT ![o] = w]
    BY <1>0 DEF AskStatus, IInv, TypeOK, Op
  <1>2. /\ w \in Op /\ w.at = "status" /\ w.retry = op[o].retry
        /\ w.with = op[o].with /\ w.first = op[o].first
    BY <1>0 DEF Op, Steps
  <1> HIDE DEF w
  <1>3. OpIsSound(w, kind[o], issued)
    BY <1>2, OpFields DEF OpIsSound
  <1>4. QED
    BY <1>1, <1>2, <1>3, OpBecomesUnissued

\* The servers and the certificates in flight are left alone, the operation
\* and the account are as they should be.
LEMMA AccountStepKeeps ==
    ASSUME IInv, UNCHANGED <<auth, oauth, failures, hours, kind, assertion, signing>>,
           OpsTyped', OpsAreSound', AccountTyped', access' <= issued'
    PROVE  IInv'
  BY DEF IInv, TypeOK, OpsTyped, AccountTyped, SigningIsSound, auth, oauth

\* The same, when an assertion may have been asked for.
LEMMA AskingStepKeeps ==
    ASSUME IInv, UNCHANGED <<auth, oauth, failures, hours, kind>>,
           OpsTyped', OpsAreSound', AccountTyped', access' <= issued',
           PromisesTyped', SigningIsSound'
    PROVE  IInv'
  BY DEF IInv, TypeOK, OpsTyped, AccountTyped, PromisesTyped, auth, oauth

\* profileClient(), with the account as it is or without its session.
LEMMA GoesOnKeeps ==
    ASSUME IInv, NEW o \in Ops, NEW s \in {session, None}, NEW v \in BOOLEAN,
           NEW a \in {access, 0}, op[o].retry = FALSE, GoesOn(o, s, v, a),
           UNCHANGED <<auth, oauth, failures, hours, kind>>
    PROVE  IInv'
  <1>0. /\ s \in Sessions \cup {None} /\ a \in 0..MaxTokens /\ a <= issued
        /\ 0 \in 0..MaxTokens /\ 0 <= issued
        /\ verified \in BOOLEAN /\ bound \in BOOLEAN /\ UNCHANGED issued
    BY DEF IInv, TypeOK, oauth
  <1>1. CASE Ends(o, "failed", s, v, a) /\ UNCHANGED <<assertion, signing>>
    BY <1>0, <1>1, EndsKeeps, AccountStepKeeps
  <1>2. CASE /\ Calls(o, a) /\ Sets(s, v, a) /\ cached' = Cleared(s, v, a)
             /\ UNCHANGED <<bound, assertion, signing>>
    <2>1. OpsTyped' /\ OpsAreSound'
      BY <1>0, <1>2, CallsKeeps
    <2>2. AccountTyped' /\ access' <= issued'
      BY <1>0, <1>2, ClearedTyped DEF Sets, AccountTyped
    <2>3. QED
      BY <1>2, <2>1, <2>2, AccountStepKeeps
  <1>3. CASE Invalidates(o) /\ UNCHANGED <<assertion, signing>>
    BY <1>0, <1>3, EndsKeeps, AccountStepKeeps DEF Invalidates
  <1>4. CASE /\ s # None /\ NeedsToken(o, FALSE) /\ Sets(s, v, a)
             /\ cached' = Cleared(s, v, a) /\ UNCHANGED bound
    <2>1. OpsTyped' /\ OpsAreSound' /\ PromisesTyped' /\ SigningIsSound'
      BY <1>0, <1>4, NeedsTokenKeeps
    <2>2. AccountTyped' /\ access' <= issued'
      BY <1>0, <1>4, ClearedTyped DEF Sets, AccountTyped
    <2>3. QED
      BY <2>1, <2>2, AskingStepKeeps
  <1>5. QED
    BY <1>1, <1>2, <1>3, <1>4 DEF GoesOn

-----------------------------------------------------------------------------
(* The actions.                                                            *)

LEMMA InitKeeps == Init => IInv
  <1> SUFFICES ASSUME Init PROVE IInv
    OBVIOUS
  <1>1. Rest("idle") \in Op
    BY DEF Rest, Op, Answers, Steps
  <1>2. TypeOK
    <2>1. op \in [Ops -> Op] /\ kind \in [Ops -> Kinds]
      BY <1>1 DEF Init
    <2>2. PromisesTyped
      BY DEF Init, PromisesTyped
    <2>3. AccountTyped
      BY DEF Init, AccountTyped
    <2>4. QED
      BY <2>1, <2>2, <2>3 DEF Init, TypeOK, PromisesTyped, AccountTyped
  <1>3. SigningIsSound /\ access <= issued
    BY DEF Init, SigningIsSound
  <1>4. OpsAreSound
    BY DEF Init, OpsAreSound, OpIsSound, Rest
  <1>5. QED
    BY <1>2, <1>3, <1>4 DEF IInv

LEMMA StartKeeps ==
    ASSUME IInv, NEW o \in Ops, Start(o)
    PROVE  IInv'
  <1>0. /\ op[o].at = "idle" /\ op[o].retry = FALSE
        /\ UNCHANGED <<auth, oauth, failures, hours, kind>>
        /\ session \in Sessions \cup {None} /\ verified \in BOOLEAN
        /\ access \in 0..MaxTokens /\ access <= issued /\ UNCHANGED issued
    BY OpFields DEF Start, StartFetchProfile, StartCallProfile, StartApps, OpIsSound,
                    IInv, TypeOK, oauth
  <1>1. CASE AskStatus(o) /\ cached' \in {"pending", cached} /\ bound' \in BOOLEAN
    <2>1. OpsTyped' /\ OpsAreSound'
      BY <1>0, <1>1, AskStatusKeeps
    <2>2. AccountTyped' /\ access' <= issued' /\ UNCHANGED <<assertion, signing>>
      BY <1>0, <1>1 DEF AskStatus, account, AccountTyped, IInv, TypeOK
    <2>3. QED
      BY <1>0, <2>1, <2>2, AccountStepKeeps
  <1>2. CASE /\ Calls(o, access) /\ UNCHANGED <<account, assertion, signing>>
             /\ cached' \in {"pending", cached} /\ bound' \in BOOLEAN
    <2>1. OpsTyped' /\ OpsAreSound'
      BY <1>0, <1>2, CallsKeeps
    <2>2. AccountTyped' /\ access' <= issued'
      BY <1>0, <1>2 DEF account, AccountTyped, IInv, TypeOK
    <2>3. QED
      BY <1>0, <1>2, <2>1, <2>2, AccountStepKeeps
  <1>3. CASE /\ session # None /\ NeedsToken(o, FALSE) /\ UNCHANGED account
             /\ cached' = "pending" /\ bound' \in BOOLEAN
    <2>1. OpsTyped' /\ OpsAreSound' /\ PromisesTyped' /\ SigningIsSound'
      BY <1>0, <1>3, NeedsTokenKeeps
    <2>2. AccountTyped' /\ access' <= issued'
      BY <1>0, <1>3 DEF account, AccountTyped
    <2>3. QED
      BY <1>0, <2>1, <2>2, AskingStepKeeps
  <1>4. CASE /\ op' = [op EXCEPT ![o] = Rest("failed")]
             /\ cached' = "failed" /\ bound' \in BOOLEAN
             /\ UNCHANGED <<account, assertion, signing>>
    <2>1. Rest("failed") \in Op /\ OpIsSound(Rest("failed"), kind[o], issued)
      BY RestIsOp
    <2>2. OpsTyped' /\ OpsAreSound'
      BY <1>0, <1>4, <2>1, OpBecomesUnissued
    <2>3. AccountTyped' /\ access' <= issued'
      BY <1>0, <1>4 DEF account, AccountTyped
    <2>4. QED
      BY <1>0, <1>4, <2>2, <2>3, AccountStepKeeps
  <1>5. CASE StartFetchProfile(o)
    <2>1. bound' = FALSE
      BY <1>5 DEF StartFetchProfile, Bound
    <2>2. QED
      BY <1>1, <1>2, <1>3, <1>4, <1>5, <2>1 DEF StartFetchProfile
  <1>6. CASE StartCallProfile(o)
    <2>1. CASE GoesOn(o, session, verified, access)
      BY <1>0, <2>1, GoesOnKeeps
    <2>2. CASE AskStatus(o) /\ UNCHANGED <<cached, bound>>
      BY <1>1, <2>2 DEF IInv, TypeOK
    <2>3. QED
      BY <1>6, <2>1, <2>2 DEF StartCallProfile
  <1>7. CASE StartApps(o)
    BY <1>2, <1>7 DEF StartApps, IInv, TypeOK
  <1>8. QED
    BY <1>5, <1>6, <1>7 DEF Start

\* An answer comes for a request of operation o.
LEMMA AnsweringKeeps ==
    ASSUME IInv, NEW o \in Ops, NEW answer \in Answers, Answering(o, answer),
           answer = "good" => op[o].at # "token", op[o].at # "assertion",
           UNCHANGED oauth, failures' \in 0..MaxFailures
    PROVE  IInv'
  <1> DEFINE w == [op[o] EXCEPT !.answer = answer]
  <1>0. op[o] \in Op
    BY OpFields
  <1>1. op' = [op EXCEPT ![o] = w]
    BY <1>0 DEF Answering, IInv, TypeOK, Op
  <1>2. /\ w \in Op /\ w.at = op[o].at /\ w.answer = answer /\ w.retry = op[o].retry
        /\ w.with = op[o].with /\ w.first = op[o].first
    BY <1>0 DEF Op
  <1> HIDE DEF w
  <1>3. OpIsSound(w, kind[o], issued)
    BY <1>2, OpFields DEF OpIsSound
  <1>4. UNCHANGED <<kind, issued>>
    BY DEF Answering, oauth
  <1>5. OpsTyped' /\ OpsAreSound'
    BY <1>1, <1>2, <1>3, <1>4, OpBecomesUnissued
  <1>6. QED
    BY <1>4, <1>5 DEF Answering, IInv, TypeOK, OpsTyped, SigningIsSound, auth, account, oauth

\* A token is newer than all that were issued before.
LEMMA ServeTokenKeeps ==
    ASSUME IInv, NEW o \in Ops, ServeToken(o)
    PROVE  IInv'
  <1> DEFINE w == [op[o] EXCEPT !.answer = "good", !.with = issued + 1]
  <1>0. op[o] \in Op /\ op[o].at = "token" /\ issued + 1 \in Tokens
        /\ issued' = issued + 1 /\ issued' \in 0..MaxTokens /\ issued <= issued'
    BY OpFields DEF ServeToken, Tokens
  <1>1. op' = [op EXCEPT ![o] = w]
    BY <1>0 DEF ServeToken, IInv, TypeOK, Op
  <1>2. /\ w \in Op /\ w.at = "token" /\ w.answer = "good" /\ w.retry = op[o].retry
        /\ w.with = issued + 1 /\ w.first = op[o].first
    BY <1>0 DEF Op, Answers
  <1> HIDE DEF w
  <1>3. w.first <= issued /\ w.first \in Nat /\ issued \in Nat
    BY <1>2, OpFields DEF OpIsSound
  <1>4. OpIsSound(w, kind[o], issued')
    BY <1>0, <1>2, <1>3 DEF OpIsSound
  <1>5. UNCHANGED <<auth, account, assertion, signing, cached, bound, failures, hours, kind>>
        /\ good' = good \cup {issued + 1}
    BY DEF ServeToken
  <1>6. OpsTyped' /\ OpsAreSound'
    BY <1>0, <1>1, <1>2, <1>4, <1>5, OpBecomes
  <1>7. access' <= issued'
    BY <1>0, <1>3, <1>5 DEF IInv, TypeOK, account
  <1>8. TypeOK'
    BY <1>0, <1>5, <1>6 DEF IInv, TypeOK, OpsTyped, auth, account
  <1>9. QED
    BY <1>5, <1>6, <1>7, <1>8 DEF IInv, SigningIsSound

LEMMA ServeKeeps ==
    ASSUME IInv, NEW o \in Ops, Serve(o) \/ RequestFails(o)
    PROVE  IInv'
  <1>1. CASE ServeStatus(o)
    <2>1. \E answer \in {"refused", "good", "unverified"} : Answering(o, answer)
      BY <1>1 DEF ServeStatus
    <2>2. QED
      BY <1>1, <2>1, AnsweringKeeps DEF ServeStatus, Answers, IInv, TypeOK
  <1>2. CASE ServeCall(o)
    <2>1. \E answer \in {"refused", "good"} : Answering(o, answer)
      BY <1>2 DEF ServeCall
    <2>2. QED
      BY <1>2, <2>1, AnsweringKeeps DEF ServeCall, Answers, IInv, TypeOK
  <1>3. CASE RequestFails(o)
    <2>1. failures \in 0..MaxFailures
      BY DEF IInv, TypeOK
    <2>2. failures' \in 0..MaxFailures
      BY <1>3, <2>1 DEF RequestFails
    <2>3. QED
      BY <1>3, <2>2, AnsweringKeeps DEF RequestFails, Answers
  <1>4. QED
    BY <1>1, <1>2, <1>3, ServeTokenKeeps DEF Serve

LEMMA SignedKeeps ==
    ASSUME IInv, NEW s \in Sessions, Signed(s)
    PROVE  IInv'
  <1>0. signing[s] \in Nat /\ signing[s] > 0 /\ signing[s] <= 1
    BY DEF Signed, IInv, TypeOK, SigningIsSound
  <1>1. signing' = [signing EXCEPT ![s] = 0]
    <2>1. signing[s] - 1 = 0
      BY <1>0
    <2>2. QED
      BY <2>1 DEF Signed
  <1>2. PICK k \in {"good", "refused", "error"} : assertion' = [assertion EXCEPT ![s] = k]
    BY DEF Signed
  <1>3. failures' \in 0..MaxFailures
    <2>1. failures \in 0..MaxFailures
      BY DEF IInv, TypeOK
    <2>2. failures' = failures \/ (failures < MaxFailures /\ failures' = failures + 1)
      BY DEF Signed
    <2>3. QED
      BY <2>1, <2>2
  <1>4. PromisesTyped' /\ SigningIsSound'
    BY <1>1, <1>2 DEF IInv, TypeOK, PromisesTyped, SigningIsSound
  <1>5. UNCHANGED <<auth, oauth, account, cached, bound, op, hours, kind>>
    BY DEF Signed
  <1>6. QED
    BY <1>3, <1>4, <1>5 DEF IInv, TypeOK, PromisesTyped, OpsAreSound, auth, oauth, account

LEMMA StatusAnsweredKeeps ==
    ASSUME IInv, NEW o \in Ops, StatusAnswered(o)
    PROVE  IInv'
  <1> DEFINE answer == op[o].answer
             s == IF answer = "refused" THEN None ELSE session
             v == IF answer \in {"good", "unverified"} THEN answer = "good" ELSE verified
             a == IF answer = "refused" THEN 0 ELSE access
  <1>1. op[o].at = "status" /\ GoesOn(o, s, v, a)
        /\ UNCHANGED <<auth, oauth, failures, hours, kind>>
    BY DEF StatusAnswered
  <1>2. s \in {session, None} /\ a \in {access, 0}
    OBVIOUS
  <1>3. v \in BOOLEAN
    BY DEF IInv, TypeOK
  <1>4. op[o].retry = FALSE
    BY <1>1, OpFields DEF OpIsSound
  <1> HIDE DEF answer, s, v, a
  <1>5. QED
    BY <1>1, <1>2, <1>3, <1>4, GoesOnKeeps

LEMMA AssertionAnsweredKeeps ==
    ASSUME IInv, NEW o \in Ops, AssertionAnswered(o)
    PROVE  IInv'
  <1>0. /\ op[o].at = "assertion"
        /\ UNCHANGED <<auth, oauth, assertion, signing, failures, hours, kind, issued>>
        /\ session \in Sessions \cup {None} /\ verified \in BOOLEAN
        /\ access \in 0..MaxTokens /\ access <= issued
        /\ 0 \in 0..MaxTokens /\ 0 <= issued
    BY DEF AssertionAnswered, oauth, IInv, TypeOK
  <1>1. CASE /\ op' = [op EXCEPT ![o].at = "token", ![o].of = None]
             /\ UNCHANGED <<account, cached, bound>>
    <2> DEFINE w == [op[o] EXCEPT !.at = "token", !.of = None]
    <2>0. op[o] \in Op
      BY OpFields
    <2>1. op' = [op EXCEPT ![o] = w]
      BY <1>1, <2>0 DEF IInv, TypeOK, Op
    <2>2. /\ w \in Op /\ w.at = "token" /\ w.answer = op[o].answer /\ w.retry = op[o].retry
          /\ w.with = op[o].with /\ w.first = op[o].first
      BY <2>0 DEF Op, Steps
    <2> HIDE DEF w
    <2>3. OpIsSound(w, kind[o], issued)
      BY <1>0, <2>2, OpFields DEF OpIsSound
    <2>4. OpsTyped' /\ OpsAreSound'
      BY <1>0, <2>1, <2>2, <2>3, OpBecomesUnissued
    <2>5. AccountTyped' /\ access' <= issued'
      BY <1>0, <1>1 DEF account, AccountTyped, IInv, TypeOK
    <2>6. QED
      BY <1>0, <2>4, <2>5, AccountStepKeeps
  <1>2. CASE Invalidates(o)
    BY <1>0, <1>2, EndsKeeps, AccountStepKeeps DEF Invalidates
  <1>3. CASE Fails(o)
    BY <1>0, <1>3, EndsKeeps, AccountStepKeeps DEF Fails
  <1>4. QED
    BY <1>1, <1>2, <1>3 DEF AssertionAnswered

LEMMA TokenAnsweredKeeps ==
    ASSUME IInv, NEW o \in Ops, TokenAnswered(o)
    PROVE  IInv'
  <1>0. /\ op[o].at = "token"
        /\ UNCHANGED <<auth, oauth, assertion, signing, failures, hours, kind, issued>>
        /\ session \in Sessions \cup {None} /\ verified \in BOOLEAN
        /\ access \in 0..MaxTokens /\ access <= issued
    BY DEF TokenAnswered, oauth, IInv, TypeOK
  <1>1. CASE op[o].answer = "good"
    <2> DEFINE a == op[o].with
    <2>1. /\ Calls(o, a) /\ Sets(session, verified, a)
          /\ cached' = Cleared(session, verified, a) /\ UNCHANGED bound
      BY <1>1 DEF TokenAnswered
    <2>2. /\ a \in 0..MaxTokens /\ a <= issued
          /\ op[o].retry = TRUE /\ kind[o] # "destroyApp" => a > op[o].first
      BY <1>0, <1>1, OpFields DEF OpIsSound
    <2> HIDE DEF a
    <2>3. OpsTyped' /\ OpsAreSound'
      BY <1>0, <2>1, <2>2, CallsKeeps
    <2>4. AccountTyped' /\ access' <= issued'
      BY <1>0, <2>1, <2>2, ClearedTyped DEF Sets, AccountTyped, IInv, TypeOK
    <2>5. QED
      BY <1>0, <2>3, <2>4, AccountStepKeeps
  <1>2. CASE op[o].answer # "good"
    BY <1>0, <1>2, EndsKeeps, AccountStepKeeps DEF TokenAnswered, Fails
  <1>3. QED
    BY <1>1, <1>2

LEMMA CallAnsweredKeeps ==
    ASSUME IInv, NEW o \in Ops, CallAnswered(o)
    PROVE  IInv'
  <1>0. /\ UNCHANGED <<auth, oauth, failures, hours, kind, issued>>
        /\ session \in Sessions \cup {None} /\ verified \in BOOLEAN
        /\ access \in 0..MaxTokens /\ access <= issued
        /\ AfterRefusal(o) \in 0..MaxTokens /\ AfterRefusal(o) <= issued
    BY DEF CallAnswered, AfterRefusal, oauth, IInv, TypeOK
  <1>1. CASE Ends(o, "ok", session, verified, access) /\ UNCHANGED <<assertion, signing>>
    BY <1>0, <1>1, EndsKeeps, AccountStepKeeps
  <1>2. CASE /\ Ends(o, "failed", session, verified, AfterRefusal(o))
             /\ UNCHANGED <<assertion, signing>>
    BY <1>0, <1>2, EndsKeeps, AccountStepKeeps
  <1>3. CASE Fails(o) /\ UNCHANGED <<assertion, signing>>
    BY <1>0, <1>3, EndsKeeps, AccountStepKeeps DEF Fails
  <1>4. CASE /\ session # None /\ NeedsToken(o, TRUE)
             /\ UNCHANGED <<account, cached, bound>>
    <2>1. OpsTyped' /\ OpsAreSound' /\ PromisesTyped' /\ SigningIsSound'
      BY <1>0, <1>4, NeedsTokenKeeps
    <2>2. AccountTyped' /\ access' <= issued'
      BY <1>0, <1>4 DEF account, AccountTyped, IInv, TypeOK
    <2>3. QED
      BY <1>0, <2>1, <2>2, AskingStepKeeps
  <1>5. QED
    BY <1>1, <1>2, <1>3, <1>4 DEF CallAnswered

\* What else happens to the servers, to the account or to an assertion.
LEMMA ElseKeeps ==
    ASSUME IInv,
           \/ \E s \in Sessions : Revoke(s) \/ ChangePassword(s) \/ HourPasses(s)
           \/ Confirm
           \/ \E t \in Tokens : Expire(t)
    PROVE  IInv'
  <1>1. /\ live' \in SUBSET Sessions /\ confirmed' \in SUBSET Sessions
        /\ good' \in SUBSET Tokens
    BY DEF Revoke, ChangePassword, HourPasses, Confirm, Expire, auth, oauth, IInv, TypeOK
  <1>2. UNCHANGED <<issued, signing, bound, op, failures, kind, access>>
    BY DEF Revoke, ChangePassword, HourPasses, Confirm, Expire, oauth, account, Sets
  <1>3. session' \in Sessions \cup {None} /\ verified' \in BOOLEAN
        /\ cached' \in {"none", "pending", "good", "failed"}
    BY ClearedTyped DEF Revoke, ChangePassword, HourPasses, Confirm, Expire, account, Sets,
                        IInv, TypeOK
  <1>4. hours' \in 0..MaxHours
    <2>1. hours \in 0..MaxHours
      BY DEF IInv, TypeOK
    <2>2. hours' = hours \/ (hours < MaxHours /\ hours' = hours + 1)
      BY DEF Revoke, ChangePassword, HourPasses, Confirm, Expire
    <2>3. QED
      BY <2>1, <2>2
  <1>5. PromisesTyped' /\ SigningIsSound'
    <2>1. CASE UNCHANGED assertion
      BY <1>2, <2>1 DEF IInv, TypeOK, PromisesTyped, SigningIsSound
    <2>2. ASSUME NEW s \in Sessions, HourPasses(s)
          PROVE  PromisesTyped' /\ SigningIsSound'
      <3>1. assertion[s] # "asked" /\ assertion' = [assertion EXCEPT ![s] = "none"]
        BY <2>2 DEF HourPasses
      <3>2. QED
        BY <1>2, <3>1 DEF IInv, TypeOK, PromisesTyped, SigningIsSound
    <2>3. QED
      BY <2>1, <2>2 DEF Revoke, ChangePassword, Confirm, Expire
  <1>6. TypeOK'
    BY <1>1, <1>2, <1>3, <1>4, <1>5 DEF IInv, TypeOK, PromisesTyped
  <1>7. QED
    BY <1>2, <1>5, <1>6 DEF IInv, OpsAreSound

LEMMA NextKeeps == ASSUME IInv, [Next]_vars PROVE IInv'
  <1>1. CASE Next
    BY <1>1, StartKeeps, ServeKeeps, SignedKeeps, StatusAnsweredKeeps,
       AssertionAnsweredKeeps, TokenAnsweredKeeps, CallAnsweredKeeps, ElseKeeps
       DEF Next, Answered
  <1>2. CASE UNCHANGED vars
    BY <1>2 DEF vars, auth, oauth, account, IInv, TypeOK, SigningIsSound, OpsAreSound
  <1>3. QED
    BY <1>1, <1>2

THEOREM Invariance == Spec => []IInv
  BY InitKeeps, NextKeeps, PTL DEF Spec

-----------------------------------------------------------------------------
(* One profile fetch.                                                      *)

\* While a profile is fetched the cache says so, and nothing clears it: the
\* change handler is not bound.
FetchIsCached ==
    \A o \in Ops : kind[o] = "fetchProfile" /\ InProgress(o)
                    => cached = "pending" /\ bound = FALSE

FInv == FetchIsCached /\ OneProfileFetch

\* No fetch begins, and the cache at most hears of a change.
LEMMA NoFetchBegins ==
    ASSUME FInv, UNCHANGED <<kind, bound>>,
           \A p \in Ops : kind[p] = "fetchProfile" /\ InProgress(p)' => InProgress(p),
           cached' = cached \/ \E s, v, a : cached' = Cleared(s, v, a)
    PROVE  FInv'
  <1>1. ASSUME NEW p \in Ops, kind[p] = "fetchProfile", InProgress(p)'
        PROVE  InProgress(p) /\ cached' = "pending" /\ bound' = FALSE
    <2>1. InProgress(p) /\ cached = "pending" /\ bound = FALSE
      BY <1>1 DEF FInv, FetchIsCached
    <2>2. QED
      BY <2>1 DEF Cleared
  <1>2. FetchIsCached'
    BY <1>1 DEF FetchIsCached
  <1>3. OneProfileFetch'
    BY <1>1 DEF FInv, OneProfileFetch, Of
  <1>4. QED
    BY <1>2, <1>3 DEF FInv

\* Nothing that stops to be in progress leaves another one.
LEMMA EndsFetch ==
    ASSUME IInv, FInv, NEW o \in Ops, NEW how \in {"ok", "failed"}, NEW s, NEW v, NEW a,
           kind[o] = "fetchProfile" => InProgress(o),
           Ends(o, how, s, v, a), UNCHANGED kind
    PROVE  FInv'
  <1>1. op' = [op EXCEPT ![o] = Rest(how)] /\ op \in [Ops -> Op]
    BY DEF Ends, IInv, TypeOK
  <1>2. ~InProgress(o)' /\ \A p \in Ops \ {o} : InProgress(p)' = InProgress(p)
    BY <1>1 DEF InProgress, Rest
  <1>3. CASE kind[o] = "fetchProfile"
    <2>1. \A p \in Ops : kind[p] = "fetchProfile" => ~InProgress(p)'
      BY <1>2, <1>3 DEF FInv, OneProfileFetch, Of
    <2>2. QED
      BY <2>1 DEF FInv, FetchIsCached, OneProfileFetch, Of
  <1>4. CASE kind[o] # "fetchProfile"
    <2>1. cached' = Cleared(s, v, a) /\ UNCHANGED bound
      BY <1>4 DEF Ends
    <2>2. QED
      BY <1>2, <2>1, NoFetchBegins
  <1>5. QED
    BY <1>3, <1>4

\* An operation in progress, or one that fetches no profile, goes to another
\* step.
LEMMA MovesFetch ==
    ASSUME IInv, FInv, NEW o \in Ops, kind[o] = "fetchProfile" => InProgress(o),
           \A p \in Ops \ {o} : op'[p] = op[p], UNCHANGED <<kind, bound>>,
           cached' = cached \/ \E s, v, a : cached' = Cleared(s, v, a)
    PROVE  FInv'
  <1>1. \A p \in Ops : kind[p] = "fetchProfile" /\ InProgress(p)' => InProgress(p)
    BY DEF InProgress
  <1>2. QED
    BY <1>1, NoFetchBegins

LEMMA GoesOnFetch ==
    ASSUME IInv, FInv, NEW o \in Ops, NEW s, NEW v, NEW a,
           kind[o] = "fetchProfile" => InProgress(o), GoesOn(o, s, v, a), UNCHANGED kind
    PROVE  FInv'
  <1>1. CASE Ends(o, "failed", s, v, a) \/ Invalidates(o)
    BY <1>1, EndsFetch DEF Invalidates
  <1>2. CASE /\ Calls(o, a) \/ NeedsToken(o, FALSE)
             /\ cached' = Cleared(s, v, a) /\ UNCHANGED bound
    <2>1. \A p \in Ops \ {o} : op'[p] = op[p]
      BY <1>2 DEF Calls, NeedsToken, IInv, TypeOK
    <2>2. QED
      BY <1>2, <2>1, MovesFetch
  <1>3. QED
    BY <1>1, <1>2 DEF GoesOn

LEMMA StartFetch ==
    ASSUME IInv, FInv, NEW o \in Ops, Start(o)
    PROVE  FInv'
  <1>1. CASE StartFetchProfile(o)
    <2>1. \A p \in Ops : kind[p] = "fetchProfile" => ~InProgress(p)
      BY <1>1 DEF StartFetchProfile, FInv, FetchIsCached
    <2>2. /\ \A p \in Ops \ {o} : op'[p] = op[p]
          /\ UNCHANGED kind /\ bound' = FALSE
          /\ cached' = "pending" \/ ~InProgress(o)'
      BY <1>1 DEF StartFetchProfile, Bound, AskStatus, Calls, NeedsToken, InProgress, Rest,
                  IInv, TypeOK
    <2>3. \A p \in Ops : kind[p] = "fetchProfile" /\ InProgress(p)' => p = o
      BY <2>1, <2>2 DEF InProgress
    <2>4. QED
      BY <2>2, <2>3 DEF FInv, FetchIsCached, OneProfileFetch, Of
  <1>2. CASE StartCallProfile(o)
    <2>1. kind[o] # "fetchProfile" /\ UNCHANGED kind
      BY <1>2 DEF StartCallProfile
    <2>2. CASE AskStatus(o) /\ UNCHANGED <<cached, bound>>
      <3>1. \A p \in Ops \ {o} : op'[p] = op[p]
        BY <2>2 DEF AskStatus, IInv, TypeOK
      <3>2. QED
        BY <2>1, <2>2, <3>1, MovesFetch
    <2>3. CASE GoesOn(o, session, verified, access)
      BY <2>1, <2>3, GoesOnFetch
    <2>4. QED
      BY <1>2, <2>2, <2>3 DEF StartCallProfile
  <1>3. CASE StartApps(o)
    <2>1. kind[o] # "fetchProfile" /\ UNCHANGED <<kind, cached, bound>>
      BY <1>3 DEF StartApps, Apps
    <2>2. \A p \in Ops \ {o} : op'[p] = op[p]
      BY <1>3 DEF StartApps, Calls, IInv, TypeOK
    <2>3. QED
      BY <2>1, <2>2, MovesFetch
  <1>4. QED
    BY <1>1, <1>2, <1>3 DEF Start

LEMMA RequestsFetch ==
    ASSUME IInv, FInv, NEW o \in Ops, Serve(o) \/ RequestFails(o) \/ Answered(o)
    PROVE  FInv'
  <1>1. InProgress(o) /\ UNCHANGED kind
    BY DEF Serve, ServeStatus, ServeToken, ServeCall, RequestFails, Answering, Answered,
           StatusAnswered, AssertionAnswered, TokenAnswered, CallAnswered, InProgress
  <1>2. CASE Serve(o) \/ RequestFails(o)
    <2>1. /\ \A p \in Ops \ {o} : op'[p] = op[p]
          /\ UNCHANGED <<cached, bound>>
      BY <1>2 DEF Serve, ServeStatus, ServeToken, ServeCall, RequestFails, Answering,
                  IInv, TypeOK
    <2>2. QED
      BY <1>1, <2>1, MovesFetch
  <1>3. CASE \E how \in {"ok", "failed"} : \E s, v, a : Ends(o, how, s, v, a)
    BY <1>1, <1>3, EndsFetch
  <1>4. CASE \E s, v, a : GoesOn(o, s, v, a)
    BY <1>1, <1>4, GoesOnFetch
  <1>5. CASE /\ \A p \in Ops \ {o} : op'[p] = op[p]
             /\ UNCHANGED bound
             /\ cached' = cached \/ \E s, v, a : cached' = Cleared(s, v, a)
    BY <1>1, <1>5, MovesFetch
  <1>6. CASE StatusAnswered(o)
    BY <1>4, <1>6 DEF StatusAnswered
  <1>7. CASE AssertionAnswered(o)
    <2>1. CASE Invalidates(o) \/ Fails(o)
      BY <1>3, <2>1 DEF Invalidates, Fails
    <2>2. CASE /\ op' = [op EXCEPT ![o].at = "token", ![o].of = None]
               /\ UNCHANGED <<account, cached, bound>>
      BY <1>5, <2>2 DEF IInv, TypeOK
    <2>3. QED
      BY <1>7, <2>1, <2>2 DEF AssertionAnswered
  <1>8. CASE TokenAnswered(o)
    <2>1. CASE Fails(o)
      BY <1>3, <2>1 DEF Fails
    <2>2. CASE /\ Calls(o, op[o].with) /\ UNCHANGED bound
               /\ cached' = Cleared(session, verified, op[o].with)
      <3>1. \A p \in Ops \ {o} : op'[p] = op[p]
        BY <2>2 DEF Calls, IInv, TypeOK
      <3>2. QED
        BY <1>5, <2>2, <3>1
    <2>3. QED
      BY <1>8, <2>1, <2>2 DEF TokenAnswered
  <1>9. CASE CallAnswered(o)
    <2>1. CASE NeedsToken(o, TRUE) /\ UNCHANGED <<account, cached, bound>>
      <3>1. \A p \in Ops \ {o} : op'[p] = op[p]
        BY <2>1 DEF NeedsToken, IInv, TypeOK
      <3>2. QED
        BY <1>5, <2>1, <3>1
    <2>2. CASE \/ Ends(o, "ok", session, verified, access)
               \/ Ends(o, "failed", session, verified, AfterRefusal(o))
               \/ Fails(o)
      BY <1>3, <2>2 DEF Fails
    <2>3. QED
      BY <1>9, <2>1, <2>2 DEF CallAnswered
  <1>10. QED
    BY <1>2, <1>6, <1>7, <1>8, <1>9 DEF Answered

LEMMA NextFetch == ASSUME IInv, FInv, [Next]_vars PROVE FInv'
  <1>1. CASE \/ \E s \in Sessions : Signed(s) \/ Revoke(s) \/ ChangePassword(s) \/ HourPasses(s)
             \/ Confirm \/ (\E t \in Tokens : Expire(t)) \/ UNCHANGED vars
    <2>1. UNCHANGED <<kind, bound, op>>
      BY <1>1 DEF Signed, Revoke, ChangePassword, HourPasses, Confirm, Expire, vars
    <2>2. cached' = cached \/ \E s, v, a : cached' = Cleared(s, v, a)
      BY <1>1 DEF Signed, Revoke, ChangePassword, HourPasses, Confirm, Expire, vars
    <2>3. QED
      BY <2>1, <2>2, NoFetchBegins DEF InProgress
  <1>2. QED
    BY <1>1, StartFetch, RequestsFetch DEF Next

THEOREM FetchInvariance == Spec => []FInv
  <1>1. Init => FInv
    BY DEF Init, FInv, FetchIsCached, OneProfileFetch, Of, InProgress, Rest
  <1>2. QED
    BY <1>1, NextFetch, Invariance, PTL DEF Spec

-----------------------------------------------------------------------------
(* No operation waits for nothing.                                         *)

\* An operation that waits for an assertion waits for the promise of a
\* session, and a promise that is not settled has its certificate requested.
WaitersAreServed ==
    /\ \A s \in Sessions : assertion[s] = "asked" => signing[s] > 0
    /\ \A o \in Ops : op[o].at = "assertion"
                        => op[o].of \in Sessions /\ assertion[op[o].of] # "none"

\* No operation begins to wait.
LEMMA NobodyWaits ==
    ASSUME IInv, WaitersAreServed, UNCHANGED <<assertion, signing>>,
           \A p \in Ops : op'[p].at = "assertion" => op'[p] = op[p]
    PROVE  WaitersAreServed'
  BY DEF WaitersAreServed

LEMMA EndsWaiting ==
    ASSUME IInv, WaitersAreServed, NEW o \in Ops, NEW how \in {"ok", "failed"},
           NEW s, NEW v, NEW a, Ends(o, how, s, v, a), UNCHANGED <<assertion, signing>>
    PROVE  WaitersAreServed'
  <1>1. op' = [op EXCEPT ![o] = Rest(how)] /\ op \in [Ops -> Op]
    BY DEF Ends, IInv, TypeOK
  <1>2. op'[o].at # "assertion" /\ \A p \in Ops \ {o} : op'[p] = op[p]
    BY <1>1 DEF Rest
  <1>3. QED
    BY <1>2, NobodyWaits

\* An operation goes on with a request.
LEMMA AsksWaiting ==
    ASSUME IInv, WaitersAreServed, NEW o \in Ops, UNCHANGED <<assertion, signing>>,
           \A p \in Ops \ {o} : op'[p] = op[p], op'[o].at # "assertion"
    PROVE  WaitersAreServed'
  BY NobodyWaits

LEMMA CallsWaiting ==
    ASSUME IInv, WaitersAreServed, NEW o \in Ops, NEW a, Calls(o, a),
           UNCHANGED <<assertion, signing>>
    PROVE  WaitersAreServed'
  <1>1. op'[o].at = "call" /\ \A p \in Ops \ {o} : op'[p] = op[p]
    BY OpFields DEF Calls, IInv, TypeOK, Op
  <1>2. QED
    BY <1>1, AsksWaiting

LEMMA NeedsTokenWaiting ==
    ASSUME IInv, WaitersAreServed, NEW o \in Ops, NEW retry \in BOOLEAN, session # None,
           NeedsToken(o, retry)
    PROVE  WaitersAreServed'
  <1>0. session \in Sessions
    BY DEF IInv, TypeOK
  <1>1. op'[o].of = session /\ \A p \in Ops \ {o} : op'[p] = op[p]
    BY OpFields DEF NeedsToken, IInv, TypeOK, Op
  <1>2. /\ assertion'[session] # "none"
        /\ \A s \in Sessions : /\ assertion[s] # "none" => assertion'[s] # "none"
                               /\ assertion'[s] = "asked" => signing'[s] > 0
    <2>1. CASE assertion[session] # "none"
      BY <1>0, <2>1 DEF NeedsToken, Generates, Reuses, WaitersAreServed
    <2>2. CASE assertion[session] = "none"
      <3>1. /\ assertion' = [assertion EXCEPT ![session] = "asked"]
            /\ signing' = [signing EXCEPT ![session] = @ + 1]
        BY <2>2 DEF NeedsToken, Generates, Reuses
      <3>2. signing[session] + 1 > 0
        BY <1>0 DEF IInv, TypeOK
      <3>3. QED
        BY <1>0, <3>1, <3>2 DEF IInv, TypeOK, WaitersAreServed
    <2>3. QED
      BY <2>1, <2>2
  <1>3. QED
    BY <1>0, <1>1, <1>2 DEF WaitersAreServed

LEMMA GoesOnWaiting ==
    ASSUME IInv, WaitersAreServed, NEW o \in Ops, NEW s \in {session, None}, NEW v, NEW a,
           GoesOn(o, s, v, a)
    PROVE  WaitersAreServed'
  <1>1. CASE (Ends(o, "failed", s, v, a) \/ Invalidates(o)) /\ UNCHANGED <<assertion, signing>>
    BY <1>1, EndsWaiting DEF Invalidates
  <1>2. CASE Calls(o, a) /\ UNCHANGED <<assertion, signing>>
    BY <1>2, CallsWaiting
  <1>3. CASE s # None /\ NeedsToken(o, FALSE)
    BY <1>3, NeedsTokenWaiting
  <1>4. QED
    BY <1>1, <1>2, <1>3 DEF GoesOn

LEMMA AskStatusWaiting ==
    ASSUME IInv, WaitersAreServed, NEW o \in Ops, AskStatus(o)
    PROVE  WaitersAreServed'
  <1>1. op'[o].at = "status" /\ \A p \in Ops \ {o} : op'[p] = op[p]
    BY OpFields DEF AskStatus, IInv, TypeOK, Op
  <1>2. QED
    BY <1>1, AsksWaiting DEF AskStatus

LEMMA StartWaiting ==
    ASSUME IInv, WaitersAreServed, NEW o \in Ops, Start(o)
    PROVE  WaitersAreServed'
  <1>1. CASE StartFetchProfile(o)
    <2>1. CASE AskStatus(o)
      BY <2>1, AskStatusWaiting
    <2>2. CASE Calls(o, access) /\ UNCHANGED <<assertion, signing>>
      BY <2>2, CallsWaiting
    <2>3. CASE session # None /\ NeedsToken(o, FALSE)
      BY <2>3, NeedsTokenWaiting
    <2>4. CASE op' = [op EXCEPT ![o] = Rest("failed")] /\ UNCHANGED <<assertion, signing>>
      <3>1. op'[o].at # "assertion" /\ \A p \in Ops \ {o} : op'[p] = op[p]
        BY <2>4 DEF Rest, IInv, TypeOK
      <3>2. QED
        BY <2>4, <3>1, AsksWaiting
    <2>5. QED
      BY <1>1, <2>1, <2>2, <2>3, <2>4 DEF StartFetchProfile
  <1>2. CASE StartCallProfile(o)
    BY <1>2, AskStatusWaiting, GoesOnWaiting DEF StartCallProfile
  <1>3. CASE StartApps(o)
    BY <1>3, CallsWaiting DEF StartApps
  <1>4. QED
    BY <1>1, <1>2, <1>3 DEF Start

LEMMA RequestsWaiting ==
    ASSUME IInv, WaitersAreServed, NEW o \in Ops, Serve(o) \/ RequestFails(o)
    PROVE  WaitersAreServed'
  <1>1. UNCHANGED <<assertion, signing>>
    BY DEF Serve, ServeStatus, ServeToken, ServeCall, RequestFails, Answering
  <1>2. op[o].at # "assertion"
    BY DEF Serve, ServeStatus, ServeToken, ServeCall, RequestFails
  <1>3. op'[o].at = op[o].at /\ \A p \in Ops \ {o} : op'[p] = op[p]
    BY OpFields DEF Serve, ServeStatus, ServeToken, ServeCall, RequestFails, Answering,
                    IInv, TypeOK, Op
  <1>4. QED
    BY <1>1, <1>2, <1>3, AsksWaiting

LEMMA AnsweredWaiting ==
    ASSUME IInv, WaitersAreServed, NEW o \in Ops, Answered(o)
    PROVE  WaitersAreServed'
  <1>1. CASE StatusAnswered(o)
    <2>1. PICK s \in {session, None} : \E v, a : GoesOn(o, s, v, a)
      BY <1>1 DEF StatusAnswered
    <2>2. QED
      BY <2>1, GoesOnWaiting
  <1>2. CASE AssertionAnswered(o)
    <2>1. CASE op' = [op EXCEPT ![o].at = "token", ![o].of = None]
      <3>1. op'[o].at = "token" /\ \A p \in Ops \ {o} : op'[p] = op[p]
        BY <2>1, OpFields DEF IInv, TypeOK, Op
      <3>2. QED
        BY <1>2, <3>1, AsksWaiting DEF AssertionAnswered
    <2>2. CASE Invalidates(o) \/ Fails(o)
      BY <1>2, <2>2, EndsWaiting DEF AssertionAnswered, Invalidates, Fails
    <2>3. QED
      BY <1>2, <2>1, <2>2 DEF AssertionAnswered
  <1>3. CASE TokenAnswered(o)
    BY <1>3, CallsWaiting, EndsWaiting DEF TokenAnswered, Fails
  <1>4. CASE CallAnswered(o)
    <2>1. CASE session # None /\ NeedsToken(o, TRUE)
      BY <2>1, NeedsTokenWaiting
    <2>2. CASE /\ UNCHANGED <<assertion, signing>>
               /\ \/ Ends(o, "ok", session, verified, access)
                  \/ Ends(o, "failed", session, verified, AfterRefusal(o))
                  \/ Fails(o)
      BY <2>2, EndsWaiting DEF Fails
    <2>3. QED
      BY <1>4, <2>1, <2>2 DEF CallAnswered
  <1>5. QED
    BY <1>1, <1>2, <1>3, <1>4 DEF Answered

\* A promise is settled by the request there is, and grows old only when
\* nobody waits for it.
LEMMA PromisesWaiting ==
    ASSUME IInv, WaitersAreServed, NEW s \in Sessions, Signed(s) \/ HourPasses(s)
    PROVE  WaitersAreServed'
  <1>1. CASE Signed(s)
    <2>1. PICK k \in {"good", "refused", "error"} : assertion' = [assertion EXCEPT ![s] = k]
      BY <1>1 DEF Signed
    <2>2. UNCHANGED op /\ \A r \in Sessions \ {s} : signing'[r] = signing[r]
      BY <1>1 DEF Signed, IInv, TypeOK
    <2>3. QED
      BY <2>1, <2>2 DEF WaitersAreServed, IInv, TypeOK
  <1>2. CASE HourPasses(s)
    <2>1. /\ assertion' = [assertion EXCEPT ![s] = "none"] /\ UNCHANGED <<op, signing>>
          /\ \A o \in Ops : op[o].at = "assertion" => op[o].of # s
      BY <1>2 DEF HourPasses
    <2>2. QED
      BY <2>1 DEF WaitersAreServed, IInv, TypeOK
  <1>3. QED
    BY <1>1, <1>2

LEMMA NextWaiting == ASSUME IInv, WaitersAreServed, [Next]_vars PROVE WaitersAreServed'
  <1>1. CASE \/ \E s \in Sessions : Revoke(s) \/ ChangePassword(s)
             \/ Confirm \/ (\E t \in Tokens : Expire(t)) \/ UNCHANGED vars
    <2>1. UNCHANGED <<assertion, signing, op>>
      BY <1>1 DEF Revoke, ChangePassword, Confirm, Expire, vars
    <2>2. QED
      BY <2>1, NobodyWaits
  <1>2. QED
    BY <1>1, StartWaiting, RequestsWaiting, AnsweredWaiting, PromisesWaiting DEF Next

-----------------------------------------------------------------------------
(* The theorems.                                                           *)

\* Every reachable state of the account and its operations is well typed; an
\* accessToken is always a token that was issued, or none.
THEOREM TokensTypeCorrect == Spec => []TypeOK
  <1>1. IInv => TypeOK
    BY DEF IInv
  <1>2. QED
    BY <1>1, Invariance, PTL

\* Though every step of a fetch changes the account, and changes clear the
\* cache, no two profile fetches are ever in progress.
THEOREM OneFetch == Spec => []OneProfileFetch
  <1>1. FInv => OneProfileFetch
    BY DEF FInv
  <1>2. QED
    BY <1>1, FetchInvariance, PTL

\* However views, retries, revocations and hours interleave, at most one
\* certificate request per session is in flight.
THEOREM OneSigning == Spec => []OneSigningPerSession
  <1>1. IInv => OneSigningPerSession
    BY DEF IInv, SigningIsSound, OneSigningPerSession
  <1>2. QED
    BY <1>1, Invariance, PTL

\* Every retry but destroyOAuthApp's sends a token issued after the refused
\* one, whatever the other operations put into the account meanwhile.
THEOREM RetriesAreNewer == Spec => []RetryIsNewer
  <1>1. IInv => RetryIsNewer
    <2> SUFFICES ASSUME IInv, NEW o \in Ops, kind[o] # "destroyApp",
                        op[o].at = "call", op[o].retry
                 PROVE  op[o].with > op[o].first
      BY DEF RetryIsNewer, Of
    <2>1. OpIsSound(op[o], kind[o], issued) /\ op[o].retry = TRUE
      BY OpFields
    <2>2. QED
      BY <2>1 DEF OpIsSound
  <1>2. QED
    BY <1>1, Invariance, PTL

\* An operation that waits for an assertion is never left with a promise that
\* nobody settles, though promises are shared, grow old and are asked for
\* anew while operations, revocations and password changes go on.
THEOREM WaitersServed == Spec => []WaitersAreServed
  <1>1. Init => WaitersAreServed
    BY DEF Init, WaitersAreServed, Rest
  <1>2. QED
    BY <1>1, NextWaiting, Invariance, PTL DEF Spec
=============================================================================
