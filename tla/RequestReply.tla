---------------------------- MODULE RequestReply ----------------------------
(***************************************************************************)
(* What a channel to the browser promises to the code that calls request() *)
(* (app/scripts/lib/channels): a request is settled at most once, only by  *)
(* an answer the browser gave, and by the answer to no other request; the  *)
(* exception is a browser that says it has no such channel, which settles  *)
(* whatever is outstanding.                                                *)
(***************************************************************************)
CONSTANTS Requests

Kinds  == {"message", "error", "noSuchChannel"}
Answer == [re : Requests, kind : Kinds]

VARIABLES
    state,    \* the promise of each request
    answers   \* the answers the browser ever gave

Init ==
    /\ state = [r \in Requests |-> "new"]
    /\ answers = {}

Ask(r) ==
    /\ state[r] = "new"
    /\ state' = [state EXCEPT ![r] = "pending"]
    /\ UNCHANGED answers

Reply(a) ==
    /\ state[a.re] # "new"
    /\ answers' = answers \cup {a}
    /\ UNCHANGED state

Resolve(r) ==
    /\ state[r] = "pending"
    /\ [re |-> r, kind |-> "message"] \in answers
    /\ state' = [state EXCEPT ![r] = "resolved"]
    /\ UNCHANGED answers

Reject(S) ==
    /\ \A r \in S : state[r] = "pending"
    /\ \E a \in answers : a.kind = "noSuchChannel" \/ (a.kind = "error" /\ S = {a.re})
    /\ state' = [r \in Requests |-> IF r \in S THEN "rejected" ELSE state[r]]
    /\ UNCHANGED answers

Next ==
    \/ \E r \in Requests : Ask(r) \/ Resolve(r)
    \/ \E a \in Answer : Reply(a)
    \/ \E S \in SUBSET Requests : Reject(S)

Spec == Init /\ [][Next]_<<state, answers>>
=============================================================================
