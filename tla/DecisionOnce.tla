---------------------------- MODULE DecisionOnce ----------------------------
(***************************************************************************)
(* What the memo promises one request: a question is decided once, with a  *)
(* decision the backend held while the request ran, and every call that    *)
(* gets an answer gets that decision.  A call may also fail.               *)
(***************************************************************************)
CONSTANTS Calls, Keys, Answers, None

VARIABLES
    truth,      \* the backend's present decision of each question
    decided,    \* the decision of this request, or None
    asked,      \* the question of each call, or None
    outcome     \* None, "failed", or the answer of each call

vars == <<truth, decided, asked, outcome>>

Init ==
    /\ truth \in [Keys -> Answers]
    /\ decided = [k \in Keys |-> None]
    /\ asked = [c \in Calls |-> None]
    /\ outcome = [c \in Calls |-> None]

Change(k) ==
    /\ \E a \in Answers : truth' = [truth EXCEPT ![k] = a]
    /\ UNCHANGED <<decided, asked, outcome>>

Ask(c, k) ==
    /\ asked[c] = None
    /\ asked' = [asked EXCEPT ![c] = k]
    /\ UNCHANGED <<truth, decided, outcome>>

\* Only a question that is being asked is decided, and only once.
Decide(k) ==
    /\ decided[k] = None
    /\ \E c \in Calls : asked[c] = k /\ outcome[c] = None
    /\ decided' = [decided EXCEPT ![k] = truth[k]]
    /\ UNCHANGED <<truth, asked, outcome>>

Reply(c) ==
    /\ asked[c] # None
    /\ outcome[c] = None
    /\ decided[asked[c]] # None
    /\ outcome' = [outcome EXCEPT ![c] = decided[asked[c]]]
    /\ UNCHANGED <<truth, decided, asked>>

Fail(c) ==
    /\ asked[c] # None
    /\ outcome[c] = None
    /\ outcome' = [outcome EXCEPT ![c] = "failed"]
    /\ UNCHANGED <<truth, decided, asked>>

Next ==
    \/ \E k \in Keys : Change(k) \/ Decide(k)
    \/ \E c \in Calls : Reply(c) \/ Fail(c) \/ \E k \in Keys : Ask(c, k)

Spec == Init /\ [][Next]_vars
=============================================================================
