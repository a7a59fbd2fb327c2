--------------------------- MODULE SessionRegister ---------------------------
(***************************************************************************)
(* What resolve promises to its callers, with no cache in sight: a         *)
(* register per token whose content only ages (Unknown, Live, Ended), read *)
(* with bounded staleness.  An answer is never ahead of the backend, never *)
(* behind an answer returned before the call began, and reports a session  *)
(* that is over only to a call that began within Grace of its end.         *)
(* A call may also fail.                                                   *)
(***************************************************************************)
EXTENDS Integers

CONSTANTS Keys, Callers, AnyKey, Grace

Unknown == 0
Live    == 1
Ended   == 2
Stages  == {Unknown, Live, Ended}

VARIABLES now, stage, endedAt, seen, call

vars == <<now, stage, endedAt, seen, call>>

NoCall == [st |-> "idle", key |-> AnyKey, began |-> 0, floor |-> Unknown,
           val |-> Unknown]

Init ==
    /\ now = 0
    /\ stage = [key \in Keys |-> Unknown]
    /\ endedAt = [key \in Keys |-> 0]
    /\ seen = [key \in Keys |-> Unknown]
    /\ call = [c \in Callers |-> NoCall]

\* Time passes and sessions age; a session that ends has its end recorded.
Age ==
    /\ now' \in Nat /\ now' >= now
    /\ stage' \in [Keys -> Stages]
    /\ \A key \in Keys :
         /\ stage'[key] >= stage[key]
         /\ IF stage[key] # Ended /\ stage'[key] = Ended
            THEN endedAt'[key] >= now /\ endedAt'[key] <= now'
            ELSE endedAt'[key] = endedAt[key]
    /\ DOMAIN endedAt' = Keys
    /\ UNCHANGED <<seen, call>>

Begin(c, key) ==
    /\ call[c].st # "open"
    /\ call' = [call EXCEPT ![c] = [NoCall EXCEPT !.st = "open", !.key = key,
                                        !.began = now, !.floor = seen[key]]]
    /\ UNCHANGED <<now, stage, endedAt, seen>>

Allowed(c, val) ==
    /\ call[c].floor <= val
    /\ val <= stage[call[c].key]
    /\ val = Live /\ stage[call[c].key] = Ended
           => call[c].began <= endedAt[call[c].key] + Grace

Reply(c) ==
    /\ call[c].st = "open"
    /\ \E val \in Stages :
         /\ Allowed(c, val)
         /\ call' = [call EXCEPT ![c].st = "answered", ![c].val = val]
         /\ seen' = [seen EXCEPT ![call[c].key] = IF @ < val THEN val ELSE @]
    /\ UNCHANGED <<now, stage, endedAt>>

Fail(c) ==
    /\ call[c].st = "open"
    /\ call' = [call EXCEPT ![c].st = "failed"]
    /\ UNCHANGED <<now, stage, endedAt, seen>>

Next ==
    \/ Age
    \/ \E c \in Callers : Reply(c) \/ Fail(c) \/ \E key \in Keys : Begin(c, key)

Spec == Init /\ [][Next]_vars
=============================================================================
