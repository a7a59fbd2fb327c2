------------------------------- MODULE Changelog -------------------------------
(***************************************************************************)
(* What a watch promises: a reader of the changelog of a namespace who is  *)
(* at a version has been given every change up to it, once, whole and in   *)
(* the order of the commits, and nothing after it.                         *)
(***************************************************************************)
EXTENDS Integers, Sequences

VARIABLES
    history,  \* the changes each commit made to the namespace
    at,       \* the version the reader has reached
    given     \* what it was given, in order; an empty set for no change

vars == <<history, at, given>>

NotReading == -1

Init == history = <<>> /\ at = NotReading /\ given = <<>>

\* Somebody commits.
Commit ==
    /\ Len(history') = Len(history) + 1
    /\ SubSeq(history', 1, Len(history)) = history
    /\ UNCHANGED <<at, given>>

\* The reader starts at a version of its choice.
Start ==
    /\ at = NotReading
    /\ at' \in 0..Len(history)
    /\ UNCHANGED <<history, given>>

\* It is given one change, or is told that there is none up to a version.
Advance ==
    /\ at # NotReading
    /\ at' \in (at + 1)..Len(history)
    /\ \A v \in (at + 1)..(at' - 1) : history[v] = {}
    /\ given' = Append(given, history[at'])
    /\ UNCHANGED history

Next == Commit \/ Start \/ Advance

Spec == Init /\ [][Next]_vars
=============================================================================
