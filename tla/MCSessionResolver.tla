-------------------------- MODULE MCSessionResolver --------------------------
(* Small instances of SessionResolver for TLC. *)
EXTENDS SessionResolverRegister, TLC

\* The wall clock is right, or ten units behind or ahead.
UnsteadyClock == {0, -10, 10}

\* Requests are interchangeable.
Symmetry == Permutations(Callers)
=============================================================================
