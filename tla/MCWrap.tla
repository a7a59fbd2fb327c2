------------------------------- MODULE MCWrap -------------------------------
(* Small requests for TLC: two users, so that the principal a grant names need
   not be the token's user, and one relation next to Impossible. *)
EXTENDS Wrap
=============================================================================
