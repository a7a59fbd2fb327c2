---------------------------- MODULE MCRequestMemo ----------------------------
(* A small request for TLC: three calls over one check and one list question. *)
EXTENDS RequestMemoOnce, TLC
=============================================================================
