----------------------- MODULE SessionResolverRegister -----------------------
(***************************************************************************)
(* SessionResolver implements SessionRegister: the caches, the flights and *)
(* the refreshers are invisible to the callers except as staleness within  *)
(* the grace below.                                                        *)
(***************************************************************************)
EXTENDS SessionResolver

\* A reply may travel for the whole fill; then the entry lives its TTL from
\* arrival, and a stale answer stretches that by the stale window.
Grace == L1TTL + ResolveTimeout + StaleIfError

CallState(c) ==
    CASE pc[c] = "idle"                        -> "idle"
      [] pc[c] = "done" /\ g[c].err = "none"  -> "answered"
      [] pc[c] = "done" /\ g[c].err # "none"  -> "failed"
      [] OTHER                                 -> "open"

\* A call's value is visible once the call is over.
AbstractCall ==
    [c \in Callers |->
        [st |-> CallState(c), key |-> g[c].key, began |-> g[c].now,
         floor |-> g[c].floor,
         val |-> IF pc[c] = "done" THEN g[c].val ELSE Unknown]]

Register == INSTANCE SessionRegister WITH call <- AbstractCall

\* resolve is a register with bounded staleness: its hits, coalesced fills,
\* refreshes ahead and stale answers give nothing the register does not allow.
ImplementsRegister == Register!Spec
=============================================================================
