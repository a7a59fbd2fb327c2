--------------------------- MODULE RequestMemoOnce ---------------------------
(* The memo of one request as an implementation of DecisionOnce. *)
EXTENDS RequestMemo

\* A question is decided when its cell is filled.
Decided ==
    [k \in Keys |->
        IF cells[k] # None /\ err[cells[k]] = "none" THEN mem[CellOf(cells[k])]
                                                     ELSE None]

Outcome ==
    [c \in Calls |->
        CASE pc[c] = "panicked"                   -> "failed"
          [] pc[c] = "done" /\ fail[c] # "none"  -> "failed"
          [] pc[c] = "done" /\ fail[c] = "none"  -> got[c]
          [] OTHER                                -> None]

Once == INSTANCE DecisionOnce
            WITH decided <- Decided, asked <- key, outcome <- Outcome

\* The memo decides each question once: cells, waiting and copies are invisible.
ImplementsOnce == Once!Spec
=============================================================================
