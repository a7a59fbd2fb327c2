----------------------------- MODULE RequestMemo -----------------------------
(***************************************************************************)
(* requestMemo and memoMap of src/requestmemo.go: within one HTTP request, *)
(* equal check and list questions share one RPC and one answer.            *)
(*                                                                         *)
(* A call is one call of memoMap.get by a goroutine of the handler; calls  *)
(* that overlap are different goroutines.  A call that misses creates a    *)
(* cell, named here after the call, and fills it; the others wait for the  *)
(* cell to be closed.                                                      *)
(***************************************************************************)
EXTENDS Integers, FiniteSets

CONSTANTS
    Calls,        \* bound: the calls of get in the request
    CheckKeys, ListKeys,
    Answers,      \* decisions: a check result, or a list of objects
    Scribbled,    \* a list its owner has overwritten
    None,
    MaxChanges    \* bound: how often other clients change a decision

Keys == CheckKeys \cup ListKeys

ASSUME AnswerAssumption == None \notin Answers /\ Scribbled \notin Answers
ASSUME KeyAssumption    == None \notin Keys
ASSUME CallAssumption   == None \notin Calls
ASSUME BoundAssumption  == MaxChanges \in Nat

(***************************************************************************)
(* Lists are slices: what a call returns and what its cell holds are       *)
(* places in memory, and a handler may write to the place it was given.    *)
(***************************************************************************)
Places == {"cell", "ret"} \X Calls
CellOf(c) == <<"cell", c>>

Errors == {"none", "rpc", "aborted"}
Steps  == {"new", "rpc", "delete", "close", "wait", "done", "panicked"}

VARIABLES
    truth,     \* the backend's decision of each key, and how often
    changes,   \*   it has changed
    cells,     \* memoMap.cells: the call whose cell is stored for a key
    err,       \* cell.err of each call's cell
    closed,    \* the cells whose done channel is closed
    mem,       \* what each place holds
    pc,        \* where each call is
    key,       \* its key
    cell,      \* the cell it found or made
    panicking, \* calls whose fill panicked
    ret,       \* the place of the list or decision it returned
    got,       \* history: what that place held when it returned
    fail,      \* the error it returned
    hit        \* the second result of get, as the observer sees it

vars == <<truth, changes, cells, err, closed, mem, pc, key, cell, panicking,
          ret, got, fail, hit>>
backend == <<truth, changes>>
results == <<ret, got, fail>>

Init ==
    /\ truth \in [Keys -> Answers]
    /\ changes = 0
    /\ cells = [k \in Keys |-> None]
    /\ err = [c \in Calls |-> "none"]
    /\ closed = {}
    /\ mem = [place \in Places |-> None]
    /\ pc = [c \in Calls |-> "new"]
    /\ key = [c \in Calls |-> None]
    /\ cell = [c \in Calls |-> None]
    /\ panicking = {}
    /\ ret = [c \in Calls |-> None]
    /\ got = [c \in Calls |-> None]
    /\ fail = [c \in Calls |-> "none"]
    /\ hit = [c \in Calls |-> FALSE]

-----------------------------------------------------------------------------
\* Another client writes a tuple.
Change(k) ==
    /\ changes < MaxChanges
    /\ changes' = changes + 1
    /\ \E a \in Answers \ {truth[k]} : truth' = [truth EXCEPT ![k] = a]
    /\ UNCHANGED <<cells, err, closed, mem, pc, key, cell, panicking, results, hit>>

\* Mutant: a cell still being filled counts as a miss.
StoredWhenClosed(k) == cells[k] # None /\ cells[k] \in closed

\* The map holds a cell of the key, filled or not.
Stored(k) == cells[k] # None

\* get, under the mutex: find the cell, or make one and go to fill it.
Get(c, k) ==
    /\ pc[c] = "new"
    /\ key' = [key EXCEPT ![c] = k]
    /\ hit' = [hit EXCEPT ![c] = Stored(k)]
    /\ \/ /\ Stored(k)
          /\ cell' = [cell EXCEPT ![c] = cells[k]]
          /\ pc' = [pc EXCEPT ![c] = "wait"]
          /\ UNCHANGED <<cells, err>>
       \/ /\ ~Stored(k)
          /\ cells' = [cells EXCEPT ![k] = c]
          /\ cell' = [cell EXCEPT ![c] = c]
          /\ err' = [err EXCEPT ![c] = "aborted"]
          /\ pc' = [pc EXCEPT ![c] = "rpc"]
    /\ UNCHANGED <<backend, closed, mem, panicking, results>>

\* Mutant: the answer is not kept.
RpcAnswersUnkept(c) ==
    /\ pc[c] = "rpc"
    /\ err' = [err EXCEPT ![c] = "none"]
    /\ pc' = [pc EXCEPT ![c] = "close"]
    /\ UNCHANGED <<backend, cells, closed, mem, key, cell, panicking, results, hit>>

\* fill: the RPC answers with the decision of that moment, which the cell keeps
\* in a place of its own.
RpcAnswers(c) ==
    /\ pc[c] = "rpc"
    /\ mem' = [mem EXCEPT ![CellOf(c)] = truth[key[c]]]
    /\ err' = [err EXCEPT ![c] = "none"]
    /\ pc' = [pc EXCEPT ![c] = "close"]
    /\ UNCHANGED <<backend, cells, closed, key, cell, panicking, results, hit>>

\* fill: the RPC fails, or the goroutine panics in it and err stays as preset.
RpcFails(c) ==
    /\ pc[c] = "rpc"
    /\ \/ err' = [err EXCEPT ![c] = "rpc"] /\ UNCHANGED panicking
       \/ panicking' = panicking \cup {c} /\ UNCHANGED err
    /\ pc' = [pc EXCEPT ![c] = "delete"]
    /\ UNCHANGED <<backend, cells, closed, mem, key, cell, results, hit>>

\* Mutant: waiters are released before the failed cell has left the map.
DeleteAfterClose(c) ==
    /\ pc[c] = "delete"
    /\ \/ /\ c \notin closed
          /\ closed' = closed \cup {c}
          /\ UNCHANGED <<cells, pc>>
       \/ /\ c \in closed
          /\ cells' = [cells EXCEPT ![key[c]] = None]
          /\ pc' = [pc EXCEPT ![c] = "close"]
          /\ UNCHANGED closed
    /\ UNCHANGED <<backend, err, mem, key, cell, panicking, results, hit>>

\* The deferred function of fill: under the mutex a failed key leaves the map.
Delete(c) ==
    /\ pc[c] = "delete"
    /\ cells' = [cells EXCEPT ![key[c]] = None]
    /\ pc' = [pc EXCEPT ![c] = "close"]
    /\ UNCHANGED <<backend, err, closed, mem, key, cell, panicking, results, hit>>

\* Mutant: a panic skips the close.
CloseUnlessPanicking(c) ==
    /\ pc[c] = "close"
    /\ closed' = IF c \in panicking THEN closed ELSE closed \cup {c}
    /\ pc' = [pc EXCEPT ![c] = IF c \in panicking THEN "panicked" ELSE "wait"]
    /\ UNCHANGED <<backend, cells, err, mem, key, cell, panicking, results, hit>>

\* ... and done is closed; then a panic goes on up the stack.
Close(c) ==
    /\ pc[c] = "close"
    /\ closed' = closed \cup {c}
    /\ pc' = [pc EXCEPT ![c] = IF c \in panicking THEN "panicked" ELSE "wait"]
    /\ UNCHANGED <<backend, cells, err, mem, key, cell, panicking, results, hit>>

\* Mutant: the list in the cell itself is handed out.
CloneShared(c) == CellOf(cell[c])

\* Where the copy that c returns lives.
Clone(c) == <<"ret", c>>

\* The rest of get, and of check or list: the cell is closed.
Return(c) ==
    /\ pc[c] = "wait"
    /\ cell[c] \in closed
    /\ pc' = [pc EXCEPT ![c] = "done"]
    /\ fail' = [fail EXCEPT ![c] = err[cell[c]]]
    /\ hit' = [hit EXCEPT ![c] = @ /\ err[cell[c]] = "none"]
    /\ \/ /\ err[cell[c]] = "none"
          /\ mem' = [mem EXCEPT ![Clone(c)] = mem[CellOf(cell[c])]]
          /\ ret' = [ret EXCEPT ![c] = Clone(c)]
          /\ got' = [got EXCEPT ![c] = mem[CellOf(cell[c])]]
       \/ /\ err[cell[c]] # "none"
          /\ UNCHANGED <<mem, ret, got>>
    /\ UNCHANGED <<backend, cells, err, closed, key, cell, panicking>>

\* The handler writes to the list it was given.
Scribble(c) ==
    /\ pc[c] = "done"
    /\ fail[c] = "none"
    /\ key[c] \in ListKeys
    /\ mem[ret[c]] # Scribbled
    /\ mem' = [mem EXCEPT ![ret[c]] = Scribbled]
    /\ UNCHANGED <<backend, cells, err, closed, pc, key, cell, panicking, results, hit>>

-----------------------------------------------------------------------------
Step(c) == RpcAnswers(c) \/ RpcFails(c) \/ Delete(c) \/ Close(c) \/ Return(c)

\* The request is over when every call it makes has ended.
Over ==
    /\ \A c \in Calls : pc[c] \in {"done", "panicked"}
    /\ UNCHANGED vars

Next ==
    \/ \E k \in Keys : Change(k)
    \/ \E c \in Calls : Step(c) \/ Scribble(c) \/ \E k \in Keys : Get(c, k)
    \/ Over

Spec == Init /\ [][Next]_vars

\* Goroutines run, and an RPC ends one way or another.
FairSpec == Spec /\ \A c \in Calls : WF_vars(Step(c))

-----------------------------------------------------------------------------
Answered(c) == pc[c] = "done" /\ fail[c] = "none"

TypeOK ==
    /\ truth \in [Keys -> Answers]
    /\ changes \in 0..MaxChanges
    /\ cells \in [Keys -> Calls \cup {None}]
    /\ err \in [Calls -> Errors]
    /\ closed \subseteq Calls
    /\ mem \in [Places -> Answers \cup {Scribbled, None}]
    /\ pc \in [Calls -> Steps]
    /\ key \in [Calls -> Keys \cup {None}]
    /\ cell \in [Calls -> Calls \cup {None}]
    /\ panicking \subseteq Calls
    /\ ret \in [Calls -> Places \cup {None}]
    /\ got \in [Calls -> Answers \cup {Scribbled, None}]
    /\ fail \in [Calls -> Errors]
    /\ hit \in [Calls -> BOOLEAN]
    /\ \A c \in Calls : pc[c] # "new" => key[c] \in Keys /\ cell[c] \in Calls
    /\ \A c \in Calls : Answered(c) => ret[c] \in Places /\ got[c] \in Answers

\* Calls of equal questions never have two RPCs open at once.
OneRpcAtATime ==
    \A c, d \in Calls :
        pc[c] = "rpc" /\ pc[d] = "rpc" /\ key[c] = key[d] => c = d

\* A request is one logical instant: every call of a question that is answered
\* is given the same answer, whatever other clients write meanwhile and whatever
\* the handler does to the lists it was given.
AnswersAgree ==
    \A c, d \in Calls :
        Answered(c) /\ Answered(d) /\ key[c] = key[d] => got[c] = got[d]

\* At most one answered call of a question reports a miss: the others were hits.
OneMissPerAnswer ==
    \A c, d \in Calls :
        Answered(c) /\ Answered(d) /\ key[c] = key[d] /\ ~hit[c] /\ ~hit[d] => c = d

\* A failure is shared by the calls that waited for it and by no later one: the
\* map never offers a failed cell that is already closed.
FailuresNotCached ==
    \A k \in Keys : cells[k] # None /\ cells[k] \in closed => err[cells[k]] = "none"

\* Every call ends, also when the fill it waits for fails or panics.
EveryCallEnds ==
    \A c \in Calls : pc[c] = "wait" ~> pc[c] = "done"
=============================================================================
