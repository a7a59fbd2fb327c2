-------------------------- MODULE RequestMemoProofs --------------------------
(***************************************************************************)
(* Theorems about RequestMemo, for any number of calls and questions.      *)
(***************************************************************************)
EXTENDS RequestMemoOnce, TLAPS

\* A cell and a returned copy never share a place.
LEMMA PlacesDiffer ==
    \A c, d \in Calls : /\ CellOf(c) \in Places /\ Clone(c) \in Places
                        /\ CellOf(c) # Clone(d)
                        /\ CellOf(c) = CellOf(d) => c = d
BY DEF CellOf, Clone, Places

\* The call c made a cell of its own.
Owner(c) == pc[c] # "new" /\ cell[c] = c

\* The map offers cells of the right key; a cell is in the map from its creation
\* until its fill has failed, and for good once its fill has succeeded.  Each call
\* holds its own cell or one of another call with the same question.
MapInv ==
    /\ \A k \in Keys : cells[k] # None => Owner(cells[k]) /\ key[cells[k]] = k
    /\ \A c \in Calls : pc[c] \in {"rpc", "delete"} => Owner(c) /\ cells[key[c]] = c
    /\ \A c \in Calls : pc[c] = "close" => Owner(c)
    /\ \A c \in Calls : Owner(c) /\ err[c] = "none" => cells[key[c]] = c
    /\ \A c \in Calls : Owner(c) /\ pc[c] \notin {"rpc", "delete"} /\ err[c] # "none"
                          => cells[key[c]] # c
    /\ \A c \in Calls : pc[c] # "new" => Owner(cell[c]) /\ key[cell[c]] = key[c]

\* A closed cell has its result; an answered call has the answer of its cell,
\* and writes to what it was given never reach a cell.
ResultInv ==
    /\ \A c \in Calls : pc[c] \in {"rpc", "delete"} => c \notin closed /\ err[c] # "none"
    /\ \A c \in closed : Owner(c)
    /\ \A c \in Calls : Owner(c) /\ err[c] = "none" => mem[CellOf(c)] \in Answers
    /\ \A c \in Calls : Answered(c) =>
           /\ cell[c] \in closed
           /\ err[cell[c]] = "none"
           /\ ret[c] = Clone(c)
           /\ got[c] = mem[CellOf(cell[c])]

\* The types hold at first.
LEMMA TypeInit == Init => TypeOK
BY BoundAssumption DEF Init, TypeOK, Errors, Steps, Answered

\* ... and after every step.
LEMMA TypeStep == TypeOK /\ ResultInv /\ [Next]_vars => TypeOK'
<1> SUFFICES ASSUME TypeOK, ResultInv, [Next]_vars PROVE TypeOK'
  OBVIOUS
<1> USE DEF TypeOK, Errors, Steps, Answered, backend, results
<1>1. ASSUME NEW k \in Keys, Change(k)
      PROVE  TypeOK'
  BY <1>1, BoundAssumption DEF Change
<1>2. ASSUME NEW c \in Calls, NEW k \in Keys, Get(c, k)
      PROVE  TypeOK'
  BY <1>2 DEF Get, Stored
<1>3. ASSUME NEW c \in Calls, Step(c) \/ Scribble(c)
      PROVE  TypeOK'
  <2>1. CASE RpcAnswers(c)
    BY <1>3, <2>1, PlacesDiffer DEF RpcAnswers
  <2>2. CASE RpcFails(c)
    BY <1>3, <2>2 DEF RpcFails
  <2>3. CASE Delete(c)
    BY <1>3, <2>3 DEF Delete
  <2>4. CASE Close(c)
    BY <1>3, <2>4 DEF Close
  <2>5. CASE Return(c)
    <3>1. cell[c] \in Calls /\ CellOf(cell[c]) \in Places /\ Clone(c) \in Places
      BY <2>5, PlacesDiffer DEF Return
    <3>2. err[cell[c]] = "none" => mem[CellOf(cell[c])] \in Answers
      BY <2>5, <3>1 DEF Return, ResultInv
    <3> QED
      BY <2>5, <3>1, <3>2 DEF Return
  <2>6. CASE Scribble(c)
    BY <1>3, <2>6 DEF Scribble
  <2> QED
    BY <1>3, <2>1, <2>2, <2>3, <2>4, <2>5, <2>6 DEF Step
<1>4. CASE Over \/ UNCHANGED vars
  BY <1>4 DEF Over, vars
<1> QED
  BY <1>1, <1>2, <1>3, <1>4 DEF Next

\* The map is empty at first.
LEMMA MapInit == Init => MapInv
BY CallAssumption DEF Init, MapInv, Owner

\* A cell enters the map by its maker and leaves it failed.
LEMMA MapStep == TypeOK /\ MapInv /\ ResultInv /\ [Next]_vars => MapInv'
<1> SUFFICES ASSUME TypeOK, MapInv, ResultInv, [Next]_vars PROVE MapInv'
  OBVIOUS
<1> USE CallAssumption, KeyAssumption DEF TypeOK, MapInv, Owner, backend, results
<1>1. ASSUME NEW k \in Keys, Change(k)
      PROVE  MapInv'
  BY <1>1 DEF Change
<1>2. ASSUME NEW c \in Calls, NEW k \in Keys, Get(c, k)
      PROVE  MapInv'
  <2>1. CASE Stored(k)
    BY <1>2, <2>1 DEF Get, Stored
  <2>2. CASE ~Stored(k)
    BY <1>2, <2>2 DEF Get, Stored
  <2> QED
    BY <2>1, <2>2
<1>3. ASSUME NEW c \in Calls, Step(c) \/ Scribble(c)
      PROVE  MapInv'
  <2>1. CASE RpcAnswers(c)
    BY <1>3, <2>1 DEF RpcAnswers
  <2>2. CASE RpcFails(c)
    BY <1>3, <2>2 DEF RpcFails
  <2>3. CASE Delete(c)
    <3>1. Owner(c) /\ cells[key[c]] = c /\ err[c] # "none"
      BY <2>3 DEF Delete, ResultInv
    <3> QED
      BY <2>3, <3>1 DEF Delete
  <2>4. CASE Close(c)
    BY <1>3, <2>4 DEF Close
  <2>5. CASE Return(c)
    BY <1>3, <2>5 DEF Return
  <2>6. CASE Scribble(c)
    BY <1>3, <2>6 DEF Scribble
  <2> QED
    BY <1>3, <2>1, <2>2, <2>3, <2>4, <2>5, <2>6 DEF Step
<1>4. CASE Over \/ UNCHANGED vars
  BY <1>4 DEF Over, vars
<1> QED
  BY <1>1, <1>2, <1>3, <1>4 DEF Next

\* No call has a result at first.
LEMMA ResultInit == Init => ResultInv
BY CallAssumption DEF Init, ResultInv, Owner, Answered

\* Results come from the cell the call holds.
LEMMA ResultStep == TypeOK /\ MapInv /\ ResultInv /\ [Next]_vars => ResultInv'
<1> SUFFICES ASSUME TypeOK, MapInv, ResultInv, [Next]_vars PROVE ResultInv'
  OBVIOUS
<1> USE CallAssumption, AnswerAssumption
    DEF TypeOK, ResultInv, Owner, Answered, backend, results
<1>1. ASSUME NEW k \in Keys, Change(k)
      PROVE  ResultInv'
  BY <1>1 DEF Change
<1>2. ASSUME NEW c \in Calls, NEW k \in Keys, Get(c, k)
      PROVE  ResultInv'
  \* No cell of c is closed or held by an answered call.
  <2>1. pc[c] = "new" /\ c \notin closed
    BY <1>2 DEF Get
  <2>2. \A d \in Calls : Answered(d) => cell[d] \in closed /\ d # c /\ cell[d] # c
    BY <2>1
  <2>3. CASE Stored(k)
    <3>1. cells[k] \in Calls /\ cells[k] # c
      BY <2>1, <2>3 DEF Stored, MapInv
    <3> QED
      BY <1>2, <2>1, <2>2, <2>3, <3>1 DEF Get, Stored
  <2>4. CASE ~Stored(k)
    BY <1>2, <2>1, <2>2, <2>4 DEF Get, Stored
  <2> QED
    BY <2>3, <2>4
<1>3. ASSUME NEW c \in Calls, Step(c) \/ Scribble(c)
      PROVE  ResultInv'
  <2>1. CASE RpcAnswers(c)
    \* Calls that have an answer have it from a closed cell, and c's is open.
    <3>1. Owner(c) /\ c \notin closed
      BY <2>1 DEF RpcAnswers, MapInv
    <3>2. \A d \in Calls : /\ mem'[CellOf(d)] = IF d = c THEN truth[key[c]]
                                                       ELSE mem[CellOf(d)]
                          /\ truth[key[c]] \in Answers
      BY <2>1, PlacesDiffer DEF RpcAnswers
    <3> QED
      BY <2>1, <3>1, <3>2 DEF RpcAnswers
  <2>2. CASE RpcFails(c)
    BY <1>3, <2>2 DEF RpcFails, Errors
  <2>3. CASE Delete(c)
    BY <1>3, <2>3 DEF Delete
  <2>4. CASE Close(c)
    BY <1>3, <2>4 DEF Close, MapInv
  <2>5. CASE Return(c)
    \* The copy is not a cell.
    <3>1. \A d \in Calls : mem'[CellOf(d)] = mem[CellOf(d)]
      BY <2>5, PlacesDiffer DEF Return
    <3> QED
      BY <2>5, <3>1, PlacesDiffer DEF Return
  <2>6. CASE Scribble(c)
    \* c writes to the copy it was given.
    <3>1. ret[c] = Clone(c)
      BY <2>6, PlacesDiffer DEF Scribble
    <3>2. \A d \in Calls : mem'[CellOf(d)] = mem[CellOf(d)]
      BY <2>6, <3>1, PlacesDiffer DEF Scribble
    <3> QED
      BY <2>6, <3>2 DEF Scribble
  <2> QED
    BY <1>3, <2>1, <2>2, <2>3, <2>4, <2>5, <2>6 DEF Step
<1>4. CASE Over \/ UNCHANGED vars
  BY <1>4 DEF Over, vars
<1> QED
  BY <1>1, <1>2, <1>3, <1>4 DEF Next

\* The inductive invariant holds in every reachable state.
THEOREM CellsCorrect == Spec => [](TypeOK /\ MapInv /\ ResultInv)
<1>1. Init => TypeOK /\ MapInv /\ ResultInv
  BY TypeInit, MapInit, ResultInit
<1>2. TypeOK /\ MapInv /\ ResultInv /\ [Next]_vars
        => (TypeOK /\ MapInv /\ ResultInv)'
  BY TypeStep, MapStep, ResultStep
<1> QED
  BY <1>1, <1>2, PTL DEF Spec

\* Every reachable state is well typed: in particular an answered call has a
\* place of its own to show for it, holding a decision of the backend.
THEOREM TypeCorrect == Spec => []TypeOK
BY CellsCorrect, PTL

\* Two calls of one question never have an RPC open at once: both own the cell
\* that the map holds for the question.
THEOREM OneRpc == Spec => []OneRpcAtATime
<1>1. TypeOK /\ MapInv => OneRpcAtATime
  BY DEF MapInv, OneRpcAtATime
<1> QED
  BY <1>1, CellsCorrect, PTL

\* All answered calls of one question have the same answer: both got it from a
\* cell that was filled without error, which is the one in the map.
THEOREM AnswersAgreeHold == Spec => []AnswersAgree
<1>1. TypeOK /\ MapInv /\ ResultInv => AnswersAgree
  <2> SUFFICES ASSUME TypeOK, MapInv, ResultInv,
                      NEW c \in Calls, NEW d \in Calls,
                      Answered(c), Answered(d), key[c] = key[d]
               PROVE  got[c] = got[d]
    BY DEF AnswersAgree
  <2>1. pc[c] # "new" /\ pc[d] # "new"
    BY DEF Answered
  <2>2. cell[c] \in Calls /\ cell[d] \in Calls
    BY <2>1 DEF TypeOK
  <2>3. /\ Owner(cell[c]) /\ key[cell[c]] = key[c] /\ err[cell[c]] = "none"
        /\ Owner(cell[d]) /\ key[cell[d]] = key[d] /\ err[cell[d]] = "none"
    BY <2>1 DEF MapInv, ResultInv
  <2>4. cell[c] = cells[key[c]] /\ cell[d] = cells[key[d]]
    BY <2>2, <2>3 DEF MapInv
  <2> QED
    BY <2>4 DEF ResultInv
<1> QED
  BY <1>1, CellsCorrect, PTL

\* A failed cell leaves the map before its waiters are released.
THEOREM FailuresLeave == Spec => []FailuresNotCached
<1>1. TypeOK /\ MapInv /\ ResultInv => FailuresNotCached
  BY DEF TypeOK, MapInv, ResultInv, FailuresNotCached
<1> QED
  BY <1>1, CellsCorrect, PTL

-----------------------------------------------------------------------------
(* One decision for each question *)
\* A call has a question once it has begun, and unless it is told of a hit the
\* cell it holds is its own.
HitInv ==
    /\ \A c \in Calls : pc[c] = "new" => key[c] = None
    /\ \A c \in Calls : pc[c] \notin {"new", "done"} \/ Answered(c)
                          => hit[c] \/ cell[c] = c

MemoInv == TypeOK /\ MapInv /\ ResultInv /\ HitInv

\* No call has begun.
LEMMA HitInit == Init => HitInv
BY DEF Init, HitInv, Answered

\* A call holds its own cell or was told of a hit.
LEMMA HitStep == TypeOK /\ ResultInv /\ HitInv /\ [Next]_vars => HitInv'
<1> SUFFICES ASSUME TypeOK, ResultInv, HitInv, [Next]_vars PROVE HitInv'
  OBVIOUS
<1> USE DEF TypeOK, HitInv, Answered, backend, results
<1>1. ASSUME NEW k \in Keys, Change(k)
      PROVE  HitInv'
  BY <1>1 DEF Change
<1>2. ASSUME NEW c \in Calls, NEW k \in Keys, Get(c, k)
      PROVE  HitInv'
  BY <1>2 DEF Get
<1>3. ASSUME NEW c \in Calls, Step(c) \/ Scribble(c)
      PROVE  HitInv'
  <2>1. CASE RpcAnswers(c)
    BY <1>3, <2>1 DEF RpcAnswers
  <2>2. CASE RpcFails(c)
    BY <1>3, <2>2 DEF RpcFails
  <2>3. CASE Delete(c)
    BY <1>3, <2>3 DEF Delete
  <2>4. CASE Close(c)
    BY <1>3, <2>4 DEF Close
  <2>5. CASE Return(c)
    BY <1>3, <2>5 DEF Return
  <2>6. CASE Scribble(c)
    BY <1>3, <2>6 DEF Scribble
  <2> QED
    BY <1>3, <2>1, <2>2, <2>3, <2>4, <2>5, <2>6 DEF Step
<1>4. CASE Over \/ UNCHANGED vars
  BY <1>4 DEF Over, vars
<1> QED
  BY <1>1, <1>2, <1>3, <1>4 DEF Next

\* All of it, in every state.
LEMMA MemoInvariant == Spec => []MemoInv
<1>1. Init => MemoInv
  BY TypeInit, MapInit, ResultInit, HitInit DEF MemoInv
<1>2. MemoInv /\ [Next]_vars => MemoInv'
  BY TypeStep, MapStep, ResultStep, HitStep DEF MemoInv
<1> QED
  BY <1>1, <1>2, PTL DEF Spec

\* Of the calls of a question that are answered at most one reports a miss: it
\* is the owner of the cell that was filled without error, of which there is one.
THEOREM OneMiss == Spec => []OneMissPerAnswer
<1>1. MemoInv => OneMissPerAnswer
  <2> SUFFICES ASSUME MemoInv, NEW c \in Calls, NEW d \in Calls,
                      Answered(c), Answered(d), key[c] = key[d], ~hit[c], ~hit[d]
               PROVE  c = d
    BY DEF OneMissPerAnswer
  <2>1. cell[c] = c /\ cell[d] = d /\ pc[c] # "new" /\ pc[d] # "new"
    BY DEF MemoInv, HitInv, Answered
  <2>2. cells[key[c]] = c /\ cells[key[d]] = d
    BY <2>1 DEF MemoInv, MapInv, ResultInv, Owner
  <2> QED
    BY <2>2
<1> QED
  BY <1>1, MemoInvariant, PTL

-----------------------------------------------------------------------------
(* The memo decides once *)

\* A question is decided as long as a filled cell of it is in the map.
LEMMA DecidedBy ==
    ASSUME MemoInv, NEW c \in Calls, Owner(c), err[c] = "none"
    PROVE  /\ cells[key[c]] = c /\ Decided[key[c]] = mem[CellOf(c)]
           /\ Decided[key[c]] \in Answers
BY CallAssumption DEF MemoInv, MapInv, ResultInv, TypeOK, Decided, Owner

\* No cell that is in the map changes.
LEMMA DecidedKept ==
    ASSUME MemoInv, UNCHANGED <<cells, err>>,
           \A c \in Calls : mem'[CellOf(c)] = mem[CellOf(c)]
    PROVE  Decided' = Decided
<1>1. \A k \in Keys : cells[k] \in Calls \cup {None}
  BY DEF MemoInv, TypeOK
<1> QED
  BY <1>1 DEF Decided

\* Outcomes change only with the ends of calls.
LEMMA OutcomeKept ==
    ASSUME UNCHANGED <<got, fail>>,
           \A c \in Calls : \/ pc'[c] = pc[c]
                            \/ {pc[c], pc'[c]} \cap {"panicked", "done"} = {}
    PROVE  Outcome' = Outcome
BY DEF Outcome

\* Nothing is decided at first.
LEMMA OnceInit == Init => Once!Init
<1> SUFFICES ASSUME Init PROVE Once!Init
  OBVIOUS
<1>1. Decided = [k \in Keys |-> None]
  BY DEF Init, Decided
<1>2. Outcome = [c \in Calls |-> None]
  BY DEF Init, Outcome
<1> QED
  BY <1>1, <1>2 DEF Init, Once!Init

\* Answers of a call that ends change its outcome only.
LEMMA OutcomeOf ==
    ASSUME MemoInv, NEW c \in Calls, NEW x,
           \A d \in Calls : d # c => pc'[d] = pc[d] /\ got'[d] = got[d] /\ fail'[d] = fail[d],
           \/ pc'[c] = "panicked" /\ x = "failed"
           \/ pc'[c] = "done" /\ fail'[c] # "none" /\ x = "failed"
           \/ pc'[c] = "done" /\ fail'[c] = "none" /\ x = got'[c]
    PROVE  Outcome' = [Outcome EXCEPT ![c] = x]
<1>1. \A d \in Calls : d # c => Outcome'[d] = Outcome[d]
  BY DEF Outcome
<1>2. Outcome'[c] = x
  BY DEF Outcome
<1>3. Outcome = [d \in Calls |-> Outcome[d]] /\ Outcome' = [d \in Calls |-> Outcome'[d]]
  BY DEF Outcome
<1> QED
  BY <1>1, <1>2, <1>3

\* A call that has begun and is not over has a question and no outcome.
LEMMA Pending ==
    ASSUME MemoInv, NEW c \in Calls, pc[c] \notin {"new", "done", "panicked"}
    PROVE  key[c] # None /\ key[c] \in Keys /\ Outcome[c] = None
BY KeyAssumption DEF MemoInv, TypeOK, Outcome

\* Finding or making a cell is asking.
LEMMA OnceGet ==
    ASSUME MemoInv, NEW c \in Calls, NEW k \in Keys, Get(c, k)
    PROVE  Once!Ask(c, k)
<1>1. key[c] = None /\ pc[c] = "new"
  BY DEF Get, MemoInv, HitInv
<1>2. Outcome' = Outcome
  <2>1. pc' \in [Calls -> Steps] /\ pc'[c] \in {"wait", "rpc"}
        /\ \A d \in Calls : d # c => pc'[d] = pc[d]
    BY <1>1 DEF Get, MemoInv, TypeOK, Steps
  <2> QED
    BY <1>1, <2>1, OutcomeKept DEF Get, results
<1>3. Decided' = Decided
  <2>1. CASE Stored(k)
    <3>1. UNCHANGED <<cells, err, mem>>
      BY <2>1 DEF Get
    <3> QED
      BY <3>1, DecidedKept
  <2>2. CASE ~Stored(k)
    <3>1. /\ cells' = [cells EXCEPT ![k] = c] /\ err' = [err EXCEPT ![c] = "aborted"]
          /\ mem' = mem /\ cells[k] = None
      BY <2>2 DEF Get, Stored
    <3>2. \A k2 \in Keys : cells[k2] # None => cells[k2] # c /\ cells[k2] \in Calls
      BY <1>1 DEF MemoInv, MapInv, Owner, TypeOK
    <3>3. \A k2 \in Keys : Decided'[k2] = Decided[k2]
      BY <3>1, <3>2 DEF Decided, MemoInv, TypeOK
    <3> QED
      BY <3>3 DEF Decided
  <2> QED
    BY <2>1, <2>2
<1> QED
  BY <1>1, <1>2, <1>3 DEF Once!Ask, Get, backend

\* The answer of the RPC decides the question.
LEMMA OnceAnswer ==
    ASSUME MemoInv, NEW c \in Calls, RpcAnswers(c)
    PROVE  Once!Decide(key[c])
<1>1. /\ Owner(c) /\ cells[key[c]] = c /\ err[c] # "none" /\ pc[c] = "rpc"
      /\ key[c] \in Keys /\ Outcome[c] = None
  BY Pending DEF RpcAnswers, MemoInv, MapInv, ResultInv
<1>2. /\ cells' = cells /\ err' = [err EXCEPT ![c] = "none"]
      /\ \A d \in Calls : mem'[CellOf(d)] = IF d = c THEN truth[key[c]] ELSE mem[CellOf(d)]
  BY PlacesDiffer DEF RpcAnswers, MemoInv, TypeOK
<1>3. Decided[key[c]] = None
  BY <1>1 DEF Decided
<1>4. Decided' = [Decided EXCEPT ![key[c]] = truth[key[c]]]
  <2>1. \A k \in Keys : cells[k] # None => cells[k] \in Calls /\ key[cells[k]] = k
    BY DEF MemoInv, TypeOK, MapInv
  <2>2. Decided'[key[c]] = truth[key[c]]
    BY <1>1, <1>2, CallAssumption DEF Decided, MemoInv, TypeOK
  <2>3. \A k \in Keys : k # key[c] => Decided'[k] = Decided[k]
    BY <1>2, <2>1 DEF Decided, MemoInv, TypeOK
  <2>4. Decided = [k \in Keys |-> Decided[k]] /\ Decided' = [k \in Keys |-> Decided'[k]]
    BY DEF Decided
  <2> QED
    BY <1>1, <2>2, <2>3, <2>4
<1>5. Outcome' = Outcome
  <2>1. pc'[c] = "close" /\ \A d \in Calls : d # c => pc'[d] = pc[d]
    BY DEF RpcAnswers, MemoInv, TypeOK
  <2> QED
    BY <1>1, <2>1, OutcomeKept DEF RpcAnswers, results
<1> QED
  BY <1>1, <1>3, <1>4, <1>5 DEF Once!Decide, RpcAnswers, backend

\* What is no step to the abstract memo: a failing fill, until its call ends.
LEMMA OnceQuiet ==
    ASSUME MemoInv, NEW c \in Calls,
           RpcFails(c) \/ Delete(c) \/ (Close(c) /\ c \notin panicking) \/ Scribble(c)
    PROVE  UNCHANGED <<truth, Decided, key, Outcome>>
<1>1. UNCHANGED <<truth, key, got, fail>>
  BY DEF RpcFails, Delete, Close, Scribble, backend, results
<1>2. Outcome' = Outcome
  <2>1. \A d \in Calls : \/ pc'[d] = pc[d]
                         \/ {pc[d], pc'[d]} \cap {"panicked", "done"} = {}
    BY DEF RpcFails, Delete, Close, Scribble, MemoInv, TypeOK
  <2> QED
    BY <1>1, <2>1, OutcomeKept
<1>3. Decided' = Decided
  <2>1. CASE RpcFails(c)
    <3>1. cells[key[c]] = c /\ err[c] # "none" /\ cells' = cells /\ mem' = mem
      BY <2>1 DEF RpcFails, MemoInv, MapInv, ResultInv
    <3>2. \A d \in Calls : err'[d] = err[d] \/ (err'[d] # "none" /\ err[d] # "none")
      BY <2>1, <3>1 DEF RpcFails, MemoInv, TypeOK
    <3>3. \A k \in Keys : Decided'[k] = Decided[k]
      BY <3>1, <3>2 DEF Decided, MemoInv, TypeOK
    <3> QED
      BY <3>3 DEF Decided
  <2>2. CASE Delete(c)
    <3>1. /\ cells[key[c]] = c /\ err[c] # "none" /\ cells' = [cells EXCEPT ![key[c]] = None]
          /\ err' = err /\ mem' = mem
      BY <2>2 DEF Delete, MemoInv, MapInv, ResultInv
    <3>2. \A k \in Keys : Decided'[k] = Decided[k]
      BY <3>1 DEF Decided, MemoInv, TypeOK
    <3> QED
      BY <3>2 DEF Decided
  <2>3. CASE Close(c)
    BY <2>3, DecidedKept DEF Close
  <2>4. CASE Scribble(c)
    <3>1. ret[c] = Clone(c)
      BY <2>4 DEF Scribble, MemoInv, ResultInv, Answered
    <3>2. \A d \in Calls : mem'[CellOf(d)] = mem[CellOf(d)]
      BY <2>4, <3>1, PlacesDiffer DEF Scribble, MemoInv, TypeOK
    <3> QED
      BY <2>4, <3>2, DecidedKept DEF Scribble
  <2> QED
    BY <2>1, <2>2, <2>3, <2>4
<1> QED
  BY <1>1, <1>2, <1>3

\* A panic that goes on is a failure.
LEMMA OncePanics ==
    ASSUME MemoInv, NEW c \in Calls, Close(c), c \in panicking
    PROVE  Once!Fail(c)
<1>1. pc[c] = "close" /\ pc'[c] = "panicked" /\ \A d \in Calls : d # c => pc'[d] = pc[d]
  BY DEF Close, MemoInv, TypeOK
<1>2. Outcome' = [Outcome EXCEPT ![c] = "failed"]
  BY <1>1, OutcomeOf DEF Close, results
<1>3. Decided' = Decided
  BY DecidedKept DEF Close
<1> QED
  BY <1>1, <1>2, <1>3, Pending DEF Once!Fail, Close, backend

\* A call returns what was decided, or fails.
LEMMA OnceReturns ==
    ASSUME MemoInv, NEW c \in Calls, Return(c)
    PROVE  Once!Reply(c) \/ Once!Fail(c)
<1>1. /\ pc[c] = "wait" /\ pc'[c] = "done" /\ fail'[c] = err[cell[c]]
      /\ \A d \in Calls : d # c => pc'[d] = pc[d] /\ fail'[d] = fail[d] /\ got'[d] = got[d]
      /\ UNCHANGED <<truth, key, cells, err>>
  BY DEF Return, MemoInv, TypeOK, backend
<1>2. cell[c] \in Calls /\ Owner(cell[c]) /\ key[cell[c]] = key[c]
  BY <1>1 DEF MemoInv, TypeOK, MapInv
<1>3. Decided' = Decided
  <2>1. \A d \in Calls : mem'[CellOf(d)] = mem[CellOf(d)]
    BY PlacesDiffer DEF Return, MemoInv, TypeOK
  <2> QED
    BY <1>1, <2>1, DecidedKept
<1>4. CASE err[cell[c]] = "none"
  <2>1. Decided[key[c]] = mem[CellOf(cell[c])] /\ Decided[key[c]] # None
    BY <1>2, <1>4, DecidedBy, AnswerAssumption
  <2>2. got'[c] = Decided[key[c]]
    BY <1>4, <2>1 DEF Return, MemoInv, TypeOK
  <2>3. Outcome' = [Outcome EXCEPT ![c] = Decided[key[c]]]
    BY <1>1, <1>4, <2>2, OutcomeOf
  <2> QED
    BY <1>1, <1>3, <2>1, <2>3, Pending DEF Once!Reply
<1>5. CASE err[cell[c]] # "none"
  <2>1. Outcome' = [Outcome EXCEPT ![c] = "failed"]
    BY <1>1, <1>5, OutcomeOf
  <2> QED
    BY <1>1, <1>3, <2>1, Pending DEF Once!Fail
<1> QED
  BY <1>4, <1>5

\* The memo implements DecisionOnce: a question is decided when its cell is
\* filled, and a call ends when it returns or its panic goes on.
THEOREM DecidesOnce == Spec => ImplementsOnce
<1>1. ASSUME MemoInv, [Next]_vars
      PROVE  [Once!Next]_(Once!vars)
  <2>1. ASSUME NEW k \in Keys, Change(k)
        PROVE  Once!Change(k)
    <3>1. UNCHANGED <<cells, err, mem, key, got, fail, pc>>
      BY <2>1 DEF Change, results
    <3>2. Decided' = Decided /\ Outcome' = Outcome
      BY <1>1, <3>1, DecidedKept, OutcomeKept
    <3> QED
      BY <2>1, <3>1, <3>2 DEF Change, Once!Change
  <2>2. ASSUME NEW c \in Calls, NEW k \in Keys, Get(c, k)
        PROVE  Once!Next
    BY <1>1, <2>2, OnceGet DEF Once!Next
  <2>3. ASSUME NEW c \in Calls, Step(c) \/ Scribble(c)
        PROVE  [Once!Next]_(Once!vars)
    <3>1. CASE RpcAnswers(c)
      <4>1. key[c] \in Keys
        BY <1>1, <3>1, Pending DEF RpcAnswers
      <4> QED
        BY <1>1, <3>1, <4>1, OnceAnswer DEF Once!Next
    <3>2. CASE RpcFails(c) \/ Delete(c) \/ (Close(c) /\ c \notin panicking) \/ Scribble(c)
      BY <1>1, <3>2, OnceQuiet DEF Once!vars
    <3>3. CASE Close(c) /\ c \in panicking
      BY <1>1, <3>3, OncePanics DEF Once!Next
    <3>4. CASE Return(c)
      BY <1>1, <3>4, OnceReturns DEF Once!Next
    <3> QED
      BY <2>3, <3>1, <3>2, <3>3, <3>4 DEF Step
  <2>4. CASE Over \/ UNCHANGED vars
    <3>1. UNCHANGED <<truth, key, cells, err, mem, pc, got, fail>>
      BY <2>4 DEF Over, vars, backend, results
    <3>2. Decided' = Decided /\ Outcome' = Outcome
      BY <1>1, <3>1, DecidedKept, OutcomeKept
    <3> QED
      BY <3>1, <3>2 DEF Once!vars
  <2> QED
    BY <1>1, <2>1, <2>2, <2>3, <2>4 DEF Next, Once!Next
<1> QED
  BY <1>1, OnceInit, MemoInvariant, PTL DEF Spec, ImplementsOnce, Once!Spec
=============================================================================
