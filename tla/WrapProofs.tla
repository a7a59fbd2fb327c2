------------------------------ MODULE WrapProofs ------------------------------
(***************************************************************************)
(* Safety of the middleware of Wrap, for any users, relations, routes and  *)
(* any course of writes.                                                   *)
(***************************************************************************)
EXTENDS Wrap, SequenceTheorems, TLAPS

Before  == {"idle", "cookie", "resolve"}
Wrapping == {"checkTs", "memo"}

\* user.check and user.list once they are wrapped.
Prepared ==
    /\ check.memo = req.memo /\ list.memo = req.memo
    /\ req.checkTs # None => check.ts = req.checkTs

\* What the request is at each step.
StepInv ==
    /\ pc \in Steps
    /\ versions \in Seq(SUBSET Grants) /\ Latest >= 1
    /\ pc # "idle" => req \in Requests /\ req.checkTs \in {None} \cup 1..Latest
    /\ user \in Users \cup {None} /\ principal \in Users \cup {None}
    /\ check \in [ts : 1..Latest, memo : BOOLEAN] /\ list \in [ts : 1..Latest, memo : BOOLEAN]
    /\ pc \in Before => user = None
    /\ pc \in Wrapping \cup {"gate"} => user # None
    /\ pc \in Before \cup Wrapping => ~check.memo /\ ~list.memo
    /\ pc = "memo" => (req.checkTs # None => check.ts = req.checkTs)
    /\ pc = "gate" \/ principal # None => Prepared
    /\ pc \in Before \cup Wrapping \cup {"gate"} =>
           principal = None /\ memo = <<>> /\ rpcs = <<>> /\ told = {}
    /\ user = None => principal = None /\ rpcs = <<>> /\ told = {}
    /\ pc = "handler" /\ principal = None => user = None /\ req.public /\ ~req.cookie

\* What it has been told of checks was true when the cookie says, or later.
ToldInv ==
    /\ told \subseteq Questions \X Answers
    /\ pc # "idle" => \A t \in told : t[1].op = "check" => TrueSinceCookie(t[1], t[2])

\* Who got past the gate was told so.
GateInv ==
    pc = "handler" /\ principal # None
        => <<Question("check", user, "own", req.gate), "yes">> \in told

\* On a route with the memo, that is where the answers are; and only a question
\* that is not there goes out.
MemoInv ==
    /\ rpcs \in Seq(Questions \X Outcomes)
    /\ DOMAIN memo \subseteq Questions
    /\ \A q \in DOMAIN memo : memo[q] \in Answers /\ <<q, memo[q]>> \in told
    /\ pc # "idle" /\ req.memo =>
         /\ \A t \in told : t[1] \in DOMAIN memo /\ memo[t[1]] = t[2]
         /\ \A i \in DOMAIN rpcs : rpcs[i][2] # "error" => rpcs[i][1] \in DOMAIN memo
         /\ \A i, j \in DOMAIN rpcs :
                i < j /\ rpcs[i][1] = rpcs[j][1] => rpcs[i][2] = "error"

WrapInv == StepInv /\ ToldInv /\ GateInv /\ MemoInv

-----------------------------------------------------------------------------

\* No request yet.
LEMMA Initial ==
    ASSUME Init
    PROVE  WrapInv
BY DEF Init, WrapInv, StepInv, ToldInv, GateInv, MemoInv, Steps, Before, Wrapping, Latest,
       Plain, TimestampEmpty

\* What the invariant says of a request.
LEMMA Consequences ==
    ASSUME WrapInv, pc # "idle"
    PROVE  ChecksFollowCookie /\ OneInstant /\ OneRpcPerQuestion
BY DEF WrapInv, ToldInv, MemoInv, ChecksFollowCookie, OneInstant, OneRpcPerQuestion

\* Nobody has been told anything yet.
LEMMA IdleConsequences ==
    ASSUME WrapInv, pc = "idle"
    PROVE  ChecksFollowCookie /\ OneInstant /\ OneRpcPerQuestion
BY DEF WrapInv, StepInv, Before, ChecksFollowCookie, OneInstant, OneRpcPerQuestion

-----------------------------------------------------------------------------
(* One question *)

\* What the client says of a check, by itself or from the backend, was true at
\* a version the cookie allows.
LEMMA DirectTrue ==
    ASSUME StepInv, pc # "idle", Prepared, NEW q \in Questions, NEW answer \in Answers,
           Direct(q, answer), q.op = "check"
    PROVE  TrueSinceCookie(q, answer)
<1>1. /\ Latest \in Nat /\ check.ts \in 1..Latest
      /\ req.checkTs # None => check.ts = req.checkTs
  BY DEF StepInv, Latest, Prepared
<1>2. CASE q.rel = Impossible
  <2>1. answer = "no"
    BY <1>2 DEF Direct
  <2>2. versions[check.ts] \subseteq Grants
    BY <1>1 DEF StepInv, Latest
  <2>3. ~HeldAt(q, check.ts)
    BY <1>2, <2>2 DEF HeldAt, Grants
  <2> QED
    BY <1>1, <2>1, <2>3 DEF TrueSinceCookie, Said
<1>3. CASE q.rel # Impossible
  <2>1. PICK version \in check.ts..Latest : answer = Said(HeldAt(q, version))
    BY <1>3 DEF Direct, Rpc, Func, Answers
  <2>2. version \in 1..Latest /\ (req.checkTs # None => version >= req.checkTs)
    BY <1>1, <2>1
  <2> QED
    BY <2>1, <2>2 DEF TrueSinceCookie
<1> QED
  BY <1>2, <1>3

\* It appends at most the question to what went out.
LEMMA DirectSends ==
    ASSUME MemoInv, NEW q \in Questions, NEW answer \in Outcomes, Direct(q, answer)
    PROVE  /\ rpcs' \in Seq(Questions \X Outcomes)
           /\ DOMAIN rpcs = 1..Len(rpcs) /\ Len(rpcs) \in Nat
           /\ \A i \in DOMAIN rpcs' :
                \/ i \in DOMAIN rpcs /\ rpcs'[i] = rpcs[i]
                \/ i = Len(rpcs) + 1 /\ rpcs'[i] = <<q, answer>>
<1> DEFINE Sent == Questions \X Outcomes
           new  == <<q, answer>>
<1>1. new \in Sent /\ rpcs \in Seq(Sent)
  BY DEF MemoInv
<1>2. rpcs' = rpcs \/ rpcs' = Append(rpcs, new)
  BY DEF Direct, Rpc
<1> HIDE DEF Sent, new
<1>3. /\ rpcs' \in Seq(Sent)
      /\ DOMAIN rpcs = 1..Len(rpcs) /\ Len(rpcs) \in Nat
      /\ \A i \in DOMAIN rpcs' :
           \/ i \in DOMAIN rpcs /\ rpcs'[i] = rpcs[i]
           \/ i = Len(rpcs) + 1 /\ rpcs'[i] = new
  BY <1>1, <1>2
<1> QED
  BY <1>3 DEF Sent, new

\* An answer is true since the cookie, from the backend or the memo.
LEMMA AskTrue ==
    ASSUME WrapInv, pc # "idle", pc' # "idle", Prepared, UNCHANGED <<versions, req>>,
           NEW q \in Questions, NEW answer \in Outcomes, Ask(q, answer)
    PROVE  /\ ToldInv'
           /\ told \subseteq told'
           /\ answer # "error" => <<q, answer>> \in told'
<1>1. told' = IF answer = "error" THEN told ELSE told \cup {<<q, answer>>}
  BY DEF Ask, Tell
<1>2. answer # "error" => answer \in Answers
  BY DEF Outcomes
<1>3. answer # "error" /\ q.op = "check" => TrueSinceCookie(q, answer)
  <2>1. CASE q \in DOMAIN memo /\ answer = memo[q]
    BY <2>1 DEF WrapInv, ToldInv, MemoInv
  <2>2. CASE Direct(q, answer)
    BY <1>2, <2>2, DirectTrue DEF WrapInv
  <2> QED
    BY <2>1, <2>2 DEF Ask
<1>4. \A p, a : TrueSinceCookie(p, a) => TrueSinceCookie(p, a)'
  BY DEF TrueSinceCookie, HeldAt, Latest, Said
<1> QED
  BY <1>1, <1>2, <1>3, <1>4 DEF WrapInv, ToldInv

\* ... and is kept where the route has a memo.
LEMMA AskMemo ==
    ASSUME WrapInv, pc # "idle", pc' # "idle", Prepared, UNCHANGED <<versions, req>>,
           NEW q \in Questions, NEW answer \in Outcomes, Ask(q, answer)
    PROVE  MemoInv'
<1>1. told' = IF answer = "error" THEN told ELSE told \cup {<<q, answer>>}
  BY DEF Ask, Tell
<1>2. /\ MemoInv /\ (answer # "error" => answer \in Answers)
      /\ Func(q).memo = req.memo
  BY DEF WrapInv, Outcomes, Prepared, Func
<1>3. CASE q \in DOMAIN memo /\ answer = memo[q] /\ UNCHANGED <<memo, rpcs>>
  <2>1. told' = told
    BY <1>1, <1>2, <1>3 DEF MemoInv
  <2> QED
    BY <1>2, <1>3, <2>1 DEF MemoInv
<1>4. CASE req.memo /\ q \notin DOMAIN memo /\ Direct(q, answer) /\ memo' = Kept(q, answer)
  <2>1. /\ rpcs' \in Seq(Questions \X Outcomes)
        /\ DOMAIN rpcs = 1..Len(rpcs) /\ Len(rpcs) \in Nat
        /\ \A i \in DOMAIN rpcs' :
             \/ i \in DOMAIN rpcs /\ rpcs'[i] = rpcs[i]
             \/ i = Len(rpcs) + 1 /\ rpcs'[i] = <<q, answer>>
    BY <1>2, <1>4, DirectSends
  <2>2. /\ \A i \in DOMAIN rpcs : rpcs[i][2] # "error" => rpcs[i][1] \in DOMAIN memo
        /\ \A i, j \in DOMAIN rpcs :
             i < j /\ rpcs[i][1] = rpcs[j][1] => rpcs[i][2] = "error"
    BY <1>2, <1>4 DEF MemoInv
  <2>3. /\ DOMAIN memo \subseteq DOMAIN memo'
        /\ \A p \in DOMAIN memo : memo'[p] = memo[p]
        /\ DOMAIN memo' \subseteq DOMAIN memo \cup {q}
        /\ answer # "error" => q \in DOMAIN memo' /\ memo'[q] = answer
        /\ answer = "error" => q \notin DOMAIN memo'
    <3>1. CASE answer = "error"
      BY <1>4, <3>1 DEF Kept
    <3>2. CASE answer # "error"
      <4>1. /\ DOMAIN memo' = DOMAIN memo \cup {q}
            /\ memo'[q] = answer
            /\ \A p \in DOMAIN memo : p # q => memo'[p] = memo[p]
        BY <1>4, <3>2 DEF Kept, With
      <4> QED
        BY <1>4, <3>2, <4>1
    <3> QED
      BY <3>1, <3>2
  <2>4. \A p \in DOMAIN memo' : memo'[p] \in Answers /\ <<p, memo'[p]>> \in told'
    BY <1>1, <1>2, <2>3 DEF MemoInv
  <2>5. \A t \in told' : t[1] \in DOMAIN memo' /\ memo'[t[1]] = t[2]
    BY <1>1, <1>2, <1>4, <2>3 DEF MemoInv
  <2>6. \A i \in DOMAIN rpcs' : rpcs'[i][2] # "error" => rpcs'[i][1] \in DOMAIN memo'
    BY <2>1, <2>2, <2>3
  <2>7. ASSUME NEW i \in DOMAIN rpcs', NEW j \in DOMAIN rpcs',
               i < j, rpcs'[i][1] = rpcs'[j][1], rpcs'[i][2] # "error"
        PROVE  FALSE
    <3>1. i \in DOMAIN rpcs /\ rpcs'[i] = rpcs[i] /\ rpcs[i][1] \in DOMAIN memo
      BY <1>4, <2>1, <2>2, <2>7
    <3>2. j \in DOMAIN rpcs /\ rpcs'[j] = rpcs[j]
      BY <1>4, <2>1, <2>7, <3>1
    <3> QED
      BY <2>2, <2>7, <3>1, <3>2
  <2> QED
    BY <1>2, <2>1, <2>3, <2>4, <2>5, <2>6, <2>7 DEF MemoInv
<1>5. CASE ~req.memo /\ Direct(q, answer) /\ UNCHANGED memo
  <2>1. rpcs' \in Seq(Questions \X Outcomes)
    BY <1>2, <1>5, DirectSends DEF MemoInv
  <2> QED
    BY <1>1, <1>2, <1>5, <2>1 DEF MemoInv
<1> QED
  BY <1>2, <1>3, <1>4, <1>5 DEF Ask

-----------------------------------------------------------------------------
(* Every step *)

\* A write leaves the versions that were as they were.
LEMMA WriteKeeps ==
    ASSUME WrapInv, Write
    PROVE  WrapInv'
<1>1. PICK grants \in SUBSET Grants : versions' = Append(versions, grants)
  BY DEF Write
<1>2. UNCHANGED <<req, pc, user, principal, funcs, memo, calls, history, status>>
      /\ UNCHANGED <<check, list, rpcs, told>>
  BY DEF Write, funcs, history
<1>3. /\ versions' \in Seq(SUBSET Grants)
      /\ Latest \in Nat /\ Latest' = Latest + 1
      /\ \A version \in 1..Latest : versions'[version] = versions[version]
  BY <1>1 DEF WrapInv, StepInv, Latest
<1>4. StepInv'
  BY <1>2, <1>3 DEF WrapInv, StepInv, Prepared
<1>5. \A q, answer : TrueSinceCookie(q, answer) => TrueSinceCookie(q, answer)'
  BY <1>2, <1>3 DEF TrueSinceCookie, HeldAt, Said
<1>6. ToldInv'
  BY <1>2, <1>5 DEF WrapInv, ToldInv
<1>7. GateInv' /\ MemoInv'
  BY <1>2 DEF WrapInv, GateInv, MemoInv
<1> QED
  BY <1>4, <1>6, <1>7 DEF WrapInv

\* Steps before anybody is asked about.
LEMMA EarlyStepKeeps ==
    ASSUME WrapInv, Extract \/ ReadCookie \/ ResolveToken
    PROVE  WrapInv'
<1>1. /\ UNCHANGED <<versions, principal, check, list, memo, rpcs, told>>
      /\ pc \in Before /\ pc' \in Steps \ {"idle"}
  BY DEF Extract, ReadCookie, ResolveToken, Respond, Before, Steps, After, funcs, history
<1>2. memo = <<>> /\ rpcs = <<>> /\ told = {} /\ user = None /\ principal = None
  BY <1>1 DEF WrapInv, StepInv
<1>3. req' \in Requests /\ req'.checkTs \in {None} \cup 1..Latest
  BY <1>1 DEF Extract, ReadCookie, ResolveToken, WrapInv, StepInv, Before
<1>4. /\ user' \in Users \cup {None}
      /\ pc' = "checkTs" => user' # None
      /\ pc' \in Before => user' = None
      /\ pc' \notin {"memo", "gate"}
      /\ pc' = "handler" => user' = None /\ req'.public /\ ~req'.cookie
  BY <1>2, UserAssumption DEF Extract, ReadCookie, ResolveToken, Respond, Before, After
<1>5. StepInv'
  BY <1>1, <1>2, <1>3, <1>4 DEF WrapInv, StepInv, Latest, Before, Wrapping
<1>6. ToldInv' /\ GateInv' /\ MemoInv'
  BY <1>1, <1>2, <1>4 DEF WrapInv, ToldInv, GateInv, MemoInv
<1> QED
  BY <1>5, <1>6 DEF WrapInv

\* The cookie's check first, then the memo around what the user has by then.
LEMMA WrappingKeeps ==
    ASSUME WrapInv, ReadCheckTs \/ WrapMemo
    PROVE  WrapInv'
<1>1. /\ UNCHANGED <<versions, req, user, principal, memo, rpcs, told>>
      /\ pc \in Wrapping /\ pc' \in {"memo", "gate"}
  BY DEF ReadCheckTs, WrapMemo, After, Wrapping, history
<1>2. /\ req \in Requests /\ req.checkTs \in {None} \cup 1..Latest /\ user # None
      /\ ~check.memo /\ ~list.memo
      /\ check \in [ts : 1..Latest, memo : BOOLEAN] /\ list \in [ts : 1..Latest, memo : BOOLEAN]
      /\ principal = None /\ memo = <<>> /\ rpcs = <<>> /\ told = {}
  BY <1>1 DEF WrapInv, StepInv, Wrapping
<1>3. CASE ReadCheckTs
  <2>1. /\ pc' = "memo" /\ UNCHANGED list
        /\ check' \in [ts : 1..Latest, memo : BOOLEAN] /\ ~check'.memo
        /\ req.checkTs # None => check'.ts = req.checkTs
    BY <1>2, <1>3 DEF ReadCheckTs, After
  <2> QED
    BY <1>1, <1>2, <2>1 DEF WrapInv, StepInv, ToldInv, GateInv, MemoInv, Latest, Before,
                            Wrapping, Steps
<1>4. CASE WrapMemo
  <2>1. /\ pc' = "gate"
        /\ check' \in [ts : 1..Latest, memo : BOOLEAN] /\ list' \in [ts : 1..Latest, memo : BOOLEAN]
        /\ check'.ts = check.ts /\ check'.memo = req.memo /\ list'.memo = req.memo
    BY <1>2, <1>4 DEF WrapMemo, After, Requests
  <2>2. Prepared'
    BY <1>1, <1>4, <2>1 DEF WrapMemo, Prepared, WrapInv, StepInv
  <2> QED
    BY <1>1, <1>2, <2>1, <2>2 DEF WrapInv, StepInv, ToldInv, GateInv, MemoInv, Latest, Before,
                                  Wrapping, Steps
<1> QED
  BY <1>3, <1>4

\* The gate opens for a yes only.
LEMMA GateKeeps ==
    ASSUME WrapInv, Gate
    PROVE  WrapInv'
<1>1. PICK answer \in Outcomes :
         /\ Ask(Question("check", user, "own", req.gate), answer)
         /\ \/ answer = "yes" /\ pc' = "handler" /\ principal' \in Users
            \/ pc' = "done" /\ UNCHANGED principal
  BY DEF Gate, Respond
<1>2. pc = "gate" /\ UNCHANGED <<versions, req, user, check, list, calls>>
  BY DEF Gate, funcs
<1>3. /\ user \in Users /\ user # None /\ principal = None /\ req \in Requests /\ Prepared
      /\ Question("check", user, "own", req.gate) \in Questions
  BY <1>2 DEF WrapInv, StepInv, Question, Questions, Requests, Objects
<1>4. ToldInv' /\ MemoInv' /\ (answer = "yes" =>
          <<Question("check", user, "own", req.gate), answer>> \in told')
  BY <1>1, <1>2, <1>3, AskTrue, AskMemo
<1>5. StepInv'
  BY <1>1, <1>2, <1>3, UserAssumption
     DEF WrapInv, StepInv, Before, Wrapping, Steps, Latest, Prepared
<1>6. GateInv'
  BY <1>1, <1>2, <1>3, <1>4 DEF GateInv, Question
<1> QED
  BY <1>4, <1>5, <1>6 DEF WrapInv

\* The handler asks, or nobody is asked for a stranger.
LEMMA AskingKeeps ==
    ASSUME WrapInv, NEW op \in {"check", "list"}, NEW obj \in Objects, NEW rel \in Rels,
           Asking,
           \/ /\ principal # None
              /\ \E answer \in Outcomes : Ask(Question(op, principal, obj, rel), answer)
           \/ principal = None /\ UNCHANGED <<memo, rpcs, told>>
    PROVE  WrapInv'
<1>1. pc = "handler" /\ pc' = "handler" /\ UNCHANGED <<versions, req, user, principal, check, list>>
  BY DEF Asking, funcs
<1>2. CASE principal # None
  <2>1. PICK answer \in Outcomes : Ask(Question(op, principal, obj, rel), answer)
    BY <1>2
  <2>2. Question(op, principal, obj, rel) \in Questions /\ Prepared /\ user # None
    BY <1>2 DEF WrapInv, StepInv, Question, Questions
  <2>3. ToldInv' /\ MemoInv' /\ told \subseteq told'
    BY <1>1, <2>1, <2>2, AskTrue, AskMemo
  <2>4. StepInv'
    BY <1>1, <1>2, <2>2 DEF WrapInv, StepInv, Before, Wrapping, Latest, Prepared
  <2>5. GateInv'
    BY <1>1, <2>3 DEF WrapInv, GateInv, Question
  <2> QED
    BY <2>3, <2>4, <2>5 DEF WrapInv
<1>3. CASE UNCHANGED <<memo, rpcs, told>>
  <2>1. StepInv' /\ GateInv' /\ MemoInv'
    BY <1>1, <1>3 DEF WrapInv, StepInv, GateInv, MemoInv, Latest, Prepared, Question
  <2>2. ToldInv'
    BY <1>1, <1>3 DEF WrapInv, ToldInv, TrueSinceCookie, HeldAt, Latest, Said
  <2> QED
    BY <2>1, <2>2 DEF WrapInv
<1> QED
  BY <1>2, <1>3

\* The end of a request, and after.
LEMMA EndKeeps ==
    ASSUME WrapInv, HandlerReturns \/ UNCHANGED vars
    PROVE  WrapInv'
<1>1. CASE HandlerReturns
  <2>1. pc = "handler" /\ pc' = "done"
        /\ UNCHANGED <<versions, req, user, principal, check, list, memo, rpcs, told>>
    BY <1>1 DEF HandlerReturns, Respond, funcs, history
  <2>2. StepInv' /\ GateInv' /\ MemoInv'
    BY <2>1 DEF WrapInv, StepInv, GateInv, MemoInv, Latest, Prepared, Before, Wrapping, Steps
  <2>3. ToldInv'
    BY <2>1 DEF WrapInv, ToldInv, TrueSinceCookie, HeldAt, Latest, Said
  <2> QED
    BY <2>2, <2>3 DEF WrapInv
<1>2. CASE UNCHANGED vars
  <2>1. StepInv' /\ GateInv' /\ MemoInv'
    BY <1>2 DEF vars, WrapInv, StepInv, GateInv, MemoInv, Latest, Prepared, Question
  <2>2. ToldInv'
    BY <1>2 DEF vars, WrapInv, ToldInv, TrueSinceCookie, HeldAt, Latest, Said
  <2> QED
    BY <2>1, <2>2 DEF WrapInv
<1> QED
  BY <1>1, <1>2

\* Every step.
LEMMA WrapStep == WrapInv /\ [Next]_vars => WrapInv'
<1> SUFFICES ASSUME WrapInv, [Next]_vars PROVE WrapInv'
  OBVIOUS
<1>1. ASSUME NEW rel \in Rels, NEW obj \in Objects, HasRel(obj, rel)
      PROVE  WrapInv'
  BY <1>1, AskingKeeps DEF HasRel
<1>2. ASSUME NEW rel \in Rels, List(rel)
      PROVE  WrapInv'
  BY <1>2, AskingKeeps DEF List, Objects
<1> QED
  BY <1>1, <1>2, WriteKeeps, EarlyStepKeeps, WrappingKeeps, GateKeeps, EndKeeps DEF Next, Over

\* In every state of a request.
THEOREM WrapInvariant == Spec => []WrapInv
BY Initial, WrapStep, PTL DEF Spec

\* A handler runs for a principal only if the backend granted the relation the
\* resource requires to the token's user, at or after the write the check_ts cookie
\* names (gate of Wrap).
THEOREM HandlersAreAuthorized == Spec => []HandlerAuthorized
<1>1. WrapInv => HandlerAuthorized
  BY DEF WrapInv, StepInv, ToldInv, GateInv, HandlerAuthorized, Question
<1> QED
  BY <1>1, WrapInvariant, PTL

\* For a request whose token resolved to nobody no question leaves, and only a
\* public resource without a session cookie is served to a stranger.
THEOREM StrangersAreNobody == Spec => []StrangersAskNothing
<1>1. WrapInv => StrangersAskNothing
  BY DEF WrapInv, StepInv, StrangersAskNothing
<1> QED
  BY <1>1, WrapInvariant, PTL

\* No check of a request is answered from before the write its cookie names,
\* by the backend or by the memo.
THEOREM CookieFollowed == Spec => []ChecksFollowCookie
<1>1. WrapInv => ChecksFollowCookie
  BY Consequences, IdleConsequences
<1> QED
  BY <1>1, WrapInvariant, PTL

\* On a route with the memo equal questions have equal answers ...
THEOREM RequestIsOneInstant == Spec => []OneInstant
<1>1. WrapInv => OneInstant
  BY Consequences, IdleConsequences
<1> QED
  BY <1>1, WrapInvariant, PTL

\* ... and cost one RPC, unless it failed.
THEOREM QuestionsCostOneRpc == Spec => []OneRpcPerQuestion
<1>1. WrapInv => OneRpcPerQuestion
  BY Consequences, IdleConsequences
<1> QED
  BY <1>1, WrapInvariant, PTL

-----------------------------------------------------------------------------
(* Types *)

\* What of the types the invariant above leaves open.
Limits ==
    /\ Latest <= MaxVersions
    /\ calls \in 0..MaxCalls
    /\ status \in Statuses
    /\ pc = "idle" => req = None

\* Every step.
LEMMA LimitsStep == WrapInv /\ Limits /\ [Next]_vars => Limits'
<1> SUFFICES ASSUME WrapInv, Limits, [Next]_vars PROVE Limits'
  OBVIOUS
<1>1. Latest \in Nat /\ MaxVersions \in Nat /\ MaxCalls \in Nat /\ calls \in Nat
  BY BoundAssumption DEF Limits, WrapInv, StepInv, Latest
<1>2. CASE Write
  <2>1. Latest' = Latest + 1 /\ Latest < MaxVersions
    BY <1>2 DEF Write, WrapInv, StepInv, Latest
  <2> QED
    BY <1>1, <1>2, <2>1 DEF Write, Limits
<1>3. CASE \/ Extract \/ ReadCookie \/ ResolveToken \/ ReadCheckTs \/ WrapMemo
             \/ Gate \/ HandlerReturns
  <2>1. UNCHANGED <<versions, calls>> /\ pc' # "idle"
    BY <1>3 DEF Extract, ReadCookie, ResolveToken, ReadCheckTs, WrapMemo, Gate,
                HandlerReturns, Respond, After
  <2>2. status' \in Statuses
    BY <1>3 DEF Extract, ReadCookie, ResolveToken, ReadCheckTs, WrapMemo, Gate,
                HandlerReturns, Respond, Limits, Statuses
  <2> QED
    BY <2>1, <2>2 DEF Limits, Latest
<1>4. CASE Asking
  BY <1>1, <1>4 DEF Asking, Limits, Latest
<1>5. CASE UNCHANGED vars
  BY <1>5 DEF vars, Limits, Latest
<1> QED
  BY <1>2, <1>3, <1>4, <1>5 DEF Next, Over, List, HasRel

\* Every variable keeps its type, and the history its bounds.
THEOREM TypeCorrect == Spec => []TypeOK
<1>1. Init => WrapInv /\ Limits
  BY Initial, BoundAssumption DEF Init, Limits, Latest, Statuses
<1>2. WrapInv /\ Limits => TypeOK
  <2> SUFFICES ASSUME WrapInv, Limits PROVE TypeOK
    OBVIOUS
  <2>1. /\ Latest \in 1..MaxVersions
        /\ \A version \in 1..Latest : versions[version] \subseteq Grants
    BY BoundAssumption DEF WrapInv, StepInv, Limits, Latest
  <2>2. \A i \in DOMAIN rpcs : rpcs[i] \in Questions \X Outcomes
    BY DEF WrapInv, MemoInv
  <2>3. check \in AskFuncs /\ list \in AskFuncs
    <3>1. 1..Latest \subseteq 1..MaxVersions
      BY <2>1, BoundAssumption
    <3>2. /\ check \in [ts : 1..Latest, memo : BOOLEAN]
          /\ list \in [ts : 1..Latest, memo : BOOLEAN]
      BY DEF WrapInv, StepInv
    <3> QED
      BY <3>1, <3>2 DEF AskFuncs
  <2> QED
    BY <2>1, <2>2, <2>3 DEF WrapInv, StepInv, ToldInv, MemoInv, Limits, TypeOK
<1> QED
  BY <1>1, <1>2, LimitsStep, WrapInvariant, PTL DEF Spec
=============================================================================
