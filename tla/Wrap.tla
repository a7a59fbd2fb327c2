-------------------------------- MODULE Wrap --------------------------------
(***************************************************************************)
(* One HTTP request through Wrap of src/wrap.go: extract, session cookie,  *)
(* token resolution, check_ts cookie, memo, gate check, handler; and the   *)
(* questions the handler asks through User (src/user.go) of the check      *)
(* backend (src/client.go).                                                *)
(*                                                                         *)
(* The backend keeps every version of the grants.  It evaluates a question *)
(* at some version at least as fresh as the question's timestamp, and of   *)
(* its choice: two questions of a request may see different versions.      *)
(***************************************************************************)
EXTENDS Integers, Sequences

CONSTANTS
    Users,
    Rels,         \* relations of the resource and of the questions
    Impossible,   \* the relation nobody has
    None,
    MaxVersions,  \* bound: versions of the grants
    MaxCalls      \* bound: questions a handler asks

ASSUME UserAssumption  == None \notin Users
ASSUME BoundAssumption == MaxVersions \in Nat \ {0} /\ MaxCalls \in Nat

(***************************************************************************)
(* A question is about the route's own object, or what HasRel makes of two *)
(* arguments: an object with no namespace.  A list question stands for     *)
(* whether the route's object is in the list.                              *)
(***************************************************************************)
Objects   == {"own", "unnamed"}
Questions == [op : {"check", "list"}, sub : Users, obj : Objects, rel : Rels]
Grants    == [sub : Users, rel : Rels \ {Impossible}]

Question(op, sub, obj, rel) == [op |-> op, sub |-> sub, obj |-> obj, rel |-> rel]

\* TimestampEmpty is no constraint: any version will do.
TimestampEmpty == 1

Requests == [extract : {"resource", "failed", "handled"},
             public : BOOLEAN, gate : Rels, cookie : BOOLEAN,
             checkTs : {None} \cup 1..MaxVersions, memo : BOOLEAN]

Statuses == {"none", "handled", "ok", "signin", "forbidden", "not found",
             "problem", "server error"}
Steps    == {"idle", "cookie", "resolve", "checkTs", "memo", "gate", "handler",
             "done"}

(***************************************************************************)
(* The functions user.check and user.list as values: the timestamp they    *)
(* ask at, and whether requestMemo is wrapped around them.                 *)
(***************************************************************************)
AskFuncs == [ts : 1..MaxVersions, memo : BOOLEAN]

\* wrapper.Check and wrapper.List.
Plain == [ts |-> TimestampEmpty, memo |-> FALSE]

VARIABLES
    versions,  \* backend: the grants of each version, latest last
    req,       \* the request and the route's options
    pc,
    user,      \* userId: who the token resolved to
    principal, \* user.principal: who the gate's grant named, if anyone yet
    check,     \* user.check
    list,      \* user.list
    memo,      \* requestMemo: answers by question
    calls,     \* questions the handler asked
    rpcs,      \* history: <<question, answer>> of the calls to the backend
    told,      \* history: <<question, answer>> of every answer given
    status     \* the response

vars == <<versions, req, pc, user, principal, check, list, memo, calls, rpcs,
          told, status>>
funcs   == <<check, list>>
history == <<rpcs, told>>

Latest == Len(versions)

Init ==
    /\ \E grants \in SUBSET Grants : versions = <<grants>>
    /\ req = None
    /\ pc = "idle"
    /\ user = None
    /\ principal = None
    /\ check = Plain
    /\ list = Plain
    /\ memo = <<>>
    /\ calls = 0
    /\ rpcs = <<>>
    /\ told = {}
    /\ status = "none"

\* A client writes tuples; the handler may be that client.
Write ==
    /\ Latest < MaxVersions
    /\ \E grants \in SUBSET Grants \ {versions[Latest]} :
           versions' = Append(versions, grants)
    /\ UNCHANGED <<req, pc, user, principal, funcs, memo, calls, history, status>>

-----------------------------------------------------------------------------
(* Questions to the backend *)

Respond(code) == pc' = "done" /\ status' = code

\* Who answers a question.
Func(q) == IF q.op = "check" THEN check ELSE list

HeldAt(q, version) ==
    q.obj = "own" /\ [sub |-> q.sub, rel |-> q.rel] \in versions[version]

Answers  == {"yes", "no"}
Outcomes == Answers \cup {"error"}

Said(held) == IF held THEN "yes" ELSE "no"

\* CheckWithTimestamp or ListWithTimestamp.  An RPC error, and for a check a
\* grant that names no principal or no valid one, is an error.
Rpc(q, answer) ==
    /\ rpcs' = Append(rpcs, <<q, answer>>)
    /\ \/ answer = "error"
       \/ \E version \in Func(q).ts..Latest : answer = Said(HeldAt(q, version))

\* Nobody has Impossible: CheckWithTimestamp says so without the backend.
Direct(q, answer) ==
    IF q.op = "check" /\ q.rel = Impossible
    THEN answer = "no" /\ UNCHANGED rpcs
    ELSE Rpc(q, answer)

\* The memo with one more answer.
With(q, answer) == [p \in DOMAIN memo \cup {q} |-> IF p = q THEN answer ELSE memo[p]]

\* Mutant: an error is kept like an answer.
KeptErrors(q, answer) == With(q, answer)

\* The memo keeps answers, never errors.
Kept(q, answer) == IF answer = "error" THEN memo ELSE With(q, answer)

Tell(q, answer) ==
    told' = IF answer = "error" THEN told ELSE told \cup {<<q, answer>>}

\* user.check or user.list is called; a memo around it asks what it wraps.
Ask(q, answer) ==
    /\ \/ /\ Func(q).memo
          /\ q \in DOMAIN memo
          /\ answer = memo[q]
          /\ UNCHANGED <<memo, rpcs>>
       \/ /\ Func(q).memo
          /\ q \notin DOMAIN memo
          /\ Direct(q, answer)
          /\ memo' = Kept(q, answer)
       \/ /\ ~Func(q).memo
          /\ Direct(q, answer)
          /\ UNCHANGED memo
    /\ Tell(q, answer)

-----------------------------------------------------------------------------
(* Wrap *)

\* The request arrives; the route's extract makes a resource of it, fails, or
\* answers it itself.  A timestamp cookie holds the version of some past write.
Extract ==
    /\ pc = "idle"
    /\ \E r \in {r \in Requests : r.checkTs \in {None} \cup 1..Latest} :
         /\ req' = r
         /\ \/ r.extract = "failed" /\ Respond("not found")
            \/ r.extract = "handled" /\ Respond("handled")
            \/ r.extract = "resource" /\ pc' = "cookie" /\ UNCHANGED status
    /\ UNCHANGED <<versions, user, principal, funcs, memo, calls, history>>

\* Without a session cookie a public resource is served to nobody in
\* particular; any other redirects to signin.
ReadCookie ==
    /\ pc = "cookie"
    /\ \/ req.cookie /\ pc' = "resolve" /\ UNCHANGED status
       \/ ~req.cookie /\ req.public /\ pc' = "handler" /\ UNCHANGED status
       \/ ~req.cookie /\ ~req.public /\ Respond("signin")
    /\ UNCHANGED <<versions, req, user, principal, funcs, memo, calls, history>>

\* Mutant: wrapping the memo comes first, and the cookie then takes its place.
AfterMemoFirst(step) ==
    CASE step = "resolve" -> "memo"
      [] step = "memo"    -> "checkTs"
      [] step = "checkTs" -> "gate"

\* What Wrap does after a step.
After(step) ==
    CASE step = "resolve" -> "checkTs"
      [] step = "checkTs" -> "memo"
      [] step = "memo"    -> "gate"

\* Mutant: a public resource is served when the token is not found.
ResolveTokenOrAnonymous ==
    /\ pc = "resolve"
    /\ \/ \E sub \in Users : user' = sub /\ pc' = After(pc) /\ UNCHANGED status
       \/ /\ IF req.public THEN pc' = "handler" /\ UNCHANGED status ELSE Respond("signin")
          /\ UNCHANGED user
       \/ Respond("server error") /\ UNCHANGED user
    /\ UNCHANGED <<versions, req, principal, funcs, memo, calls, history>>

\* ResolveToken finds the user, or nobody, or fails.
ResolveToken ==
    /\ pc = "resolve"
    /\ \/ \E sub \in Users : user' = sub /\ pc' = After(pc) /\ UNCHANGED status
       \/ Respond("signin") /\ UNCHANGED user
       \/ Respond("server error") /\ UNCHANGED user
    /\ UNCHANGED <<versions, req, principal, funcs, memo, calls, history>>

\* A check_ts cookie, even an empty one (TimestampEmpty), overwrites user.check
\* with a plain check at the cookie's timestamp.
ReadCheckTs ==
    /\ pc = "checkTs"
    /\ check' = IF req.checkTs = None THEN check
                ELSE [ts |-> req.checkTs, memo |-> FALSE]
    /\ pc' = After(pc)
    /\ UNCHANGED <<versions, req, user, principal, list, memo, calls, history, status>>

\* Mutant: the memo wraps what the wrapper offers, not what the user has.
WrapMemoAroundPlain ==
    /\ pc = "memo"
    /\ check' = IF req.memo THEN [Plain EXCEPT !.memo = TRUE] ELSE check
    /\ list' = IF req.memo THEN [Plain EXCEPT !.memo = TRUE] ELSE list
    /\ pc' = After(pc)
    /\ UNCHANGED <<versions, req, user, principal, memo, calls, history, status>>

\* On the routes that have it, newRequestMemo wraps user.check and user.list.
WrapMemo ==
    /\ pc = "memo"
    /\ check' = IF req.memo THEN [check EXCEPT !.memo = TRUE] ELSE check
    /\ list' = IF req.memo THEN [list EXCEPT !.memo = TRUE] ELSE list
    /\ pc' = After(pc)
    /\ UNCHANGED <<versions, req, user, principal, memo, calls, history, status>>

\* Mutant: the gate lets a refusal through.
GateOpen ==
    /\ pc = "gate"
    /\ \E answer \in Outcomes :
         /\ Ask(Question("check", user, "own", req.gate), answer)
         /\ \/ answer # "error" /\ principal' \in Users /\ pc' = "handler" /\ UNCHANGED status
            \/ answer = "error" /\ Respond("server error") /\ UNCHANGED principal
    /\ UNCHANGED <<versions, req, user, funcs, calls>>

\* The gate: the user must have the relation the resource requires.  From here
\* on the user is authenticated, as the principal the grant names.
Gate ==
    /\ pc = "gate"
    /\ \E answer \in Outcomes :
         /\ Ask(Question("check", user, "own", req.gate), answer)
         /\ \/ answer = "yes" /\ principal' \in Users /\ pc' = "handler" /\ UNCHANGED status
            \/ answer = "no" /\ Respond("forbidden") /\ UNCHANGED principal
            \/ answer = "error" /\ Respond("server error") /\ UNCHANGED principal
    /\ UNCHANGED <<versions, req, user, funcs, calls>>

-----------------------------------------------------------------------------
(* The handler *)

Asking ==
    /\ pc = "handler"
    /\ calls < MaxCalls
    /\ calls' = calls + 1
    /\ UNCHANGED <<versions, req, pc, user, principal, funcs, status>>

\* HasRel with one, two or three arguments; a user who is not signed in has
\* no relation, and the backend is not asked.
HasRel(obj, rel) ==
    /\ Asking
    /\ \/ /\ principal # None
          /\ \E answer \in Outcomes :
                 Ask(Question("check", principal, obj, rel), answer)
       \/ principal = None /\ UNCHANGED <<memo, rpcs, told>>

\* Mutant: lists go past the memo.
ListUnkept(rel) ==
    /\ Asking
    /\ UNCHANGED memo
    /\ \/ /\ principal # None
          /\ \E answer \in Outcomes :
                 /\ Direct(Question("list", principal, "own", rel), answer)
                 /\ Tell(Question("list", principal, "own", rel), answer)
       \/ principal = None /\ UNCHANGED <<rpcs, told>>

\* List, likewise.
List(rel) ==
    /\ Asking
    /\ \/ /\ principal # None
          /\ \E answer \in Outcomes :
                 Ask(Question("list", principal, "own", rel), answer)
       \/ principal = None /\ UNCHANGED <<memo, rpcs, told>>

\* The handler returns nil, a Problemer or another error.
HandlerReturns ==
    /\ pc = "handler"
    /\ \E code \in {"ok", "problem", "server error"} : Respond(code)
    /\ UNCHANGED <<versions, req, user, principal, funcs, memo, calls, history>>

Over == pc = "done" /\ UNCHANGED vars

Next ==
    \/ Write
    \/ Extract \/ ReadCookie \/ ResolveToken \/ ReadCheckTs \/ WrapMemo \/ Gate
    \/ \E rel \in Rels : List(rel) \/ \E obj \in Objects : HasRel(obj, rel)
    \/ HandlerReturns
    \/ Over

Spec == Init /\ [][Next]_vars

-----------------------------------------------------------------------------
TypeOK ==
    /\ Latest \in 1..MaxVersions
    /\ \A version \in 1..Latest : versions[version] \subseteq Grants
    /\ req \in Requests \cup {None}
    /\ pc \in Steps
    /\ user \in Users \cup {None}
    /\ principal \in Users \cup {None}
    /\ check \in AskFuncs /\ list \in AskFuncs
    /\ DOMAIN memo \subseteq Questions
    /\ \A q \in DOMAIN memo : memo[q] \in Answers
    /\ calls \in 0..MaxCalls
    /\ \A i \in DOMAIN rpcs : rpcs[i] \in Questions \X Outcomes
    /\ told \subseteq Questions \X Answers
    /\ status \in Statuses

\* An answer was true at a version no older than the one in the cookie.
TrueSinceCookie(q, answer) ==
    \E version \in 1..Latest :
        /\ req.checkTs # None => version >= req.checkTs
        /\ answer = Said(HeldAt(q, version))

\* No new enemy: what a request is told of a check, by the backend or by the
\* memo, was true at or after the write its check_ts cookie names.
ChecksFollowCookie ==
    \A t \in told : t[1].op = "check" => TrueSinceCookie(t[1], t[2])

\* The same of lists, which the comments say: the timestamp is fixed for the
\* request, encoded in the check and the list function the memo wraps.
ListsFollowCookie ==
    \A t \in told : t[1].op = "list" => TrueSinceCookie(t[1], t[2])

\* A handler runs for a principal only if the backend granted the relation the
\* resource requires to the user the token resolved to, at or after the write the
\* cookie names.  (Who the principal is, is for the backend to say.)
HandlerAuthorized ==
    pc = "handler" /\ principal # None
        => /\ user # None
           /\ TrueSinceCookie(Question("check", user, "own", req.gate), "yes")

\* The backend is asked nothing for a request whose token did not resolve to a
\* user, nor for an anonymous one; and anonymous is only who sends no session
\* cookie to a public resource.
StrangersAskNothing ==
    /\ user = None => rpcs = <<>>
    /\ pc = "handler" /\ principal = None => user = None /\ req.public /\ ~req.cookie

\* On a route with the memo a request is one logical instant: asked twice, by
\* the gate or the handler, a question has one answer, whatever is written.
OneInstant ==
    req # None /\ req.memo
        => \A s, t \in told : s[1] = t[1] => s[2] = t[2]

\* ... and each question costs one RPC, the gate's included, but for retries of
\* a question that failed.
OneRpcPerQuestion ==
    req # None /\ req.memo
        => \A i, j \in DOMAIN rpcs :
               i < j /\ rpcs[i][1] = rpcs[j][1] => rpcs[i][2] = "error"

\* HasRel refuses any number of arguments but one or three, says its panic: so
\* no question leaves without a namespace.
NamespacesNamed == \A i \in DOMAIN rpcs : rpcs[i][1].obj = "own"
=============================================================================
