----------------------------- MODULE CheckClient -----------------------------
(***************************************************************************)
(* A program that uses the check client of src/client.go: it reads its     *)
(* arguments, dials, and then writes, reads and asks through one           *)
(* connection, echoing the zookies it is given.                            *)
(*                                                                         *)
(* The backend is a log of commits.  Version v is what the first v commits *)
(* leave.  Other clients commit too, at any moment.  The backend evaluates *)
(* a question at some version at least as fresh as its zookie.             *)
(***************************************************************************)
EXTENDS Wire, Dial

CONSTANTS
    Impossible,      \* the relation nobody has
    RelParent,       \* "parent"
    RelUnspecified,  \* "..."
    Texts,           \* bound: command line arguments
    Tuples,          \* bound: the tuples the program writes one by one
    Batches,         \* bound: the <<add, del>> it writes at once
    Questions,       \* bound: the tuples it asks about
    ForeignBatches,  \* bound: the <<add, del>> of wire tuples others write
    MaxCommits,      \* bound, by program: length of the log
    MaxAdrift        \* bound, by program: writes adrift

\* A program asks, or it writes and tries again, or it watches.  They share
\* nothing but the backend, so each is looked at on its own.
Programs == {"asks", "writes", "watches"}

\* The backend refuses a tuple without a subject, whoever writes it.
StorableTuples == {pt \in WireTuples : pt.user \notin {Missing, EmptyUserSet}}

ASSUME ClientAssumption ==
    /\ {Impossible, RelParent, RelUnspecified} \subseteq Names
    /\ \A text \in Texts : text \in ArgumentTexts
    /\ Tuples \cup Questions \subseteq GoTuples
    /\ \A batch \in Batches : batch[1] \cup batch[2] \subseteq GoTuples
    /\ \A batch \in ForeignBatches : batch[1] \cup batch[2] \subseteq StorableTuples
    /\ PrincipalIds \subseteq Int
    /\ MaxCommits \in [Programs -> Nat]
    /\ MaxAdrift \in [Programs -> Nat]

VARIABLES
    program,  \* which one it is
    dialled,  \* whether the program has its connection
    log,      \* backend: the commits
    adrift,   \* writes whose caller was told of an error and may yet commit
    held,     \* the last zookie a call returned
    mine,     \* history: the version of the last write that was acknowledged
    kept,     \* history: whether every zookie since was asked for with the one held
    answer    \* history: the call that returned last

clientVars == <<program, dialled, log, adrift, held, mine, kept, answer>>

Version == Len(log)

NoAnswer == [op |-> "none"]

\* The zookie of a version.
Zookie(version) == version + 1

Init ==
    /\ program \in Programs
    /\ dialled = FALSE
    /\ log = <<>>
    /\ adrift = {}
    /\ held = NoTimestamp
    /\ mine = 0
    /\ kept = TRUE
    /\ answer = NoAnswer

-----------------------------------------------------------------------------
(* The backend *)

Edge(pt) == [pt EXCEPT !.expires = Forever]

Changes(commit) == commit.req.addTuples \cup commit.req.delTuples

\* What version v stores: what was added, until it is added again or deleted.
Stored(v) ==
    {pt \in UNION {log[i].req.addTuples : i \in 1..v} :
        \E i \in 1..v :
            /\ pt \in log[i].req.addTuples
            /\ \A j \in (i + 1)..v : Edge(pt) \notin {Edge(t) : t \in Changes(log[j])}}

Objects(tuples) == {<<pt.ns, pt.obj>> : pt \in tuples}

\* Optimistic concurrency: a write with a zookie fails if its objects changed
\* after it.
Outdated(write) ==
    /\ write.req.ts # Unset
    /\ \E i \in write.req.ts..Version :
           Objects(Changes(log[i])) \cap Objects(Changes(write)) # {}

\* What may commit: nothing is known of the subjects the backend refuses, and a
\* write that it refuses fails.
Admits(write) == ~Outdated(write)

\* The versions a question may be evaluated at.  A read without a zookie sees
\* the latest.
FreshAs(ts)    == IF ts = Unset THEN 0..Version ELSE (ts - 1)..Version
ReadableAt(ts) == IF ts = Unset THEN {Version} ELSE FreshAs(ts)

Matches(set, pt) ==
    /\ pt.ns = set.ns
    /\ set.spec.rel \in {AnyRel, pt.rel}
    /\ \/ "obj" \in DOMAIN set.spec /\ set.spec.obj = pt.obj
       \/ "user" \in DOMAIN set.spec /\ set.spec.user = pt.user

\* The stored tuples that match a filter.
ReadResponse(v, req) ==
    {pt \in Stored(v) : \E set \in req.tupleSets : Matches(set, pt)}

\* The subjects of obj#rel.  Rewrite rules are left out.
Expanded(v, req) ==
    {pt.user : pt \in {t \in Stored(v) :
                           <<t.ns, t.obj, t.rel>> = <<req.ns, req.obj, req.rel>>}}

\* The answer has a list for each kind of subject that proto/iam.pb.go knows.
\* One of another kind has no place in it.
ExpandResponse(v, req) ==
    LET users == Expanded(v, req)
    IN  [userIds   |-> {u.value : u \in {x \in users : x.case = "userId"}},
         userSets  |-> {u \in users : u.case = "userSet"},
         wildcards |-> {u.value : u \in {x \in users : x.case = "wildcard"}}]

\* Another client commits, one that may know more kinds of subjects.
ForeignWrite ==
    /\ Version < MaxCommits[program]
    /\ \E batch \in ForeignBatches :
         log' = Append(log, [req |-> [ts |-> Unset, addTuples |-> batch[1],
                                      delTuples |-> batch[2]],
                             given |-> NoAnswer])
    /\ answer' = NoAnswer
    /\ UNCHANGED <<program, dialled, adrift, held, mine, kept>>

\* A write whose caller has given up arrives, or never will.
Land ==
    /\ \E write \in adrift :
         /\ adrift' = adrift \ {write}
         /\ \/ Version < MaxCommits[program] /\ Admits(write) /\ log' = Append(log, write)
            \/ UNCHANGED log
    /\ answer' = NoAnswer
    /\ UNCHANGED <<program, dialled, held, mine, kept>>

-----------------------------------------------------------------------------
(* Arguments and connection *)

\* The program has looked at the last answer.  It makes one call at a time.
Idle == answer = NoAnswer

Proceed ==
    /\ ~Idle
    /\ answer' = NoAnswer
    /\ UNCHANGED <<program, dialled, log, adrift, held, mine, kept>>

\* The argument that names a subject is read: cmd/write takes any subject,
\* cmd/check and cmd/list take the id of a user.
ParseArgs(text) ==
    /\ Idle /\ ~dialled
    /\ answer' = [op |-> "parse", text |-> text, result |-> parseSubject(text)]
    /\ UNCHANGED <<program, dialled, log, adrift, held, mine, kept>>

ParseUserArg(text) ==
    /\ Idle /\ ~dialled
    /\ answer' = [op |-> "parseUser", text |-> text, result |-> ParseUserId(text)]
    /\ UNCHANGED <<program, dialled, log, adrift, held, mine, kept>>

\* The credentials it may dial with: none at all, or what it loads.
Credentials == {"nil"} \cup {LoadTLSCredentials(p[1], p[2], p[3]) : p \in Paths \X Paths \X Paths}

\* The program dials check, and New wraps the connection.
Connect(conn) ==
    /\ Idle /\ ~dialled
    /\ dialled' = (conn # "error")
    /\ answer' = [op |-> "dial", result |-> [creds |-> conn]]
    /\ UNCHANGED <<program, log, adrift, held, mine, kept>>

\* A call fails: refused by the client or the backend, or lost, or its answer
\* cannot be converted.  Its zookie, if any, is lost with it.
Fail(op) ==
    /\ answer' = [op |-> op, result |-> Error]
    /\ UNCHANGED <<program, dialled, log, adrift, held, mine, kept>>

-----------------------------------------------------------------------------
(* Writes *)

NoPrecondition == -1

\* Mutant: the precondition is forgotten.
WriteRequestUnconditional(add, del, precondition) ==
    IF \/ \E t \in add \cup del : tupleToProto(t) = Error
       \/ \E t \in del : t.expires # Forever
    THEN Error
    ELSE [ts |-> Unset, addTuples |-> {tupleToProto(t) : t \in add},
          delTuples |-> {tupleToProto(t) : t \in del}]

\* One bad tuple, or a deletion with an expiry, and nothing is sent.  The empty
\* zookie is no precondition.
WriteRequest(add, del, precondition) ==
    IF \/ \E t \in add \cup del : tupleToProto(t) = Error
       \/ \E t \in del : t.expires # Forever
    THEN Error
    ELSE [ts |-> IF precondition = NoPrecondition THEN Unset ELSE wire(precondition),
          addTuples |-> {tupleToProto(t) : t \in add},
          delTuples |-> {tupleToProto(t) : t \in del}]

Write(add, del, precondition) ==
    LET req   == WriteRequest(add, del, precondition)
        write == [req |-> req, given |-> [add |-> add, del |-> del,
                                          precondition |-> precondition]]
    IN  /\ Idle /\ dialled
        /\ \/ Fail("write")
           \/ \* The caller gives up, and the write is still on its way.
              /\ req # Error
              /\ Cardinality(adrift) < MaxAdrift[program]
              /\ adrift' = adrift \cup {write}
              /\ answer' = [op |-> "write", result |-> Error]
              /\ UNCHANGED <<program, dialled, log, held, mine, kept>>
           \/ \* It commits, and the reply brings the zookie.
              /\ req # Error
              /\ Version < MaxCommits[program]
              /\ Admits(write)
              /\ log' = Append(log, write)
              /\ held' = Zookie(Version + 1)
              /\ mine' = Version + 1
              /\ kept' = TRUE
              /\ answer' = [op |-> "write", result |-> [ts |-> held']]
              /\ UNCHANGED <<program, dialled, adrift>>

AddOne(t)            == Write({[t EXCEPT !.expires = Forever]}, {}, NoPrecondition)
AddOneWithExpires(t) == t.expires # Forever /\ Write({t}, {}, NoPrecondition)
DeleteOne(t)         == Write({}, {[t EXCEPT !.expires = Forever]}, NoPrecondition)

AddParent(ns, obj, parentNs, parentObj) ==
    AddOne(Tuple(ns, obj, RelParent,
                 UserSet(parentNs, parentObj, RelUnspecified), Forever))

-----------------------------------------------------------------------------
(* Questions *)

\* A call that was evaluated at version v returns.
Answer(op, req, ts, v, result) ==
    answer' = [op |-> op, req |-> req, chained |-> ts = held, at |-> v, result |-> result]

\* The answer brings the zookie of v.  A call that saw the latest version keeps
\* the program up to date whatever it passed.
Hold(ts, v, latest) ==
    /\ held' = Zookie(v)
    /\ kept' = (kept /\ (ts = held \/ latest))
    /\ UNCHANGED <<program, dialled, log, adrift, mine>>

Rest == UNCHANGED <<program, dialled, log, adrift, held, mine, kept>>

CheckWithTimestamp(q, ts) ==
    LET req == setCheckRequestUser([ns |-> q.ns, obj |-> q.obj, rel |-> q.rel,
                                    user |-> Missing, ts |-> wire(ts)], q.subject)
    IN  /\ Idle /\ dialled
        /\ \/ \* Nobody is asked about the impossible.
              /\ q.rel = Impossible
              /\ answer' = [op |-> "impossible", result |-> [ok |-> FALSE]]
              /\ Rest
           \/ q.rel # Impossible /\ Fail("check")
           \/ /\ q.rel # Impossible /\ req # Error
              /\ \E v \in FreshAs(req.ts), res \in CheckResponses :
                   LET principal == checkPrincipal(q.subject, res)
                   IN  Answer("check", req, ts, v,
                              IF principal = Error THEN Error
                              ELSE [principal |-> principal, ok |-> res.ok])
              /\ Rest

Check(q) == CheckWithTimestamp(q, TimestampEmpty)

\* The objects are passed on as they come.
ListWithTimestamp(q, ts) ==
    LET req == setListRequestUser([ns |-> q.ns, rel |-> q.rel, user |-> Missing,
                                   ts |-> wire(ts)], q.subject)
    IN  /\ Idle /\ dialled
        /\ \/ Fail("list")
           \/ /\ req # Error
              /\ \E v \in FreshAs(req.ts) :
                   Answer("list", req, ts, v, [ts |-> Zookie(v)]) /\ Hold(ts, v, FALSE)

ListResult(q) == ListWithTimestamp(q, TimestampEmpty)

\* List is ListResult without the zookie.
List(q) ==
    LET req == setListRequestUser([ns |-> q.ns, rel |-> q.rel, user |-> Missing,
                                   ts |-> wire(TimestampEmpty)], q.subject)
    IN  /\ Idle /\ dialled
        /\ \/ Fail("list")
           \/ /\ req # Error
              /\ \E v \in FreshAs(req.ts) :
                   Answer("list", req, TimestampEmpty, v, [ts |-> NoTimestamp]) /\ Rest

\* Evaluated at the latest version: the request has no zookie.
ContentChangeCheck(q) ==
    LET req == setContentChangeCheckRequestUser(
                   [ns |-> q.ns, obj |-> q.obj, rel |-> q.rel, user |-> Missing],
                   q.subject)
    IN  /\ Idle /\ dialled
        /\ \/ Fail("contentChangeCheck")
           \/ /\ req # Error
              /\ Answer("contentChangeCheck", req, NoTimestamp, Version,
                        [ts |-> Zookie(Version)])
              /\ Hold(NoTimestamp, Version, TRUE)

ExpandWithTimestamp(q, ts) ==
    LET req == [ns |-> q.ns, obj |-> q.obj, rel |-> q.rel, ts |-> wire(ts)]
    IN  /\ Idle /\ dialled
        /\ \/ Fail("expand")
           \/ \E v \in FreshAs(req.ts) :
                LET result == expandResultFromProto(ExpandResponse(v, req))
                IN  /\ Answer("expand", req, ts, v, result)
                    /\ IF result = Error THEN Rest ELSE Hold(ts, v, FALSE)

Expand(q) == ExpandWithTimestamp(q, TimestampEmpty)

ReadWithTimestamp(ts, filters) ==
    LET req == ReadRequest(ts, filters)
    IN  /\ Idle /\ dialled
        /\ \/ Fail("read")
           \/ /\ req # Error
              /\ \E v \in ReadableAt(req.ts) :
                   LET result == tuplesFromProto(ReadResponse(v, req))
                   IN  /\ Answer("read", req, ts, v, result)
                       /\ IF result = Error THEN Rest
                          ELSE Hold(ts, v, ts = NoTimestamp)

Read(filters) == ReadWithTimestamp(NoTimestamp, filters)

GetAll(ns, obj)             == Read({FilterByObject(ns, obj, AnyRel)})
GetAllRel(ns, obj, rel)     == Read({FilterByObject(ns, obj, rel)})
ReadBySubject(ns, sub, rel) == Read({FilterBySubject(ns, sub, rel)})
=============================================================================
