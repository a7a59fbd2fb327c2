--------------------------------- MODULE Wire ---------------------------------
(***************************************************************************)
(* The messages of proto/iam.pb.go and what src/client.go makes of them:   *)
(* tuples, read filters, watch events, expand results, principals.         *)
(*                                                                         *)
(* Repeated fields are sets: neither side looks at their order.            *)
(***************************************************************************)
EXTENDS Subject

CONSTANTS
    Names,           \* namespaces, objects and relations
    AnyRel,          \* a relation left out of a filter
    Forever,         \* no condition, no Expires
    PrincipalIds,    \* bound: the ids a check answers with
    TicksPerSecond   \* a time.Time is finer than the seconds of the wire

ASSUME NameAssumption == AnyRel \notin Names
ASSUME ForeverAssumption == Forever \notin Int
ASSUME TickAssumption == TicksPerSecond \in Nat \ {0}

\* A zookie is 0 for the empty string and i + 1 for the version after i commits;
\* TimestampEmpty is version 0.  On the wire the empty string is left unset.
Unset          == -1
NoTimestamp    == 0
TimestampEmpty == 1

\* Mutants: the empty string is sent; the zookie is not passed on.
wireEmptyString(ts) == ts
wireEpoch(ts)       == TimestampEmpty

wire(ts) == IF ts = NoTimestamp THEN Unset ELSE ts

WireTimestamps == {Unset} \cup (Nat \ {NoTimestamp})

-----------------------------------------------------------------------------
(* Messages *)

Wildcards    == {WireWildcard(w) : w \in Codes}
WireUserSets == {WireUserSet(n[1], n[2], n[3]) : n \in Names \X Names \X Names}
WireUsers    == {WireId(n) : n \in Int64} \cup WireUserSets \cup Wildcards
                    \cup {Missing, EmptyUserSet, UnknownUser}

WireTuples == [ns : Names, obj : Names, rel : Names, user : WireUsers,
               expires : Int \cup {Forever}]

CheckRequests  == [ns : Names, obj : Names, rel : Names, user : WireUsers,
                   ts : WireTimestamps]
ListRequests   == [ns : Names, rel : Names, user : WireUsers, ts : WireTimestamps]
ExpandRequests == [ns : Names, obj : Names, rel : Names, ts : WireTimestamps]
ContentChangeCheckRequests == [ns : Names, obj : Names, rel : Names, user : WireUsers]

ObjectSpecs  == [obj : Names, rel : Names \cup {AnyRel}]
UserSetSpecs == [user : WireUsers, rel : Names \cup {AnyRel}]
TupleSets    == [ns : Names, spec : ObjectSpecs \cup UserSetSpecs]
ReadRequests == [ts : WireTimestamps, tupleSets : SUBSET TupleSets]

WriteRequests == [ts : WireTimestamps, addTuples : SUBSET WireTuples,
                  delTuples : SUBSET WireTuples]

\* The principal check evaluated, or none.
CheckResponses  == [ok : BOOLEAN, principal : {{}} \cup {{n} : n \in PrincipalIds}]

ReadResponses   == SUBSET WireTuples
ExpandResponses == [userIds : SUBSET Int64, userSets : SUBSET WireUserSets,
                    wildcards : SUBSET Codes]

Updates        == [tuple : WireTuples, deleted : BOOLEAN]
WatchResponses == [ts : Nat, updates : SUBSET Updates]

-----------------------------------------------------------------------------
(* Tuples *)

\* Mutant: seconds are rounded up.
UnixUp(time) ==
    IF time = Forever THEN Forever ELSE (time + TicksPerSecond - 1) \div TicksPerSecond

\* Unix seconds, negative before 1970: what is finer is cut off, downwards.
Unix(time)     == IF time = Forever THEN Forever ELSE time \div TicksPerSecond
FromUnix(secs) == IF secs = Forever THEN Forever ELSE secs * TicksPerSecond

\* The tuples a Go program can build.
UserSets == {UserSet(n[1], n[2], n[3]) : n \in Names \X Names \X Names}

GoTuples == [ns : Names, obj : Names, rel : Names,
             subject : Subjects(Int64, UserSets), expires : Int \cup {Forever}]

Tuple(ns, obj, rel, sub, expires) ==
    [ns |-> ns, obj |-> obj, rel |-> rel, subject |-> sub, expires |-> expires]

WireTuple(ns, obj, rel, user, expires) ==
    [ns |-> ns, obj |-> obj, rel |-> rel, user |-> user, expires |-> expires]

tupleToProto(t) ==
    setTupleUser(WireTuple(t.ns, t.obj, t.rel, Missing, Unix(t.expires)), t.subject)

\* Mutant: a userset received is taken for the relation's own object.
tupleFromProtoSelf(pt) ==
    IF pt.user.case = "userSet"
    THEN Tuple(pt.ns, pt.obj, pt.rel, UserSet(pt.ns, pt.obj, pt.rel), FromUnix(pt.expires))
    ELSE Tuple(pt.ns, pt.obj, pt.rel, tupleSubjectFromProto(pt.user), FromUnix(pt.expires))

tupleFromProto(pt) ==
    LET sub == tupleSubjectFromProto(pt.user)
    IN  IF sub = Error THEN Error
        ELSE Tuple(pt.ns, pt.obj, pt.rel, sub, FromUnix(pt.expires))

Readable(pt) == tupleSubjectFromProto(pt.user) # Error

\* One tuple that cannot be read fails the whole answer.
tuplesFromProto(tuples) ==
    IF \A pt \in tuples : Readable(pt)
    THEN [tuples |-> {tupleFromProto(pt) : pt \in tuples}] ELSE Error

-----------------------------------------------------------------------------
(* Read filters *)

FilterByObject(ns, obj, rel) == [ns |-> ns, spec |-> [obj |-> obj, rel |-> rel]]

FilterBySubject(ns, sub, rel) ==
    LET spec == setUserSetSpecUser([user |-> Missing, rel |-> rel], sub)
    IN  IF spec = Error THEN Error ELSE [ns |-> ns, spec |-> spec]

\* A filter that could not be built, or no filter at all, sends nothing.
ReadRequest(ts, filters) ==
    IF filters = {} \/ Error \in filters THEN Error
    ELSE [ts |-> wire(ts), tupleSets |-> filters]

-----------------------------------------------------------------------------
(* Answers *)

WatchUpdates == [tuple : GoTuples, deleted : BOOLEAN]
WatchEvents  == [ts : Nat, updates : SUBSET WatchUpdates]

\* One update that cannot be read fails the event.
watchEventFromProto(resp) ==
    IF \A u \in resp.updates : Readable(u.tuple)
    THEN [ts |-> resp.ts,
          updates |-> {[tuple |-> tupleFromProto(u.tuple), deleted |-> u.deleted] :
                           u \in resp.updates}]
    ELSE Error

expandResultFromProto(res) ==
    LET userIds   == {NewUserId(n) : n \in res.userIds}
        wildcards == {wildcardFromProto(w) : w \in res.wildcards}
    IN  IF Error \in userIds \cup wildcards THEN Error
        ELSE [subjects |-> userIds \cup wildcards
                               \cup {userSetFromProto(us) : us \in res.userSets}]

\* Mutant: a grant without a principal is believed.
checkPrincipalLax(sub, res) ==
    IF sub.kind # "userId" \/ res.principal = {} THEN UserId(0)
    ELSE NewUserId(CHOOSE n \in res.principal : TRUE)

\* The principal check evaluated, zero for a subject that is no user and for a
\* refusal that names none.  A grant must name one.
checkPrincipal(sub, res) ==
    IF sub.kind # "userId" THEN UserId(0)
    ELSE IF res.principal # {} THEN NewUserId(CHOOSE n \in res.principal : TRUE)
    ELSE IF res.ok THEN Error
    ELSE UserId(0)
=============================================================================
