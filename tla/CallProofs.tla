------------------------------ MODULE CallProofs ------------------------------
(***************************************************************************)
(* What the calls of src/client.go commit and answer, for every value of   *)
(* the constants: a write lands whole, as it was asked for, and only if    *)
(* its precondition holds, however late; Read, Expand and Check make of    *)
(* the backend's answers what they say.                                    *)
(***************************************************************************)
EXTENDS ClientProofs

-----------------------------------------------------------------------------
(* Commits *)

\* A subject that has a wire form is proper, or an id that is not positive.
LEMMA SentIsProper ==
    ASSUME NEW sub \in Subjects(Int64, UserSets), WireUser(sub) # Error
    PROVE  /\ \/ Proper(sub)
              \/ sub.kind = "userId" /\ sub.id <= 0 /\ WireUser(sub) = WireId(sub.id)
           /\ WireUser(sub) \notin {Missing, EmptyUserSet}
<1> USE DEF WireUser, Error, Missing, EmptyUserSet
<1>1. CASE sub \in {UserId(n) : n \in Int64}
  <2>1. PICK n \in Int64 : sub = UserId(n)
    BY <1>1
  <2>2. sub.kind = "userId" /\ sub.id = n /\ WireUser(sub) = WireId(n)
    BY <2>1 DEF UserId
  <2>3. n > 0 \/ n <= 0
    BY IdAssumption DEF Int64
  <2> QED
    BY <2>2, <2>3 DEF Proper, WireId
<1>2. CASE sub \in UserSets
  BY <1>2 DEF UserSets, UserSet, Proper, userSetToProto, WireUserSet
<1>3. CASE sub \in {Wildcard(code) : code \in Codes}
  BY <1>3 DEF Wildcard, Proper, wildcardToProto, WireWildcard, AllUsers, AuthenticatedUsers
<1>4. CASE sub = OtherSubject
  BY <1>4 DEF OtherSubject
<1> QED
  BY <1>1, <1>2, <1>3, <1>4 DEF Subjects

\* A tuple that can be sent is carried by what is sent.
LEMMA TupleCarried ==
    ASSUME NEW t \in GoTuples, tupleToProto(t) # Error
    PROVE  /\ Carries(tupleToProto(t), t)
           /\ tupleToProto(t).user \notin {Missing, EmptyUserSet}
<1> DEFINE pt == tupleToProto(t)
<1>1. t.subject \in Subjects(Int64, UserSets) /\ t.expires \in Int \cup {Forever}
  BY DEF GoTuples
<1>2. /\ WireUser(t.subject) # Error
      /\ pt.ns = t.ns /\ pt.obj = t.obj /\ pt.rel = t.rel
      /\ pt.user = WireUser(t.subject) /\ pt.expires = Unix(t.expires)
  BY TupleToProto DEF WireTuple
<1>3. \/ tupleSubjectFromProto(pt.user) = t.subject
      \/ t.subject.kind = "userId" /\ t.subject.id <= 0 /\ pt.user = WireId(t.subject.id)
  BY <1>1, <1>2, SentIsProper, SubjectKept
<1> HIDE DEF pt
<1> QED
  BY <1>1, <1>2, <1>3, SentIsProper, SecondsSent DEF Carries, pt

\* What was sent is what the write was given, tuple by tuple.
LEMMA OwnRequest ==
    ASSUME NEW write \in OwnWrites
    PROVE  LET add == write.given.add
               del == write.given.del
           IN  /\ add \in SUBSET GoTuples /\ del \in SUBSET GoTuples
               /\ \A t \in add \cup del : tupleToProto(t) # Error
               /\ \A t \in del : t.expires = Forever
               /\ write.req.addTuples = {tupleToProto(t) : t \in add}
               /\ write.req.delTuples = {tupleToProto(t) : t \in del}
<1> DEFINE add          == write.given.add
           del          == write.given.del
           precondition == write.given.precondition
           req          == WriteRequest(add, del, precondition)
<1>1. /\ add \in SUBSET GoTuples /\ del \in SUBSET GoTuples
      /\ precondition \in Nat \cup {NoPrecondition} /\ req # Error
      /\ write.req = req
  BY DEF OwnWrites, Givens
<1> HIDE DEF add, del, precondition
<1>2. /\ req \in WriteRequests
      /\ \A t \in add \cup del : tupleToProto(t) # Error
      /\ \A t \in del : t.expires = Forever
      /\ req.ts = IF precondition \in {NoPrecondition, NoTimestamp} THEN Unset
                  ELSE precondition
      /\ req.addTuples = {tupleToProto(t) : t \in add}
      /\ req.delTuples = {tupleToProto(t) : t \in del}
  BY <1>1, RequestIsMessage, ZenonT(60)
<1> HIDE DEF req
<1> QED
  BY <1>1, <1>2 DEF add, del

-----------------------------------------------------------------------------

\* A write of this program, with commits before it: its objects have not changed
\* since the zookie it was sent with.
Rightful(i) ==
    log[i].req.ts # Unset =>
        \A j \in log[i].req.ts..(i - 1) :
            Objects(Changes(log[j])) \cap Objects(Changes(log[i])) = {}

Committed == Shape /\ \A i \in Own : log[i] \in OwnWrites /\ Rightful(i)

\* What is committed stays rightful, and every new commit is.
LEMMA CommittedInductive ==
    ASSUME Committed, [Next]_vars
    PROVE  Committed'
<1>1. Shape /\ Shape' /\ LogStep
  BY ShapeInductive, LogStepHolds DEF Committed
<1>2. CASE log' = log
  BY <1>1, <1>2 DEF Committed, Own, Rightful, Changes
<1>3. ASSUME NEW c, log' = Append(log, c),
             c \in ForeignWrites \/ (c \in OwnWrites /\ Admits(c))
      PROVE  Committed'
  <2>1. /\ Len(log) \in Nat /\ DOMAIN log = 1..Len(log) /\ DOMAIN log' = 1..(Len(log) + 1)
        /\ \A i \in 1..Len(log) : log'[i] = log[i]
        /\ log'[Len(log) + 1] = c
    BY <1>1, <1>3 DEF Shape
  <2>2. ASSUME NEW i \in Own', i # Len(log) + 1
        PROVE  log'[i] \in OwnWrites /\ Rightful(i)'
    <3>1. i \in Own /\ i \in 1..Len(log) /\ log'[i] = log[i]
      BY <2>1, <2>2 DEF Own
    <3>2. log[i] \in OwnWrites /\ Rightful(i)
      BY <3>1 DEF Committed
    <3>3. log[i].req.ts # Unset => log[i].req.ts \in Nat
      BY <3>2 DEF OwnWrites, WriteRequests, WireTimestamps
    <3>4. ASSUME log[i].req.ts # Unset, NEW j \in log[i].req.ts..(i - 1)
          PROVE  Objects(Changes(log'[j])) \cap Objects(Changes(log'[i])) = {}
      <4>1. j \in 1..Len(log) /\ log'[j] = log[j]
        BY <1>1, <2>1, <3>1, <3>2, <3>3, <3>4 DEF OwnWrites, WriteRequests, WireTimestamps,
           NoTimestamp
      <4> QED
        BY <3>1, <3>2, <3>4, <4>1 DEF Rightful
    <3> QED
      BY <3>1, <3>2, <3>4 DEF Rightful
  <2>3. ASSUME NEW i \in Own', i = Len(log) + 1
        PROVE  log'[i] \in OwnWrites /\ Rightful(i)'
    <3>1. c \in OwnWrites /\ Admits(c) /\ log'[i] = c
      BY <1>3, <2>1, <2>3 DEF Own, ForeignWrites
    <3>2. c.req.ts # Unset =>
            /\ c.req.ts \in Nat \ {0}
            /\ \A j \in c.req.ts..Len(log) :
                 Objects(Changes(log[j])) \cap Objects(Changes(c)) = {}
      BY <3>1 DEF Admits, Outdated, Version, OwnWrites, WriteRequests, WireTimestamps,
                  NoTimestamp
    <3>3. ASSUME c.req.ts # Unset, NEW j \in c.req.ts..(i - 1)
          PROVE  Objects(Changes(log'[j])) \cap Objects(Changes(c)) = {}
      <4>1. j \in 1..Len(log) /\ j \in c.req.ts..Len(log) /\ log'[j] = log[j]
        BY <2>1, <2>3, <3>2, <3>3
      <4> QED
        BY <3>2, <3>3, <4>1
    <3> QED
      BY <3>1, <3>3 DEF Rightful
  <2>4. \A i \in Own' : log'[i] \in OwnWrites /\ Rightful(i)'
    BY <2>2, <2>3
  <2> QED
    BY <1>1, <2>4 DEF Committed
<1> QED
  BY <1>1, <1>2, <1>3 DEF LogStep, Shape

\* ... so the log is, in every state.
LEMMA CommittedInvariant == Spec => []Committed
<1>1. WatchInit => Committed
  <2>1. WatchInit => Shape
    BY FresherInitial DEF Fresher
  <2> QED
    BY <2>1 DEF WatchInit, Init, Committed, Own
<1>2. Committed /\ [Next]_vars => Committed'
  BY CommittedInductive
<1> QED
  BY <1>1, <1>2, PTL DEF Spec

\* A write with a precondition commits only if its objects are as they were at
\* that zookie, whoever writes in between and whenever it lands; so of a write
\* and its retries with one zookie at most one commits.
THEOREM PreconditionsHold == Spec => []NoLostUpdate
<1>1. ASSUME Committed, NEW i \in Own,
             log[i].given.precondition \notin {NoPrecondition, NoTimestamp}
      PROVE  log[i].req.ts = log[i].given.precondition /\ log[i].req.ts # Unset
  <2>1. log[i] \in OwnWrites
    BY <1>1 DEF Committed
  <2>2. /\ log[i].given.add \in SUBSET GoTuples /\ log[i].given.del \in SUBSET GoTuples
        /\ log[i].given.precondition \in Nat \cup {NoPrecondition}
        /\ log[i].req = WriteRequest(log[i].given.add, log[i].given.del,
                                     log[i].given.precondition)
        /\ log[i].req # Error
    BY <2>1 DEF OwnWrites, Givens
  <2>3. log[i].req.ts = log[i].given.precondition
    BY <1>1, <2>2, RequestIsMessage
  <2> QED
    BY <1>1, <2>2, <2>3 DEF Unset, NoPrecondition
<1>2. Committed => NoLostUpdate
  BY <1>1 DEF Committed, Rightful, NoLostUpdate
<1> QED
  BY <1>2, CommittedInvariant, PTL

\* A write commits as a whole and as it was asked for, however late it lands: each
\* tuple with the subject it was given and the whole second its expiry falls in,
\* and none but those.
THEOREM WritesAreWhole == Spec => []WholeWrites
<1>1. ASSUME Committed, NEW i \in Own
      PROVE  /\ Carry(log[i].req.addTuples, log[i].given.add)
             /\ Carry(log[i].req.delTuples, log[i].given.del)
             /\ \A t \in log[i].given.del : t.expires = Forever
  <2> DEFINE add == log[i].given.add
             del == log[i].given.del
  <2>1. /\ add \in SUBSET GoTuples /\ del \in SUBSET GoTuples
        /\ \A t \in add \cup del : tupleToProto(t) # Error
        /\ \A t \in del : t.expires = Forever
        /\ log[i].req.addTuples = {tupleToProto(t) : t \in add}
        /\ log[i].req.delTuples = {tupleToProto(t) : t \in del}
    BY <1>1, OwnRequest DEF Committed
  <2> HIDE DEF add, del
  <2>2. \A t \in add \cup del : Carries(tupleToProto(t), t)
    BY <2>1, TupleCarried
  <2> QED
    BY <2>1, <2>2 DEF Carry, add, del
<1>2. Committed => WholeWrites
  BY <1>1 DEF WholeWrites
<1> QED
  BY <1>2, CommittedInvariant, PTL

-----------------------------------------------------------------------------
(* Answers *)

\* The backend stores tuples that have a subject.
LEMMA StoredTuples ==
    ASSUME Committed, NEW v \in 0..Version
    PROVE  Stored(v) \subseteq StorableTuples
<1>1. ASSUME NEW i \in 1..v
      PROVE  log[i].req.addTuples \subseteq StorableTuples
  <2>1. i \in DOMAIN log /\ log[i] \in OwnWrites \cup ForeignWrites
    BY DEF Committed, Shape, Version
  <2>2. CASE log[i].given = NoAnswer
    <3>1. log[i] \notin OwnWrites
      <4>1. "add" \notin DOMAIN NoAnswer
        BY DEF NoAnswer
      <4>2. log[i] \in OwnWrites => "add" \in DOMAIN log[i].given
        BY DEF OwnWrites, Givens
      <4> QED
        BY <2>2, <4>1, <4>2
    <3> QED
      BY <2>1, <3>1 DEF ForeignWrites, Changes
  <2>3. CASE log[i].given # NoAnswer
    <3>1. i \in Own
      BY <2>1, <2>3 DEF Own
    <3>2. log[i] \in OwnWrites /\ log[i].req.addTuples \subseteq WireTuples
      BY <3>1 DEF Committed, OwnWrites, WriteRequests
    <3>3. \A pt \in log[i].req.addTuples : pt.user \notin {Missing, EmptyUserSet}
      BY <3>2, OwnRequest, TupleCarried
    <3> QED
      BY <3>2, <3>3 DEF StorableTuples
  <2> QED
    BY <2>2, <2>3
<1> QED
  BY <1>1 DEF Stored

\* A read that succeeds returns the tuples the backend sent.
LEMMA ReadExact ==
    ASSUME NEW tuples \in SUBSET WireTuples, tuplesFromProto(tuples) # Error
    PROVE  {tupleToProto(t) : t \in tuplesFromProto(tuples).tuples} = tuples
<1>1. /\ \A pt \in tuples : Readable(pt)
      /\ tuplesFromProto(tuples).tuples = {tupleFromProto(pt) : pt \in tuples}
  BY DEF tuplesFromProto
<1>2. \A pt \in tuples : tupleToProto(tupleFromProto(pt)) = pt
  BY <1>1, ReceivedKept
<1> QED
  BY <1>1, <1>2

\* An expand that succeeds returns the user ids, user sets and wildcards the
\* backend has.  Its message has no place for another kind.
LEMMA ExpandExact ==
    ASSUME NEW users \in SUBSET (WireUsers \ {Missing, EmptyUserSet}),
           NEW res,
           res = [userIds   |-> {u.value : u \in {x \in users : x.case = "userId"}},
                  userSets  |-> {u \in users : u.case = "userSet"},
                  wildcards |-> {u.value : u \in {x \in users : x.case = "wildcard"}}],
           expandResultFromProto(res) # Error
    PROVE  {WireUser(sub) : sub \in expandResultFromProto(res).subjects} =
               {u \in users : u.case \in {"userId", "userSet", "wildcard"}}
<1> DEFINE ids       == {u \in users : u.case = "userId"}
           sets      == {u \in users : u.case = "userSet"}
           wildcards == {u \in users : u.case = "wildcard"}
           read(u)   == tupleSubjectFromProto(u)
<1>1. /\ \A u \in ids : read(u) = NewUserId(u.value)
      /\ \A u \in sets : read(u) = userSetFromProto(u)
      /\ \A u \in wildcards : read(u) = wildcardFromProto(u.value)
  BY DEF tupleSubjectFromProto
<1>2. ids \cup sets \cup wildcards =
          {u \in users : u.case \in {"userId", "userSet", "wildcard"}}
  OBVIOUS
<1>3. /\ Error \notin {NewUserId(n) : n \in res.userIds}
      /\ Error \notin {wildcardFromProto(w) : w \in res.wildcards}
      /\ expandResultFromProto(res).subjects =
           {NewUserId(n) : n \in res.userIds} \cup {wildcardFromProto(w) : w \in res.wildcards}
               \cup {userSetFromProto(us) : us \in res.userSets}
  BY DEF expandResultFromProto
<1>4. /\ {NewUserId(n) : n \in res.userIds} = {read(u) : u \in ids}
      /\ {wildcardFromProto(w) : w \in res.wildcards} = {read(u) : u \in wildcards}
      /\ {userSetFromProto(us) : us \in res.userSets} = {read(u) : u \in sets}
  BY <1>1
<1>5. ASSUME NEW u \in ids \cup sets \cup wildcards
      PROVE  WireUser(read(u)) = u
  <2>1. read(u) # Error
    <3>1. CASE u \in ids \cup wildcards
      BY <1>3, <1>4, <3>1
    <3>2. CASE u \in sets
      BY <1>1, <3>2 DEF userSetFromProto, UserSet, Error
    <3> QED
      BY <3>1, <3>2
  <2> QED
    BY <2>1, UserKept
<1> HIDE DEF read, ids, sets, wildcards
<1>6. {WireUser(sub) : sub \in {read(u) : u \in ids \cup sets \cup wildcards}} =
          ids \cup sets \cup wildcards
  BY <1>5
<1>7. expandResultFromProto(res).subjects = {read(u) : u \in ids \cup sets \cup wildcards}
  <2>1. expandResultFromProto(res).subjects =
          {read(u) : u \in ids} \cup {read(u) : u \in wildcards} \cup {read(u) : u \in sets}
    BY <1>3, <1>4, Zenon
  <2> QED
    BY <2>1
<1> QED
  BY <1>2, <1>6, <1>7

-----------------------------------------------------------------------------

\* What the last answer holds, for the answers that hold something of the backend.
Faithful == ReadsExact /\ GrantsNameSomeone

\* An answer the two properties say nothing about.
Plain ==
    \/ answer'.op \notin {"read", "expand", "check"}
    \/ answer'.result = Error

\* Such an answer is faithful.
LEMMA PlainFaithful ==
    ASSUME Plain
    PROVE  Faithful'
BY DEF Plain, Faithful, ReadsExact, GrantsNameSomeone, Answered

\* A failed call gives one.
LEMMA FailPlain ==
    ASSUME NEW op, Fail(op)
    PROVE  Plain
BY DEF Fail, Plain

\* Read gives back what it was sent, filtered as it asked (client.go, Read).
LEMMA ReadFaithful ==
    ASSUME Committed, NEW ts \in Nat, NEW filters, ReadWithTimestamp(ts, filters)
    PROVE  Faithful'
<1> DEFINE req == ReadRequest(ts, filters)
<1>1. CASE Fail("read")
  BY <1>1, FailPlain, PlainFaithful
<1>2. ASSUME req # Error, log' = log, NEW v \in ReadableAt(req.ts),
             Answer("read", req, ts, v, tuplesFromProto(ReadResponse(v, req)))
      PROVE  Faithful'
  <2>1. req.ts = wire(ts)
    BY <1>2 DEF ReadRequest
  <2>2. v \in 0..Version
    BY <1>2, <2>1, Fresh DEF Committed
  <2> HIDE DEF req
  <2>3. ReadResponse(v, req) \in SUBSET WireTuples
    BY <2>2, StoredTuples DEF ReadResponse, StorableTuples
  <2>4. answer' = [op |-> "read", req |-> req, chained |-> ts = held, at |-> v,
                   result |-> tuplesFromProto(ReadResponse(v, req))]
    BY <1>2 DEF Answer
  <2>5. ReadResponse(answer.at, answer.req)' = ReadResponse(v, req)
    BY <1>2, <2>4 DEF ReadResponse, Stored, Changes
  <2>6. CASE tuplesFromProto(ReadResponse(v, req)) = Error
    BY <2>4, <2>6, PlainFaithful DEF Plain
  <2>7. CASE tuplesFromProto(ReadResponse(v, req)) # Error
    <3>1. {tupleToProto(t) : t \in tuplesFromProto(ReadResponse(v, req)).tuples}
            = ReadResponse(v, req)
      BY <2>3, <2>7, ReadExact
    <3>2. ReadsExact'
      BY <2>4, <2>5, <3>1 DEF ReadsExact
    <3>3. GrantsNameSomeone'
      BY <2>4 DEF GrantsNameSomeone
    <3> QED
      BY <3>2, <3>3 DEF Faithful
  <2> QED
    BY <2>6, <2>7
<1> QED
  BY <1>1, <1>2 DEF ReadWithTimestamp, Hold, Rest

\* Expand names the users and user sets of its version (client.go, Expand).
LEMMA ExpandFaithful ==
    ASSUME Committed, NEW q, NEW ts \in Nat, ExpandWithTimestamp(q, ts)
    PROVE  Faithful'
<1> DEFINE req == [ns |-> q.ns, obj |-> q.obj, rel |-> q.rel, ts |-> wire(ts)]
<1>1. CASE Fail("expand")
  BY <1>1, FailPlain, PlainFaithful
<1>2. ASSUME log' = log, NEW v \in FreshAs(req.ts),
             Answer("expand", req, ts, v, expandResultFromProto(ExpandResponse(v, req)))
      PROVE  Faithful'
  <2>1. v \in 0..Version
    BY <1>2, Fresh DEF Committed
  <2> HIDE DEF req
  <2> DEFINE users  == Expanded(v, req)
             result == expandResultFromProto(ExpandResponse(v, req))
  <2>2. users \in SUBSET (WireUsers \ {Missing, EmptyUserSet})
    BY <2>1, StoredTuples DEF Expanded, StorableTuples, WireTuples
  <2>3. answer' = [op |-> "expand", req |-> req, chained |-> ts = held, at |-> v,
                   result |-> result]
    BY <1>2 DEF Answer
  <2>4. Expanded(answer.at, answer.req)' = users
    BY <1>2, <2>3 DEF Expanded, Stored, Changes
  <2>5. CASE result = Error
    BY <2>3, <2>5, PlainFaithful DEF Plain
  <2>6. CASE result # Error
    <3>1. ExpandResponse(v, req) =
            [userIds   |-> {u.value : u \in {x \in users : x.case = "userId"}},
             userSets  |-> {u \in users : u.case = "userSet"},
             wildcards |-> {u.value : u \in {x \in users : x.case = "wildcard"}}]
      BY DEF ExpandResponse
    <3> HIDE DEF users
    <3>2. {WireUser(sub) : sub \in result.subjects} =
              {u \in users : u.case \in {"userId", "userSet", "wildcard"}}
      BY <2>2, <2>6, <3>1, ExpandExact
    <3> HIDE DEF result
    <3>3. ReadsExact'
      BY <2>3, <2>4, <3>2 DEF ReadsExact
    <3>4. GrantsNameSomeone'
      BY <2>3 DEF GrantsNameSomeone
    <3> QED
      BY <3>3, <3>4 DEF Faithful
  <2> QED
    BY <2>5, <2>6
<1> QED
  BY <1>1, <1>2 DEF ExpandWithTimestamp, Hold, Rest

\* A user is who check says it evaluated, and only a user.
LEMMA CheckFaithful ==
    ASSUME NEW q \in Questions, NEW ts, CheckWithTimestamp(q, ts)
    PROVE  Faithful'
<1> DEFINE asked == [ns |-> q.ns, obj |-> q.obj, rel |-> q.rel,
                     user |-> Missing, ts |-> wire(ts)]
           req   == setCheckRequestUser(asked, q.subject)
<1>1. CASE Fail("check")
  BY <1>1, FailPlain, PlainFaithful
<1>2. CASE answer' = [op |-> "impossible", result |-> [ok |-> FALSE]]
  BY <1>2, PlainFaithful DEF Plain
<1>3. ASSUME req # Error, NEW v, NEW res \in CheckResponses,
             Answer("check", req, ts, v,
                    IF checkPrincipal(q.subject, res) = Error THEN Error
                    ELSE [principal |-> checkPrincipal(q.subject, res), ok |-> res.ok])
      PROVE  Faithful'
  <2> DEFINE principal == checkPrincipal(q.subject, res)
  <2>1. req.user = WireUser(q.subject) /\ WireUser(q.subject) # Error
    BY <1>3, SetsUser DEF setCheckRequestUser
  <2>2. q.subject \in Subjects(Int64, UserSets)
    BY ClientAssumption DEF GoTuples
  <2>3. (req.user.case = "userId") <=> (q.subject.kind = "userId")
    BY <2>1, <2>2 DEF WireUser, WireId, userSetToProto, WireUserSet, wildcardToProto,
       WireWildcard, Subjects, UserSets, UserId, UserSet, Wildcard, OtherSubject
  <2>4. CASE principal = Error
    BY <1>3, <2>4, PlainFaithful DEF Plain, Answer
  <2>5. CASE principal # Error
    <3>1. IF q.subject.kind = "userId" THEN res.ok => principal.id > 0
          ELSE principal.id = 0
      <4>1. CASE q.subject.kind # "userId"
        BY <4>1 DEF checkPrincipal, UserId
      <4>2. CASE q.subject.kind = "userId" /\ res.principal # {}
        <5>1. PICK n \in PrincipalIds : res.principal = {n}
          BY <4>2 DEF CheckResponses
        <5>2. (CHOOSE m \in res.principal : TRUE) = n
          BY <5>1
        <5>3. principal = NewUserId(n)
          BY <4>2, <5>2 DEF checkPrincipal
        <5>4. n > 0 /\ principal = UserId(n)
          BY <2>5, <5>3, ClientAssumption DEF NewUserId
        <5> QED
          BY <4>2, <5>4 DEF UserId
      <4>3. CASE q.subject.kind = "userId" /\ res.principal = {}
        BY <2>5, <4>3 DEF checkPrincipal
      <4> QED
        BY <4>1, <4>2, <4>3
    <3> HIDE DEF principal, req
    <3>2. answer' = [op |-> "check", req |-> req, chained |-> ts = held, at |-> v,
                     result |-> [principal |-> principal, ok |-> res.ok]]
      BY <1>3, <2>5 DEF Answer, principal, req
    <3>3. GrantsNameSomeone'
      BY <2>3, <3>1, <3>2 DEF GrantsNameSomeone
    <3>4. ReadsExact'
      BY <3>2 DEF ReadsExact
    <3> QED
      BY <3>3, <3>4 DEF Faithful
  <2> QED
    BY <2>4, <2>5
<1> QED
  BY <1>1, <1>2, <1>3 DEF CheckWithTimestamp

\* Every question of the client is answered faithfully.
LEMMA AsksFaithful ==
    ASSUME Committed, Asks \/ Learns
    PROVE  Faithful'
<1>1. /\ Timestamps \subseteq Nat /\ TimestampEmpty \in Nat /\ NoTimestamp \in Nat
  BY TimestampsNat DEF Committed, TimestampEmpty, NoTimestamp
<1>2. ASSUME NEW q \in Questions, NEW ts \in Timestamps \cup {TimestampEmpty},
             CheckWithTimestamp(q, ts) \/ ExpandWithTimestamp(q, ts)
      PROVE  Faithful'
  BY <1>1, <1>2, CheckFaithful, ExpandFaithful
<1>3. ASSUME NEW q, NEW ts, ListWithTimestamp(q, ts)
      PROVE  Faithful'
  <2>0. Fail("list") \/ \E req, v, result : Answer("list", req, ts, v, result)
    BY <1>3, Zenon DEF ListWithTimestamp
  <2>1. Fail("list") \/ answer'.op = "list"
    BY <2>0 DEF Answer
  <2>2. Plain
    BY <2>1, FailPlain DEF Plain
  <2> QED
    BY <2>2, PlainFaithful
<1>4. ASSUME NEW q, List(q) \/ ContentChangeCheck(q)
      PROVE  Faithful'
  <2>1. \/ Fail("list") \/ Fail("contentChangeCheck")
        \/ answer'.op \in {"list", "contentChangeCheck"}
    <3>1. \/ Fail("list") \/ Fail("contentChangeCheck")
          \/ \E op \in {"list", "contentChangeCheck"} : \E req, ts, v, result :
                 Answer(op, req, ts, v, result)
      BY <1>4, Zenon DEF List, ContentChangeCheck
    <3> QED
      BY <3>1 DEF Answer
  <2>2. Plain
    BY <2>1, FailPlain DEF Plain
  <2> QED
    BY <2>2, PlainFaithful
<1>5. ASSUME NEW ts \in Timestamps \cup {NoTimestamp}, NEW filters,
             ReadWithTimestamp(ts, filters)
      PROVE  Faithful'
  BY <1>1, <1>5, ReadFaithful
<1> QED
  BY <1>2, <1>3, <1>4, <1>5
     DEF Asks, Learns, Check, ListResult, Expand, GetAll, GetAllRel, ReadBySubject, Read

\* A step that leaves answers and log alone keeps what they say.
LEMMA SameFaithful ==
    ASSUME Faithful, UNCHANGED <<log, answer>>
    PROVE  Faithful'
BY DEF Faithful, ReadsExact, GrantsNameSomeone, Answered, ReadResponse, Expanded, Stored, Changes

\* Faithful answers stay faithful: versions of the log never change.
LEMMA FaithfulInductive ==
    ASSUME Committed, Faithful, [Next]_vars
    PROVE  Faithful'
<1>1. CASE Backend \/ Begin
  BY <1>1, PlainFaithful DEF Backend, ForeignWrite, Land, Proceed, Begin, ParseArgs,
     ParseUserArg, Connect, NoAnswer, Plain
<1>2. CASE Asks \/ Learns
  BY <1>2, AsksFaithful
<1>3. CASE Writes
  <2>1. PICK add \in SUBSET GoTuples, del \in SUBSET GoTuples,
             precondition \in Nat \cup {NoPrecondition} : Write(add, del, precondition)
    BY <1>3, WritesStep DEF Committed
  <2>2. Fail("write") \/ answer'.op = "write"
    <3>1. \/ Fail("write")
          \/ \E result : answer' = [op |-> "write", result |-> result]
      BY <2>1, Zenon DEF Write
    <3> QED
      BY <3>1
  <2>3. Plain
    BY <2>2, FailPlain DEF Plain
  <2> QED
    BY <2>3, PlainFaithful
<1>4. CASE SendEvent
  BY <1>4, SameFaithful DEF SendEvent, Send, Still, Rest
<1>5. CASE Consume
  <2>1. ASSUME NEW ts, Watch(ts)
        PROVE  Faithful'
    BY <2>1, FailPlain, PlainFaithful, SameFaithful DEF Watch, Still, Rest
  <2>2. CASE Recv \/ RecvEnds
    BY <2>2, SameFaithful DEF Recv, RecvEnds, Still, Rest
  <2> QED
    BY <1>5, <2>1, <2>2 DEF Consume
<1>6. CASE UNCHANGED vars
  BY <1>6, SameFaithful DEF vars, clientVars
<1> QED
  BY <1>1, <1>2, <1>3, <1>4, <1>5, <1>6 DEF Next

\* ... so answers are faithful in every state.
LEMMA FaithfulInvariant == Spec => []Faithful
<1>1. WatchInit => Faithful
  BY DEF WatchInit, Init, Faithful, ReadsExact, GrantsNameSomeone, Answered, NoAnswer
<1>2. Committed /\ Faithful /\ [Next]_vars => Faithful'
  BY FaithfulInductive
<1> QED
  BY <1>1, <1>2, CommittedInvariant, PTL DEF Spec

\* Read returns exactly the stored tuples it was asked for, and Expand exactly the
\* stored user ids, user sets and wildcards, at the version they were evaluated
\* at, or the call is an error.  A subject of another kind makes Read an error;
\* the answer to Expand has no field for it.
THEOREM AnswersExact == Spec => []ReadsExact
<1>1. Faithful => ReadsExact
  BY DEF Faithful
<1> QED
  BY <1>1, FaithfulInvariant, PTL

\* A check that grants a user something names a user, whatever the backend
\* says; one about anybody else names none (checkPrincipal).
THEOREM GrantsNamed == Spec => []GrantsNameSomeone
<1>1. Faithful => GrantsNameSomeone
  BY DEF Faithful
<1> QED
  BY <1>1, FaithfulInvariant, PTL

-----------------------------------------------------------------------------
(* Messages *)

\* A question that was answered was a message, evaluated at a version there is.
Messages ==
    /\ dialled \in BOOLEAN
    /\ Asked =>
         /\ answer.req \in CheckRequests \cup ListRequests \cup ReadRequests
                 \cup ExpandRequests \cup ContentChangeCheckRequests
         /\ answer.at \in 0..Version

\* A call that is answered ...
LEMMA AnswerMessages ==
    ASSUME dialled \in BOOLEAN, UNCHANGED <<dialled, log>>,
           NEW req \in CheckRequests \cup ListRequests \cup ReadRequests
                   \cup ExpandRequests \cup ContentChangeCheckRequests,
           NEW v \in 0..Version, NEW op, NEW ts, NEW result,
           Answer(op, req, ts, v, result)
    PROVE  Messages'
<1>1. answer'.req = req /\ answer'.at = v /\ Version' = Version
  BY DEF Answer, Version
<1> QED
  BY <1>1 DEF Messages

\* ... and one that is not.
LEMMA SilentMessages ==
    ASSUME dialled' \in BOOLEAN,
           \/ answer' = NoAnswer
           \/ answer'.op \in {"parse", "parseUser", "dial", "impossible", "write"}
           \/ \E op : answer' = [op |-> op, result |-> Error]
    PROVE  Messages'
BY DEF Messages, Asked, Answered, NoAnswer

\* A request that names the user of a question is a message of its kind, made
\* of the names of the question and its subject's wire form.
LEMMA QuestionSent ==
    ASSUME NEW q \in Questions, NEW ts \in Nat
    PROVE  /\ q.ns \in Names /\ q.obj \in Names /\ q.rel \in Names
           /\ WireUser(q.subject) # Error => WireUser(q.subject) \in WireUsers
           /\ wire(ts) \in WireTimestamps
<1>1. q \in GoTuples
  BY ClientAssumption
<1>2. q.subject \in Subjects(Int64, UserSets)
  BY <1>1 DEF GoTuples
<1> QED
  BY <1>1, <1>2, UserSent DEF GoTuples, wire, WireTimestamps, NoTimestamp

\* What can be built to filter a read is a tuple set, or an error.
LEMMA FiltersSent ==
    ASSUME NEW q \in Questions, NEW rel \in Names \cup {AnyRel}
    PROVE  /\ FilterByObject(q.ns, q.obj, rel) \in TupleSets
           /\ FilterBySubject(q.ns, q.subject, rel) \in TupleSets \cup {Error}
<1>1. /\ q.ns \in Names /\ q.obj \in Names
      /\ WireUser(q.subject) # Error => WireUser(q.subject) \in WireUsers
  BY QuestionSent
<1>2. FilterByObject(q.ns, q.obj, rel) \in TupleSets
  BY <1>1 DEF FilterByObject, TupleSets, ObjectSpecs
<1> DEFINE spec == WithUser([user |-> Missing, rel |-> rel], q.subject)
<1>3. spec # Error => spec \in UserSetSpecs
  BY <1>1, SetsUser DEF UserSetSpecs
<1> HIDE DEF spec
<1>4. FilterBySubject(q.ns, q.subject, rel) =
        IF spec = Error THEN Error ELSE [ns |-> q.ns, spec |-> spec]
  BY DEF FilterBySubject, setUserSetSpecUser, spec
<1> QED
  BY <1>1, <1>2, <1>3, <1>4 DEF TupleSets

\* Check, List and ContentChangeCheck send the user they ask about.
LEMMA UserQuestionMessages ==
    ASSUME Shape, Messages, NEW q \in Questions, NEW ts \in Nat,
           \/ CheckWithTimestamp(q, ts)
           \/ ListWithTimestamp(q, ts)
           \/ List(q)
           \/ ContentChangeCheck(q)
    PROVE  Messages'
<1> DEFINE check(t)  == [ns |-> q.ns, obj |-> q.obj, rel |-> q.rel,
                         user |-> Missing, ts |-> wire(t)]
           list(t)   == [ns |-> q.ns, rel |-> q.rel, user |-> Missing, ts |-> wire(t)]
           change    == [ns |-> q.ns, obj |-> q.obj, rel |-> q.rel, user |-> Missing]
           naming(msg) == WithUser(msg, q.subject)
<1>1. ASSUME NEW t \in Nat
      PROVE  /\ naming(check(t)) # Error =>
                  naming(check(t)) \in CheckRequests /\ naming(check(t)).ts = wire(t)
             /\ naming(list(t)) # Error =>
                  naming(list(t)) \in ListRequests /\ naming(list(t)).ts = wire(t)
             /\ \A v \in FreshAs(wire(t)) : v \in 0..Version
  BY QuestionSent, SetsUser, Fresh DEF CheckRequests, ListRequests
<1>2. naming(change) # Error => naming(change) \in ContentChangeCheckRequests
  BY QuestionSent, SetsUser DEF ContentChangeCheckRequests
<1>3. Version \in 0..Version /\ TimestampEmpty \in Nat /\ dialled \in BOOLEAN
  BY TimestampsNat DEF TimestampEmpty, Messages
<1> HIDE DEF naming, check, list, change
<1>4. CASE CheckWithTimestamp(q, ts)
  <2>1. \/ Unanswered
        \/ /\ naming(check(ts)) # Error /\ UNCHANGED <<dialled, log>>
           /\ \E v \in FreshAs(naming(check(ts)).ts) : \E result :
                  Answer("check", naming(check(ts)), ts, v, result)
    BY <1>4 DEF CheckWithTimestamp, setCheckRequestUser, naming, check, Fail, Rest, Unanswered
  <2> QED
    BY <1>1, <1>3, <2>1, AnswerMessages, SilentMessages DEF Unanswered, Rest
<1>5. ASSUME NEW t \in Nat, ListWithTimestamp(q, t) \/ (t = TimestampEmpty /\ List(q))
      PROVE  Messages'
  <2>1. \/ Unanswered
        \/ /\ naming(list(t)) # Error /\ UNCHANGED <<dialled, log>>
           /\ \E v \in FreshAs(naming(list(t)).ts) : \E result :
                  Answer("list", naming(list(t)), t, v, result)
    BY <1>5 DEF ListWithTimestamp, List, setListRequestUser, naming, list, Fail, Rest, Hold,
                Unanswered
  <2> QED
    BY <1>1, <1>3, <2>1, AnswerMessages, SilentMessages DEF Unanswered, Rest
<1>6. CASE ContentChangeCheck(q)
  <2>1. \/ Unanswered
        \/ /\ naming(change) # Error /\ UNCHANGED <<dialled, log>>
           /\ \E result : Answer("contentChangeCheck", naming(change), NoTimestamp, Version, result)
    BY <1>6 DEF ContentChangeCheck, setContentChangeCheckRequestUser, naming, change, Fail, Rest,
                Hold, Unanswered
  <2> QED
    BY <1>2, <1>3, <2>1, AnswerMessages, SilentMessages DEF Unanswered, Rest
<1> QED
  BY <1>3, <1>4, <1>5, <1>6

\* Expand sends the names of the question.
LEMMA ExpandMessages ==
    ASSUME Shape, Messages, NEW q \in Questions, NEW ts \in Nat, ExpandWithTimestamp(q, ts)
    PROVE  Messages'
<1> DEFINE req == [ns |-> q.ns, obj |-> q.obj, rel |-> q.rel, ts |-> wire(ts)]
<1>1. /\ req \in ExpandRequests /\ req.ts = wire(ts)
      /\ \A v \in FreshAs(wire(ts)) : v \in 0..Version
      /\ dialled \in BOOLEAN
  BY QuestionSent, Fresh DEF ExpandRequests, Messages
<1> HIDE DEF req
<1>2. \/ Unanswered
      \/ /\ UNCHANGED <<dialled, log>>
         /\ \E v \in FreshAs(req.ts) : \E result : Answer("expand", req, ts, v, result)
  BY DEF ExpandWithTimestamp, req, Fail, Rest, Hold, Unanswered
<1> QED
  BY <1>1, <1>2, AnswerMessages, SilentMessages DEF Unanswered, Rest

\* Read sends tuple sets, or nothing if one of its filters could not be built.
LEMMA ReadMessages ==
    ASSUME Shape, Messages, NEW ts \in Nat, NEW filters \in SUBSET (TupleSets \cup {Error}),
           ReadWithTimestamp(ts, filters)
    PROVE  Messages'
<1> DEFINE req == ReadRequest(ts, filters)
<1>1. req # Error => req \in ReadRequests /\ req.ts = wire(ts)
  BY DEF ReadRequest, ReadRequests, wire, WireTimestamps, NoTimestamp
<1>2. dialled \in BOOLEAN /\ \A v \in ReadableAt(wire(ts)) : v \in 0..Version
  BY Fresh DEF Messages
<1> HIDE DEF req
<1>3. \/ Unanswered
      \/ /\ req # Error /\ UNCHANGED <<dialled, log>>
         /\ \E v \in ReadableAt(req.ts) : \E result : Answer("read", req, ts, v, result)
  BY DEF ReadWithTimestamp, req, Fail, Rest, Hold, Unanswered
<1> QED
  BY <1>1, <1>2, <1>3, AnswerMessages, SilentMessages DEF Unanswered, Rest

\* Whatever the program asks.
LEMMA AsksMessages ==
    ASSUME Shape, Messages, Asks \/ Learns
    PROVE  Messages'
<1>1. /\ Timestamps \subseteq Nat /\ TimestampEmpty \in Nat /\ NoTimestamp \in Nat
  BY TimestampsNat DEF TimestampEmpty, NoTimestamp
<1>2. ASSUME NEW q \in Questions, NEW ts \in Timestamps \cup {TimestampEmpty},
             \/ CheckWithTimestamp(q, ts) \/ ListWithTimestamp(q, ts)
             \/ List(q) \/ ContentChangeCheck(q) \/ ExpandWithTimestamp(q, ts)
      PROVE  Messages'
  BY <1>1, <1>2, UserQuestionMessages, ExpandMessages
<1>3. ASSUME NEW q \in Questions, NEW ts \in Timestamps \cup {NoTimestamp}, NEW filters,
             \/ filters \in Filters(q)
             \/ filters = {FilterByObject(q.ns, q.obj, AnyRel)}
             \/ filters = {FilterByObject(q.ns, q.obj, q.rel)}
             \/ filters = {FilterBySubject(q.ns, q.subject, q.rel)},
             ReadWithTimestamp(ts, filters)
      PROVE  Messages'
  <2>1. q.rel \in Names
    BY <1>1, QuestionSent
  <2>2. filters \in SUBSET (TupleSets \cup {Error})
    BY <1>3, <2>1, FiltersSent DEF Filters
  <2> QED
    BY <1>1, <1>3, <2>2, ReadMessages
<1> QED
  BY <1>2, <1>3
     DEF Asks, Learns, Check, ListResult, Expand, GetAll, GetAllRel, ReadBySubject, Read

\* A version stays one.
LEMMA SameMessages ==
    ASSUME Messages, UNCHANGED <<dialled, log, answer>>
    PROVE  Messages'
BY DEF Messages, Asked, Answered, Version

\* Every step: questions stay messages, whatever is answered, refused or lost.
LEMMA MessagesInductive ==
    ASSUME Shape, Messages, [Next]_vars
    PROVE  Messages'
<1>0. dialled \in BOOLEAN
  BY DEF Messages
<1>1. CASE Backend \/ Begin
  <2>1. answer' = NoAnswer \/ answer'.op \in {"parse", "parseUser", "dial"}
    BY <1>1 DEF Backend, ForeignWrite, Land, Proceed, Begin, ParseArgs, ParseUserArg, Connect
  <2>2. dialled' = dialled \/ \E conn : dialled' = (conn # "error")
    BY <1>1, Zenon DEF Backend, ForeignWrite, Land, Proceed, Begin, ParseArgs, ParseUserArg, Connect
  <2>3. dialled' \in BOOLEAN
    BY <1>0, <2>2
  <2> QED
    BY <2>1, <2>3, SilentMessages
<1>2. CASE Asks \/ Learns
  BY <1>2, AsksMessages
<1>3. CASE Writes
  <2>1. PICK add \in SUBSET GoTuples, del \in SUBSET GoTuples,
             precondition \in Nat \cup {NoPrecondition} : Write(add, del, precondition)
    BY <1>3, WritesStep
  <2>2. dialled' = dialled /\ \E result : answer' = [op |-> "write", result |-> result]
    BY <2>1, Zenon DEF Write, Fail
  <2>3. dialled' \in BOOLEAN /\ answer'.op = "write"
    BY <1>0, <2>2
  <2> QED
    BY <2>3, SilentMessages
<1>4. CASE SendEvent
  BY <1>4, SameMessages DEF SendEvent, Send, Still, Rest
<1>5. CASE Consume
  <2>1. ASSUME NEW ts, Watch(ts)
        PROVE  Messages'
    <3>1. CASE Fail("watch")
      BY <1>0, <3>1, SilentMessages DEF Fail
    <3>2. CASE answer' = answer /\ Still
      BY <3>2, SameMessages DEF Still, Rest
    <3> QED
      BY <2>1, <3>1, <3>2 DEF Watch
  <2>2. CASE Recv \/ RecvEnds
    BY <2>2, SameMessages DEF Recv, RecvEnds, Still, Rest
  <2> QED
    BY <1>5, <2>1, <2>2 DEF Consume
<1>6. CASE UNCHANGED vars
  BY <1>6, SameMessages DEF vars, clientVars
<1> QED
  BY <1>1, <1>2, <1>3, <1>4, <1>5, <1>6 DEF Next

\* What the backend answers a read or an expand is a message, too.
LEMMA AnswersAreMessages ==
    ASSUME Committed, NEW v \in 0..Version, NEW req
    PROVE  /\ ReadResponse(v, req) \in ReadResponses
           /\ ExpandResponse(v, req) \in ExpandResponses
<1>1. Stored(v) \subseteq WireTuples
  BY StoredTuples DEF StorableTuples
<1>2. Expanded(v, req) \subseteq WireUsers
  BY <1>1 DEF Expanded, WireTuples
<1>3. \A u \in WireUsers :
         /\ u.case = "userId" => u.value \in Int64
         /\ u.case = "userSet" => u \in WireUserSets
         /\ u.case = "wildcard" => u.value \in Codes
  BY DEF WireUsers, WireUserSets, Wildcards, WireId, WireUserSet, WireWildcard, Missing,
         EmptyUserSet, UnknownUser
<1>4. ReadResponse(v, req) \in ReadResponses
  BY <1>1 DEF ReadResponse, ReadResponses
<1> DEFINE users == Expanded(v, req)
<1> HIDE DEF users
<1>5. /\ {u.value : u \in {x \in users : x.case = "userId"}} \in SUBSET Int64
      /\ {u \in users : u.case = "userSet"} \in SUBSET WireUserSets
      /\ {u.value : u \in {x \in users : x.case = "wildcard"}} \in SUBSET Codes
  BY <1>2, <1>3 DEF users
<1>6. ExpandResponse(v, req) \in ExpandResponses
  BY <1>5 DEF ExpandResponse, ExpandResponses, users
<1> QED
  BY <1>4, <1>6
=============================================================================
