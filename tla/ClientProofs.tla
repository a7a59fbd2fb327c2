----------------------------- MODULE ClientProofs -----------------------------
(***************************************************************************)
(* Safety of the programs of WatchStream, for every value of the constants.*)
(***************************************************************************)
EXTENDS WatchStream, ConversionProofs

Givens == [add : SUBSET GoTuples, del : SUBSET GoTuples,
           precondition : Nat \cup {NoPrecondition}]

\* What this program sends, and what others do.
OwnWrites ==
    {w \in [req : WriteRequests, given : Givens] :
        /\ w.req = WriteRequest(w.given.add, w.given.del, w.given.precondition)
        /\ w.req # Error}

ForeignWrites ==
    {w \in [req : {r \in WriteRequests : r.ts = Unset}, given : {NoAnswer}] :
        Changes(w) \subseteq StorableTuples}

Shape ==
    /\ log \in Seq(OwnWrites \cup ForeignWrites)
    /\ adrift \subseteq OwnWrites
    /\ held \in NoTimestamp..Zookie(Version)
    /\ mine \in 0..Version
    /\ kept \in BOOLEAN

-----------------------------------------------------------------------------
(* Writes *)

\* What Write makes of its arguments is a message, or an error.
LEMMA RequestIsMessage ==
    ASSUME NEW add \in SUBSET GoTuples, NEW del \in SUBSET GoTuples,
           NEW precondition \in Nat \cup {NoPrecondition},
           WriteRequest(add, del, precondition) # Error
    PROVE  /\ WriteRequest(add, del, precondition) \in WriteRequests
           /\ \A t \in add \cup del : tupleToProto(t) # Error
           /\ \A t \in del : t.expires = Forever
           /\ WriteRequest(add, del, precondition).ts =
                IF precondition \in {NoPrecondition, NoTimestamp} THEN Unset
                ELSE precondition
           /\ WriteRequest(add, del, precondition).addTuples = {tupleToProto(t) : t \in add}
           /\ WriteRequest(add, del, precondition).delTuples = {tupleToProto(t) : t \in del}
<1> DEFINE ts == IF precondition = NoPrecondition THEN Unset ELSE wire(precondition)
<1>1. /\ \A t \in add \cup del : tupleToProto(t) # Error
      /\ \A t \in del : t.expires = Forever
      /\ WriteRequest(add, del, precondition) =
           [ts |-> ts, addTuples |-> {tupleToProto(t) : t \in add},
            delTuples |-> {tupleToProto(t) : t \in del}]
  BY DEF WriteRequest
<1>2. \A t \in add \cup del : tupleToProto(t) \in WireTuples
  BY <1>1, TupleSent
<1>3. /\ ts \in WireTimestamps
      /\ ts = IF precondition \in {NoPrecondition, NoTimestamp} THEN Unset ELSE precondition
  BY DEF wire, WireTimestamps, NoPrecondition, NoTimestamp, Unset
<1> QED
  BY <1>1, <1>2, <1>3 DEF WriteRequests

\* The ways a step changes the log and what is on its way to it.
LogStep ==
    \/ UNCHANGED <<log, adrift>>
    \/ UNCHANGED adrift /\ \E c \in ForeignWrites : log' = Append(log, c)
    \/ \E w \in adrift :
         /\ adrift' = adrift \ {w}
         /\ UNCHANGED log \/ (Admits(w) /\ log' = Append(log, w))
    \/ UNCHANGED log /\ \E w \in OwnWrites : adrift' = adrift \cup {w}
    \/ UNCHANGED adrift /\ \E w \in OwnWrites : Admits(w) /\ log' = Append(log, w)

\* Write commits now, later or never, and what it commits is its request.
LEMMA WriteStep ==
    ASSUME NEW add \in SUBSET GoTuples, NEW del \in SUBSET GoTuples,
           NEW precondition \in Nat \cup {NoPrecondition},
           Write(add, del, precondition)
    PROVE  LogStep
<1> DEFINE req   == WriteRequest(add, del, precondition)
           given == [add |-> add, del |-> del, precondition |-> precondition]
           write == [req |-> req, given |-> given]
<1>1. req # Error => write \in OwnWrites
  <2>1. SUFFICES ASSUME req # Error PROVE write \in OwnWrites
    OBVIOUS
  <2>2. req \in WriteRequests
    BY <2>1, RequestIsMessage
  <2>3. given \in Givens
    BY DEF Givens
  <2>4. write.req = WriteRequest(write.given.add, write.given.del, write.given.precondition)
    OBVIOUS
  <2> QED
    BY <2>1, <2>2, <2>3, <2>4 DEF OwnWrites
<1>2. \/ UNCHANGED <<log, adrift>>
      \/ req # Error /\ UNCHANGED log /\ adrift' = adrift \cup {write}
      \/ req # Error /\ UNCHANGED adrift /\ Admits(write) /\ log' = Append(log, write)
  BY DEF Write, Fail
<1> QED
  BY <1>1, <1>2 DEF LogStep

\* The calls made of Write, too.
LEMMA WritesStep ==
    ASSUME Shape, Writes
    PROVE  \E add, del \in SUBSET GoTuples, precondition \in Nat \cup {NoPrecondition} :
               Write(add, del, precondition)
<1>1. Timestamps \cup {NoPrecondition} \subseteq Nat \cup {NoPrecondition}
  BY DEF Shape, Timestamps, NoTimestamp, TimestampEmpty, Version, Zookie
<1>2. CASE \E b \in Batches, precondition \in Timestamps \cup {NoPrecondition} :
               Write(b[1], b[2], precondition)
  <2>1. \A b \in Batches : b[1] \in SUBSET GoTuples /\ b[2] \in SUBSET GoTuples
    BY ClientAssumption
  <2> QED
    BY <1>1, <1>2, <2>1
<1>3. ASSUME NEW t \in Tuples,
             AddOne(t) \/ AddOneWithExpires(t) \/ DeleteOne(t)
                 \/ AddParent(t.ns, t.obj, t.ns, t.obj)
      PROVE  \E add, del \in SUBSET GoTuples, precondition \in Nat \cup {NoPrecondition} :
                 Write(add, del, precondition)
  <2>1. t \in GoTuples
    BY ClientAssumption
  <2> DEFINE endless == [t EXCEPT !.expires = Forever]
             parent  == [Tuple(t.ns, t.obj, RelParent,
                               UserSet(t.ns, t.obj, RelUnspecified), Forever)
                             EXCEPT !.expires = Forever]
  <2>2. endless \in GoTuples
    BY <2>1 DEF GoTuples
  <2>3. parent \in GoTuples
    <3>1. UserSet(t.ns, t.obj, RelUnspecified) \in UserSets
      <4> DEFINE n == <<t.ns, t.obj, RelUnspecified>>
      <4>1. n \in Names \X Names \X Names
        BY <2>1, ClientAssumption DEF GoTuples
      <4>2. UserSet(t.ns, t.obj, RelUnspecified) = UserSet(n[1], n[2], n[3])
        OBVIOUS
      <4> QED
        BY <4>1, <4>2 DEF UserSets
    <3> QED
      BY <2>1, <3>1, ClientAssumption DEF GoTuples, Tuple, Subjects
  <2>4. \/ Write({endless}, {}, NoPrecondition)
        \/ Write({t}, {}, NoPrecondition)
        \/ Write({}, {endless}, NoPrecondition)
        \/ Write({parent}, {}, NoPrecondition)
    BY <1>3 DEF AddOne, AddOneWithExpires, DeleteOne, AddParent
  <2> QED
    BY <2>1, <2>2, <2>3, <2>4
<1> QED
  BY <1>2, <1>3 DEF Writes

-----------------------------------------------------------------------------
(* Questions *)

\* A call that does not write leaves the log alone and what was written.
LEMMA AsksKeep ==
    ASSUME Asks \/ Learns
    PROVE  UNCHANGED <<program, dialled, log, adrift, mine>>
<1> USE DEF Rest, Fail, Hold
<1>1. ASSUME NEW q, NEW ts, CheckWithTimestamp(q, ts)
      PROVE  UNCHANGED <<program, dialled, log, adrift, mine>>
  BY <1>1 DEF CheckWithTimestamp
<1>2. ASSUME NEW q, NEW ts, ListWithTimestamp(q, ts)
      PROVE  UNCHANGED <<program, dialled, log, adrift, mine>>
  BY <1>2 DEF ListWithTimestamp
<1>3. ASSUME NEW q, NEW ts, ExpandWithTimestamp(q, ts)
      PROVE  UNCHANGED <<program, dialled, log, adrift, mine>>
  BY <1>3 DEF ExpandWithTimestamp
<1>4. ASSUME NEW ts, NEW filters, ReadWithTimestamp(ts, filters)
      PROVE  UNCHANGED <<program, dialled, log, adrift, mine>>
  BY <1>4 DEF ReadWithTimestamp
<1>5. ASSUME NEW q, List(q) \/ ContentChangeCheck(q)
      PROVE  UNCHANGED <<program, dialled, log, adrift, mine>>
  BY <1>5 DEF List, ContentChangeCheck
<1> QED
  BY <1>1, <1>2, <1>3, <1>4, <1>5
     DEF Asks, Learns, Check, ListResult, Expand, GetAll, GetAllRel, ReadBySubject, Read

-----------------------------------------------------------------------------
(* Every step *)

\* Every step appends to the log at most.
LEMMA LogStepHolds ==
    ASSUME Shape, [Next]_vars
    PROVE  LogStep
<1>1. CASE Backend
  <2>1. CASE ForeignWrite
    <3>1. PICK batch \in ForeignBatches :
             /\ log' = Append(log, [req |-> [ts |-> Unset, addTuples |-> batch[1],
                                             delTuples |-> batch[2]],
                                    given |-> NoAnswer])
             /\ UNCHANGED adrift
      BY <2>1 DEF ForeignWrite
    <3>2. /\ batch[1] \cup batch[2] \subseteq StorableTuples
          /\ batch[1] \in SUBSET WireTuples /\ batch[2] \in SUBSET WireTuples
      BY ClientAssumption DEF StorableTuples
    <3>3. [ts |-> Unset, addTuples |-> batch[1], delTuples |-> batch[2]]
            \in {r \in WriteRequests : r.ts = Unset}
      BY <3>2 DEF WriteRequests, WireTimestamps
    <3> QED
      BY <3>1, <3>2, <3>3 DEF LogStep, ForeignWrites, Changes
  <2>2. CASE Land
    BY <2>2 DEF Land, LogStep
  <2>3. CASE Proceed
    BY <2>3 DEF Proceed, LogStep
  <2> QED
    BY <1>1, <2>1, <2>2, <2>3 DEF Backend
<1>2. CASE Begin
  BY <1>2 DEF Begin, ParseArgs, ParseUserArg, Connect, LogStep
<1>3. CASE Asks \/ Learns
  BY <1>3, AsksKeep DEF LogStep
<1>4. CASE Writes
  BY <1>4, WritesStep, WriteStep
<1>5. CASE SendEvent
  BY <1>5 DEF SendEvent, Send, Still, Rest, LogStep
<1>6. CASE Consume
  BY <1>6 DEF Consume, Watch, Recv, RecvEnds, Fail, Still, Rest, LogStep
<1>7. CASE UNCHANGED vars
  BY <1>7 DEF vars, clientVars, LogStep
<1> QED
  BY <1>1, <1>2, <1>3, <1>4, <1>5, <1>6, <1>7 DEF Next

\* The log only grows, and by one commit at most.
LEMMA LogGrows ==
    ASSUME Shape, LogStep
    PROVE  /\ log' \in Seq(OwnWrites \cup ForeignWrites)
           /\ adrift' \subseteq OwnWrites
           /\ \/ log' = log
              \/ \E c \in OwnWrites \cup ForeignWrites : log' = Append(log, c)
           /\ Version' >= Version
           /\ \A i \in DOMAIN log : i \in DOMAIN log' /\ log'[i] = log[i]
<1>1. /\ log \in Seq(OwnWrites \cup ForeignWrites) /\ adrift \subseteq OwnWrites
      /\ Len(log) \in Nat /\ DOMAIN log = 1..Len(log)
  BY DEF Shape
<1>2. /\ adrift' \subseteq OwnWrites
      /\ log' = log \/ \E c \in OwnWrites \cup ForeignWrites : log' = Append(log, c)
  BY <1>1, Zenon DEF LogStep
<1>3. CASE log' = log
  BY <1>1, <1>2, <1>3 DEF Version
<1>4. ASSUME NEW c \in OwnWrites \cup ForeignWrites, log' = Append(log, c)
      PROVE  /\ log' \in Seq(OwnWrites \cup ForeignWrites)
             /\ Len(log') = Len(log) + 1
             /\ \A i \in 1..Len(log) : i \in DOMAIN log' /\ log'[i] = log[i]
  <2> DEFINE all == OwnWrites \cup ForeignWrites
  <2>1. c \in all /\ log \in Seq(all)
    BY <1>1, <1>4
  <2> HIDE DEF all
  <2>2. /\ Append(log, c) \in Seq(all) /\ Len(Append(log, c)) = Len(log) + 1
        /\ \A i \in 1..Len(log) :
              i \in DOMAIN Append(log, c) /\ Append(log, c)[i] = log[i]
    BY <2>1
  <2> QED
    BY <1>4, <2>2 DEF all
<1> QED
  BY <1>1, <1>2, <1>3, <1>4 DEF Version

\* A message that could be built carries the wire form of its user.
LEMMA SetsUser ==
    ASSUME NEW msg, NEW sub, WithUser(msg, sub) # Error
    PROVE  /\ WithUser(msg, sub) = [msg EXCEPT !.user = WireUser(sub)]
           /\ WireUser(sub) # Error
BY DEF WithUser

\* Versions, timestamps and the zookie held are numbers.
LEMMA TimestampsNat ==
    ASSUME Shape
    PROVE  /\ Version \in Nat
           /\ Timestamps \subseteq Nat
           /\ held \in Nat
BY DEF Shape, Version, Zookie, Timestamps, NoTimestamp, TimestampEmpty

-----------------------------------------------------------------------------
(* What a question sees *)

\* The call returns what was seen at v, which is as fresh as ts and, if the call
\* is about the latest version, that one.
Sees(op, req, ts, v) ==
    /\ \E result : Answer(op, req, ts, v, result)
    /\ ts # NoTimestamp => v >= ts - 1
    /\ op = "contentChangeCheck" => v = Version
    /\ op = "read" /\ req.ts = Unset => v = Version
    /\ Rest \/ (\E latest \in BOOLEAN : (latest => v = Version) /\ Hold(ts, v, latest))

\* Or it fails, or needs no answer.
Unanswered ==
    /\ Rest
    /\ \/ answer' = [op |-> "impossible", result |-> [ok |-> FALSE]]
       \/ \E op : answer' = [op |-> op, result |-> Error]

AskStep ==
    \/ Unanswered
    \/ \E op, req : \E ts \in Nat, v \in 0..Version : Sees(op, req, ts, v)

\* What the backend evaluates at a timestamp is no older than it.
LEMMA Fresh ==
    ASSUME Shape, NEW ts \in Nat
    PROVE  /\ \A v \in FreshAs(wire(ts)) : v \in 0..Version /\ (ts # NoTimestamp => v >= ts - 1)
           /\ \A v \in ReadableAt(wire(ts)) :
                /\ v \in 0..Version
                /\ ts # NoTimestamp => v >= ts - 1
                /\ ts = NoTimestamp => v = Version
           /\ wire(ts) = Unset => ts = NoTimestamp
BY DEF Shape, Version, FreshAs, ReadableAt, wire, Unset, NoTimestamp

\* A check is answered no earlier than the zookie it was asked with.
LEMMA CheckSees ==
    ASSUME Shape, NEW q \in Questions, NEW ts \in Nat, CheckWithTimestamp(q, ts)
    PROVE  AskStep
<1> DEFINE asked == [ns |-> q.ns, obj |-> q.obj, rel |-> q.rel,
                     user |-> Missing, ts |-> wire(ts)]
           req   == setCheckRequestUser(asked, q.subject)
<1>1. CASE Unanswered
  BY <1>1 DEF AskStep
<1>2. ASSUME req # Error,
             NEW v \in FreshAs(req.ts), NEW result,
             Answer("check", req, ts, v, result), Rest
      PROVE  AskStep
  <2>1. req.ts = wire(ts)
    BY <1>2, SetsUser DEF setCheckRequestUser
  <2>2. v \in 0..Version /\ (ts # NoTimestamp => v >= ts - 1)
    BY <1>2, <2>1, Fresh
  <2> HIDE DEF req
  <2>3. Sees("check", req, ts, v)
    BY <1>2, <2>2 DEF Sees
  <2> QED
    BY <2>1, <2>2, <2>3 DEF AskStep
<1>3. \/ Unanswered
      \/ /\ req # Error
         /\ \E v \in FreshAs(req.ts) : \E result : Answer("check", req, ts, v, result) /\ Rest
  BY DEF CheckWithTimestamp, Fail, Rest, Unanswered
<1> QED
  BY <1>1, <1>2, <1>3

\* A list with a timestamp, likewise.
LEMMA ListSees ==
    ASSUME Shape, NEW q \in Questions, NEW ts \in Nat, ListWithTimestamp(q, ts)
    PROVE  AskStep
<1> DEFINE asked == [ns |-> q.ns, rel |-> q.rel, user |-> Missing, ts |-> wire(ts)]
           req   == setListRequestUser(asked, q.subject)
<1>1. CASE Unanswered
  BY <1>1 DEF AskStep
<1>2. ASSUME req # Error,
             NEW v \in FreshAs(req.ts),
             Answer("list", req, ts, v, [ts |-> Zookie(v)]), Hold(ts, v, FALSE)
      PROVE  AskStep
  <2>1. req.ts = wire(ts)
    BY <1>2, SetsUser DEF setListRequestUser
  <2>2. v \in 0..Version /\ (ts # NoTimestamp => v >= ts - 1)
    BY <1>2, <2>1, Fresh
  <2> HIDE DEF req
  <2>3. Sees("list", req, ts, v)
    BY <1>2, <2>2 DEF Sees
  <2> QED
    BY <2>1, <2>2, <2>3 DEF AskStep
<1>3. \/ Unanswered
      \/ /\ req # Error
         /\ \E v \in FreshAs(req.ts) :
              Answer("list", req, ts, v, [ts |-> Zookie(v)]) /\ Hold(ts, v, FALSE)
  BY DEF ListWithTimestamp, Fail, Rest, Unanswered
<1> QED
  BY <1>1, <1>2, <1>3

\* A list without one is answered at some version.
LEMMA PlainListSees ==
    ASSUME Shape, NEW q \in Questions, List(q)
    PROVE  AskStep
<1> DEFINE asked == [ns |-> q.ns, rel |-> q.rel, user |-> Missing,
                     ts |-> wire(TimestampEmpty)]
           req   == setListRequestUser(asked, q.subject)
<1>1. CASE Unanswered
  BY <1>1 DEF AskStep
<1>2. ASSUME req # Error,
             NEW v \in FreshAs(req.ts),
             Answer("list", req, TimestampEmpty, v, [ts |-> NoTimestamp]), Rest
      PROVE  AskStep
  <2>1. req.ts = wire(TimestampEmpty) /\ TimestampEmpty \in Nat
    BY <1>2, SetsUser DEF setListRequestUser, TimestampEmpty
  <2>2. v \in 0..Version /\ (TimestampEmpty # NoTimestamp => v >= TimestampEmpty - 1)
    BY <1>2, <2>1, Fresh
  <2> HIDE DEF req
  <2>3. Sees("list", req, TimestampEmpty, v)
    BY <1>2, <2>2 DEF Sees
  <2> QED
    BY <2>1, <2>2, <2>3 DEF AskStep
<1>3. \/ Unanswered
      \/ /\ req # Error
         /\ \E v \in FreshAs(req.ts) :
              Answer("list", req, TimestampEmpty, v, [ts |-> NoTimestamp]) /\ Rest
  BY DEF List, Fail, Rest, Unanswered
<1> QED
  BY <1>1, <1>2, <1>3

\* A content-change check is answered at the latest version.
LEMMA ChangeCheckSees ==
    ASSUME Shape, NEW q \in Questions, ContentChangeCheck(q)
    PROVE  AskStep
<1> DEFINE req == setContentChangeCheckRequestUser(
                      [ns |-> q.ns, obj |-> q.obj, rel |-> q.rel, user |-> Missing],
                      q.subject)
<1>1. CASE Unanswered
  BY <1>1 DEF AskStep
<1>2. ASSUME Answer("contentChangeCheck", req, NoTimestamp, Version,
                    [ts |-> Zookie(Version)]),
             Hold(NoTimestamp, Version, TRUE)
      PROVE  AskStep
  <2>1. Version \in 0..Version /\ NoTimestamp \in Nat
    BY TimestampsNat DEF NoTimestamp
  <2> HIDE DEF req
  <2>2. Sees("contentChangeCheck", req, NoTimestamp, Version)
    BY <1>2, <2>1 DEF Sees
  <2> QED
    BY <2>1, <2>2 DEF AskStep
<1>3. \/ Unanswered
      \/ /\ Answer("contentChangeCheck", req, NoTimestamp, Version, [ts |-> Zookie(Version)])
         /\ Hold(NoTimestamp, Version, TRUE)
  BY DEF ContentChangeCheck, Fail, Rest, Unanswered
<1> QED
  BY <1>1, <1>2, <1>3

\* An expand is answered no earlier than its timestamp.
LEMMA ExpandSees ==
    ASSUME Shape, NEW q \in Questions, NEW ts \in Nat, ExpandWithTimestamp(q, ts)
    PROVE  AskStep
<1> DEFINE req == [ns |-> q.ns, obj |-> q.obj, rel |-> q.rel, ts |-> wire(ts)]
<1>1. CASE Unanswered
  BY <1>1 DEF AskStep
<1>2. ASSUME NEW v \in FreshAs(req.ts), NEW result,
             Answer("expand", req, ts, v, result),
             Rest \/ Hold(ts, v, FALSE)
      PROVE  AskStep
  <2>1. req.ts = wire(ts)
    OBVIOUS
  <2>2. v \in 0..Version /\ (ts # NoTimestamp => v >= ts - 1)
    BY <1>2, <2>1, Fresh
  <2> HIDE DEF req
  <2>3. Sees("expand", req, ts, v)
    BY <1>2, <2>2 DEF Sees
  <2> QED
    BY <2>2, <2>3 DEF AskStep
<1>3. \/ Unanswered
      \/ \E v \in FreshAs(req.ts) : \E result :
           Answer("expand", req, ts, v, result) /\ (Rest \/ Hold(ts, v, FALSE))
  BY DEF ExpandWithTimestamp, Fail, Rest, Unanswered
<1> QED
  BY <1>1, <1>2, <1>3

\* A read is answered no earlier than its timestamp.
LEMMA ReadSees ==
    ASSUME Shape, NEW ts \in Nat, NEW filters, ReadWithTimestamp(ts, filters)
    PROVE  AskStep
<1> DEFINE req == ReadRequest(ts, filters)
<1>1. CASE Unanswered
  BY <1>1 DEF AskStep
<1>2. ASSUME req # Error, NEW v \in ReadableAt(req.ts), NEW result,
             Answer("read", req, ts, v, result),
             Rest \/ Hold(ts, v, ts = NoTimestamp)
      PROVE  AskStep
  <2>1. req.ts = wire(ts)
    BY <1>2 DEF ReadRequest
  <2>2. /\ v \in 0..Version
        /\ ts # NoTimestamp => v >= ts - 1
        /\ ts = NoTimestamp => v = Version
        /\ wire(ts) = Unset => ts = NoTimestamp
    BY <1>2, <2>1, Fresh
  <2> HIDE DEF req
  <2>3. Sees("read", req, ts, v)
    BY <1>2, <2>1, <2>2 DEF Sees
  <2> QED
    BY <2>2, <2>3 DEF AskStep
<1>3. \/ Unanswered
      \/ /\ req # Error
         /\ \E v \in ReadableAt(req.ts) : \E result :
              Answer("read", req, ts, v, result) /\ (Rest \/ Hold(ts, v, ts = NoTimestamp))
  BY DEF ReadWithTimestamp, Fail, Rest, Unanswered
<1> QED
  BY <1>1, <1>2, <1>3

\* Every question is answered from a version it allows.
LEMMA AskStepHolds ==
    ASSUME Shape, Asks \/ Learns
    PROVE  AskStep
<1> USE TimestampsNat
<1>1. TimestampEmpty \in Nat /\ NoTimestamp \in Nat
  BY DEF TimestampEmpty, NoTimestamp
<1>2. ASSUME NEW q \in Questions,
             Check(q) \/ List(q) \/ ListResult(q) \/ ContentChangeCheck(q) \/ Expand(q)
      PROVE  AskStep
  BY <1>1, <1>2, CheckSees, PlainListSees, ListSees, ChangeCheckSees, ExpandSees
     DEF Check, ListResult, Expand
<1>3. ASSUME NEW q \in Questions, NEW ts \in Timestamps,
             CheckWithTimestamp(q, ts) \/ ListWithTimestamp(q, ts) \/ ExpandWithTimestamp(q, ts)
      PROVE  AskStep
  BY <1>3, CheckSees, ListSees, ExpandSees
<1>4. ASSUME NEW ts \in Timestamps \cup {NoTimestamp}, NEW filters,
             ReadWithTimestamp(ts, filters)
      PROVE  AskStep
  BY <1>1, <1>4, ReadSees
<1> QED
  BY <1>2, <1>3, <1>4 DEF Asks, Learns, GetAll, GetAllRel, ReadBySubject, Read

-----------------------------------------------------------------------------
(* Read your writes *)

\* Who has kept to the zookie it holds holds one at least as new as its last
\* acknowledged write.
Caught == kept /\ mine > 0 => held >= Zookie(mine)

Fresher == Shape /\ Caught /\ ReadYourWrites

\* Steps that neither answer a question nor learn a zookie.
Reticent ==
    /\ UNCHANGED <<held, mine, kept>>
    /\ \/ answer' = answer
       \/ answer' = NoAnswer
       \/ answer'.op \in {"parse", "parseUser", "dial", "impossible"}
       \/ \E op : answer' = [op |-> op, result |-> Error]

Acknowledged ==
    /\ Version' = Version + 1
    /\ held' = Zookie(Version') /\ mine' = Version' /\ kept' = TRUE
    /\ answer' = [op |-> "write", result |-> [ts |-> held']]

\* What a step answers was seen at a version of the log.
LEMMA AnswerStep ==
    ASSUME Shape, [Next]_vars
    PROVE  Reticent \/ Acknowledged \/ AskStep
<1> USE DEF Reticent
<1>1. CASE Backend
  BY <1>1 DEF Backend, ForeignWrite, Land, Proceed
<1>2. CASE Begin
  BY <1>2 DEF Begin, ParseArgs, ParseUserArg, Connect
<1>3. CASE Asks \/ Learns
  BY <1>3, AskStepHolds
<1>4. CASE Writes
  <2>1. PICK add \in SUBSET GoTuples, del \in SUBSET GoTuples,
             precondition \in Nat \cup {NoPrecondition} : Write(add, del, precondition)
    BY <1>4, WritesStep
  <2> DEFINE write == [req |-> WriteRequest(add, del, precondition),
                       given |-> [add |-> add, del |-> del,
                                  precondition |-> precondition]]
  <2>2. \/ Reticent
        \/ /\ log' = Append(log, write)
           /\ held' = Zookie(Version + 1) /\ mine' = Version + 1 /\ kept' = TRUE
           /\ answer' = [op |-> "write", result |-> [ts |-> held']]
    BY <2>1 DEF Write, Fail
  <2>3. log' = Append(log, write) => Version' = Version + 1
    BY DEF Shape, Version
  <2> QED
    BY <2>2, <2>3 DEF Acknowledged
<1>5. CASE SendEvent
  BY <1>5 DEF SendEvent, Send, Still, Rest
<1>6. CASE Consume
  BY <1>6 DEF Consume, Watch, Recv, RecvEnds, Fail, Still, Rest
<1>7. CASE UNCHANGED vars
  BY <1>7 DEF vars, clientVars
<1> QED
  BY <1>1, <1>2, <1>3, <1>4, <1>5, <1>6, <1>7 DEF Next

\* Asking commits nothing.
LEMMA AskKeepsVersion ==
    ASSUME AskStep
    PROVE  log' = log /\ mine' = mine /\ adrift' = adrift
BY DEF AskStep, Unanswered, Sees, Rest, Hold

\* The shapes of the state survive every step.
LEMMA ShapeInductive ==
    ASSUME Shape, [Next]_vars
    PROVE  Shape'
<1>1. LogStep
  BY LogStepHolds
<1>2. /\ log' \in Seq(OwnWrites \cup ForeignWrites)
      /\ adrift' \subseteq OwnWrites
      /\ Version' >= Version
  BY <1>1, LogGrows
<1>3. Version \in Nat /\ Version' \in Nat
  BY <1>2 DEF Shape, Version
<1>4. ASSUME NEW now \in Nat, now >= Version
      PROVE  /\ held \in NoTimestamp..Zookie(now) /\ mine \in 0..now
             /\ \A v \in 0..Version : Zookie(v) \in NoTimestamp..Zookie(now)
  <2>1. /\ Version \in Nat
        /\ held \in NoTimestamp..Zookie(Version) /\ mine \in 0..Version
    BY <1>3 DEF Shape
  <2> HIDE DEF Version
  <2> QED
    BY <1>4, <2>1 DEF Zookie, NoTimestamp
<1>5. /\ held \in NoTimestamp..Zookie(Version') /\ mine \in 0..Version' /\ kept \in BOOLEAN
      /\ \A v \in 0..Version : Zookie(v) \in NoTimestamp..Zookie(Version')
  BY <1>2, <1>3, <1>4 DEF Shape
<1>6. ASSUME UNCHANGED <<held, mine, kept>>
      PROVE  held' \in NoTimestamp..Zookie(Version') /\ mine' \in 0..Version' /\ kept' \in BOOLEAN
  BY <1>5, <1>6
<1>7. held' \in NoTimestamp..Zookie(Version') /\ mine' \in 0..Version' /\ kept' \in BOOLEAN
  <2>1. CASE Reticent
    BY <1>6, <2>1 DEF Reticent
  <2>2. CASE Acknowledged
    BY <1>3, <2>2 DEF Acknowledged, Zookie, NoTimestamp
  <2>3. CASE Unanswered
    BY <1>6, <2>3 DEF Unanswered, Rest
  <2>4. ASSUME NEW op, NEW req, NEW ts \in Nat, NEW v \in 0..Version, Sees(op, req, ts, v)
        PROVE  held' \in NoTimestamp..Zookie(Version') /\ mine' \in 0..Version'
                   /\ kept' \in BOOLEAN
    <3>1. CASE Rest
      BY <1>6, <3>1 DEF Rest
    <3>2. ASSUME NEW latest \in BOOLEAN, Hold(ts, v, latest)
          PROVE  held' = Zookie(v) /\ mine' = mine /\ kept' \in BOOLEAN
      BY <1>5, <3>2 DEF Hold
    <3> QED
      BY <1>5, <2>4, <3>1, <3>2 DEF Sees
  <2> QED
    BY <2>1, <2>2, <2>3, <2>4, AnswerStep DEF AskStep
<1> QED
  BY <1>2, <1>7 DEF Shape

\* Answers stay fresher than the zookies they were asked with.
LEMMA FresherInductive ==
    ASSUME Fresher, [Next]_vars
    PROVE  Fresher'
<1>0. Shape /\ Shape' /\ Version \in Nat
  BY ShapeInductive, TimestampsNat DEF Fresher
<1>1. CASE Reticent
  <2>1. Caught'
    BY <1>1 DEF Reticent, Fresher, Caught, Zookie
  <2>2. UNCHANGED <<held, mine, kept>>
    BY <1>1 DEF Reticent
  <2>3. ReadYourWrites'
    <3>1. CASE answer' = answer
      BY <2>2, <3>1 DEF Fresher, ReadYourWrites, Asked, Answered
    <3>2. CASE answer' = NoAnswer
      BY <3>2 DEF ReadYourWrites, Asked, Answered, NoAnswer
    <3>3. CASE answer'.op \in {"parse", "parseUser", "dial", "impossible"}
      BY <3>3 DEF ReadYourWrites, Asked, Answered
    <3>4. CASE \E op : answer' = [op |-> op, result |-> Error]
      BY <3>4 DEF ReadYourWrites, Asked, Answered
    <3> QED
      BY <1>1, <3>1, <3>2, <3>3, <3>4 DEF Reticent
  <2> QED
    BY <1>0, <2>1, <2>3 DEF Fresher
<1>2. CASE Acknowledged
  <2>1. Caught'
    BY <1>0, <1>2 DEF Acknowledged, Caught, Zookie
  <2>2. ReadYourWrites'
    BY <1>2 DEF Acknowledged, ReadYourWrites, Asked
  <2> QED
    BY <1>0, <2>1, <2>2 DEF Fresher
<1>3. CASE Unanswered
  <2>1. Caught'
    BY <1>3 DEF Unanswered, Rest, Fresher, Caught, Zookie
  <2>2. ReadYourWrites'
    BY <1>3 DEF Unanswered, ReadYourWrites, Asked, Answered
  <2> QED
    BY <1>0, <2>1, <2>2 DEF Fresher
<1>4. ASSUME NEW op, NEW req, NEW ts \in Nat, NEW v \in 0..Version, Sees(op, req, ts, v)
      PROVE  Fresher'
  <2>1. PICK result : Answer(op, req, ts, v, result)
    BY <1>4 DEF Sees
  <2>2. /\ mine' = mine /\ mine \in 0..Version /\ held \in Nat
        /\ kept' => kept
    BY <1>0, <1>4, TimestampsNat DEF Sees, Rest, Hold, Shape
  <2>3. kept /\ ts = held => v >= mine
    BY <1>0, <1>4, <2>2 DEF Sees, Fresher, Caught, Zookie, NoTimestamp
  <2>4. op = "contentChangeCheck" \/ (op = "read" /\ req.ts = Unset) => v >= mine
    BY <1>0, <1>4, <2>2 DEF Sees
  <2>5. /\ answer'.op = op /\ answer'.req = req /\ answer'.at = v
        /\ answer'.chained = (ts = held)
    BY <2>1 DEF Answer
  <2>6. ReadYourWrites'
    BY <2>2, <2>3, <2>4, <2>5 DEF ReadYourWrites
  <2>7. Caught'
    <3>1. CASE Rest
      BY <3>1 DEF Rest, Fresher, Caught, Zookie
    <3>2. ASSUME NEW latest \in BOOLEAN, latest => v = Version, Hold(ts, v, latest)
          PROVE  Caught'
      BY <1>0, <2>2, <2>3, <3>2 DEF Hold, Caught, Zookie
    <3> QED
      BY <1>4, <3>1, <3>2 DEF Sees
  <2> QED
    BY <1>0, <2>6, <2>7 DEF Fresher
<1> QED
  BY <1>0, <1>1, <1>2, <1>3, <1>4, AnswerStep DEF AskStep

\* Nothing has been asked at first.
LEMMA FresherInitial ==
    ASSUME WatchInit
    PROVE  Fresher
BY DEF WatchInit, Init, Fresher, Shape, Caught, ReadYourWrites, Asked, Answered, NoAnswer,
       NoTimestamp, Version, Zookie

\* A program that asks with the zookie it holds reads its own writes.
THEOREM ReadsOwnWrites == Spec => []ReadYourWrites
<1>1. WatchInit => Fresher
  BY FresherInitial
<1>2. Fresher /\ [Next]_vars => Fresher'
  BY FresherInductive
<1>3. Fresher => ReadYourWrites
  BY DEF Fresher
<1> QED
  BY <1>1, <1>2, <1>3, PTL DEF Spec
=============================================================================
