----------------------------- MODULE WatchStream -----------------------------
(***************************************************************************)
(* Watch and WatchStream.Recv of src/client.go, with the stream under them *)
(* and a consumer that follows one namespace: it calls Recv until an error *)
(* and then calls Watch again with the zookie of the last event it got.    *)
(*                                                                         *)
(* Composed with the calls of CheckClient and their backend.               *)
(***************************************************************************)
EXTENDS CheckClient

CONSTANTS
    WatchNs,   \* the namespace that is watched
    MaxQueue   \* bound: events on their way

ASSUME WatchAssumption == WatchNs \in Names /\ MaxQueue \in Nat \ {0}

VARIABLES
    stream,     \* "none" or "open"
    sent,       \* backend: the version the open stream has got to
    queue,      \* the events on their way to Recv
    start,      \* the zookie the consumer began with
    resume,     \* the zookie it will call Watch with
    delivered   \* the events Recv returned

watchVars == <<stream, sent, queue, start, resume, delivered>>
vars == <<clientVars, watchVars>>

\* Every variable but those of the stream and answer.
Still == Rest

WatchInit ==
    /\ Init
    /\ stream = "none"
    /\ sent = 0
    /\ queue = <<>>
    /\ start = NoTimestamp
    /\ resume = NoTimestamp
    /\ delivered = <<>>

-----------------------------------------------------------------------------
(* The backend *)

\* What a commit changed in the namespace.
UpdatesOf(commit) ==
    {u \in [tuple : Changes(commit), deleted : BOOLEAN] :
        /\ u.tuple.ns = WatchNs
        /\ u.tuple \in IF u.deleted THEN commit.req.delTuples ELSE commit.req.addTuples}

Quiet(from, to) == \A v \in (from + 1)..to : UpdatesOf(log[v]) = {}

\* A commit is sent as one event; a quiet stretch as one without updates.
Send(v) ==
    /\ stream = "open"
    /\ Len(queue) < MaxQueue
    /\ Quiet(sent, v - 1)
    /\ queue' = Append(queue, [ts |-> Zookie(v), updates |-> UpdatesOf(log[v])])
    /\ sent' = v
    /\ UNCHANGED <<stream, start, resume, delivered, answer>>
    /\ Still

SendEvent == \E v \in (sent + 1)..Version : Send(v)

-----------------------------------------------------------------------------
(* The consumer *)

\* Where it starts: nowhere, at the beginning, or at a zookie it got from a read.
StartTimestamps == {NoTimestamp, TimestampEmpty} \cup {Zookie(v) : v \in 0..Version}

\* Mutant: it starts over at its first zookie.
WatchFromStart(startTs) ==
    LET ts == IF start = NoTimestamp THEN startTs ELSE start
    IN  /\ Idle /\ dialled /\ stream = "none"
        /\ \/ Fail("watch") /\ UNCHANGED watchVars
           \/ /\ ts # NoTimestamp
              /\ stream' = "open"
              /\ sent' = ts - 1
              /\ start' = ts
              /\ resume' = ts
              /\ UNCHANGED <<queue, delivered, answer>>
              /\ Still

\* A start is required.  The first time the consumer chooses it.
Watch(startTs) ==
    /\ Idle /\ dialled /\ stream = "none"
    /\ start # NoTimestamp => startTs = resume
    /\ \/ Fail("watch") /\ UNCHANGED watchVars
       \/ /\ startTs # NoTimestamp
          /\ stream' = "open"
          /\ sent' = startTs - 1
          /\ start' = IF start = NoTimestamp THEN startTs ELSE start
          /\ resume' = startTs
          /\ UNCHANGED <<queue, delivered, answer>>
          /\ Still

Close ==
    /\ stream' = "none"
    /\ queue' = <<>>
    /\ sent' = 0

\* Mutants: an event that cannot be converted is passed over; a heartbeat is.
RecvCarriesOn ==
    LET ev == watchEventFromProto(Head(queue))
    IN  /\ Idle /\ queue # <<>>
        /\ queue' = Tail(queue)
        /\ IF ev = Error
           THEN UNCHANGED <<resume, delivered>>
           ELSE resume' = ev.ts /\ delivered' = Append(delivered, ev)
        /\ UNCHANGED <<stream, sent, start, answer>>
        /\ Still

RecvWithoutHeartbeats ==
    LET ev == watchEventFromProto(Head(queue))
    IN  /\ Idle /\ queue # <<>>
        /\ IF ev = Error
           THEN Close /\ UNCHANGED <<resume, delivered>>
           ELSE /\ queue' = Tail(queue)
                /\ IF ev.updates = {} THEN UNCHANGED <<resume, delivered>>
                   ELSE resume' = ev.ts /\ delivered' = Append(delivered, ev)
                /\ UNCHANGED <<stream, sent>>
        /\ UNCHANGED <<start, answer>>
        /\ Still

\* Recv takes the next event.  One that cannot be converted is an error, and the
\* consumer leaves the stream, although the stream itself would go on.
Recv ==
    LET ev == watchEventFromProto(Head(queue))
    IN  /\ Idle /\ queue # <<>>
        /\ IF ev = Error
           THEN Close /\ UNCHANGED <<resume, delivered>>
           ELSE /\ queue' = Tail(queue)
                /\ resume' = ev.ts
                /\ delivered' = Append(delivered, ev)
                /\ UNCHANGED <<stream, sent>>
        /\ UNCHANGED <<start, answer>>
        /\ Still

\* Recv returns EOF or an error: the context was cancelled, the backend closed
\* the stream or the connection broke.  What was on its way is lost.
RecvEnds ==
    /\ stream = "open"
    /\ Close
    /\ UNCHANGED <<start, resume, delivered, answer>>
    /\ Still

-----------------------------------------------------------------------------

Backend ==
    /\ ForeignWrite \/ Land \/ Proceed
    /\ UNCHANGED watchVars

Timestamps == {NoTimestamp, TimestampEmpty, held}

Filters(q) ==
    {{}, {FilterByObject(q.ns, q.obj, AnyRel), FilterBySubject(q.ns, q.subject, AnyRel)}}

Writes ==
    \/ \E b \in Batches, precondition \in Timestamps \cup {NoPrecondition} :
           Write(b[1], b[2], precondition)
    \/ \E t \in Tuples :
           \/ AddOne(t)
           \/ AddOneWithExpires(t)
           \/ DeleteOne(t)
           \/ AddParent(t.ns, t.obj, t.ns, t.obj)

Asks ==
    \/ \E q \in Questions, ts \in Timestamps :
           \/ CheckWithTimestamp(q, ts)
           \/ ListWithTimestamp(q, ts)
           \/ ExpandWithTimestamp(q, ts)
           \/ \E filters \in Filters(q) : ReadWithTimestamp(ts, filters)
    \/ \E q \in Questions :
           \/ Check(q)
           \/ List(q)
           \/ ListResult(q)
           \/ ContentChangeCheck(q)
           \/ Expand(q)
           \/ GetAll(q.ns, q.obj)
           \/ GetAllRel(q.ns, q.obj, q.rel)
           \/ ReadBySubject(q.ns, q.subject, q.rel)

\* A writer lists to learn the zookie it writes at.
Learns == \E q \in Questions : ListResult(q)

Begin ==
    /\ \/ program = "asks" /\ \E text \in Texts : ParseArgs(text) \/ ParseUserArg(text)
       \/ \E target \in Targets :
            \/ Connect(DialCheckInsecure(target))
            \/ \E creds \in Credentials : Connect(DialCheck(target, creds))
    /\ UNCHANGED watchVars

Consume == (\E ts \in StartTimestamps \cup {resume} : Watch(ts)) \/ Recv \/ RecvEnds

Next ==
    \/ Backend
    \/ Begin
    \/ program = "asks" /\ (Asks \/ Writes) /\ UNCHANGED watchVars
    \/ program = "writes" /\ (Writes \/ Learns) /\ UNCHANGED watchVars
    \/ SendEvent
    \/ program = "watches" /\ Consume

\* The consumer calls again and again, calls get through now and then, and the
\* backend and the network make progress whenever they can often enough.
Fairness ==
    /\ WF_vars(Proceed /\ UNCHANGED watchVars)
    /\ SF_vars(program = "watches" /\ \E ts \in {resume} : Watch(ts) /\ stream' = "open")
    /\ SF_vars(SendEvent)
    /\ SF_vars(program = "watches" /\ Recv)

Spec == WatchInit /\ [][Next]_vars /\ Fairness
-----------------------------------------------------------------------------
(* Properties *)

Own == {i \in DOMAIN log : log[i].given # NoAnswer}

Answered == 
    /\ answer.op \notin {"none", "parse", "parseUser", "dial", "impossible"}
    /\ answer.result # Error

Asked == Answered /\ answer.op # "write"

\* Types: the requests and zookies that go over the wire are messages of
\* proto/iam.pb.go, and nothing that could not be converted is among them; what
\* Recv returns are events of tuples that a program can build.
TypeOK ==
    /\ dialled \in BOOLEAN
    /\ \A i \in DOMAIN log : log[i].req \in WriteRequests
    /\ \A write \in adrift : write.req \in WriteRequests
    /\ held \in NoTimestamp..Zookie(Version)
    /\ mine \in 0..Version
    /\ kept \in BOOLEAN
    /\ Asked => answer.req \in CheckRequests \cup ListRequests \cup ReadRequests
                    \cup ExpandRequests \cup ContentChangeCheckRequests
    /\ Asked /\ answer.op = "read" => ReadResponse(answer.at, answer.req) \in ReadResponses
    /\ Asked /\ answer.op = "expand" =>
           ExpandResponse(answer.at, answer.req) \in ExpandResponses
    /\ stream \in {"none", "open"}
    /\ sent \in 0..Version
    /\ \A i \in DOMAIN queue : queue[i] \in WatchResponses
    /\ \A i \in DOMAIN delivered : delivered[i] \in WatchEvents
    /\ {start, resume} \subseteq NoTimestamp..Zookie(Version)

\* A subject is read from a text exactly if the text is how it is written: the
\* ids from 1 to MaxId without sign or leading zero and no number beyond, the
\* two wildcards from their names, and ns:obj#rel, cut at the first colon and
\* the first hash after it; no other text is read (write/main.go).  Where an id
\* is asked for, nothing but the numeral of one is (ParseUserId).
ParsesBack ==
    LET text == answer.text
        sub  == answer.result
    IN  /\ answer.op \in {"parse", "parseUser"} =>
            /\ \A n \in 1..MaxId : text = Numeral[n] <=> sub = UserId(n)
            /\ sub.kind = "userId" => sub.id \in 1..MaxId
            /\ sub # Error => Proper(sub)
        /\ answer.op = "parseUser" => sub.kind \in {"userId", "error"}
        /\ answer.op = "parse" =>
            /\ sub.kind = "userSet" =>
                 /\ text = sub.ns \o <<Colon>> \o sub.obj \o <<Hash>> \o sub.rel
                 /\ ~Contains(sub.ns, Colon) /\ ~Contains(sub.obj, Hash)
            /\ \A i, j \in DOMAIN text :
                 text[i] = Colon /\ text[j] = Hash /\ i < j => sub.kind = "userSet"
            /\ (text = AllUsersText <=> sub = AllUsers)
            /\ (text = AuthenticatedUsersText <=> sub = AuthenticatedUsers)

\* Read your writes: a program that asks with the zookie it holds, and has done
\* so since its last acknowledged write, is never answered from before that
\* write; a read without a zookie and ContentChangeCheck never are.
ReadYourWrites ==
    Asked /\ \/ kept /\ answer.chained
             \/ answer.op = "contentChangeCheck"
             \/ answer.op = "read" /\ answer.req.ts = Unset
        => answer.at >= mine

\* What Read returns is exactly what was stored at the version it was evaluated
\* at and matched its filters: one tuple with a subject this client does not
\* know, or an id that is not positive, and the call is an error.  What Expand
\* returns is exactly the user ids, user sets and wildcards that were stored; a
\* subject of any other kind has no field in its answer, and is missing from it
\* without an error (expandResultFromProto).
ReadsExact ==
    /\ Answered /\ answer.op = "read" =>
         {tupleToProto(t) : t \in answer.result.tuples} = ReadResponse(answer.at, answer.req)
    /\ Answered /\ answer.op = "expand" =>
         {WireUser(sub) : sub \in answer.result.subjects} =
             {user \in Expanded(answer.at, answer.req) :
                  user.case \in {"userId", "userSet", "wildcard"}}

\* A wire tuple says what a tuple of the program does.  Its subject is read back
\* as the one that was given, but for an id that is not positive, which goes out
\* as it is and no reader accepts.  Its expiry is the whole second the given
\* time falls in, so never later and less than a second earlier.
Carries(pt, t) ==
    /\ <<pt.ns, pt.obj, pt.rel>> = <<t.ns, t.obj, t.rel>>
    /\ \/ tupleSubjectFromProto(pt.user) = t.subject
       \/ t.subject.kind = "userId" /\ t.subject.id <= 0 /\ pt.user = WireId(t.subject.id)
    /\ pt.expires = Forever <=> t.expires = Forever
    /\ t.expires # Forever =>
         /\ pt.expires * TicksPerSecond <= t.expires
         /\ t.expires < (pt.expires + 1) * TicksPerSecond

Carry(pts, tuples) ==
    /\ \A t \in tuples : \E pt \in pts : Carries(pt, t)
    /\ \A pt \in pts : \E t \in tuples : Carries(pt, t)

\* A write commits as a whole and as it was asked for, also when it lands late:
\* no tuple missing, made up or changed, none that expires later than it was
\* given, and no deletion that was given an expiry.
WholeWrites ==
    \A i \in Own :
        /\ Carry(log[i].req.addTuples, log[i].given.add)
        /\ Carry(log[i].req.delTuples, log[i].given.del)
        /\ \A t \in log[i].given.del : t.expires = Forever

\* A write with a precondition commits only if its objects are as they were at
\* that zookie.  So one that is retried after an error commits once, even when
\* the first attempt lands after all.
NoLostUpdate ==
    \A i \in Own :
        LET precondition == log[i].given.precondition
        IN  precondition \notin {NoPrecondition, NoTimestamp} =>
              \A j \in precondition..(i - 1) :
                  Objects(Changes(log[j])) \cap Objects(Changes(log[i])) = {}

\* A check that grants a user something names a user as its principal; one
\* about a userset or a wildcard names none.
GrantsNameSomeone ==
    Answered /\ answer.op = "check" =>
        IF answer.req.user.case = "userId"
        THEN answer.result.ok => answer.result.principal.id > 0
        ELSE answer.result.principal.id = 0

\* What was delivered, as it would be sent.
Resent(updates) == {[tuple |-> tupleToProto(u.tuple), deleted |-> u.deleted] : u \in updates}

\* The zookie of an event is a watermark: the consumer has been given every
\* change of the namespace after start and up to it, each once, whole and in
\* order, across errors and broken streams; so it may resume there.
WatermarkTrue ==
    start # NoTimestamp =>
        /\ resume = IF delivered = <<>> THEN start ELSE Last(delivered).ts
        /\ \A i \in DOMAIN delivered :
             /\ delivered[i].ts > IF i = 1 THEN start ELSE delivered[i - 1].ts
             /\ Resent(delivered[i].updates) = UpdatesOf(log[delivered[i].ts - 1])
        /\ \A v \in start..(resume - 1) :
             UpdatesOf(log[v]) # {} => \E i \in DOMAIN delivered : delivered[i].ts = Zookie(v)

\* The consumer implements a reader of the changelog: what Recv returned to it
\* is what was committed.
ReaderAt == IF start = NoTimestamp THEN -1 ELSE resume - 1

ReaderGiven == [i \in DOMAIN delivered |-> Resent(delivered[i].updates)]

Reader == INSTANCE Changelog WITH
    history <- [v \in DOMAIN log |-> UpdatesOf(log[v])],
    at      <- ReaderAt,
    given   <- ReaderGiven

ImplementsChangelog == Reader!Spec

\* The next change of the namespace is one the consumer cannot convert.
Stuck ==
    /\ start # NoTimestamp
    /\ \E v \in DOMAIN log :
         /\ v >= resume /\ Quiet(resume - 1, v - 1)
         /\ \E u \in UpdatesOf(log[v]) : ~Readable(u.tuple)

\* A consumer that has begun gets to every version, or up to the first change it
\* cannot convert: it has been given everything before that one, and there it
\* stays.
CatchesUp ==
    \A v \in 1..MaxCommits["watches"] :
        start # NoTimestamp /\ Version >= v ~> resume >= Zookie(v) \/ Stuck
=============================================================================
