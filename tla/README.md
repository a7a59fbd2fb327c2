# A verification project for nioclient-go

TLA+ models of the Go client of nio (authorization checks and session
resolution), the TLC runs that check them on small instances, and theorems
checked by TLAPS for every instance.

## The system

`nioclient` is a library. A web server wraps its routes with `Wrap`; every
request then goes through

1. the route's `extract`, which names the resource and the relation it requires,
2. the session resolver: session cookie -> token hash -> user id, out of an L1
   cache, a singleflight group and the remote `am.SessionService`,
3. the gate: a check RPC asking whether the user has the required relation,
4. the handler, which asks further questions through `User.HasRel` and
   `User.List`; on routes that opt in, through a memo that lives for the request.

| Component | Source | State | Operations | Interacts with |
|---|---|---|---|---|
| L1 session cache | `session.go` 95-179 | list and map of entries, under a mutex | get, peek, put, remove | called by the resolver's goroutines |
| Session resolver | `session.go` 181-341 | the cache, the flights, goroutines in `resolve`, `fill` and `spawnRefresh` | resolve, fill, staleCandidate, spawnRefresh, evict | `am.SessionService` by RPC with a deadline; requests |
| Request memo | `requestmemo.go` | a map of cells per request, each open or closed | get, fill, check, list | the goroutines of one handler; the check backend |
| HTTP middleware | `wrap.go`, `user.go`, `error.go` | the request in progress, the `User` | Wrap, HasRel, List, Observe, SetErrorHandler | resolver, memo, check client, handler |
| Check client | `client.go` 24-785 | none of its own (a gRPC connection); the zookie its caller keeps | Check, List, Expand, ContentChangeCheck, Read, Write and what is made of them | the check backend; the conversions |
| Watch stream | `client.go` 563-588, 744-766 | the open stream | Watch, Recv | the check backend; a consumer that resumes |
| Subjects | `subject.go` | none | ParseUserId, NewUserId, the conversions to and from the wire | the check client, the memo, command lines |
| Dialling | `dial.go` | none | LoadTLSCredentials, DialCheck, DialSession | the check client, the resolver |
| Generated code | `proto/` | none | the messages and stubs of the two services | the check client, the resolver |
| Example programs | `cmd/` | none | check, list, write, a server | dialling, the check client, `Wrap` |

### What is hard

- **Interleaving.** Requests and refresh-ahead goroutines of one token meet in
  the cache and in the flight group, whose locks are separate: a goroutine looks
  in the cache, later asks the group, and later still the fill writes the cache.
- **Time.** `resolve` reads the clock once and uses it after locks, waits and a
  whole RPC. Freshness runs on the monotonic clock, session expiry on the wall
  clock. A reply may arrive any time before the deadline of its fetch.
- **Failure.** A fetch may fail before or after the backend has read; a transport
  error may be answered with a stale entry. A memo fill may fail or panic while
  other goroutines wait for it.
- **Aliasing.** Lists are slices which a handler may overwrite.
- **Snapshots.** Each RPC may be evaluated at another snapshot of the backend. In
  a request only the `check_ts` cookie and the memo tie them together; elsewhere
  the caller must echo the zookie it got, and a call that fails takes its zookie
  with it.
- **Lost and late writes.** A caller whose `Write` fails does not know whether it
  committed, or will.
- **Broken streams.** A watch ends at any event, with others on their way; and an
  event that cannot be converted is gone from the stream when `Recv` reports it.
- **Numeric edges.** Ids are positive `int64` read from decimal text; expiries
  lose what is finer than a second; other clients may store kinds of subjects
  this one does not know.

What makes each component correct is stated by the properties below; the places
where the code can go wrong, line by line, are the hazards of `PROJECT.json`.

## Modules

| Module | What it is |
|---|---|
| `LruCache` | the L1 cache as operators on a value `[order, items]` |
| `SessionResolver` | the resolver: goroutines, flights, clocks, backend; its properties |
| `SessionRegister` | abstract: a register per token read with bounded staleness |
| `SessionResolverRegister` | the refinement mapping from the resolver to the register |
| `SessionResolverProofs` | theorems about the resolver |
| `RegisterProofs` | theorems about the bound on staleness, and the resolver as a register |
| `RequestMemo` | the memo of one request: goroutines, cells, memory; its properties |
| `DecisionOnce` | abstract: each question of a request is decided once |
| `RequestMemoOnce` | the refinement mapping from the memo to it |
| `RequestMemoProofs` | theorems about the memo |
| `Wrap` | one request through the middleware and the questions it asks |
| `Subject` | `subject.go`: subjects, their texts and their wire forms, as operators |
| `Wire` | the messages of `proto/iam.pb.go` and the conversions of `client.go` |
| `Dial` | which credentials a connection gets |
| `CheckClient` | a program that dials, writes, reads and asks; the backend under it |
| `WatchStream` | composes it with a stream and a consumer; the properties of the client |
| `Changelog` | abstract: a reader of a changelog without gap or repetition |
| `ConversionProofs` | theorems about the conversions |
| `ClientProofs`, `CallProofs`, `WatchProofs` | theorems about zookies, calls and the stream |
| `WrapProofs` | theorems about `Wrap` |
| `MC*` | small instances for TLC |

Operators marked `Mutant` in a comment stand beside the definition they would
replace. They are plausible bugs of that code, each there to show that some
property fails if the code had it.

### SessionResolver

A process is a goroutine: a caller of `resolve` or a refresher started by
`spawnRefresh`. `pc` is where it stands, `g` holds its locals. Actions are the
stretches of code between two points where another goroutine may intervene: a
mutex of the cache, the mutex of the flight group, the RPC.

| Action | Code |
|---|---|
| `Start` | entry of `resolve`, the one reading of the clock (206) |
| `LookupMiss`, `LookupExpired`, `LookupStale`, `LookupHit` | `cache.get` and what follows from it up to the next lock (209-225) |
| `RemoveExpired` | `cache.remove` of a session past its expiry (213) |
| `PeekStale` | `staleCandidate` (228, 284-296) |
| `Lead`, `Follow` | `flight.Do` without and with an open flight of the key (229) |
| `BackendRead` | the session service reads its row |
| `Fill` | the reply arrives: entry built and stored (253-281) |
| `FetchFails` | deadline, connection, other status, invalid principal (322-341, 52-66) |
| `Finish` | the flight ends; all who waited get its result |
| `Return` | the error path with the stale candidate, or the result (232-243) |
| `Evict` | `evict` |

The result of a fill and the result of its flight are two steps, because the
entry is in the cache before the group forgets the key. A hit that starts a
refresher leaves it standing before `flight.Do`, where it may stay as long as
it likes.

Abstractions. A token has one session in its life: `Unknown`, `Live`, `Ended`.
The code cannot tell an unknown token from an ended session; the model keeps
the stages apart so that answers have an age. A tenant, a principal and the
hash of the token are data the code only passes on. Time is discrete and jumps
between the `Instants`; code between two waits takes no time and a fill ends
by its deadline (`Tick` cannot pass it), the usual reading of
`context.WithTimeout`. The wall clock is monotonic time plus `skew`, which
`SetClock` changes at will; both clocks are read at once. The jittered TTL is
any member of `EffectiveTTLs`, all between 0.8 and 1.0 of `L1TTL` (rounded).

### RequestMemo

A call is one `memoMap.get` by a goroutine of the handler. The deferred
function of `fill` is two steps, `Delete` under the mutex and `Close` after it;
an RPC that succeeds, fails or panics is one. A panic leaves the preset
`errMemoFillAborted` in the cell and takes its goroutine away after the close.
Lists are places in memory: what `requestMemo.list` clones is a place of its
own, and `Scribble` is the handler writing to what it was given. `got` remembers
what the place held on return.

### Wrap

One request, one handler that asks its questions one after another (concurrent
ones are the business of `RequestMemo`), and a backend that keeps every version
of the grants. A question is evaluated at any version from its timestamp to the
latest, which is what the server's freedom under `TimestampEmpty` and "at least
as fresh as" amounts to. Token resolution is any of its three outcomes: what it
may answer and when is the business of `SessionResolver`. `told` keeps every
answer given, `rpcs` every question that left the process.

`check` and `list` are `user.check` and `user.list` as values (`AskFuncs`): the
timestamp they ask at, and whether the memo is wrapped around them. Three steps
change them in the order of the code, which `After` spells out: `ReadCheckTs`
(195-205) puts the cookie's function in the place of `user.check`, `WrapMemo`
(207-214) wraps whatever is there then, and `Gate` (216-232) is the first to ask.
`user` is who the token resolved to and who the gate asks about; `principal` is
who the grant names, whoever that is, and who the handler's questions are about.
Nothing relates the two, as nothing in the code does; a reply without a principal,
or with an invalid one, is an error as in `checkPrincipal`. The log lines and
counters of `Observe` are left out.

### Subject, Wire and Dial

Pure code, as operators named after its functions. A text is a sequence of
characters; digits are digits in radix `Base` and `MaxId` stands for the largest
`int64`, so that overflow, signs and leading zeros happen in short texts. The
words `allUsers` and `authenticatedUsers` are one further character each: what
matters of them is that they contain no digit, colon or hash. The five setters
of a message's oneof are one operator, `WithUser`. Messages are records; repeated
fields are sets. Of the generated code only the fields of the messages are
modelled. A time is an integer, negative before 1970, with `TicksPerSecond` ticks,
and loses what is below a second on its way. `Forever`, a constant that is no
integer, is the absence of an expiry. A path given to `LoadTLSCredentials` is
empty, good or bad.

### CheckClient

The backend is a log of commits; version `v` is what the first `v` commits leave,
and the zookie of a version is one more than it, since 0 stands for the empty
string. `TimestampEmpty` is version 0. A zookie on the wire may be unset.

A program is one goroutine that makes one call at a time and looks at its answer
(`Proceed`). Its kinds, `asks`, `writes` and `watches`, share nothing but the
backend, so each is looked at on its own. Every call may fail (`Fail`): refused
by the client's own guard, refused by the backend, or lost. A call whose answer
cannot be converted fails although it was answered.

| Action | Code |
|---|---|
| `ParseArgs`, `ParseUserArg` | the argument of `cmd/write`, any subject (`parseSubject`); that of `cmd/check` and `cmd/list`, a user (`ParseUserId`) |
| `Connect` | `LoadTLSCredentials`, `DialCheck`, `DialCheckInsecure`, `New` |
| `Write` | `Write`; `AddOne`, `AddOneWithExpires`, `DeleteOne`, `AddParent` are calls of it |
| `CheckWithTimestamp`, `Check` | the impossible relation, the request, `checkPrincipal` |
| `ListWithTimestamp`, `ListResult`, `List` | the three list calls |
| `ContentChangeCheck` | the one call without a zookie in its request |
| `ExpandWithTimestamp`, `Expand` | the request and `expandResultFromProto` |
| `ReadWithTimestamp`, `Read`, `GetAll`, `GetAllRel`, `ReadBySubject` | filters, request, tuples |
| `Land` | a write whose caller gave up arrives, or never will |
| `ForeignWrite` | another client commits |

The backend is external and modelled from what the client relies on and the
comments of `proto/iam.pb.go` say: a question is evaluated at any version at
least as fresh as its zookie, a read without a zookie at the latest (`ReadableAt`).
On the last point the words disagree with one another: `client.go:682`, `:688` and
`TestLiveGetAllSeesOwnWrite` say the latest, while `ReadRequest.ts` in
`proto/iam.pb.go` refers to `CheckRequest.ts`, where unset means the default
snapshot. The model takes the client's side, which the live test confirms; if the
server took the other, a read without a zookie would be no fresher than a check,
and the third clause of `ReadYourWrites` is the one that would be lost.

A write with a zookie is refused if one of its objects changed since (`Outdated`);
nothing else is known of what the backend refuses, so whatever else this program
sends may commit, ids that are not positive among it, and any call may fail
(`Admits`, `Fail`). Other clients may use kinds of subjects this client does not
know, but no tuple without a subject. Rewrite rules are left out: `Expand` lists the
direct subjects of a relation, and the verdict of a check is any of
`CheckResponses`, so what is shown of it holds whatever the backend decides. An
`ExpandResponse` has a list for each of three kinds of subjects; one of another
kind has no place in it and is missing from the answer, and the client cannot
tell.

History variables: `mine` is the version of the last acknowledged write, `kept`
whether every zookie since was asked for with the one held, `given` in the log
what the caller of a write had passed.

### WatchStream

The backend sends a commit as one event with its changes of the namespace, and
may send a heartbeat for a stretch without any. What it has sent is in `queue`
until `Recv` takes it. `RecvEnds` is the end of the stream by the context, the
backend or the connection; what was on its way is lost. The consumer calls
`Watch` with a zookie of its choice, `Recv` until an error, and `Watch` again with
the zookie of the last event it got. An event that cannot be converted is an
error of `Recv`: this consumer leaves the stream and will be sent that event
again, so it never gets past it. One that called `Recv` again on the same stream
would get past it and lose it (the mutant `RecvCarriesOn`).

## Runs

Every run is `tlc -config <cfg> <module>`. The unit of time in the resolver's
instances is abstract: TTL 11, fill deadline 5, tombstone 2.

| Run | Asks | Size |
|---|---|---|
| `lru` | Does the LRU keep list and map in step when three tokens compete for two slots? | 3.7 million states |
| `promise` | Two callers and a refresher on one token: one fetch at a time, answers only age, revocation bounded, a register with bounded staleness? | 30 s |
| `stale` | Two callers with stale-if-error on and the wall clock set back and ahead: stale window kept, no revival, nothing expired but out of a flight? | 1.9 million states |
| `live` | Does every call return although the backend may never answer? | 25 s |
| `memo` | Is each question of a request decided once, through failures, panics, writes and scribbles, and does every call end? | 141 thousand states |
| `wrap` | Is nobody but the resolved user asked about, no handler run without the grant, no answer older than the cookie, no question asked twice on a memo route? | 1.1 million states |
| `client` | Does a program see its own writes, do late writes respect their precondition, do answers say what was stored, and does a consumer get every change once and in the end? | 250 thousand states |
| `revocation`, `expired`, `coalesce`, `wrap_list`, `wrap_hasrel` | the disagreements below | violated |

Bounds and why they suffice. `Instants` contains points before, at and after the
ends of the intervals that matter: the deadline of a fill, the refresh-ahead
window, TTL, TTL plus deadline, stale window. Two callers and one refresher are
the least with which a leader, a follower and a bystander of the same key exist.
Properties about one token are checked with one key, since flights and entries of
different keys share only the LRU; the LRU is checked with more keys than slots.
`EffectiveTTLs` has a short and a full TTL in the `promise` run. The `stale` run has
shorter spans: with a TTL of 3 and a session that expires at 3 an entry is fresh,
stale or gone at the few instants there are, before and after the expiry by a
clock that is right, ten units behind or ten ahead. `Refreshers`
limits the refresh-ahead goroutines alive at one time; a hit that finds none
idle goes on without one. `Calls`, `MaxChanges`, `MaxVersions` and `MaxCalls`
bound what one request does and what others write meanwhile: three calls are a
leader, a waiter and a late comer; two writes let a grant come and go. `wrap` has two users, so that a grant may name
another principal than the token's user, and one relation besides `Impossible`.

For the client: in radix 3 with at most 2 digits and `MaxId` 7 there are numerals
in range, the largest, one too large with as few digits, and ones too long, and
`Texts` has all texts of up to four characters. Two ticks per second make an
expiry that is cut. `MaxCommits` is 3 for a watch, which gives it a change, a
quiet stretch and a change that cannot be converted in any order, and 2
otherwise: a write and one that interferes with it. One write adrift
(`MaxAdrift`) is enough to race its own retry; a program that only asks has
none, since it writes without precondition. Among the tuples written and asked about
are one for user id 0 that expires before 1970, in the middle of a second
(`ToNobody`), and one with a wildcard that does not exist. `MaxQueue` is 2: an event is taken
while another is on its way. `PrincipalIds` has a valid and an invalid id.

Deadlock is checked everywhere. A finished request may stutter (`Over`); the
resolver never stops because calls may always start, nor does the client.

### What the passing runs show

- `SingleFlight`: two goroutines never fetch the same key at the same time.
- `MonotoneAnswers`: once any call has returned a token as live, or as over, no
  later call gets an earlier state, through hits, fills, refreshes, evictions,
  forced misses and stale answers.
- `RevocationBound`: a session that is over is returned only to calls that start
  within `L1TTL + resolveTimeout + StaleIfError` of its end.
- `ExpiredOnlyFromFill`: what is past its expiry by the wall clock the caller read is
  returned, if at all, as the result of a flight; never from L1, never as a stale
  answer, however the wall clock is set. If the session is over, the caller started
  within one fill of its end and the flight had begun before it. With the wall clock
  ahead a session that lives on in the backend looks expired to a caller and is
  returned by a fill all the same: `fill` does not look at the expiry.
- `ImplementsRegister`: seen by its callers, the resolver is `SessionRegister`.
- `CacheCoherent`: list and map of the LRU hold the same keys, within capacity.
- `EveryCallReturns`, `EveryCallEnds`: no call hangs.
- `OneRpcAtATime`, `AnswersAgree`, `OneMissPerAnswer`, `FailuresNotCached`: equal
  questions of a request share one RPC, one answer and one reported miss; a
  failure is shared by those who waited for it and by nobody later.
- `ImplementsOnce`: the memo is `DecisionOnce`.
- `ChecksFollowCookie`, `HandlerAuthorized`, `StrangersAskNothing`, `OneInstant`,
  `OneRpcPerQuestion`: the order of the middleware's steps is right for each
  combination of cookies and options.
- `ParsesBack`: a text is read as the subject it denotes, each of the two wildcards
  from its name, and every other text is refused; where an id is asked for, every
  text that is no numeral of one is.
- `ReadYourWrites`: who echoes the zookie it holds is never answered from before
  its last acknowledged write, also when calls fail in between.
- `ReadsExact`: what `Read` returns is what was stored and asked for, with nothing
  dropped or made up, or the call fails. What `Expand` returns is exactly the user
  ids, user sets and wildcards that were stored; of subjects of other kinds its
  answer says nothing, and so neither does the property.
- `WholeWrites`: what commits is one wire tuple for each the caller gave and no other,
  also when it lands late. Its subject is read back as the one given, except that an
  id that is not positive goes out as it is. Its expiry, compared in ticks with the
  given time and not with another conversion, is never later and less than a second
  earlier; a deletion has none.
- `NoLostUpdate`: a write with a precondition commits only if its objects are as
  they were at that zookie, so a retry after an error commits at most once. The
  empty zookie is no precondition and is left out: `Write` sends it as unset.
- `GrantsNameSomeone`: a check that grants a user something names a user.
- `WatermarkTrue`, `ImplementsChangelog`: a consumer that resumes has been given
  every change up to where it is, once, whole and in order; it is a reader of
  `Changelog`.
- `CatchesUp`: it gets to every commit, or up to the first change it cannot convert:
  then it has been given everything before that one (`Stuck`).

### Where code and words disagree

- `revocation`: comments call the TTL a hard revocation cap (`session.go:9-10`,
  `:73`, `:197`). It runs from the arrival of the reply, so the cap is TTL plus
  the travel of the reply, at most `resolveTimeout`.
- `expired`: the README says expired tokens redirect to signin. A fill returns
  what it fetched without looking at the expiry, also to a caller that started
  after it.
- `coalesce`: concurrent misses are said to coalesce. A miss that reaches the
  group just after the other's flight ended fetches again.
- `wrap_list`: the timestamp is said to be fixed per request in the check and the
  list function; the cookie reaches checks only.
- `wrap_hasrel`: `HasRel` says it requires one or three arguments; it accepts two
  and asks about an empty namespace.

### Fairness

`FairSpec` of the resolver assumes that a runnable goroutine runs and that a
fetch ends, which the context's deadline enforces (`session.go:247`): weak
fairness on each goroutine's own steps, with `FetchFails` among them. Nothing is
assumed of the backend: `BackendRead`, the users' sign-ins and the arrival of
requests have no fairness. `FairSpec` of the memo assumes the same of the handler's
goroutines; an RPC ends because gRPC calls carry the request's context.

`CatchesUp` needs more, since a stream may break again and again. `Fairness` of
`WatchStream` assumes of the consumer that it looks at each answer (weak) and
that, calling again and again, it gets a stream open now and then (strong on
`Watch` with `resume`); of the backend and the network that an event gets sent,
and received before the stream breaks, if that is possible again and again
(strong on `SendEvent` and `Recv`). Weak fairness would not do: a stream that
breaks at once disables both each time. Nothing is assumed of writers, nor that
streams ever stop breaking.

## Proofs

TLAPS checks these for every value of the constants allowed by the assumptions
in the modules: any number of keys, goroutines, calls and commits, any
configuration, any instants.

**The resolver** (`SessionResolverProofs`). Assumed of the constants: there is a
key, callers and refreshers are different goroutines, durations are naturals,
the jittered TTL is at most `L1TTL`.

- `TypeCorrect`: `TypeOK`.
- `SingleFlightHolds`: `SingleFlight`, which is not inductive. `FlightInv` is: the
  group knows exactly the goroutines in a flight, each under its own key, and who
  waits waits for a leader in flight on the same key.
- `AnswersMonotone`: `MonotoneAnswers`. The invariant `AgeInv` gives every place a
  state of a session can come from a bound from below and above: what is
  cached, what travels in an open fill and what waiters will be handed is never
  ahead of the backend, and never behind `seen`, the oldest state still allowed.
  The heart is `Under`: a state is under a token when neither the backend, nor L1,
  nor an answer on its way is older. Whatever has been returned, is about to be
  returned, or is held as a stale candidate is under its token, so nothing older
  can be returned from then on; and a stale candidate is no older than what its
  call must not fall behind, since it was taken when it still lay in L1. One lemma
  per action and shared lemmas for the actions that touch neither cache nor
  flights.
- `CacheStaysCoherent`: `CacheCoherent`. Inductive is that the list has each key
  once, that it has the keys of the map, and that it is within capacity; one
  lemma per operation of the cache, one step per action.

**Staleness** (`RegisterProofs`), under the same assumptions.

- `RevocationBounded`, `ExpiredFromFill`: from `BoundInv`. `CallEnds` finds the steps with
  which a call may end, a fresh hit or `Return`. Its part `Timely` says
  that at some instant, less some slack, the session was not over. An entry is
  `Timely` at the end of its freshness less `L1TTL + ResolveTimeout`
  (`EntryBound`); a flight that read a live session began before its end and is
  within its deadline (`FlightBound`); a call is so with what it was answered or
  holds in reserve (`CallBound`).
- `ResolveIsRegister`: `Spec => ImplementsRegister`. Every step of the resolver is
  a step of `SessionRegister` or a stutter, from `RegInv`: the invariants above
  and `FailInv`, a call that failed has no answer.

**The memo** (`RequestMemoProofs`). Assumed: `None` is no call and no answer, a
scribbled list is no answer.

- `TypeCorrect`: `TypeOK`; `OneRpc`: `OneRpcAtATime`; `AnswersAgreeHold`:
  `AnswersAgree`; `FailuresLeave`: `FailuresNotCached`. All follow from `CellsCorrect`,
  the invariant `MapInv` (a cell is in the map under its question from creation
  until its fill has failed, for good once it has succeeded, so two successful
  cells of one question are the same cell) with `ResultInv` (an answered call has
  what its closed cell holds, and nothing a handler writes to is a cell).
- `OneMiss`: `OneMissPerAnswer`, with `HitInv`: who is not told of a hit made its cell.
- `DecidesOnce`: `Spec => ImplementsOnce`. A question is decided when its cell closes
  with an answer; every other step is a call beginning or ending, or a stutter.

**The middleware** (`WrapProofs`). Assumed: `None` is no user and the bounds are
naturals, the versions at least one. `WrapInv` is inductive: `StepInv` says what the request is at each step,
`ToldInv` that what it was told of checks was true at a version the cookie allows,
`GateInv` that who got past the gate was told so, `MemoInv` that on a route with the
memo every answer is in it and a question that left before had failed. From it
`HandlersAreAuthorized`, `StrangersAreNobody`, `CookieFollowed`, `RequestIsOneInstant`
and `QuestionsCostOneRpc`; with the bounds (`Limits`) `TypeCorrect`.

**The conversions** (`ConversionProofs`). Assumed of ids that there is at least
one and that a radix has two digits or more, that `MaxDigits` is the length of the
numeral of `MaxId` (`DigitsAssumption`: 19 digits for an int64), of times that a
second has at least one tick. `ReceivedKept`: a tuple that could be read from the
wire is the same when it is sent back. `SentKept`: a tuple with a proper subject
that is sent and read is the one that was given, its expiry the whole second it
falls in.

The lemmas on texts carry `TextsReadBack` below. `Value` and `Numeral` are
recursive functions. `ValueDef` and `NumeralDef` first show that they solve their
equations (each initial part of the domain has a solution, so the whole has).
`Induction` and `StrongInduction` state induction with a set in place of a
predicate, from the well-foundedness of `<`. By them `ValueWritten` (the digits of a
text without leading zero are the numeral of its value), `NumeralRead` (the numeral
of n has the value n) and `NumeralLength` (a smaller number has no longer numeral, so
the test of the length in `isPositiveDecimal` refuses no int64). `UserSetRead` finds
the parts of `ns:obj#rel` at the first colon and the first hash after it.

**The client** (`ClientProofs`, `CallProofs`, `WatchProofs`). Assumed: that what the
program passes are tuples Go can build and what others write is storable
and every text it reads is made of characters (`ClientAssumption`), that `AnyRel` is
no name, and that the watched namespace is one.
`Shape` says what the log and the writes adrift are made of: requests of this
program, as it makes them of what it was given, and requests of others. That
`Forever` is no integer is `ForeverAssumption`.

- `ReadsOwnWrites`: `ReadYourWrites`, with `Caught`: a program that kept to its
  zookie holds one at least as fresh as its last acknowledged write.
- `PreconditionsHold`, `WritesAreWhole`: from `Committed`. Each commit of the program
  is `Rightful`: its objects are unchanged between its zookie and its place in the log.
  The log only grows, so it stays so. That the tuples of a request carry those given
  is `OwnRequest`, from the conversions alone.
- `AnswersExact`, `GrantsNamed`: from `Faithful`. One lemma per call and conversion.
- `WatermarkHolds`: `WatermarkTrue`. `WatchInv` adds what is on its way: the queue
  follows `resume` without a gap up to `sent` (`Chained`), so whatever is taken from
  it next continues what was delivered (`Ordered`, `Complete`), and when the
  stream breaks nothing is lost but what `resume` will ask for again.
- `WatchIsReader`: `Spec => ImplementsChangelog`, from `WatchInv`. A write that lands, this
  program's or another's, is `Changelog`'s `Commit`; the first `Watch` its `Start`; a
  `Recv` that returns an event its `Advance`, where a heartbeat gives an empty set of
  changes. That the event is what the reader must be given next is where `Chained` is
  needed. Every other step is a stutter, a later `Watch` from `resume` too.
- `ClientTypeCorrect`: `TypeOK`, from `WatchInv`, `Committed` and `Messages`, which says that
  whatever is asked and answered is a message of the protocol: names, a subject with a
  wire form and a zookie, for each of the client's calls. That `sent` is a version
  follows from `Chained` while a stream is open and from `Placed` when none is.
- `TextsReadBack`: `ParsesBack`. `Parsed` says that the last text read was an argument and
  its result what `parseSubject`, or `ParseUserId`, makes of it; `SubjectReadBack` and
  `UserReadBack` are the case distinctions over the kinds of texts, with the lemmas
  above.

TLC also checked the inductive invariants, on the instances of the runs.

With these every safety property and every refinement that a passing run checks is
also a theorem. Only model-checked: `EveryCallReturns`, `EveryCallEnds` and
`CatchesUp`, liveness under fairness, which the prover does not reach; and the
disagreements with documents and tests, which are runs that end in a violation.

## Not modelled

- Log lines, counters and the fields of observers; the layout of
  redirects; `TokenHash` and tenants, which are data passed on.
- `ListNamespaces`, which copies schema metadata field by field.
- `SetErrorHandler` writes a package variable; the repository uses it before
  serving only.
- Keepalive parameters and what is inside a TLS configuration. `DialSession` is
  `DialCheck` for the other service. A CA path without a key pair is ignored and
  the channel is insecure, as the code's comment says.
- The message runtime of the generated code, its server side, `TupleSpec`, which
  this client never builds, and the messages of `sessions.pb.go` beyond the
  outcomes of a call.
- Of the examples, the printing of results.
- `Write` with an empty zookie as precondition is unconditional, like every call
  that passes one.

## Plan

1. A larger instance of the client: two namespaces watched by two consumers, and a
   queue of three.
2. `ListNamespaces`, and the effect of `SetErrorHandler` while requests are served.
