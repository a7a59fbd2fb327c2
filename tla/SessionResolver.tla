--------------------------- MODULE SessionResolver ---------------------------
(***************************************************************************)
(* cachedResolver of src/session.go: token hash -> session, over an L1     *)
(* cache, a singleflight group and the am.SessionService backend.          *)
(*                                                                         *)
(* A goroutine is a request calling resolve (Callers) or one started by    *)
(* spawnRefresh (Refreshers); both enter the flight group through the      *)
(* same Do.  A goroutine that finds the group empty for its key leads:     *)
(* it runs fill itself and the others wait for it.                         *)
(*                                                                         *)
(* A key's session has a life in the backend: Unknown, then Live until     *)
(* its expiry or its revocation, then Ended.  The code cannot tell         *)
(* Unknown from Ended (both are "not found", a tombstone in L1); the model *)
(* keeps them apart so that answers can be ordered by age.                 *)
(*                                                                         *)
(* There are two clocks, as in Go: deadlines of the cache compare the      *)
(* monotonic readings (now), a session's ExpiresAt has none and compares   *)
(* wall clocks (now + skew), which an operator or NTP may set.             *)
(***************************************************************************)
EXTENDS Integers, LruCache

CONSTANTS
    Keys,            \* token hashes
    Callers,         \* request goroutines
    Refreshers,      \* bound: refresh-ahead goroutines alive at one time
    None,            \* no goroutine
    Capacity, L1TTL, NegTTL, StaleIfError,   \* ResolverConfig
    ResolveTimeout,  \* resolveTimeout
    EffectiveTTLs,   \* the jittered TTLs effectiveTTL may draw
    Instants,        \* bound: the instants at which anything happens
    Expiries,        \* bound: the expiry instants the backend hands out
    Skews            \* bound: wall clock minus true time

Procs == Callers \cup Refreshers

Durations == {Capacity, L1TTL, NegTTL, StaleIfError, ResolveTimeout}

ASSUME KeyAssumption    == Keys # {}
ASSUME ProcAssumption   == Callers \cap Refreshers = {} /\ None \notin Procs
ASSUME ConfigAssumption == Durations \subseteq Nat
ASSUME ClockAssumption  == /\ Instants \subseteq Nat /\ 0 \in Instants
                           /\ Expiries \subseteq Nat
                           /\ Skews \subseteq Int /\ 0 \in Skews
\* Downward-only jitter: a factor drawn from [0.8, 1.0).
ASSUME JitterAssumption ==
    EffectiveTTLs \subseteq {t \in 0..L1TTL : 8 * L1TTL < 10 * (t + 1)}

Unknown == 0
Live    == 1
Ended   == 2
Stages  == {Unknown, Live, Ended}

VARIABLES
    now,       \* monotonic time
    skew,      \* wall clock minus now
    stage,     \* backend: where the life of each key's session is
    expires,   \* backend: ExpiresAt, fixed when the session is issued
    endedAt,   \* history: when the session expired or was revoked
    cache,     \* L1
    group,     \* singleflight: the goroutine leading the open flight of a key
    pc,        \* where each goroutine is
    g,         \* its local variables
    seen       \* history: the oldest stage a call for the key may still return

vars == <<now, skew, stage, expires, endedAt, cache, group, pc, g, seen>>
clocks  == <<now, skew>>
backend == <<stage, expires, endedAt>>

Wall == now + skew

\* One L1 slot; outcome Live is a session, anything else a tombstone.
CacheEntry == [outcome : Stages, freshUntil : Nat, staleUntil : Nat,
               effectiveTTL : Nat]

(***************************************************************************)
(* The locals of a goroutine.  now and wall are the reading of time.Now()  *)
(* at the top of resolve; stale says a stale candidate was captured; began *)
(* is when the goroutine started a fill, leader whose fill it waits for;   *)
(* val and err are what the fill, and in the end the call, returns.  floor *)
(* is history: seen[key] when the call started.                            *)
(***************************************************************************)
Errors == {"none", "transport", "fault"}

Locals == [key : Keys, now : Nat, wall : Int, stale : BOOLEAN,
           leader : Procs \cup {None}, began : Nat,
           val : Stages, err : Errors, floor : Stages]

AnyKey == CHOOSE key \in Keys : TRUE

Blank(key) == [key |-> key, now |-> 0, wall |-> 0, stale |-> FALSE,
               leader |-> None, began |-> 0,
               val |-> Unknown, err |-> "none", floor |-> Unknown]

FlightSteps == {"sent", "answered", "settled"}
Steps == {"idle", "get", "remove", "peek", "do", "wait", "ret", "done"}
             \cup FlightSteps
RefreshSteps == {"idle", "do", "wait"} \cup FlightSteps

InFlight(p) == pc[p] \in FlightSteps

Init ==
    /\ now = 0
    /\ skew = 0
    /\ stage = [key \in Keys |-> Unknown]
    /\ expires = [key \in Keys |-> 0]
    /\ endedAt = [key \in Keys |-> 0]
    /\ cache = newLruCache
    /\ group = [key \in Keys |-> None]
    /\ pc = [p \in Procs |-> "idle"]
    /\ g = [p \in Procs |-> Blank(AnyKey)]
    /\ seen = [key \in Keys |-> Unknown]

-----------------------------------------------------------------------------
(* Time and the backend *)

\* Time jumps to a later instant, not past the deadline of an open fill: the
\* context of fill ends the fetch, and what follows it takes no time.
Tick ==
    /\ \E t \in Instants :
         /\ t > now
         /\ \A p \in Procs : InFlight(p) => t <= g[p].began + ResolveTimeout
         /\ now' = t
         /\ LET over == {key \in Keys : stage[key] = Live /\ expires[key] <= t}
            IN  /\ stage' = [key \in Keys |->
                               IF key \in over THEN Ended ELSE stage[key]]
                /\ endedAt' = [key \in Keys |->
                               IF key \in over THEN expires[key] ELSE endedAt[key]]
    /\ UNCHANGED <<skew, expires, cache, group, pc, g, seen>>

\* The wall clock is set.
SetClock ==
    /\ \E s \in Skews \ {skew} : skew' = s
    /\ UNCHANGED <<now, backend, cache, group, pc, g, seen>>

\* The user signs in.
Issue(key) ==
    /\ stage[key] = Unknown
    /\ \E e \in Expiries : e > now /\ expires' = [expires EXCEPT ![key] = e]
    /\ stage' = [stage EXCEPT ![key] = Live]
    /\ UNCHANGED <<clocks, endedAt, cache, group, pc, g, seen>>

\* The session is revoked before its expiry.
Revoke(key) ==
    /\ stage[key] = Live
    /\ stage' = [stage EXCEPT ![key] = Ended]
    /\ endedAt' = [endedAt EXCEPT ![key] = now]
    /\ UNCHANGED <<clocks, expires, cache, group, pc, g, seen>>

-----------------------------------------------------------------------------
(* resolve: lookup *)

Later(a, b) == IF a < b THEN b ELSE a

\* resolve is called, and reads the clock.
Start(c, key) ==
    /\ pc[c] \in {"idle", "done"}
    /\ pc' = [pc EXCEPT ![c] = "get"]
    /\ g' = [g EXCEPT ![c] = [Blank(key) EXCEPT !.now = now, !.wall = Wall,
                                               !.floor = seen[key]]]
    /\ UNCHANGED <<clocks, backend, cache, group, seen>>

\* Mutant: expiry is left to freshUntil.
WallValidIgnored(c, entry) == TRUE

\* A session is past its expiry by the wall clock the call read.
WallValid(c, entry) == entry.outcome = Live => expires[g[c].key] > g[c].wall

LookupMiss(c) ==
    /\ pc[c] = "get"
    /\ ~GetHits(cache, g[c].key, Capacity)
    /\ pc' = [pc EXCEPT ![c] = "peek"]
    /\ UNCHANGED <<clocks, backend, cache, group, g, seen>>

LookupExpired(c) ==
    /\ pc[c] = "get"
    /\ GetHits(cache, g[c].key, Capacity)
    /\ ~WallValid(c, Entry(cache, g[c].key))
    /\ cache' = Promote(cache, g[c].key)
    /\ pc' = [pc EXCEPT ![c] = "remove"]
    /\ UNCHANGED <<clocks, backend, group, g, seen>>

LookupStale(c) ==
    /\ pc[c] = "get"
    /\ GetHits(cache, g[c].key, Capacity)
    /\ WallValid(c, Entry(cache, g[c].key))
    /\ g[c].now >= Entry(cache, g[c].key).freshUntil
    /\ cache' = Promote(cache, g[c].key)
    /\ pc' = [pc EXCEPT ![c] = "peek"]
    /\ UNCHANGED <<clocks, backend, group, g, seen>>

\* Less than a tenth of the entry's TTL is left: refresh ahead.
NearlyStale(c, entry) ==
    /\ entry.outcome = Live
    /\ 10 * (entry.freshUntil - g[c].now) < entry.effectiveTTL

IdleRefreshers == {r \in Refreshers : pc[r] = "idle"}

\* The hit is the answer.  spawnRefresh only starts the goroutine: it joins the
\* flight group later.  With every refresher busy no goroutine is added.
LookupHit(c) ==
    LET key   == g[c].key
        entry == Entry(cache, key)
        served == [g EXCEPT ![c].val = entry.outcome]
    IN  /\ pc[c] = "get"
        /\ GetHits(cache, key, Capacity)
        /\ WallValid(c, entry)
        /\ g[c].now < entry.freshUntil
        /\ cache' = Promote(cache, key)
        /\ seen' = [seen EXCEPT ![key] = Later(@, entry.outcome)]
        /\ \/ /\ NearlyStale(c, entry)
              /\ \E r \in IdleRefreshers :
                   /\ pc' = [pc EXCEPT ![c] = "done", ![r] = "do"]
                   /\ g' = [served EXCEPT ![r] = Blank(key)]
           \/ /\ ~NearlyStale(c, entry) \/ IdleRefreshers = {}
              /\ pc' = [pc EXCEPT ![c] = "done"]
              /\ g' = served
        /\ UNCHANGED <<clocks, backend, group>>

\* The forced miss drops whatever the slot holds by now.
RemoveExpired(c) ==
    /\ pc[c] = "remove"
    /\ cache' = remove(cache, g[c].key)
    /\ pc' = [pc EXCEPT ![c] = "peek"]
    /\ UNCHANGED <<clocks, backend, group, g, seen>>

-----------------------------------------------------------------------------
(* resolve: the flight *)

\* Mutant: the end of the stale window is not looked at.
StaleCandidateForever(c) ==
    /\ StaleIfError # 0
    /\ Has(cache, g[c].key)
    /\ Entry(cache, g[c].key).outcome = Live
    /\ expires[g[c].key] > g[c].wall

\* staleCandidate, judged by the clock read when the call started.
StaleCandidate(c) ==
    LET key == g[c].key
    IN  /\ StaleIfError # 0
        /\ Has(cache, key)
        /\ Entry(cache, key).outcome = Live
        /\ expires[key] > g[c].wall
        /\ g[c].now < Entry(cache, key).staleUntil

PeekStale(c) ==
    /\ pc[c] = "peek"
    /\ g' = [g EXCEPT ![c].stale = StaleCandidate(c)]
    /\ pc' = [pc EXCEPT ![c] = "do"]
    /\ UNCHANGED <<clocks, backend, cache, group, seen>>

\* Mutant: the flight is not registered, so the next goroutine leads another.
LeadUnregistered(p) ==
    /\ pc[p] = "do"
    /\ group[g[p].key] = None
    /\ g' = [g EXCEPT ![p].began = now]
    /\ pc' = [pc EXCEPT ![p] = "sent"]
    /\ UNCHANGED <<clocks, backend, cache, group, seen>>

\* flight.Do with no open flight of the key: lead it, and send the fetch.
Lead(p) ==
    /\ pc[p] = "do"
    /\ group[g[p].key] = None
    /\ group' = [group EXCEPT ![g[p].key] = p]
    /\ g' = [g EXCEPT ![p].began = now]
    /\ pc' = [pc EXCEPT ![p] = "sent"]
    /\ UNCHANGED <<clocks, backend, cache, seen>>

\* flight.Do with an open flight: wait for its leader.
Follow(p) ==
    /\ pc[p] = "do"
    /\ group[g[p].key] # None
    /\ g' = [g EXCEPT ![p].leader = group[g[p].key]]
    /\ pc' = [pc EXCEPT ![p] = "wait"]
    /\ UNCHANGED <<clocks, backend, cache, group, seen>>

\* The backend reads the session row; its answer is on the way.
BackendRead(p) ==
    /\ pc[p] = "sent"
    /\ g' = [g EXCEPT ![p].val = stage[g[p].key]]
    /\ pc' = [pc EXCEPT ![p] = "answered"]
    /\ UNCHANGED <<clocks, backend, cache, group, seen>>

Sooner(a, b) == IF a < b THEN a ELSE b

\* Mutant: fresh until the session expires, L1TTL is not a cap.
SessionEntryUncapped(key, effectiveTTL) ==
    LET freshUntil == now + Later(0, expires[key] - Wall)
    IN  [outcome |-> Live, freshUntil |-> freshUntil,
         staleUntil |-> freshUntil + StaleIfError, effectiveTTL |-> effectiveTTL]

\* The entry fill stores: a session is fresh for the jittered TTL or for what
\* the wall clock leaves of the session, a tombstone for NegTTL.
SessionEntry(key, effectiveTTL) ==
    LET wallRemaining == Later(0, expires[key] - Wall)
        freshUntil    == now + Sooner(effectiveTTL, wallRemaining)
    IN  [outcome |-> Live, freshUntil |-> freshUntil,
         staleUntil |-> freshUntil + StaleIfError, effectiveTTL |-> effectiveTTL]

Tombstone(val) ==
    [outcome |-> val, freshUntil |-> now + NegTTL, staleUntil |-> now + NegTTL,
     effectiveTTL |-> NegTTL]

\* Mutant: a tombstone does not replace the entry it contradicts.
FillSessionsOnly(p) ==
    /\ pc[p] = "answered"
    /\ \E effectiveTTL \in EffectiveTTLs :
         cache' = IF g[p].val = Live
                  THEN put(cache, g[p].key,
                           SessionEntry(g[p].key, effectiveTTL), Capacity)
                  ELSE cache
    /\ pc' = [pc EXCEPT ![p] = "settled"]
    /\ UNCHANGED <<clocks, backend, group, g, seen>>

\* The answer arrives in time: it is stored, and is the result of the flight.
Fill(p) ==
    /\ pc[p] = "answered"
    /\ \E effectiveTTL \in EffectiveTTLs :
         cache' = put(cache, g[p].key,
                      IF g[p].val = Live THEN SessionEntry(g[p].key, effectiveTTL)
                                         ELSE Tombstone(g[p].val),
                      Capacity)
    /\ pc' = [pc EXCEPT ![p] = "settled"]
    /\ UNCHANGED <<clocks, backend, group, g, seen>>

\* The fetch fails, before or after the backend read: the deadline or a lost
\* connection ("transport"), or any other status or a principal that is not
\* positive ("fault").  Nothing is stored.
FetchFails(p) ==
    /\ pc[p] \in {"sent", "answered"}
    /\ \E e \in Errors \ {"none"} :
         g' = [g EXCEPT ![p].err = e, ![p].val = Unknown]
    /\ pc' = [pc EXCEPT ![p] = "settled"]
    /\ UNCHANGED <<clocks, backend, cache, group, seen>>

\* Mutants: waiters are forgotten; a refresher takes the path of a caller.
WaitingNone(p) == {}
AfterFlightAlike(q) == "ret"

\* The flight ends: its key is free again and everyone who waited has its
\* result.  A refresher discards the result and is gone.
Waiting(p) == {q \in Procs : pc[q] = "wait" /\ g[q].leader = p}

AfterFlight(q) == IF q \in Callers THEN "ret" ELSE "idle"

Finish(p) ==
    LET released == Waiting(p) \cup {p}
    IN  /\ pc[p] = "settled"
        /\ group' = [group EXCEPT ![g[p].key] = None]
        /\ pc' = [q \in Procs |->
                    IF q \in released THEN AfterFlight(q) ELSE pc[q]]
        /\ g' = [q \in Procs |->
                   IF q \notin released THEN g[q]
                   ELSE IF q \in Callers
                        THEN [g[q] EXCEPT !.val = g[p].val, !.err = g[p].err,
                                          !.leader = None, !.began = 0]
                        ELSE Blank(AnyKey)]
        /\ UNCHANGED <<clocks, backend, cache, seen>>

\* Mutant: any transport error is answered with a session.
AnswerLive(c) ==
    IF g[c].err = "transport"
    THEN [g[c] EXCEPT !.val = Live, !.err = "none", !.stale = FALSE]
    ELSE [g[c] EXCEPT !.stale = FALSE]

\* resolve returns: on a transport error the stale candidate, if there is one.
Answer(c) ==
    IF g[c].err = "transport" /\ g[c].stale
    THEN [g[c] EXCEPT !.val = Live, !.err = "none", !.stale = FALSE]
    ELSE [g[c] EXCEPT !.stale = FALSE]

Return(c) ==
    /\ pc[c] = "ret"
    /\ g' = [g EXCEPT ![c] = Answer(c)]
    /\ pc' = [pc EXCEPT ![c] = "done"]
    /\ seen' = IF Answer(c).err = "none"
               THEN [seen EXCEPT ![g[c].key] = Later(@, Answer(c).val)]
               ELSE seen
    /\ UNCHANGED <<clocks, backend, cache, group>>

\* evict
Evict(key) ==
    /\ Has(cache, key)
    /\ cache' = remove(cache, key)
    /\ UNCHANGED <<clocks, backend, group, pc, g, seen>>

-----------------------------------------------------------------------------
Lookup(c) == LookupMiss(c) \/ LookupExpired(c) \/ LookupStale(c) \/ LookupHit(c)

Resolve(c) == Lookup(c) \/ RemoveExpired(c) \/ PeekStale(c) \/ Return(c)

Settle(p) == Fill(p) \/ FetchFails(p)

Flight(p) == Lead(p) \/ Follow(p) \/ BackendRead(p) \/ Settle(p) \/ Finish(p)

Environment ==
    \/ Tick
    \/ SetClock
    \/ \E key \in Keys : Issue(key) \/ Revoke(key)

Next ==
    \/ Environment
    \/ \E c \in Callers : Resolve(c) \/ \E key \in Keys : Start(c, key)
    \/ \E p \in Procs : Flight(p)
    \/ \E key \in Keys : Evict(key)

Spec == Init /\ [][Next]_vars

\* Runnable goroutines run, and the context's deadline ends every fetch.
\* Nothing makes the backend answer, a user sign in, or a request arrive.
Fairness ==
    /\ \A c \in Callers : WF_vars(Resolve(c))
    /\ \A p \in Procs : WF_vars(Lead(p) \/ Follow(p) \/ Settle(p) \/ Finish(p))

FairSpec == Spec /\ Fairness

-----------------------------------------------------------------------------
CacheTypeOK ==
    /\ DOMAIN cache.items \subseteq Keys
    /\ \A key \in DOMAIN cache.items : cache.items[key] \in CacheEntry

TypeOK ==
    /\ now \in Nat
    /\ skew \in Int
    /\ stage \in [Keys -> Stages]
    /\ expires \in [Keys -> Nat]
    /\ endedAt \in [Keys -> Nat]
    /\ CacheTypeOK
    /\ group \in [Keys -> Procs \cup {None}]
    /\ pc \in [Procs -> Steps]
    /\ \A r \in Refreshers : pc[r] \in RefreshSteps
    /\ g \in [Procs -> Locals]
    /\ seen \in [Keys -> Stages]

\* What a finished call returned to its caller: a session or not found.
Answered(c) == pc[c] = "done" /\ g[c].err = "none"

\* Single flight: two goroutines never fetch the same key at the same time,
\* whether they came through resolve or through spawnRefresh.
SingleFlight ==
    \A p, q \in Procs :
        InFlight(p) /\ InFlight(q) /\ g[p].key = g[q].key => p = q

\* A session that was reported gone does not come back: a call never returns an
\* older state of the session than one returned before the call started,
\* through any mixture of hits, fills, refreshes, evictions and stale answers.
MonotoneAnswers ==
    \A c \in Callers : Answered(c) => g[c].val >= g[c].floor

\* A session that expired or was revoked is returned only to calls that start
\* less than L1TTL plus one fill (plus the stale window) after its end.
RevocationBound ==
    \A c \in Callers :
        Answered(c) /\ g[c].val = Live /\ stage[g[c].key] = Ended
            => g[c].now <= endedAt[g[c].key]
                            + L1TTL + ResolveTimeout + StaleIfError

\* A session already past its expiry by the wall clock a call read is given to
\* the call only as the result of a flight, never by L1 nor as a stale answer,
\* however the wall clock is set; if the session is over, the call started within
\* one fill of its end.  And a flight that ends with a session that is over had
\* begun before that end.  (With the wall clock ahead a session that lives on in
\* the backend is past its expiry to the call: it is the backend that decides.)
EndsCall(c)   == pc[c] # "done" /\ Answered(c)'
EndsFlight(p) == pc[p] = "settled" /\ pc'[p] # "settled"

ExpiredOnlyFromFill ==
    [][/\ \A c \in Callers :
            EndsCall(c) /\ g'[c].val = Live /\ expires[g[c].key] <= g[c].wall =>
                /\ pc[c] = "ret" /\ g[c].err = "none" /\ g[c].val = Live
                /\ stage[g[c].key] = Ended =>
                       g[c].now <= endedAt[g[c].key] + ResolveTimeout
       /\ \A p \in Procs :
            EndsFlight(p) /\ g[p].err = "none" /\ g[p].val = Live
              /\ stage[g[p].key] = Ended => g[p].began <= endedAt[g[p].key]]_vars

\* What the comments say of the TTL, a hard revocation cap: a session that is
\* over is not returned to a call that starts more than L1TTL (plus the stale
\* window) later.  The TTL runs from the arrival of the reply, so it is not.
RevocationCap ==
    \A c \in Callers :
        Answered(c) /\ g[c].val = Live /\ stage[g[c].key] = Ended
            => g[c].now <= endedAt[g[c].key] + L1TTL + StaleIfError

\* What the README says of expired tokens, that they are not found: no call
\* returns a session whose expiry had passed when the call started.
ExpiredNeverReturned ==
    \A c \in Callers :
        Answered(c) /\ g[c].val = Live => expires[g[c].key] > g[c].wall

\* What the comments say of concurrent misses, that they coalesce: a call that
\* missed does not fetch again what another fill has stored meanwhile.
StoredFresh(key) ==
    /\ GetHits(cache, key, Capacity)
    /\ now < Entry(cache, key).freshUntil
    /\ Entry(cache, key).outcome = Live => expires[key] > Wall

MissesCoalesce ==
    [][\A c \in Callers : Lead(c) => ~StoredFresh(g[c].key)]_vars

\* The list and the map of the LRU stay in step, within the capacity.
CacheCoherent == Coherent(cache, Capacity)

\* Every call to resolve returns, whatever the backend does.
EveryCallReturns ==
    \A c \in Callers : pc[c] = "get" ~> pc[c] = "done"
=============================================================================
