--------------------------- MODULE RegisterProofs ---------------------------
(***************************************************************************)
(* Theorems about how long a session that is over is still returned by     *)
(* SessionResolver, and that it implements SessionRegister, for any number *)
(* of goroutines and tokens and any configuration.                         *)
(***************************************************************************)
EXTENDS SessionResolverProofs, SessionResolverRegister

-----------------------------------------------------------------------------
(* How long a session outlives its end *)

\* At t, less slack, the session of the key was not over.
Timely(key, t, slack) ==
    /\ stage[key] # Unknown
    /\ t <= now + slack
    /\ stage[key] = Ended => t <= endedAt[key] + slack

Whole == L1TTL + ResolveTimeout + StaleIfError

\* A cached session is fresh for at most the TTL after a fill that began before
\* its end.
EntryBound(key) ==
    Has(cache, key) /\ Entry(cache, key).outcome = Live =>
        /\ Timely(key, Entry(cache, key).freshUntil, L1TTL + ResolveTimeout)
        /\ Entry(cache, key).staleUntil = Entry(cache, key).freshUntil + StaleIfError

\* A flight ends by its deadline, and its session was read after it began.
FlightBound(p) ==
    /\ InFlight(p) => g[p].began <= now /\ now <= g[p].began + ResolveTimeout
    /\ Known(p) /\ g[p].val = Live =>
           Timely(g[p].key, g[p].began, 0)

\* What the call started late enough for: the result of a flight, its stale
\* candidate, its answer.
CallBound(c) ==
    /\ g[c].now <= now
    /\ pc[c] = "ret" /\ g[c].err = "none" /\ g[c].val = Live =>
           Timely(g[c].key, g[c].now, ResolveTimeout)
    /\ g[c].stale =>
           Timely(g[c].key, g[c].now, Whole) /\ g[c].wall < expires[g[c].key]
    /\ pc[c] = "done" /\ g[c].err = "none" /\ g[c].val = Live =>
           Timely(g[c].key, g[c].now, Whole)

BoundInv ==
    /\ \A key \in Keys : stage[key] = Live => now < expires[key]
    /\ \A key \in Keys : EntryBound(key)
    /\ \A p \in Procs : FlightBound(p) /\ CallBound(p)

\* Nothing is cached or in flight at first.
LEMMA BoundInit == Init => BoundInv
<1> SUFFICES ASSUME Init PROVE BoundInv
  OBVIOUS
<1>1. \A key \in Keys : stage[key] # Live /\ ~Has(cache, key)
  BY DEF Init, Unknown, Live, newLruCache, Has
<1>2. \A p \in Procs : pc[p] = "idle" /\ g[p].now = 0 /\ ~g[p].stale /\ now = 0
  BY DEF Init, Blank
<1> QED
  BY <1>1, <1>2 DEF BoundInv, EntryBound, FlightBound, CallBound, InFlight, FlightSteps, Known

\* Time goes on, sessions are issued once, and end for good, not in the past.
History ==
    /\ now <= now'
    /\ \A key \in Keys :
         /\ stage[key] # Unknown => stage'[key] # Unknown /\ expires'[key] = expires[key]
         /\ stage[key] = Ended => stage'[key] = Ended /\ endedAt'[key] = endedAt[key]
         /\ stage[key] = Live /\ stage'[key] = Ended => now <= endedAt'[key]

\* Every step is history, and a live session is not past its expiry.
LEMMA HistoryStep ==
    ASSUME TypeOK, TypeOK', BoundInv, [Next]_vars
    PROVE  /\ History
           /\ \A key \in Keys : stage'[key] = Live => now' < expires'[key]
<1>t. /\ now \in Nat /\ now' \in Nat
      /\ \A key \in Keys : stage[key] \in {0, 1, 2}
      /\ \A key \in Keys : expires[key] \in Nat /\ endedAt[key] \in Nat
      /\ stage \in [Keys -> Stages] /\ expires \in [Keys -> Nat] /\ endedAt \in [Keys -> Nat]
  BY DEF TypeOK, Stages, Unknown, Live, Ended
<1> USE DEF History, BoundInv, Unknown, Live, Ended
<1>1. CASE Tick
  BY <1>1, <1>t DEF Tick
<1>2. ASSUME NEW key \in Keys, Issue(key)
      PROVE  History /\ \A k \in Keys : stage'[k] = Live => now' < expires'[k]
  BY <1>2, <1>t, ClockAssumption DEF Issue, clocks
<1>3. ASSUME NEW key \in Keys, Revoke(key)
      PROVE  History /\ \A k \in Keys : stage'[k] = Live => now' < expires'[k]
  BY <1>3, <1>t DEF Revoke, clocks
<1>4. CASE UNCHANGED <<now, backend>>
  BY <1>4, <1>t DEF backend
<1>5. CASE SetClock
  BY <1>4, <1>5 DEF SetClock
<1>6. ASSUME NEW c \in Callers, Resolve(c) \/ \E key \in Keys : Start(c, key)
      PROVE  UNCHANGED <<now, backend>>
  BY <1>6 DEF Resolve, Lookup, LookupMiss, LookupExpired, LookupStale, LookupHit,
              RemoveExpired, PeekStale, Return, Start, clocks
<1>7. ASSUME NEW p \in Procs, Flight(p)
      PROVE  UNCHANGED <<now, backend>>
  BY <1>7 DEF Flight, Settle, Lead, Follow, BackendRead, Fill, FetchFails, Finish, clocks
<1>8. ASSUME NEW key \in Keys, Evict(key)
      PROVE  UNCHANGED <<now, backend>>
  BY <1>8 DEF Evict, clocks
<1>9. CASE UNCHANGED vars
  BY <1>4, <1>9 DEF vars, backend
<1> QED
  BY <1>1, <1>2, <1>3, <1>4, <1>5, <1>6, <1>7, <1>8, <1>9 DEF Next, Environment

\* What was timely stays so.
LEMMA TimelyKept ==
    ASSUME TypeOK, TypeOK', History, NEW key \in Keys, NEW t \in Nat, NEW slack \in Nat,
           Timely(key, t, slack)
    PROVE  Timely(key, t, slack)'
<1>1. /\ now \in Nat /\ now' \in Nat /\ endedAt[key] \in Nat /\ endedAt'[key] \in Nat
      /\ stage[key] \in {Unknown, Live, Ended}
  BY DEF TypeOK, Stages
<1> QED
  BY <1>1 DEF Timely, History

\* ... and what is timely is so with an earlier t and more slack.
LEMMA TimelyWeakens ==
    ASSUME TypeOK, NEW key \in Keys, NEW t \in Nat, NEW slack \in Nat, Timely(key, t, slack),
           NEW s \in Nat, NEW more \in Nat, s <= t + more
    PROVE  Timely(key, s, slack + more)
<1>1. now \in Nat /\ endedAt[key] \in Nat
  BY DEF TypeOK
<1> QED
  BY <1>1 DEF Timely

\* The three durations add up in any order.
LEMMA WholeNat ==
    /\ Whole \in Nat /\ ResolveTimeout \in Nat /\ L1TTL + ResolveTimeout \in Nat
    /\ StaleIfError \in Nat
    /\ Whole = (L1TTL + ResolveTimeout) + StaleIfError
    /\ Whole = ResolveTimeout + (L1TTL + StaleIfError)
BY ConfigNat DEF Whole

\* An entry that was there.
LEMMA EntryKept ==
    ASSUME TypeOK, TypeOK', History, NEW key \in Keys, EntryBound(key),
           Has(cache', key) => Has(cache, key) /\ Entry(cache', key) = Entry(cache, key)
    PROVE  EntryBound(key)'
<1> SUFFICES ASSUME Has(cache', key), Entry(cache', key).outcome = Live
             PROVE  /\ Timely(key, Entry(cache, key).freshUntil, L1TTL + ResolveTimeout)'
                    /\ Entry(cache', key).staleUntil = Entry(cache', key).freshUntil + StaleIfError
  BY DEF EntryBound
<1>1. /\ Entry(cache', key) = Entry(cache, key)
      /\ Timely(key, Entry(cache, key).freshUntil, L1TTL + ResolveTimeout)
      /\ Entry(cache, key).staleUntil = Entry(cache, key).freshUntil + StaleIfError
  BY DEF EntryBound
<1>2. Entry(cache, key).freshUntil \in Nat
  BY DEF TypeOK, CacheTypeOK, CacheEntry, Has, Entry
<1>3. \A t \in Nat : Timely(key, t, L1TTL + ResolveTimeout) => Timely(key, t, L1TTL + ResolveTimeout)'
  BY TimelyKept, WholeNat
<1> QED
  BY <1>1, <1>2, <1>3 DEF Timely

\* A goroutine that stays where it is, or only looked in L1 in vain.
Stays(p) ==
    /\ g'[p] = g[p]
    /\ pc'[p] = pc[p] \/ pc'[p] \in {"peek", "remove"}
    /\ InFlight(p)' => now' <= g[p].began + ResolveTimeout

\* What does not move keeps its bounds while time goes on.
LEMMA StayKept ==
    ASSUME TypeOK, TypeOK', History, NEW p \in Procs, FlightBound(p), CallBound(p), Stays(p)
    PROVE  FlightBound(p)' /\ CallBound(p)'
<1>1. /\ g[p].key \in Keys /\ g[p].began \in Nat /\ g[p].now \in Nat /\ g[p].wall \in Int
      /\ now \in Nat /\ now' \in Nat /\ g'[p] = g[p] /\ now <= now'
  BY DEF TypeOK, Locals, Stays, History
<1>2. \A key \in Keys, t \in Nat, slack \in Nat : Timely(key, t, slack) =>
         /\ Timely(key, t, slack)'
         /\ expires'[key] = expires[key]
  BY TimelyKept DEF Timely, History
<1>3. FlightBound(p)'
  <2>1. InFlight(p)' => g'[p].began <= now' /\ now' <= g'[p].began + ResolveTimeout
    <3>1. InFlight(p)' => InFlight(p)
      BY DEF Stays, InFlight, FlightSteps
    <3> QED
      BY <1>1, <3>1 DEF FlightBound, Stays
  <2>2. Known(p)' => Known(p)
    BY <1>1 DEF Stays, Known
  <2>3. ASSUME Known(p)', g'[p].val = Live
        PROVE  Timely(g[p].key, g[p].began, 0)'
    <3>1. Timely(g[p].key, g[p].began, 0)
      BY <1>1, <2>2, <2>3 DEF FlightBound
    <3> QED
      BY <1>1, <1>2, <3>1 DEF Timely
  <2> QED
    BY <2>1, <2>3 DEF FlightBound
<1>4. CallBound(p)'
  <2>1. g'[p].now <= now'
    BY <1>1 DEF CallBound
  <2>2. pc'[p] \in {"ret", "done"} => pc'[p] = pc[p]
    BY DEF Stays
  <2>3. Timely(g[p].key, g[p].now, ResolveTimeout) =>
           /\ Timely(g[p].key, g[p].now, ResolveTimeout)'
           /\ expires'[g'[p].key] = expires[g[p].key]
    BY <1>1, <1>2, WholeNat DEF Timely
  <2>4. Timely(g[p].key, g[p].now, Whole) =>
           /\ Timely(g[p].key, g[p].now, Whole)'
           /\ expires'[g'[p].key] = expires[g[p].key]
    BY <1>1, <1>2, WholeNat DEF Timely
  <2> QED
    BY <1>1, <2>1, <2>2, <2>3, <2>4 DEF CallBound
<1> QED
  BY <1>3, <1>4

\* A step that stores nothing, and moves only goroutines with bounds.
LEMMA BoundFrom ==
    ASSUME TypeOK, TypeOK', BoundInv, [Next]_vars,
           \A key \in Keys :
               \/ EntryBound(key)'
               \/ Has(cache', key) => Has(cache, key) /\ Entry(cache', key) = Entry(cache, key),
           \A p \in Procs : Stays(p) \/ (FlightBound(p)' /\ CallBound(p)')
    PROVE  BoundInv'
<1>1. History /\ \A key \in Keys : stage'[key] = Live => now' < expires'[key]
  BY HistoryStep
<1>2. ASSUME NEW key \in Keys PROVE EntryBound(key)'
  BY <1>1, EntryKept DEF BoundInv
<1>3. ASSUME NEW p \in Procs PROVE FlightBound(p)' /\ CallBound(p)'
  BY <1>1, StayKept DEF BoundInv
<1> QED
  BY <1>1, <1>2, <1>3 DEF BoundInv

\* The world stands still, and the call is not at its end.
LEMMA CallGoesOn ==
    ASSUME TypeOK, TypeOK', UNCHANGED <<now, backend>>, NEW c \in Procs, CallBound(c),
           g'[c].now = g[c].now, g'[c].key = g[c].key, g'[c].wall = g[c].wall,
           g'[c].stale => g[c].stale, pc'[c] \notin {"ret", "done"}
    PROVE  CallBound(c)'
<1>1. g[c].stale => Timely(g[c].key, g[c].now, Whole) /\ g[c].wall < expires[g[c].key]
  BY DEF CallBound
<1>2. Timely(g[c].key, g[c].now, Whole) => Timely(g[c].key, g[c].now, Whole)'
  BY DEF Timely, backend
<1> QED
  BY <1>1, <1>2 DEF CallBound, backend

\* A goroutine another one does not touch.
LEMMA OthersStay ==
    ASSUME TypeOK, BoundInv, now' = now, NEW q \in Procs, g'[q] = g[q], pc'[q] = pc[q]
    PROVE  Stays(q)
BY DEF Stays, BoundInv, FlightBound, InFlight

\* Time, the wall clock, sign-ins and revocations.
LEMMA BoundEnvironment ==
    ASSUME TypeOK, TypeOK', BoundInv, [Next]_vars, Environment
    PROVE  BoundInv'
<1>1. UNCHANGED <<cache, pc, g>>
  BY DEF Environment, Tick, SetClock, Issue, Revoke
<1>2. ASSUME NEW p \in Procs PROVE Stays(p)
  <2>1. CASE Tick
    BY <1>1, <2>1 DEF Tick, Stays, InFlight, TypeOK
  <2>2. CASE now' = now
    BY <1>1, <2>2, OthersStay
  <2> QED
    BY <2>1, <2>2 DEF Environment, SetClock, Issue, Revoke, clocks
<1> QED
  BY <1>1, <1>2, BoundFrom

\* A call that starts has nothing to bound.
LEMMA BoundStart ==
    ASSUME TypeOK, TypeOK', BoundInv, [Next]_vars,
           NEW c \in Callers, NEW key \in Keys, Start(c, key)
    PROVE  BoundInv'
<1>1. c \in Procs /\ now' = now /\ cache' = cache
  BY DEF Procs, Start, clocks
<1>2. pc'[c] = "get" /\ g'[c].now = now /\ ~g'[c].stale
  BY <1>1 DEF Start, Blank, TypeOK
<1>3. now <= now
  BY DEF TypeOK
<1>4. FlightBound(c)' /\ CallBound(c)'
  BY <1>1, <1>2, <1>3 DEF FlightBound, CallBound, InFlight, FlightSteps, Known
<1>5. \A q \in Procs : q # c => Stays(q)
  BY <1>1, OthersStay DEF Start, TypeOK
<1> QED
  BY <1>1, <1>4, <1>5, BoundFrom

\* The steps that read or drop entries and answer nothing.
LEMMA BoundMiss ==
    ASSUME TypeOK, TypeOK', BoundInv, [Next]_vars,
           \/ \E c \in Callers : \/ LookupMiss(c) \/ LookupExpired(c) \/ LookupStale(c)
                                 \/ RemoveExpired(c)
           \/ \E key \in Keys : Evict(key)
    PROVE  BoundInv'
<1>1. now' = now /\ g' = g
  BY DEF LookupMiss, LookupExpired, LookupStale, RemoveExpired, Evict, clocks
<1>2. \A key \in Keys :
         Has(cache', key) => Has(cache, key) /\ Entry(cache', key) = Entry(cache, key)
  BY PromoteItems, RemoveItems
     DEF LookupMiss, LookupExpired, LookupStale, RemoveExpired, Evict, Has, Entry
<1>3. ASSUME NEW q \in Procs PROVE Stays(q)
  <2>1. pc'[q] = pc[q] \/ pc'[q] \in {"peek", "remove"}
    BY DEF LookupMiss, LookupExpired, LookupStale, RemoveExpired, Evict, TypeOK
  <2>2. CASE pc'[q] = pc[q]
    BY <1>1, <2>2, OthersStay
  <2>3. CASE pc'[q] \in {"peek", "remove"}
    BY <1>1, <2>3 DEF Stays, InFlight, FlightSteps
  <2> QED
    BY <2>1, <2>2, <2>3
<1> QED
  BY <1>2, <1>3, BoundFrom

\* A call with a hit started while the entry was fresh, with a stale candidate
\* before its window closed.
LEMMA BoundHit ==
    ASSUME TypeOK, TypeOK', BoundInv, [Next]_vars, NEW c \in Callers, LookupHit(c)
    PROVE  BoundInv'
<1> DEFINE entry == Entry(cache, g[c].key)
           served == [g EXCEPT ![c].val = entry.outcome]
<1>1. /\ c \in Procs /\ g[c] \in Locals /\ g[c].key \in Keys /\ g[c].now \in Nat
      /\ Has(cache, g[c].key) /\ pc[c] = "get" /\ UNCHANGED <<now, backend>>
  BY DEF Procs, LookupHit, clocks, backend, TypeOK, Locals, GetHits
<1>2. \A key \in Keys :
         Has(cache', key) => Has(cache, key) /\ Entry(cache', key) = Entry(cache, key)
  BY PromoteItems DEF LookupHit, Has, Entry
<1>3. /\ pc'[c] = "done"
      /\ g'[c] = [g[c] EXCEPT !.val = entry.outcome]
      /\ \A q \in Procs : q # c => \/ pc'[q] = pc[q] /\ g'[q] = g[q]
                                   \/ pc'[q] = "do" /\ g'[q] = Blank(g[c].key)
  <2>1. pc \in [Procs -> Steps] /\ g \in [Procs -> Locals] /\ IdleRefreshers \subseteq Procs
    BY DEF TypeOK, IdleRefreshers, Procs
  <2>2. CASE pc' = [pc EXCEPT ![c] = "done"] /\ g' = served
    BY <1>1, <2>1, <2>2
  <2>3. CASE \E r \in IdleRefreshers :
               /\ pc' = [pc EXCEPT ![c] = "done", ![r] = "do"]
               /\ g' = [served EXCEPT ![r] = Blank(g[c].key)]
    <3>1. PICK r \in IdleRefreshers :
               /\ pc' = [pc EXCEPT ![c] = "done", ![r] = "do"]
               /\ g' = [served EXCEPT ![r] = Blank(g[c].key)]
      BY <2>3
    <3>2. r \in Procs /\ r # c
      BY <1>1, <2>1 DEF IdleRefreshers
    <3>3. served \in [Procs -> Locals \cup {served[c]}] /\ served[c] = [g[c] EXCEPT !.val = entry.outcome]
          /\ \A q \in Procs : q # c => served[q] = g[q]
      BY <1>1, <2>1
    <3> HIDE DEF served
    <3>4. /\ g'[c] = served[c] /\ g'[r] = Blank(g[c].key)
          /\ \A q \in Procs : q # c /\ q # r => g'[q] = served[q]
      BY <1>1, <3>1, <3>2, <3>3
    <3>5. /\ pc'[c] = "done" /\ pc'[r] = "do"
          /\ \A q \in Procs : q # c /\ q # r => pc'[q] = pc[q]
      BY <1>1, <2>1, <3>1, <3>2
    <3> QED
      BY <3>2, <3>3, <3>4, <3>5
  <2> QED
    BY <2>2, <2>3 DEF LookupHit
<1>4. entry \in CacheEntry
  BY <1>1 DEF TypeOK, CacheTypeOK, Has, Entry
<1>5. /\ g'[c].val = entry.outcome /\ g'[c].key = g[c].key /\ g'[c].now = g[c].now
      /\ g'[c].wall = g[c].wall /\ g'[c].stale = g[c].stale
  BY <1>1, <1>3 DEF Locals
<1>6. CallBound(c)'
  <2>1. CallBound(c) /\ EntryBound(g[c].key)
    BY <1>1 DEF BoundInv
  <2>2. entry.outcome = Live => Timely(g[c].key, g[c].now, Whole)
    <3> SUFFICES ASSUME entry.outcome = Live
                 PROVE  Timely(g[c].key, g[c].now, Whole)
      OBVIOUS
    <3>1. g[c].now < entry.freshUntil
      BY DEF LookupHit
    <3>2. Timely(g[c].key, entry.freshUntil, L1TTL + ResolveTimeout) /\ entry.freshUntil \in Nat
      BY <1>1, <1>4, <2>1 DEF EntryBound, CacheEntry
    <3>3. g[c].now <= entry.freshUntil + StaleIfError
      BY <1>1, <3>1, <3>2, WholeNat
    <3> QED
      BY <1>1, <3>2, <3>3, WholeNat, TimelyWeakens
  <2>3. Timely(g[c].key, g[c].now, Whole) => Timely(g[c].key, g[c].now, Whole)'
    BY <1>1, <1>5 DEF Timely, backend
  <2> QED
    BY <1>1, <1>3, <1>5, <2>1, <2>2, <2>3 DEF CallBound, backend
<1>7. FlightBound(c)'
  BY <1>3 DEF FlightBound, InFlight, FlightSteps, Known
<1>8. ASSUME NEW q \in Procs, q # c
      PROVE  Stays(q) \/ (FlightBound(q)' /\ CallBound(q)')
  <2>1. CASE pc'[q] = pc[q] /\ g'[q] = g[q]
    BY <1>1, <2>1, OthersStay
  <2>2. CASE pc'[q] = "do" /\ g'[q] = Blank(g[c].key)
    <3>1. 0 <= now'
      BY DEF TypeOK
    <3> QED
      BY <2>2, <3>1 DEF FlightBound, InFlight, FlightSteps, Known, CallBound, Blank
  <2> QED
    BY <1>3, <1>8, <2>1, <2>2
<1> QED
  BY <1>2, <1>6, <1>7, <1>8, BoundFrom

\* A stale candidate is taken before its window closed.
LEMMA BoundPeek ==
    ASSUME TypeOK, TypeOK', BoundInv, [Next]_vars, NEW c \in Callers, PeekStale(c)
    PROVE  BoundInv'
<1>1. /\ c \in Procs /\ g[c] \in Locals /\ g[c].key \in Keys /\ g[c].now \in Nat
      /\ UNCHANGED <<now, backend>> /\ cache' = cache
  BY DEF Procs, PeekStale, clocks, TypeOK, Locals
<1>2. /\ pc'[c] = "do" /\ g'[c].key = g[c].key /\ g'[c].now = g[c].now
      /\ g'[c].wall = g[c].wall /\ g'[c].stale = StaleCandidate(c)
      /\ \A q \in Procs : q # c => g'[q] = g[q] /\ pc'[q] = pc[q]
  BY <1>1 DEF PeekStale, TypeOK, Locals
<1>3. StaleCandidate(c) => Timely(g[c].key, g[c].now, Whole) /\ g[c].wall < expires[g[c].key]
  <2> SUFFICES ASSUME StaleCandidate(c)
               PROVE  Timely(g[c].key, g[c].now, Whole) /\ g[c].wall < expires[g[c].key]
    OBVIOUS
  <2> DEFINE entry == Entry(cache, g[c].key)
  <2>1. /\ Has(cache, g[c].key) /\ entry.outcome = Live
        /\ expires[g[c].key] > g[c].wall /\ g[c].now < entry.staleUntil
    BY DEF StaleCandidate
  <2>2. /\ Timely(g[c].key, entry.freshUntil, L1TTL + ResolveTimeout)
        /\ entry.staleUntil = entry.freshUntil + StaleIfError
    BY <1>1, <2>1 DEF BoundInv, EntryBound
  <2>3. entry.freshUntil \in Nat
    BY <1>1, <2>1 DEF TypeOK, CacheTypeOK, CacheEntry, Has, Entry
  <2>4. Timely(g[c].key, g[c].now, Whole)
    <3>1. g[c].now <= entry.freshUntil + StaleIfError
      BY <1>1, <2>1, <2>2, <2>3, WholeNat
    <3> QED
      BY <1>1, <2>2, <2>3, <3>1, WholeNat, TimelyWeakens
  <2>5. g[c].wall < expires[g[c].key]
    BY <1>1, <2>1 DEF TypeOK, Locals
  <2> QED
    BY <2>4, <2>5
<1>4. CallBound(c)'
  <2>1. g[c].now <= now
    BY <1>1 DEF BoundInv, CallBound
  <2>2. Timely(g[c].key, g[c].now, Whole) => Timely(g[c].key, g[c].now, Whole)'
    BY <1>1, <1>2 DEF Timely, backend
  <2> QED
    BY <1>1, <1>2, <1>3, <2>1, <2>2 DEF CallBound, backend
<1>5. FlightBound(c)'
  BY <1>2 DEF FlightBound, InFlight, FlightSteps, Known
<1>6. \A q \in Procs : q # c => Stays(q)
  BY <1>1, <1>2, OthersStay
<1> QED
  BY <1>1, <1>4, <1>5, <1>6, BoundFrom

\* Entering the flight group, and a failed fetch.
LEMMA BoundNoAnswer ==
    ASSUME TypeOK, TypeOK', BoundInv, [Next]_vars, NEW p \in Procs,
           Lead(p) \/ Follow(p) \/ FetchFails(p)
    PROVE  BoundInv'
<1>1. UNCHANGED <<now, backend>> /\ cache' = cache /\ g[p] \in Locals /\ now \in Nat
  BY DEF Lead, Follow, FetchFails, clocks, TypeOK
<1>2. \A q \in Procs : q # p => pc'[q] = pc[q] /\ g'[q] = g[q]
  BY DEF Lead, Follow, FetchFails, TypeOK
<1>3. /\ pc'[p] \in {"sent", "wait", "settled"}
      /\ pc'[p] = "sent" => g'[p].began = now
      /\ pc'[p] = "settled" => g'[p].err # "none" /\ g'[p].began = g[p].began /\ InFlight(p)
      /\ g'[p].key = g[p].key /\ g'[p].now = g[p].now /\ g'[p].wall = g[p].wall
      /\ g'[p].stale = g[p].stale
  <2>1. CASE Lead(p)
    BY <1>1, <2>1 DEF Lead, TypeOK, Locals
  <2>2. CASE Follow(p)
    BY <1>1, <2>2 DEF Follow, TypeOK, Locals
  <2>3. CASE FetchFails(p)
    <3>1. PICK e \in Errors \ {"none"} :
             g' = [g EXCEPT ![p].err = e, ![p].val = Unknown]
      BY <2>3 DEF FetchFails
    <3>2. g'[p] = [g[p] EXCEPT !.err = e, !.val = Unknown]
      BY <3>1 DEF TypeOK
    <3>3. pc'[p] = "settled" /\ InFlight(p)
      BY <2>3 DEF FetchFails, TypeOK, InFlight, FlightSteps
    <3> QED
      BY <1>1, <3>2, <3>3 DEF Locals
  <2> QED
    BY <2>1, <2>2, <2>3
<1>4. FlightBound(p)'
  <2>1. InFlight(p)' => g'[p].began <= now' /\ now' <= g'[p].began + ResolveTimeout
    BY <1>1, <1>3, WholeNat DEF BoundInv, FlightBound, InFlight, FlightSteps
  <2>2. ~Known(p)'
    BY <1>3 DEF Known
  <2> QED
    BY <2>1, <2>2 DEF FlightBound
<1>5. CallBound(p)'
  BY <1>1, <1>3, CallGoesOn DEF BoundInv
<1>6. \A q \in Procs : q # p => Stays(q)
  BY <1>1, <1>2, OthersStay
<1> QED
  BY <1>1, <1>4, <1>5, <1>6, BoundFrom

\* A session is read before its end, after the fill began.
LEMMA BoundRead ==
    ASSUME TypeOK, TypeOK', BoundInv, [Next]_vars, NEW p \in Procs, BackendRead(p)
    PROVE  BoundInv'
<1>1. /\ UNCHANGED <<now, backend>> /\ cache' = cache
      /\ g[p].key \in Keys /\ g[p].began \in Nat /\ now \in Nat
  BY DEF BackendRead, clocks, TypeOK, Locals
<1>2. \A q \in Procs : q # p => pc'[q] = pc[q] /\ g'[q] = g[q]
  BY DEF BackendRead, TypeOK
<1>3. /\ InFlight(p) /\ pc'[p] = "answered" /\ g'[p].val = stage[g[p].key]
      /\ g'[p].key = g[p].key /\ g'[p].now = g[p].now /\ g'[p].wall = g[p].wall
      /\ g'[p].stale = g[p].stale /\ g'[p].began = g[p].began
  BY DEF BackendRead, TypeOK, Locals, InFlight, FlightSteps
<1>4. g[p].began <= now /\ now <= g[p].began + ResolveTimeout
  BY <1>3 DEF BoundInv, FlightBound
<1>6. FlightBound(p)'
  BY <1>1, <1>3, <1>4 DEF FlightBound, Timely, backend, Unknown, Live, Ended
<1>7. CallBound(p)'
  BY <1>1, <1>3, CallGoesOn DEF BoundInv
<1>8. \A q \in Procs : q # p => Stays(q)
  BY <1>1, <1>2, OthersStay
<1> QED
  BY <1>1, <1>6, <1>7, <1>8, BoundFrom

\* What is stored is fresh for at most the TTL from now, which is before the
\* deadline of its fill.
LEMMA BoundFill ==
    ASSUME TypeOK, TypeOK', FlightInv, BoundInv, [Next]_vars, NEW p \in Procs, Fill(p)
    PROVE  BoundInv'
<1> DEFINE k == g[p].key
<1>1. /\ UNCHANGED <<now, backend>> /\ g' = g /\ k \in Keys /\ g[p].val \in Stages
      /\ g[p].began \in Nat /\ now \in Nat /\ pc[p] = "answered"
  BY DEF Fill, clocks, TypeOK, Locals
<1>2. pc'[p] = "settled" /\ \A q \in Procs : q # p => pc'[q] = pc[q]
  BY DEF Fill, TypeOK
<1>3. Known(p) /\ InFlight(p)
  BY <1>1 DEF FlightInv, Known, InFlight, FlightSteps
<1>4. PICK t \in EffectiveTTLs :
         cache' = put(cache, k, IF g[p].val = Live THEN SessionEntry(k, t)
                                                   ELSE Tombstone(g[p].val), Capacity)
  BY DEF Fill
<1> DEFINE entry == IF g[p].val = Live THEN SessionEntry(k, t) ELSE Tombstone(g[p].val)
<1>5. entry.outcome = Live =>
         /\ Timely(k, entry.freshUntil, L1TTL + ResolveTimeout)
         /\ entry.staleUntil = entry.freshUntil + StaleIfError
  <2> SUFFICES ASSUME entry.outcome = Live
               PROVE  /\ Timely(k, entry.freshUntil, L1TTL + ResolveTimeout)
                      /\ entry.staleUntil = entry.freshUntil + StaleIfError
    OBVIOUS
  <2>1. g[p].val = Live
    BY DEF Tombstone
  <2>2. entry = SessionEntry(k, t)
    BY <2>1
  <2>3. /\ entry.freshUntil = now + Sooner(t, Later(0, expires[k] - Wall))
        /\ entry.staleUntil = entry.freshUntil + StaleIfError
    BY <2>2 DEF SessionEntry
  <2>4. t \in Nat /\ t <= L1TTL
    BY JitterAssumption, ConfigNat
  <2>5. Later(0, expires[k] - Wall) \in Nat
    <3>1. expires[k] \in Int /\ Wall \in Int
      BY <1>1 DEF TypeOK, Wall
    <3> QED
      BY <3>1 DEF Later
  <2>6. Sooner(t, Later(0, expires[k] - Wall)) \in Nat
        /\ Sooner(t, Later(0, expires[k] - Wall)) <= L1TTL
    BY <2>4, <2>5, ConfigNat DEF Sooner
  <2>7. Timely(k, g[p].began, 0) /\ now <= g[p].began + ResolveTimeout
    BY <1>3, <2>1 DEF BoundInv, FlightBound
  <2>8. /\ entry.freshUntil \in Nat
        /\ entry.freshUntil <= g[p].began + (L1TTL + ResolveTimeout)
    BY <1>1, <2>3, <2>6, <2>7, ConfigNat
  <2>9. Timely(k, entry.freshUntil, 0 + (L1TTL + ResolveTimeout))
    BY <1>1, <2>7, <2>8, WholeNat, TimelyWeakens
  <2> QED
    BY <2>3, <2>9, WholeNat
<1> HIDE DEF entry
<1>6. \/ Capacity = 0 /\ cache' = cache
      \/ /\ Capacity # 0
         /\ DOMAIN cache'.items \subseteq DOMAIN cache.items \cup {k}
         /\ \A key \in DOMAIN cache'.items :
               cache'.items[key] = IF key = k THEN entry ELSE cache.items[key]
  BY <1>4, PutItems DEF entry
<1>7. ASSUME NEW key \in Keys
      PROVE  \/ EntryBound(key)'
             \/ Has(cache', key) => Has(cache, key) /\ Entry(cache', key) = Entry(cache, key)
  <2>1. CASE cache' = cache
    BY <2>1
  <2>2. CASE key # k /\ Capacity # 0
    BY <1>6, <2>2 DEF Has, Entry
  <2>3. CASE key = k /\ Capacity # 0
    <3>1. Has(cache', key) => Entry(cache', key) = entry
      BY <1>6, <2>3 DEF Has, Entry
    <3>2. entry.outcome = Live => Timely(key, entry.freshUntil, L1TTL + ResolveTimeout)
      BY <1>5, <2>3
    <3> QED
      BY <1>1, <1>5, <3>1, <3>2 DEF EntryBound, Timely, backend
  <2> QED
    BY <1>6, <2>1, <2>2, <2>3
<1>8. FlightBound(p)'
  <2>1. FlightBound(p)
    BY DEF BoundInv
  <2> QED
    BY <1>1, <1>2, <1>3, <2>1 DEF FlightBound, Timely, backend
<1>9. CallBound(p)'
  BY <1>1, <1>2, CallGoesOn DEF BoundInv
<1>10. \A q \in Procs : q # p => Stays(q)
  BY <1>1, <1>2, OthersStay
<1> QED
  BY <1>7, <1>8, <1>9, <1>10, BoundFrom

\* Everyone who waited had started before the deadline of the fill.
LEMMA BoundFinish ==
    ASSUME TypeOK, TypeOK', FlightInv, BoundInv, [Next]_vars, NEW p \in Procs, Finish(p)
    PROVE  BoundInv'
<1> DEFINE k == g[p].key
           released == Waiting(p) \cup {p}
<1>1. /\ UNCHANGED <<now, backend>> /\ cache' = cache /\ pc[p] = "settled" /\ InFlight(p)
      /\ k \in Keys /\ g[p].began \in Nat /\ now \in Nat
  BY DEF Finish, clocks, TypeOK, Locals, InFlight, FlightSteps
<1>2. ASSUME NEW q \in Procs, q \notin released PROVE Stays(q)
  <2>1. pc'[q] = pc[q] /\ g'[q] = g[q]
    BY <1>2 DEF Finish
  <2> QED
    BY <1>1, <2>1, OthersStay
<1>3. ASSUME NEW q \in Procs, q \in released, q \in Callers
      PROVE  FlightBound(q)' /\ CallBound(q)'
  <2>1. pc'[q] = AfterFlight(q)
    BY <1>3 DEF Finish
  <2>2. g'[q] = [g[q] EXCEPT !.val = g[p].val, !.err = g[p].err,
                             !.leader = None, !.began = 0]
    BY <1>3 DEF Finish
  <2>3. g[q] \in Locals /\ g[q].key = k
    BY <1>3 DEF TypeOK, Waiting, FlightInv
  <2>4. /\ pc'[q] = "ret" /\ g'[q].key = k /\ g'[q].val = g[p].val
        /\ g'[q].err = g[p].err /\ g'[q].now = g[q].now /\ g'[q].wall = g[q].wall
        /\ g'[q].stale = g[q].stale
    BY <1>3, <2>1, <2>2, <2>3 DEF AfterFlight, Locals
  <2>5. g[q].now \in Nat /\ g[q].now <= now
    BY <2>3 DEF Locals, BoundInv, CallBound
  <2>6. g[p].err = "none" /\ g[p].val = Live =>
           Timely(k, g[q].now, ResolveTimeout)
    <3> SUFFICES ASSUME g[p].err = "none", g[p].val = Live
                 PROVE  Timely(k, g[q].now, ResolveTimeout)
      OBVIOUS
    <3>1. Known(p)
      BY <1>1 DEF Known
    <3>2. Timely(k, g[p].began, 0) /\ now <= g[p].began + ResolveTimeout
      BY <1>1, <3>1 DEF BoundInv, FlightBound
    <3>3. g[q].now <= g[p].began + ResolveTimeout
      BY <1>1, <2>5, <3>2, WholeNat
    <3>4. Timely(k, g[q].now, 0 + ResolveTimeout)
      BY <1>1, <2>5, <3>2, <3>3, WholeNat, TimelyWeakens
    <3>5. 0 + ResolveTimeout = ResolveTimeout
      BY WholeNat
    <3> QED
      BY <3>4, <3>5
  <2>7. g[q].stale => Timely(k, g[q].now, Whole) /\ g[q].wall < expires[k]
    BY <2>3 DEF BoundInv, CallBound
  <2>8. CallBound(q)'
    BY <1>1, <2>4, <2>5, <2>6, <2>7 DEF CallBound, Timely, backend
  <2>9. FlightBound(q)'
    BY <2>4 DEF FlightBound, InFlight, FlightSteps, Known
  <2> QED
    BY <2>8, <2>9
<1>4. ASSUME NEW q \in Procs, q \in released, q \notin Callers
      PROVE  FlightBound(q)' /\ CallBound(q)'
  <2>1. pc'[q] = AfterFlight(q)
    BY <1>4 DEF Finish
  <2>2. g'[q] = Blank(AnyKey)
    BY <1>4 DEF Finish
  <2>3. 0 <= now' /\ pc'[q] = "idle"
    BY <1>4, <2>1 DEF TypeOK, AfterFlight
  <2> QED
    BY <2>2, <2>3 DEF FlightBound, InFlight, FlightSteps, Known, CallBound, Blank
<1>5. \A q \in Procs : Stays(q) \/ (FlightBound(q)' /\ CallBound(q)')
  BY <1>2, <1>3, <1>4
<1> QED
  BY <1>1, <1>5, BoundFrom

\* resolve returns the result of the flight or its stale candidate.
LEMMA BoundReturn ==
    ASSUME TypeOK, TypeOK', BoundInv, [Next]_vars, NEW c \in Callers, Return(c)
    PROVE  BoundInv'
<1>1. /\ c \in Procs /\ g[c] \in Locals /\ g[c].key \in Keys /\ g[c].now \in Nat
      /\ UNCHANGED <<now, backend>> /\ cache' = cache /\ pc[c] = "ret"
  BY DEF Procs, Return, clocks, TypeOK, Locals
<1>2. /\ pc'[c] = "done" /\ g'[c] = Answer(c)
      /\ \A q \in Procs : q # c => pc'[q] = pc[q] /\ g'[q] = g[q]
  BY <1>1 DEF Return, TypeOK
<1>3. /\ g'[c].key = g[c].key /\ g'[c].now = g[c].now /\ g'[c].wall = g[c].wall
      /\ ~g'[c].stale
      /\ g'[c].err = "none" => \/ g[c].stale
                               \/ g[c].err = "none" /\ g'[c].val = g[c].val
  BY <1>1, <1>2 DEF Answer, Locals
<1>4. CallBound(c) /\ expires[g[c].key] \in Nat /\ g[c].wall \in Int
  BY <1>1 DEF BoundInv, TypeOK, Locals
<1>5. g'[c].err = "none" /\ g'[c].val = Live =>
         Timely(g[c].key, g[c].now, Whole)
  <2>1. CASE g[c].stale
    BY <1>4, <2>1 DEF CallBound
  <2>2. CASE g[c].err = "none" /\ g[c].val = Live
    <3>1. Timely(g[c].key, g[c].now, ResolveTimeout)
      BY <1>1, <1>4, <2>2 DEF CallBound
    <3>2. L1TTL + StaleIfError \in Nat /\ g[c].now <= g[c].now + (L1TTL + StaleIfError)
      BY <1>1, ConfigNat
    <3>3. Timely(g[c].key, g[c].now, ResolveTimeout + (L1TTL + StaleIfError))
      BY <1>1, <3>1, <3>2, WholeNat, TimelyWeakens
    <3> QED
      BY <3>1, <3>3, WholeNat
  <2> QED
    BY <1>3, <2>1, <2>2
<1>6. CallBound(c)'
  BY <1>1, <1>2, <1>3, <1>4, <1>5 DEF CallBound, Timely, backend
<1>7. FlightBound(c)'
  BY <1>2 DEF FlightBound, InFlight, FlightSteps, Known
<1>8. \A q \in Procs : q # c => Stays(q)
  BY <1>1, <1>2, OthersStay
<1> QED
  BY <1>1, <1>6, <1>7, <1>8, BoundFrom

\* Every step.
LEMMA BoundStep == TypeOK /\ TypeOK' /\ FlightInv /\ BoundInv /\ [Next]_vars => BoundInv'
<1> SUFFICES ASSUME TypeOK, TypeOK', FlightInv, BoundInv, [Next]_vars PROVE BoundInv'
  OBVIOUS
<1>1. CASE Environment
  BY <1>1, BoundEnvironment
<1>2. ASSUME NEW c \in Callers, NEW key \in Keys, Start(c, key)
      PROVE  BoundInv'
  BY <1>2, BoundStart
<1>3. ASSUME NEW c \in Callers, Resolve(c)
      PROVE  BoundInv'
  BY <1>3, BoundMiss, BoundHit, BoundPeek, BoundReturn DEF Resolve, Lookup
<1>4. ASSUME NEW p \in Procs, Flight(p)
      PROVE  BoundInv'
  BY <1>4, BoundNoAnswer, BoundRead, BoundFill, BoundFinish DEF Flight, Settle
<1>5. ASSUME NEW key \in Keys, Evict(key)
      PROVE  BoundInv'
  BY <1>5, BoundMiss
<1>6. CASE UNCHANGED vars
  <2>1. UNCHANGED <<now, cache, pc, g>>
    BY <1>6 DEF vars, clocks
  <2>2. \A q \in Procs : Stays(q)
    BY <2>1, OthersStay
  <2> QED
    BY <2>1, <2>2, BoundFrom
<1> QED
  BY <1>1, <1>2, <1>3, <1>4, <1>5, <1>6 DEF Next

\* In every state sessions that are over are on their way out: of the cache, of
\* the flights and of the calls.
THEOREM BoundCorrect == Spec => [](TypeOK /\ BoundInv)
BY TypeInit, TypeStep, FlightInit, FlightStep, BoundInit, BoundStep, PTL DEF Spec

\* What the invariant says of a session that was returned.
LEMMA AnswerBound ==
    ASSUME TypeOK, BoundInv, NEW c \in Callers, Answered(c), g[c].val = Live
    PROVE  Timely(g[c].key, g[c].now, Whole)
BY DEF Procs, BoundInv, CallBound, Answered

\* A session that expired or was revoked is returned only to calls that start
\* within L1TTL + resolveTimeout + StaleIfError of its end, whatever the
\* interleaving of fills, refreshes, hits and stale answers.
THEOREM RevocationBounded == Spec => []RevocationBound
<1>1. TypeOK /\ BoundInv => RevocationBound
  <2> SUFFICES ASSUME TypeOK, BoundInv, NEW c \in Callers, Answered(c), g[c].val = Live,
                      stage[g[c].key] = Ended
               PROVE  g[c].now <= endedAt[g[c].key] + L1TTL + ResolveTimeout + StaleIfError
    BY DEF RevocationBound
  <2>1. g[c].key \in Keys /\ endedAt[g[c].key] \in Nat /\ g[c].now \in Nat
    BY DEF Procs, TypeOK, Locals
  <2>2. g[c].now <= endedAt[g[c].key] + Whole
    BY AnswerBound DEF Timely
  <2> QED
    BY <2>1, <2>2, ConfigNat DEF Whole
<1> QED
  BY <1>1, BoundCorrect, PTL

\* A call ends with a hit or by returning.
LEMMA CallEnds ==
    ASSUME TypeOK, [Next]_vars, NEW c \in Callers, EndsCall(c)
    PROVE  LookupHit(c) \/ Return(c)
<1> c \in Procs /\ pc[c] # "done" /\ pc'[c] = "done"
  BY DEF EndsCall, Answered, Procs
<1> pc \in [Procs -> Steps]
  BY DEF TypeOK
<1>1. CASE pc' = pc
  BY <1>1
<1>2. ASSUME NEW d \in Callers, Resolve(d) \/ \E key \in Keys : Start(d, key)
      PROVE  LookupHit(c) \/ Return(c)
  <2>1. CASE LookupHit(d)
    <3>1. d = c
      BY <2>1, ProcAssumption DEF LookupHit, IdleRefreshers, Procs
    <3> QED
      BY <2>1, <3>1
  <2>2. CASE Return(d)
    BY <2>2 DEF Return
  <2>3. CASE \/ LookupMiss(d) \/ LookupExpired(d) \/ LookupStale(d)
             \/ RemoveExpired(d) \/ PeekStale(d) \/ \E key \in Keys : Start(d, key)
    BY <2>3 DEF LookupMiss, LookupExpired, LookupStale, RemoveExpired, PeekStale, Start
  <2> QED
    BY <1>2, <2>1, <2>2, <2>3 DEF Resolve, Lookup
<1>3. ASSUME NEW p \in Procs, Flight(p)
      PROVE  LookupHit(c) \/ Return(c)
  <2>1. CASE Finish(p)
    BY <2>1 DEF Finish, AfterFlight
  <2>2. CASE Lead(p) \/ Follow(p) \/ BackendRead(p) \/ Settle(p)
    BY <2>2 DEF Lead, Follow, BackendRead, Settle, Fill, FetchFails
  <2> QED
    BY <1>3, <2>1, <2>2 DEF Flight
<1>4. ASSUME Environment \/ (\E key \in Keys : Evict(key)) \/ UNCHANGED vars
      PROVE  pc' = pc
  BY <1>4 DEF Environment, Tick, SetClock, Issue, Revoke, Evict, vars
<1> QED
  BY <1>1, <1>2, <1>3, <1>4 DEF Next

\* A session past its expiry by the wall clock the call read is the result of a
\* flight, never of L1 nor a stale entry; one that is over, of a flight that had
\* begun before its end, for a call that started within one fill of it.
THEOREM ExpiredFromFill == Spec => ExpiredOnlyFromFill
<1> DEFINE FromFlight(c) ==
             EndsCall(c) /\ g'[c].val = Live /\ expires[g[c].key] <= g[c].wall =>
                /\ pc[c] = "ret" /\ g[c].err = "none" /\ g[c].val = Live
                /\ stage[g[c].key] = Ended =>
                       g[c].now <= endedAt[g[c].key] + ResolveTimeout
           Begun(p) ==
             EndsFlight(p) /\ g[p].err = "none" /\ g[p].val = Live
               /\ stage[g[p].key] = Ended => g[p].began <= endedAt[g[p].key]
<1>1. ASSUME TypeOK, BoundInv, [Next]_vars, NEW c \in Callers
      PROVE  FromFlight(c)
  <2> SUFFICES ASSUME EndsCall(c), g'[c].val = Live, expires[g[c].key] <= g[c].wall
               PROVE  /\ pc[c] = "ret" /\ g[c].err = "none" /\ g[c].val = Live
                      /\ stage[g[c].key] = Ended =>
                             g[c].now <= endedAt[g[c].key] + ResolveTimeout
    OBVIOUS
  <2>1. /\ c \in Procs /\ g[c] \in Locals /\ expires[g[c].key] \in Nat
        /\ CallBound(c) /\ g \in [Procs -> Locals]
    BY <1>1 DEF Procs, TypeOK, Locals, BoundInv
  <2>2. CASE LookupHit(c)
    <3>1. g'[c].val = Entry(cache, g[c].key).outcome
      BY <2>1, <2>2, ProcAssumption DEF LookupHit, IdleRefreshers, Locals
    <3>2. expires[g[c].key] > g[c].wall
      BY <2>2, <3>1 DEF LookupHit, WallValid
    <3> QED
      BY <2>1, <3>2 DEF Locals
  <2>3. CASE Return(c)
    <3>1. pc[c] = "ret" /\ g'[c] = Answer(c) /\ g'[c].err = "none"
      BY <2>1, <2>3 DEF Return, EndsCall, Answered
    <3>2. ~g[c].stale
      BY <2>1 DEF CallBound, Locals
    <3>3. g[c].err = "none" /\ g[c].val = Live
      BY <2>1, <3>1, <3>2 DEF Answer, Locals
    <3> QED
      BY <2>1, <3>1, <3>3 DEF CallBound, Timely
  <2> QED
    BY <1>1, <2>2, <2>3, CallEnds
<1>2. ASSUME TypeOK, BoundInv, NEW p \in Procs
      PROVE  Begun(p)
  <2> SUFFICES ASSUME EndsFlight(p), g[p].err = "none", g[p].val = Live,
                      stage[g[p].key] = Ended
               PROVE  g[p].began <= endedAt[g[p].key]
    OBVIOUS
  <2>1. Known(p) /\ g[p] \in Locals /\ endedAt[g[p].key] \in Nat
    BY <1>2 DEF EndsFlight, Known, TypeOK, Locals
  <2>2. Timely(g[p].key, g[p].began, 0)
    BY <1>2, <2>1 DEF BoundInv, FlightBound
  <2> QED
    BY <2>1, <2>2 DEF Timely, Locals
<1>3. ASSUME TypeOK, BoundInv, [Next]_vars
      PROVE  (\A c \in Callers : FromFlight(c)) /\ \A p \in Procs : Begun(p)
  BY <1>1, <1>2, <1>3
<1> QED
  BY <1>3, BoundCorrect, PTL DEF Spec, ExpiredOnlyFromFill

-----------------------------------------------------------------------------
(* A register with bounded staleness *)

\* A call that failed has no answer.
FailInv ==
    \A p \in Procs : g[p].err # "none" =>
        g[p].val = Unknown /\ pc[p] \in {"settled", "ret", "done"}

\* No call has failed at first.
LEMMA FailInit == Init => FailInv
BY DEF Init, FailInv, Blank

\* A failed fetch is the only source of an error, and it has no value.
LEMMA FailStep == TypeOK /\ FailInv /\ [Next]_vars => FailInv'
<1> SUFFICES ASSUME TypeOK, FailInv, [Next]_vars PROVE FailInv'
  OBVIOUS
<1>t. /\ pc \in [Procs -> Steps] /\ g \in [Procs -> Locals]
      /\ Callers \subseteq Procs /\ Refreshers \subseteq Procs
  BY DEF TypeOK, Procs
<1>1. CASE UNCHANGED <<pc, g>>
  BY <1>1 DEF FailInv
<1>2. ASSUME NEW c \in Callers, NEW key \in Keys, Start(c, key)
      PROVE  FailInv'
  BY <1>2, <1>t DEF Start, Blank, FailInv
<1>3. ASSUME NEW c \in Callers, LookupMiss(c) \/ LookupExpired(c) \/ LookupStale(c)
                                  \/ RemoveExpired(c)
      PROVE  FailInv'
  BY <1>3, <1>t DEF LookupMiss, LookupExpired, LookupStale, RemoveExpired, FailInv
<1>4. ASSUME NEW c \in Callers, LookupHit(c)
      PROVE  FailInv'
  <2>1. g[c].err = "none"
    BY <1>4, <1>t DEF LookupHit, FailInv
  <2> DEFINE served == [g EXCEPT ![c].val = Entry(cache, g[c].key).outcome]
  <2>2. \A q \in Procs : \/ g'[q] = served[q] /\ pc'[q] = IF q = c THEN "done" ELSE pc[q]
                         \/ g'[q] = Blank(g[c].key)
    BY <1>4, <1>t DEF LookupHit, IdleRefreshers
  <2>3. \A q \in Procs : served[q].err = g[q].err /\ (q # c => served[q] = g[q])
    BY <1>t DEF Locals
  <2>4. ASSUME NEW q \in Procs, g'[q].err # "none"
        PROVE  g'[q].val = Unknown /\ pc'[q] \in {"settled", "ret", "done"}
    <3>1. g'[q] = served[q] /\ pc'[q] = IF q = c THEN "done" ELSE pc[q]
      BY <2>2, <2>4 DEF Blank
    <3>2. q # c /\ g'[q] = g[q] /\ pc'[q] = pc[q]
      BY <2>1, <2>3, <2>4, <3>1
    <3> QED
      BY <2>4, <3>2 DEF FailInv
  <2> QED
    BY <2>4 DEF FailInv
<1>5. ASSUME NEW c \in Callers, PeekStale(c)
      PROVE  FailInv'
  BY <1>5, <1>t DEF PeekStale, FailInv, Locals
<1>6. ASSUME NEW c \in Callers, Return(c)
      PROVE  FailInv'
  <2>1. Answer(c).err # "none" => Answer(c).err = g[c].err /\ Answer(c).val = g[c].val
    BY <1>t DEF Answer, Locals
  <2> QED
    BY <1>6, <1>t, <2>1 DEF Return, FailInv
<1>7. ASSUME NEW p \in Procs, Lead(p) \/ Follow(p) \/ BackendRead(p) \/ Fill(p)
      PROVE  FailInv'
  <2>1. /\ pc[p] \in {"do", "sent", "answered"} /\ g[p].err = "none"
        /\ g'[p].err = g[p].err
        /\ \A q \in Procs : q # p => g'[q] = g[q] /\ pc'[q] = pc[q]
    BY <1>7, <1>t DEF Lead, Follow, BackendRead, Fill, FailInv, Locals
  <2> QED
    BY <2>1 DEF FailInv
<1>8. ASSUME NEW p \in Procs, FetchFails(p)
      PROVE  FailInv'
  <2>1. /\ g'[p].val = Unknown /\ pc'[p] = "settled"
        /\ \A q \in Procs : q # p => g'[q] = g[q] /\ pc'[q] = pc[q]
    BY <1>8, <1>t DEF FetchFails, Locals
  <2> QED
    BY <2>1 DEF FailInv
<1>9. ASSUME NEW p \in Procs, Finish(p)
      PROVE  FailInv'
  <2>1. ASSUME NEW q \in Procs
        PROVE  g'[q].err # "none" =>
                   g'[q].val = Unknown /\ pc'[q] \in {"settled", "ret", "done"}
    <3>1. CASE q \notin Waiting(p) \cup {p}
      BY <1>9, <3>1 DEF Finish, FailInv
    <3>2. CASE q \in Waiting(p) \cup {p} /\ q \in Callers
      <4>1. pc'[q] = "ret" /\ g'[q].err = g[p].err /\ g'[q].val = g[p].val
        BY <1>9, <1>t, <3>2 DEF Finish, AfterFlight, Locals
      <4> QED
        BY <4>1 DEF FailInv
    <3>3. CASE q \in Waiting(p) \cup {p} /\ q \notin Callers
      BY <1>9, <3>3 DEF Finish, Blank
    <3> QED
      BY <3>1, <3>2, <3>3
  <2> QED
    BY <2>1 DEF FailInv
<1>10. CASE Environment
  BY <1>1, <1>10 DEF Environment, Tick, SetClock, Issue, Revoke
<1>11. ASSUME NEW key \in Keys, Evict(key)
       PROVE  FailInv'
  BY <1>1, <1>11 DEF Evict
<1>12. CASE UNCHANGED vars
  BY <1>1, <1>12 DEF vars
<1> QED
  BY <1>2, <1>3, <1>4, <1>5, <1>6, <1>7, <1>8, <1>9, <1>10, <1>11, <1>12
     DEF Next, Resolve, Lookup, Flight, Settle

RegInv == TypeOK /\ FlightInv /\ AgeInv /\ BoundInv /\ FailInv

\* The invariants of this module and of the monotone answers together.
LEMMA RegCorrect == Spec => []RegInv
<1>1. RegInv /\ [Next]_vars => RegInv'
  BY TypeStep, FlightStep, AgeStep, BoundStep, FailStep DEF RegInv
<1>2. Init => RegInv
  BY TypeInit, FlightInit, AgeInit, BoundInit, FailInit DEF RegInv
<1> QED
  BY <1>1, <1>2, PTL DEF Spec

\* The call of c as the register sees it.
Seen(c) ==
    [st |-> CallState(c), key |-> g[c].key, began |-> g[c].now, floor |-> g[c].floor,
     val |-> IF pc[c] = "done" THEN g[c].val ELSE Unknown]

\* The mapping of the calls, one by one.
LEMMA Calls == /\ AbstractCall = [c \in Callers |-> Seen(c)]
               /\ AbstractCall' = [c \in Callers |-> Seen(c)']
BY DEF AbstractCall, Seen

\* A goroutine inside resolve, as the register sees it, has not moved.
Inside(c) == pc[c] \notin {"idle", "done"}

SameCall(c) ==
    \/ g'[c] = g[c] /\ pc'[c] = pc[c]
    \/ /\ Inside(c) /\ Inside(c)'
       /\ g'[c].key = g[c].key /\ g'[c].now = g[c].now /\ g'[c].floor = g[c].floor

\* A call that has not moved looks the same.
LEMMA SameSeen ==
    ASSUME NEW c \in Callers, SameCall(c)
    PROVE  Seen(c)' = Seen(c)
<1>1. CASE g'[c] = g[c] /\ pc'[c] = pc[c]
  BY <1>1 DEF Seen, CallState
<1>2. CASE ~(g'[c] = g[c] /\ pc'[c] = pc[c])
  <2>1. /\ Inside(c) /\ Inside(c)'
        /\ g'[c].key = g[c].key /\ g'[c].now = g[c].now /\ g'[c].floor = g[c].floor
    BY <1>2 DEF SameCall
  <2>2. CallState(c) = "open" /\ CallState(c)' = "open" /\ pc[c] # "done" /\ pc'[c] # "done"
    BY <2>1 DEF Inside, CallState
  <2> QED
    BY <2>1, <2>2 DEF Seen
<1> QED
  BY <1>1, <1>2

\* What no caller notices.
LEMMA QuietRegister ==
    ASSUME UNCHANGED <<now, stage, endedAt, seen>>, \A c \in Callers : SameCall(c)
    PROVE  UNCHANGED Register!vars
<1>1. AbstractCall' = AbstractCall
  BY Calls, SameSeen
<1> QED
  BY <1>1 DEF Register!vars

\* The call r once it has the answer v.
After(r, v) == [r EXCEPT !.st = "answered", !.val = v]

\* The EXCEPT written out.
LEMMA Replied ==
    ASSUME NEW k, NEW t, NEW f, NEW u, NEW v, NEW open,
           open = [st |-> "open", key |-> k, began |-> t, floor |-> f, val |-> u]
    PROVE  After(open, v)
             = [st |-> "answered", key |-> k, began |-> t, floor |-> f, val |-> v]
<1> DEFINE answered == [open EXCEPT !.st = "answered"]
<1>1. answered = [st |-> "answered", key |-> k, began |-> t, floor |-> f, val |-> u]
  OBVIOUS
<1>2. After(open, v) = [answered EXCEPT !.val = v]
  BY DEF After
<1> HIDE DEF answered
<1>3. [answered EXCEPT !.val = v]
        = [st |-> "answered", key |-> k, began |-> t, floor |-> f, val |-> v]
  BY <1>1
<1> QED
  BY <1>2, <1>3

\* The end of a call with an answer is a reply of the register.
LEMMA ReplyRegister ==
    ASSUME RegInv, RegInv', NEW c \in Callers, Inside(c), pc'[c] = "done",
           g'[c].err = "none", g'[c].key = g[c].key, g'[c].now = g[c].now,
           g'[c].floor = g[c].floor, UNCHANGED <<now, backend>>,
           seen' = [seen EXCEPT ![g[c].key] = Later(@, g'[c].val)],
           \A d \in Callers : d # c => SameCall(d)
    PROVE  Register!Reply(c)
<1> DEFINE k == g[c].key
           x == g'[c].val
<1>1. /\ c \in Procs /\ k \in Keys /\ x \in Stages
      /\ stage' = stage /\ endedAt' = endedAt
      /\ seen[k] \in Nat /\ x \in Nat /\ stage[k] \in Nat /\ seen'[k] \in Nat
  BY StageNat DEF Procs, RegInv, TypeOK, Locals, backend
<1>2. Seen(c) = [st |-> "open", key |-> k, began |-> g[c].now,
                 floor |-> g[c].floor, val |-> Unknown]
  BY DEF Seen, CallState, Inside
<1>3. Seen(c)' = [st |-> "answered", key |-> k, began |-> g[c].now,
                  floor |-> g[c].floor, val |-> x]
  BY DEF Seen, CallState
<1>4. g[c].floor <= x
  BY <1>1 DEF RegInv, AgeInv, PromiseOf
<1>5. x <= stage[k]
  <2>1. seen'[k] = Later(seen[k], x)
    BY <1>1 DEF RegInv, TypeOK
  <2>2. seen'[k] <= stage'[k]
    BY <1>1 DEF RegInv, AgeInv, Under
  <2> QED
    BY <1>1, <2>1, <2>2 DEF Later
<1>6. x = Live /\ stage[k] = Ended => g[c].now <= endedAt[k] + Grace
  <2>1. (Answered(c) /\ g[c].val = Live => Timely(g[c].key, g[c].now, Whole))'
    BY <1>1 DEF RegInv, BoundInv, CallBound, Answered
  <2> QED
    BY <1>1, <2>1 DEF Answered, Timely, Whole, Grace
<1>7. AbstractCall' = [AbstractCall EXCEPT ![c].st = "answered", ![c].val = x]
  <2>1. \A d \in Callers : d # c => Seen(d)' = Seen(d)
    BY SameSeen
  <2>2. Seen(c)' = After(Seen(c), x)
    BY <1>2, <1>3, Replied
  <2>3. Seen(c)' = [Seen(c) EXCEPT !.st = "answered", !.val = x]
    BY <2>2, Zenon DEF After
  <2> QED
    BY <2>1, <2>3, Calls
<1>8. AbstractCall[c] = Seen(c)
  BY Calls
<1>9. Register!Allowed(c, x)
  BY <1>2, <1>4, <1>5, <1>6, <1>8
     DEF Register!Allowed, Register!Live, Register!Ended, Live, Ended
<1>10. seen' = [seen EXCEPT ![AbstractCall[c].key] = IF @ < x THEN x ELSE @]
  BY <1>2, <1>8 DEF Later
<1>11. x \in Register!Stages
  BY <1>1 DEF Register!Stages, Register!Unknown, Register!Live, Register!Ended,
              Stages, Unknown, Live, Ended
<1>12. AbstractCall[c].st = "open"
  BY <1>2, <1>8
<1> HIDE DEF x
<1> QED
  BY <1>1, <1>7, <1>9, <1>10, <1>11, <1>12 DEF Register!Reply

\* The end of a call with an error is a failure of the register.
LEMMA FailRegister ==
    ASSUME RegInv, RegInv', NEW c \in Callers, Inside(c), pc'[c] = "done",
           g'[c].err # "none", g'[c].key = g[c].key, g'[c].now = g[c].now,
           g'[c].floor = g[c].floor, UNCHANGED <<now, backend, seen>>,
           \A d \in Callers : d # c => SameCall(d)
    PROVE  Register!Fail(c)
<1>1. Seen(c) = [st |-> "open", key |-> g[c].key, began |-> g[c].now,
                 floor |-> g[c].floor, val |-> Unknown]
  BY DEF Seen, CallState, Inside
<1>2. g'[c].val = Unknown
  BY DEF Procs, RegInv, FailInv
<1>3. Seen(c)' = [st |-> "failed", key |-> g[c].key, began |-> g[c].now,
                  floor |-> g[c].floor, val |-> Unknown]
  BY <1>2 DEF Seen, CallState
<1>4. Seen(c)' = [Seen(c) EXCEPT !.st = "failed"]
  BY <1>1, <1>3
<1>5. \A d \in Callers : d # c => Seen(d)' = Seen(d)
  BY SameSeen
<1>6. AbstractCall' = [AbstractCall EXCEPT ![c].st = "failed"]
  BY <1>4, <1>5, Calls
<1>7. AbstractCall[c].st = "open"
  BY <1>1, Calls
<1> QED
  BY <1>6, <1>7 DEF Register!Fail, backend

\* Steps of resolve, one by one.
LEMMA ReturnRegister ==
    ASSUME RegInv, RegInv', NEW c \in Callers, Return(c)
    PROVE  Register!Reply(c) \/ Register!Fail(c)
<1>1. c \in Procs /\ g[c] \in Locals /\ pc[c] = "ret"
  BY DEF Procs, Return, RegInv, TypeOK
<1>2. /\ pc'[c] = "done" /\ g'[c] = Answer(c) /\ Inside(c)
      /\ \A d \in Callers : d # c => SameCall(d)
      /\ UNCHANGED <<now, backend>>
  BY <1>1 DEF Return, RegInv, TypeOK, SameCall, Procs, Inside, clocks
<1>3. g'[c].key = g[c].key /\ g'[c].now = g[c].now /\ g'[c].floor = g[c].floor
  BY <1>1, <1>2 DEF Answer, Locals
<1>4. CASE g'[c].err = "none"
  BY <1>2, <1>3, <1>4, ReplyRegister DEF Return
<1>5. CASE g'[c].err # "none"
  BY <1>2, <1>3, <1>5, FailRegister DEF Return
<1> QED
  BY <1>4, <1>5

\* A hit is a reply, whether or not it starts a refresh.
LEMMA HitRegister ==
    ASSUME RegInv, RegInv', NEW c \in Callers, LookupHit(c)
    PROVE  Register!Reply(c)
<1> DEFINE x == Entry(cache, g[c].key).outcome
           served == [g EXCEPT ![c].val = x]
<1>1. /\ c \in Procs /\ g[c] \in Locals /\ pc[c] = "get"
      /\ \A d \in Callers : d \in Procs /\ d \notin Refreshers
      /\ g \in [Procs -> Locals] /\ pc \in [Procs -> Steps]
  BY ProcAssumption DEF Procs, LookupHit, RegInv, TypeOK
<1>2. /\ pc'[c] = "done" /\ g'[c] = served[c] /\ Inside(c)
      /\ \A d \in Callers : d # c => pc'[d] = pc[d] /\ g'[d] = served[d]
      /\ UNCHANGED <<now, backend>>
  BY <1>1 DEF LookupHit, Inside, clocks, IdleRefreshers
<1>3. /\ g'[c].key = g[c].key /\ g'[c].now = g[c].now /\ g'[c].floor = g[c].floor
      /\ g'[c].val = x /\ g'[c].err = g[c].err
      /\ \A d \in Callers : d # c => SameCall(d)
  BY <1>1, <1>2 DEF Locals, SameCall
<1>4. g[c].err = "none"
  BY <1>1 DEF RegInv, FailInv
<1>5. seen' = [seen EXCEPT ![g[c].key] = Later(@, g'[c].val)]
  BY <1>3 DEF LookupHit
<1> QED
  BY <1>2, <1>3, <1>4, <1>5, ReplyRegister

\* A call to resolve begins.
LEMMA StartRegister ==
    ASSUME RegInv, NEW c \in Callers, NEW key \in Keys, Start(c, key)
    PROVE  Register!Begin(c, key)
<1>1. /\ c \in Procs /\ pc'[c] = "get" /\ pc[c] \in {"idle", "done"}
      /\ g'[c] = [Blank(key) EXCEPT !.now = now, !.wall = Wall, !.floor = seen[key]]
      /\ \A d \in Callers : d # c => SameCall(d)
      /\ UNCHANGED <<now, stage, endedAt, seen>>
  BY DEF Start, RegInv, TypeOK, Procs, SameCall, clocks, backend
<1>2. Seen(c)' = [st |-> "open", key |-> key, began |-> now, floor |-> seen[key],
                  val |-> Unknown]
  BY <1>1 DEF Seen, CallState, Blank
<1>3. \A d \in Callers : d # c => Seen(d)' = Seen(d)
  BY <1>1, SameSeen
<1>4. AbstractCall' = [AbstractCall EXCEPT ![c] =
          [Register!NoCall EXCEPT !.st = "open", !.key = key, !.began = now,
                                  !.floor = seen[key]]]
  BY <1>2, <1>3, Calls DEF Register!NoCall, Register!Unknown, Unknown
<1>5. AbstractCall[c].st # "open"
  BY <1>1, Calls DEF Seen, CallState
<1> QED
  BY <1>1, <1>4, <1>5 DEF Register!Begin

\* Time and the backend only age the register.
LEMMA AgeRegister ==
    ASSUME RegInv, RegInv', [Next]_vars, Environment
    PROVE  [Register!Next]_(Register!vars)
<1>1. History
  BY HistoryStep DEF RegInv
<1>2. AbstractCall' = AbstractCall /\ seen' = seen
  <2>1. pc' = pc /\ g' = g /\ seen' = seen
    BY DEF Environment, Tick, SetClock, Issue, Revoke
  <2> QED
    BY <2>1, Calls, SameSeen DEF SameCall
<1>3. /\ now \in Nat /\ now' \in Nat /\ now' >= now
      /\ stage \in [Keys -> Stages] /\ stage' \in [Keys -> Stages]
      /\ endedAt' \in [Keys -> Nat]
      /\ \A key \in Keys : stage[key] = Live => now < expires[key]
  BY <1>1 DEF RegInv, BoundInv, TypeOK, History
<1>4. ASSUME NEW key \in Keys
      PROVE  /\ stage'[key] >= stage[key]
             /\ IF stage[key] # Ended /\ stage'[key] = Ended
                THEN endedAt'[key] >= now /\ endedAt'[key] <= now'
                ELSE endedAt'[key] = endedAt[key]
  <2> USE DEF Unknown, Live, Ended, Stages
  <2>1. CASE Tick
    BY <1>3, <2>1 DEF Tick, RegInv, TypeOK
  <2>2. CASE SetClock
    BY <1>3, <2>2 DEF SetClock, backend
  <2>3. ASSUME NEW k \in Keys, Issue(k)
        PROVE  stage'[key] >= stage[key] /\ endedAt'[key] = endedAt[key]
               /\ (stage'[key] = Ended => stage[key] = Ended)
    BY <1>3, <2>3 DEF Issue
  <2>4. ASSUME NEW k \in Keys, Revoke(k)
        PROVE  /\ stage'[key] >= stage[key]
               /\ IF stage[key] # Ended /\ stage'[key] = Ended
                  THEN endedAt'[key] >= now /\ endedAt'[key] <= now'
                  ELSE endedAt'[key] = endedAt[key]
    BY <1>3, <2>4 DEF Revoke, clocks, RegInv, TypeOK
  <2> QED
    BY <2>1, <2>2, <2>3, <2>4 DEF Environment
<1>5. stage' \in [Keys -> Register!Stages]
  BY <1>3 DEF Register!Stages, Register!Unknown, Register!Live, Register!Ended,
              Stages, Unknown, Live, Ended
<1>6. Register!Age
  BY <1>2, <1>3, <1>4, <1>5 DEF Register!Age, Register!Ended, Ended
<1> QED
  BY <1>6 DEF Register!Next

\* Every step is a step of the register, or nothing.
LEMMA StepRegister ==
    ASSUME RegInv, RegInv', [Next]_vars
    PROVE  [Register!Next]_(Register!vars)
<1>t. /\ pc \in [Procs -> Steps] /\ g \in [Procs -> Locals]
      /\ Callers \subseteq Procs
  BY DEF RegInv, TypeOK, Procs
<1>1. CASE Environment
  BY <1>1, AgeRegister
<1>2. ASSUME NEW c \in Callers, NEW key \in Keys, Start(c, key)
      PROVE  Register!Next
  BY <1>2, StartRegister DEF Register!Next
<1>3. ASSUME NEW c \in Callers, LookupHit(c)
      PROVE  Register!Next
  BY <1>3, HitRegister DEF Register!Next
<1>4. ASSUME NEW c \in Callers, Return(c)
      PROVE  Register!Next
  BY <1>4, ReturnRegister DEF Register!Next
<1>5. ASSUME NEW c \in Callers, LookupMiss(c) \/ LookupExpired(c) \/ LookupStale(c)
                                  \/ RemoveExpired(c) \/ PeekStale(c)
      PROVE  UNCHANGED Register!vars
  <2>1. UNCHANGED <<now, stage, endedAt, seen>>
    BY <1>5 DEF LookupMiss, LookupExpired, LookupStale, RemoveExpired, PeekStale,
                clocks, backend
  <2>2. \A d \in Callers : SameCall(d)
    BY <1>5, <1>t DEF LookupMiss, LookupExpired, LookupStale, RemoveExpired, PeekStale,
                      SameCall, Inside, Locals
  <2> QED
    BY <2>1, <2>2, QuietRegister
<1>6. ASSUME NEW p \in Procs, Lead(p) \/ Follow(p) \/ BackendRead(p) \/ Settle(p)
      PROVE  UNCHANGED Register!vars
  <2>1. UNCHANGED <<now, stage, endedAt, seen>>
    BY <1>6 DEF Lead, Follow, BackendRead, Settle, Fill, FetchFails, clocks, backend
  <2>2. /\ Inside(p) /\ Inside(p)'
        /\ g'[p].key = g[p].key /\ g'[p].now = g[p].now /\ g'[p].floor = g[p].floor
        /\ \A q \in Procs : q # p => g'[q] = g[q] /\ pc'[q] = pc[q]
    <3>1. CASE Lead(p) \/ Follow(p)
      BY <1>t, <3>1 DEF Lead, Follow, Inside, Locals
    <3>2. CASE BackendRead(p)
      BY <1>t, <3>2 DEF BackendRead, Inside, Locals
    <3>3. CASE Fill(p)
      BY <1>t, <3>3 DEF Fill, Inside
    <3>4. CASE FetchFails(p)
      BY <1>t, <3>4 DEF FetchFails, Inside, Locals
    <3> QED
      BY <1>6, <3>1, <3>2, <3>3, <3>4 DEF Settle
  <2>3. \A d \in Callers : SameCall(d)
    BY <1>t, <2>2 DEF SameCall
  <2> QED
    BY <2>1, <2>3, QuietRegister
<1>7. ASSUME NEW p \in Procs, Finish(p)
      PROVE  UNCHANGED Register!vars
  <2>1. UNCHANGED <<now, stage, endedAt, seen>>
    BY <1>7 DEF Finish, clocks, backend
  <2>2. ASSUME NEW d \in Callers
        PROVE  SameCall(d)
    <3>1. CASE d \notin Waiting(p) \cup {p}
      BY <1>7, <1>t, <3>1 DEF Finish, SameCall
    <3>2. CASE d \in Waiting(p) \cup {p}
      <4>1. Inside(d) /\ pc'[d] = "ret"
        BY <1>7, <1>t, <3>2 DEF Finish, Waiting, AfterFlight, Inside
      <4>2. g'[d] = [g[d] EXCEPT !.val = g[p].val, !.err = g[p].err,
                                 !.leader = None, !.began = 0]
        BY <1>7, <1>t, <3>2 DEF Finish
      <4>3. g'[d].key = g[d].key /\ g'[d].now = g[d].now /\ g'[d].floor = g[d].floor
        BY <1>t, <4>2 DEF Locals
      <4> QED
        BY <4>1, <4>3 DEF SameCall, Inside
    <3> QED
      BY <3>1, <3>2
  <2> QED
    BY <2>1, <2>2, QuietRegister
<1>8. CASE UNCHANGED vars \/ \E key \in Keys : Evict(key)
  <2>1. UNCHANGED <<now, stage, endedAt, seen, pc, g>>
    BY <1>8 DEF vars, Evict, clocks, backend
  <2> QED
    BY <2>1, QuietRegister DEF SameCall
<1> QED
  BY <1>1, <1>2, <1>3, <1>4, <1>5, <1>6, <1>7, <1>8 DEF Next, Resolve, Lookup, Flight

\* What resolve promises its callers, with caches, flights and refreshers out of
\* sight: a register read with bounded staleness, whatever the configuration.
THEOREM ResolveIsRegister == Spec => ImplementsRegister
<1>1. Init => Register!Init
  <2> SUFFICES ASSUME Init PROVE Register!Init
    OBVIOUS
  <2>1. \A c \in Callers : Seen(c) = Register!NoCall
    BY DEF Init, Seen, CallState, Blank, Procs, Register!NoCall, Register!Unknown, Unknown
  <2> QED
    BY <2>1, Calls DEF Init, Register!Init, Register!Unknown, Unknown
<1> QED
  BY <1>1, StepRegister, RegCorrect, PTL DEF Spec, ImplementsRegister, Register!Spec
=============================================================================
