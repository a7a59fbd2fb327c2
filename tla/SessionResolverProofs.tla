------------------------ MODULE SessionResolverProofs ------------------------
(***************************************************************************)
(* Theorems about SessionResolver, for any number of goroutines and        *)
(* tokens and any configuration: types, single flight, answers that never  *)
(* go back in time, an LRU whose list and map agree.                       *)
(***************************************************************************)
EXTENDS SessionResolver, SequenceTheorems, TLAPS

-----------------------------------------------------------------------------
(* What the methods of the LRU do to the map. *)

\* Promoting a key changes the list only.
LEMMA PromoteItems ==
    ASSUME NEW c, NEW key
    PROVE  Promote(c, key).items = c.items
BY DEF Promote

\* remove takes at most the one key from the map.
LEMMA RemoveItems ==
    ASSUME NEW c, NEW key
    PROVE  /\ DOMAIN remove(c, key).items = DOMAIN c.items \ {key}
           /\ \A k \in DOMAIN c.items \ {key} :
                  remove(c, key).items[k] = c.items[k]
BY DEF remove, Has

\* put stores the entry and drops other keys, or with no capacity does nothing.
LEMMA PutItems ==
    ASSUME NEW c, NEW key, NEW entry, NEW capacity
    PROVE  \/ capacity = 0 /\ put(c, key, entry, capacity) = c
           \/ /\ capacity # 0
              /\ DOMAIN put(c, key, entry, capacity).items
                     \subseteq DOMAIN c.items \cup {key}
              /\ \A k \in DOMAIN put(c, key, entry, capacity).items :
                     put(c, key, entry, capacity).items[k]
                         = IF k = key THEN entry ELSE c.items[k]
BY DEF put

-----------------------------------------------------------------------------
(* Types *)

\* There is a key.
LEMMA AnyKeyIsKey == AnyKey \in Keys
BY KeyAssumption DEF AnyKey

\* Durations are numbers.
LEMMA ConfigNat ==
    /\ Capacity \in Nat /\ L1TTL \in Nat /\ NegTTL \in Nat
    /\ StaleIfError \in Nat /\ ResolveTimeout \in Nat
BY ConfigAssumption DEF Durations

\* The entries that fill builds are cache entries.
LEMMA SessionEntryType ==
    ASSUME now \in Nat, skew \in Int, expires \in [Keys -> Nat],
           NEW key \in Keys, NEW t \in EffectiveTTLs
    PROVE  SessionEntry(key, t) \in CacheEntry
<1>1. t \in Nat
  BY JitterAssumption, ConfigNat
<1>2. Wall \in Int /\ expires[key] \in Nat
  BY DEF Wall
<1>3. Later(0, expires[key] - Wall) \in Nat
  BY <1>2 DEF Later
<1> DEFINE fresh == now + Sooner(t, Later(0, expires[key] - Wall))
<1>4. fresh \in Nat
  BY <1>1, <1>3 DEF Sooner
<1> HIDE DEF fresh
<1>5. SessionEntry(key, t) =
        [outcome |-> Live, freshUntil |-> fresh,
         staleUntil |-> fresh + StaleIfError, effectiveTTL |-> t]
  BY DEF SessionEntry, fresh
<1>6. fresh + StaleIfError \in Nat
  BY <1>4, ConfigNat
<1> QED
  BY <1>1, <1>4, <1>5, <1>6 DEF CacheEntry, Stages

\* A tombstone is an entry.
LEMMA TombstoneType ==
    ASSUME now \in Nat, NEW val \in Stages
    PROVE  Tombstone(val) \in CacheEntry
BY ConfigNat DEF Tombstone, CacheEntry

\* A new or reset goroutine has well-typed locals.
LEMMA BlankType ==
    ASSUME NEW key \in Keys
    PROVE  Blank(key) \in Locals
BY DEF Blank, Locals, Errors, Stages

\* The types hold at first.
LEMMA TypeInit == Init => TypeOK
<1> SUFFICES ASSUME Init PROVE TypeOK
  OBVIOUS
<1>1. g \in [Procs -> Locals]
  BY AnyKeyIsKey, BlankType DEF Init
<1>2. DOMAIN cache.items = {}
  BY DEF Init, newLruCache
<1>3. \A r \in Refreshers : r \in Procs
  BY DEF Procs
<1> QED
  BY <1>1, <1>2, <1>3 DEF Init, TypeOK, CacheTypeOK, Stages, Steps, RefreshSteps, FlightSteps

\* Promoting, removing, and storing an entry keep the cache well typed.
LEMMA CacheSteps ==
    ASSUME CacheTypeOK, NEW key \in Keys
    PROVE  /\ cache' = Promote(cache, key) => CacheTypeOK'
           /\ cache' = remove(cache, key) => CacheTypeOK'
           /\ \A entry \in CacheEntry :
                 cache' = put(cache, key, entry, Capacity) => CacheTypeOK'
<1>1. cache' = Promote(cache, key) => CacheTypeOK'
  BY PromoteItems DEF CacheTypeOK
<1>2. cache' = remove(cache, key) => CacheTypeOK'
  BY RemoveItems DEF CacheTypeOK
<1>3. ASSUME NEW entry \in CacheEntry,
             cache' = put(cache, key, entry, Capacity)
      PROVE  CacheTypeOK'
  <2>1. CASE cache' = cache
    BY <2>1 DEF CacheTypeOK
  <2>2. CASE /\ DOMAIN cache'.items \subseteq DOMAIN cache.items \cup {key}
             /\ \A k \in DOMAIN cache'.items :
                   cache'.items[k] = IF k = key THEN entry ELSE cache.items[k]
    BY <2>2 DEF CacheTypeOK
  <2> QED
    BY <1>3, <2>1, <2>2, PutItems
<1> QED
  BY <1>1, <1>2, <1>3

\* ... and after every step.
LEMMA TypeStep == TypeOK /\ [Next]_vars => TypeOK'
<1> SUFFICES ASSUME TypeOK, [Next]_vars PROVE TypeOK'
  OBVIOUS
<1> USE DEF TypeOK
<1>1. CASE Tick
  BY <1>1, ClockAssumption DEF Tick, CacheTypeOK, clocks, backend, Stages
<1>2. CASE SetClock
  BY <1>2, ClockAssumption DEF SetClock, CacheTypeOK, clocks, backend
<1>3. ASSUME NEW key \in Keys, Issue(key) \/ Revoke(key)
      PROVE  TypeOK'
  BY <1>3, ClockAssumption DEF Issue, Revoke, CacheTypeOK, clocks, backend, Stages
<1>4. ASSUME NEW c \in Callers, NEW key \in Keys, Start(c, key)
      PROVE  TypeOK'
  <2>1. c \in Procs /\ c \notin Refreshers
    BY ProcAssumption DEF Procs
  <2>2. [Blank(key) EXCEPT !.now = now, !.wall = Wall, !.floor = seen[key]]
            \in Locals
    <3>1. Blank(key) \in Locals
      BY BlankType
    <3>2. now \in Nat /\ Wall \in Int /\ seen[key] \in Stages
      BY DEF Wall
    <3> QED
      BY <3>1, <3>2 DEF Locals
  <2>3. g' \in [Procs -> Locals]
    BY <1>4, <2>1, <2>2 DEF Start
  <2>4. pc' \in [Procs -> Steps] /\ \A q \in Refreshers : pc'[q] \in RefreshSteps
    BY <1>4, <2>1 DEF Start, Steps, Procs
  <2> QED
    BY <1>4, <2>3, <2>4 DEF Start, CacheTypeOK, clocks, backend
<1>5. ASSUME NEW c \in Callers, Resolve(c)
      PROVE  TypeOK'
  <2>1. c \in Procs /\ c \notin Refreshers /\ g[c].key \in Keys
    BY ProcAssumption DEF Procs, Locals
  <2>2. CASE LookupMiss(c)
    BY <2>1, <2>2 DEF LookupMiss, CacheTypeOK, clocks, backend, Steps
  <2>3. CASE LookupExpired(c) \/ LookupStale(c)
    <3>1. CacheTypeOK'
      BY <2>1, <2>3, CacheSteps DEF LookupExpired, LookupStale
    <3>2. pc' \in [Procs -> Steps] /\ \A q \in Refreshers : pc'[q] \in RefreshSteps
      BY <2>1, <2>3 DEF LookupExpired, LookupStale, Steps, Procs
    <3> QED
      BY <2>3, <3>1, <3>2 DEF LookupExpired, LookupStale, clocks, backend
  <2>4. CASE LookupHit(c)
    <3> DEFINE entry == Entry(cache, g[c].key)
               served == [g EXCEPT ![c].val = entry.outcome]
    <3>1. entry \in CacheEntry
      BY <2>1, <2>4 DEF LookupHit, GetHits, Has, Entry, CacheTypeOK
    <3>2. CacheTypeOK'
      BY <2>1, <2>4, CacheSteps DEF LookupHit
    <3>3. served \in [Procs -> Locals]
      BY <2>1, <3>1 DEF Locals, CacheEntry
    <3>4. seen' \in [Keys -> Stages]
      BY <2>1, <2>4, <3>1 DEF LookupHit, Later, CacheEntry
    <3> HIDE DEF served
    <3>5. CASE \E r \in IdleRefreshers :
                 /\ pc' = [pc EXCEPT ![c] = "done", ![r] = "do"]
                 /\ g' = [served EXCEPT ![r] = Blank(g[c].key)]
      <4>1. PICK r \in IdleRefreshers :
                 /\ pc' = [pc EXCEPT ![c] = "done", ![r] = "do"]
                 /\ g' = [served EXCEPT ![r] = Blank(g[c].key)]
        BY <3>5
      <4>2. r \in Refreshers /\ r \in Procs
        BY DEF IdleRefreshers, Procs
      <4>3. g' \in [Procs -> Locals]
        BY <2>1, <3>3, <4>1, <4>2, BlankType
      <4>4. pc' \in [Procs -> Steps] /\ \A q \in Refreshers : pc'[q] \in RefreshSteps
        BY <2>1, <4>1, <4>2 DEF Steps, RefreshSteps, Procs
      <4> QED
        BY <2>4, <3>2, <3>4, <4>3, <4>4 DEF LookupHit, clocks, backend
    <3>6. CASE pc' = [pc EXCEPT ![c] = "done"] /\ g' = served
      <4>1. pc' \in [Procs -> Steps] /\ \A q \in Refreshers : pc'[q] \in RefreshSteps
        BY <2>1, <3>6 DEF Steps, Procs
      <4> QED
        BY <2>4, <3>2, <3>3, <3>4, <3>6, <4>1 DEF LookupHit, clocks, backend
    <3> QED
      BY <2>4, <3>5, <3>6 DEF LookupHit, served
  <2>5. CASE RemoveExpired(c)
    <3>1. CacheTypeOK'
      BY <2>1, <2>5, CacheSteps DEF RemoveExpired
    <3> QED
      BY <2>1, <2>5, <3>1 DEF RemoveExpired, clocks, backend, Steps
  <2>6. CASE PeekStale(c)
    <3>1. StaleCandidate(c) \in BOOLEAN
      BY DEF StaleCandidate
    <3>2. [g[c] EXCEPT !.stale = StaleCandidate(c)] \in Locals
      BY <2>1, <3>1 DEF Locals
    <3>3. g' \in [Procs -> Locals]
      BY <2>1, <2>6, <3>2 DEF PeekStale
    <3> QED
      BY <2>1, <2>6, <3>3 DEF PeekStale, CacheTypeOK, clocks, backend, Steps
  <2>7. CASE Return(c)
    <3>1. Answer(c) \in Locals
      <4>1. g[c] \in Locals
        BY <2>1
      <4>2. CASE g[c].err = "transport" /\ g[c].stale
        <5>1. Answer(c) = [g[c] EXCEPT !.val = Live, !.err = "none", !.stale = FALSE]
          BY <4>2 DEF Answer
        <5>2. Live \in Stages /\ "none" \in Errors
          BY DEF Stages, Errors
        <5> QED
          BY <4>1, <5>1, <5>2 DEF Locals
      <4>3. CASE ~(g[c].err = "transport" /\ g[c].stale)
        <5>1. Answer(c) = [g[c] EXCEPT !.stale = FALSE]
          BY <4>3 DEF Answer
        <5> QED
          BY <4>1, <5>1 DEF Locals
      <4> QED
        BY <4>2, <4>3
    <3>2. seen' \in [Keys -> Stages]
      BY <2>1, <2>7, <3>1 DEF Return, Later, Locals
    <3>3. g' \in [Procs -> Locals]
      BY <2>1, <2>7, <3>1 DEF Return
    <3> QED
      BY <2>1, <2>7, <3>2, <3>3 DEF Return, CacheTypeOK, clocks, backend, Steps
  <2> QED
    BY <1>5, <2>2, <2>3, <2>4, <2>5, <2>6, <2>7 DEF Resolve, Lookup
<1>6. ASSUME NEW p \in Procs, Flight(p)
      PROVE  TypeOK'
  <2>1. g[p].key \in Keys
    BY DEF Locals
  <2>2. CASE Lead(p)
    <3>1. g' \in [Procs -> Locals]
      BY <2>2 DEF Lead, Locals
    <3> QED
      BY <2>1, <2>2, <3>1 DEF Lead, CacheTypeOK, clocks, backend, Steps,
                              RefreshSteps, FlightSteps
  <2>3. CASE Follow(p)
    <3>1. g' \in [Procs -> Locals]
      BY <2>1, <2>3 DEF Follow, Locals
    <3> QED
      BY <2>3, <3>1 DEF Follow, CacheTypeOK, clocks, backend, Steps, RefreshSteps
  <2>4. CASE BackendRead(p)
    <3>1. g' \in [Procs -> Locals]
      BY <2>1, <2>4 DEF BackendRead, Locals
    <3> QED
      BY <2>4, <3>1 DEF BackendRead, CacheTypeOK, clocks, backend, Steps,
                        RefreshSteps, FlightSteps
  <2>5. CASE Fill(p)
    <3>1. CacheTypeOK'
      <4>1. g[p].val \in Stages
        BY DEF Locals
      <4> QED
        BY <2>1, <2>5, <4>1, CacheSteps, SessionEntryType, TombstoneType DEF Fill
    <3> QED
      BY <2>5, <3>1 DEF Fill, clocks, backend, Steps, RefreshSteps, FlightSteps
  <2>6. CASE FetchFails(p)
    <3>1. g' \in [Procs -> Locals]
      <4>1. PICK e \in Errors : g' = [g EXCEPT ![p].err = e, ![p].val = Unknown]
        BY <2>6 DEF FetchFails
      <4>2. [g[p] EXCEPT !.err = e, !.val = Unknown] \in Locals
        BY DEF Locals, Stages
      <4>3. g' = [g EXCEPT ![p] = [g[p] EXCEPT !.err = e, !.val = Unknown]]
        BY <4>1
      <4> QED
        BY <4>2, <4>3
    <3> QED
      BY <2>6, <3>1 DEF FetchFails, CacheTypeOK, clocks, backend, Steps,
                        RefreshSteps, FlightSteps
  <2>7. CASE Finish(p)
    <3>1. g' \in [Procs -> Locals]
      <4>1. Blank(AnyKey) \in Locals
        BY AnyKeyIsKey, BlankType
      <4>2. \A q \in Procs :
               [g[q] EXCEPT !.val = g[p].val, !.err = g[p].err,
                            !.leader = None, !.began = 0] \in Locals
        BY DEF Locals
      <4> QED
        BY <2>7, <4>1, <4>2 DEF Finish
    <3>2. pc' \in [Procs -> Steps] /\ \A q \in Refreshers : pc'[q] \in RefreshSteps
      BY <2>7, ProcAssumption DEF Finish, AfterFlight, Steps, RefreshSteps, Procs
    <3> QED
      BY <2>1, <2>7, <3>1, <3>2 DEF Finish, CacheTypeOK, clocks, backend
  <2> QED
    BY <1>6, <2>2, <2>3, <2>4, <2>5, <2>6, <2>7 DEF Flight, Settle
<1>7. ASSUME NEW key \in Keys, Evict(key)
      PROVE  TypeOK'
  <2>1. CacheTypeOK'
    BY <1>7, CacheSteps DEF Evict
  <2> QED
    BY <1>7, <2>1 DEF Evict, clocks, backend
<1>8. CASE UNCHANGED vars
  BY <1>8 DEF vars, CacheTypeOK
<1> QED
  BY <1>1, <1>2, <1>3, <1>4, <1>5, <1>6, <1>7, <1>8 DEF Next, Environment

\* Type correctness.
THEOREM TypeCorrect == Spec => []TypeOK
BY TypeInit, TypeStep, PTL DEF Spec

-----------------------------------------------------------------------------
(* Single flight *)

\* The group maps a key to the goroutine whose fetch of it is open; a waiter's
\* leader is such a goroutine, for the waiter's key; errors are results only.
FlightInv ==
    /\ \A p \in Procs : InFlight(p) => group[g[p].key] = p
    /\ \A key \in Keys : group[key] # None =>
           InFlight(group[key]) /\ g[group[key]].key = key
    /\ \A q \in Procs : pc[q] = "wait" =>
           /\ g[q].leader \in Procs
           /\ InFlight(g[q].leader)
           /\ g[g[q].leader].key = g[q].key
    /\ \A p \in Procs : pc[p] \notin {"settled", "ret", "done"} => g[p].err = "none"

\* No flight is open at first.
LEMMA FlightInit == Init => FlightInv
BY AnyKeyIsKey DEF Init, FlightInv, InFlight, FlightSteps, Blank

\* Only the leader of a flight is in it.
LEMMA FlightStep == TypeOK /\ FlightInv /\ [Next]_vars => FlightInv'
<1> SUFFICES ASSUME TypeOK, FlightInv, [Next]_vars PROVE FlightInv'
  OBVIOUS
<1>k. \A p \in Procs : g[p].key \in Keys
  BY DEF TypeOK, Locals
<1>n. \A p \in Procs : p # None
  BY ProcAssumption
<1>s. /\ pc \in [Procs -> Steps] /\ g \in [Procs -> Locals]
      /\ group \in [Keys -> Procs \cup {None}]
  BY DEF TypeOK
<1> USE DEF FlightInv, InFlight, FlightSteps
\* Outside the flight group only keys and errors of idle goroutines change.
<1>1. CASE Environment
  BY <1>1 DEF Environment, Tick, SetClock, Issue, Revoke
<1>2. ASSUME NEW c \in Callers, NEW key \in Keys, Start(c, key)
      PROVE  FlightInv'
  <2>1. c \in Procs
    BY DEF Procs
  <2> QED
    BY <1>2, <2>1, <1>s DEF Start, Blank
<1>3. ASSUME NEW c \in Callers, Resolve(c)
      PROVE  FlightInv'
  <2>1. c \in Procs
    BY DEF Procs
  <2>2. CASE LookupMiss(c)
    BY <2>1, <2>2, <1>s DEF LookupMiss
  <2>3. CASE LookupExpired(c) \/ LookupStale(c)
    BY <2>1, <2>3, <1>s DEF LookupExpired, LookupStale
  <2>4. CASE LookupHit(c)
    <3> DEFINE served == [g EXCEPT ![c].val = Entry(cache, g[c].key).outcome]
    <3>1. CASE pc' = [pc EXCEPT ![c] = "done"] /\ g' = served
      BY <2>1, <2>4, <3>1, <1>s DEF LookupHit, Locals
    <3>2. CASE \E r \in IdleRefreshers :
                 /\ pc' = [pc EXCEPT ![c] = "done", ![r] = "do"]
                 /\ g' = [served EXCEPT ![r] = Blank(g[c].key)]
      <4>1. PICK r \in IdleRefreshers :
                 /\ pc' = [pc EXCEPT ![c] = "done", ![r] = "do"]
                 /\ g' = [served EXCEPT ![r] = Blank(g[c].key)]
        BY <3>2
      <4>2. r \in Procs /\ r # c /\ pc[r] = "idle" /\ pc[c] = "get"
        BY <2>4 DEF IdleRefreshers, Procs, LookupHit
      <4>3. \A q \in Procs : q # r =>
               /\ g'[q].key = g[q].key /\ g'[q].leader = g[q].leader
               /\ g'[q].err = g[q].err
        BY <2>1, <4>1, <4>2, <1>s DEF Locals
      <4>4. g'[r].err = "none"
        BY <2>1, <4>1, <4>2, <1>s DEF Blank
      <4>5. pc'[r] = "do" /\ pc'[c] = "done"
        BY <2>1, <4>1, <4>2, <1>s
      <4>6. \A q \in Procs : q # r /\ q # c => pc'[q] = pc[q]
        BY <2>1, <4>1, <4>2, <1>s
      <4>7. group' = group
        BY <2>4 DEF LookupHit
      <4> QED
        BY <2>1, <4>2, <4>3, <4>4, <4>5, <4>6, <4>7, <1>s
    <3> QED
      BY <2>4, <3>1, <3>2 DEF LookupHit
  <2>5. CASE RemoveExpired(c)
    BY <2>1, <2>5, <1>s DEF RemoveExpired
  <2>6. CASE PeekStale(c)
    BY <2>1, <2>6, <1>s DEF PeekStale, Locals
  <2>7. CASE Return(c)
    BY <2>1, <2>7, <1>s DEF Return, Answer, Locals
  <2> QED
    BY <1>3, <2>2, <2>3, <2>4, <2>5, <2>6, <2>7 DEF Resolve, Lookup
<1>4. ASSUME NEW p \in Procs, Flight(p)
      PROVE  FlightInv'
  <2>2. CASE Lead(p)
    BY <2>2, <1>k, <1>n, <1>s DEF Lead, Locals
  <2>3. CASE Follow(p)
    BY <2>3, <1>k, <1>n, <1>s DEF Follow, Locals
  <2>4. CASE BackendRead(p)
    BY <2>4, <1>k, <1>s DEF BackendRead, Locals
  <2>5. CASE Fill(p)
    BY <2>5, <1>s DEF Fill
  <2>6. CASE FetchFails(p)
    BY <2>6, <1>k, <1>s DEF FetchFails, Locals
  <2>7. CASE Finish(p)
    <3>1. p \notin Waiting(p) /\ Waiting(p) \subseteq Procs
      BY <2>7 DEF Finish, Waiting
    <3>2. \A q \in Procs : q \notin Waiting(p) \cup {p} => pc'[q] = pc[q] /\ g'[q] = g[q]
      BY <2>7 DEF Finish
    <3>r. \A q \in Waiting(p) \cup {p} :
             /\ pc'[q] = AfterFlight(q)
             /\ q \notin Callers => g'[q] = Blank(AnyKey)
      <4>1. TAKE q \in Waiting(p) \cup {p}
      <4>2. q \in Procs
        BY <3>1
      <4>3. pc'[q] = AfterFlight(q)
        BY <2>7, <4>2 DEF Finish
      <4>4. q \notin Callers => g'[q] = Blank(AnyKey)
        BY <2>7, <4>2 DEF Finish
      <4> QED
        BY <4>3, <4>4
    <3>3. \A q \in Waiting(p) \cup {p} : pc'[q] \in {"ret", "idle"}
      BY <3>r DEF AfterFlight
    <3>4. \A q \in Waiting(p) \cup {p} : pc'[q] = "idle" => g'[q].err = "none"
      BY <3>r DEF AfterFlight, Blank
    <3>5. \A q \in Procs : pc[q] = "wait" /\ q \notin Waiting(p) => g[q].leader # p
      BY DEF Waiting
    <3>6. group' = [group EXCEPT ![g[p].key] = None] /\ pc[p] = "settled"
      BY <2>7 DEF Finish
    <3>7. \A q \in Procs : InFlight(q) => q \notin Waiting(p)
      BY DEF Waiting
    <3>8. group[g[p].key] = p
      BY <3>6
    <3>9. \A q \in Procs : InFlight(q)' => q # p /\ InFlight(q) /\ g'[q] = g[q]
      BY <3>2, <3>3
    <3>10. \A q \in Procs : InFlight(q)' => group'[g'[q].key] = q
      BY <3>6, <3>8, <3>9, <1>k, <1>s
    <3>11. ASSUME NEW key \in Keys, group'[key] # None
           PROVE  InFlight(group[key])' /\ g'[group'[key]].key = key
      <4>1. key # g[p].key /\ group'[key] = group[key]
        BY <3>6, <3>11, <1>k, <1>s
      <4>2. group[key] \in Procs /\ InFlight(group[key]) /\ g[group[key]].key = key
        BY <3>11, <4>1, <1>s
      <4>3. group[key] \notin Waiting(p) \cup {p}
        BY <3>7, <4>1, <4>2
      <4> QED
        BY <3>2, <4>1, <4>2, <4>3
    <3>12. ASSUME NEW q \in Procs, pc'[q] = "wait"
           PROVE  /\ g'[q].leader \in Procs
                  /\ InFlight(g[q].leader)'
                  /\ g'[g'[q].leader].key = g'[q].key
      <4>1. pc[q] = "wait" /\ g'[q] = g[q] /\ q \notin Waiting(p)
        BY <3>2, <3>3, <3>12
      <4>2. /\ g[q].leader \in Procs /\ InFlight(g[q].leader)
            /\ g[g[q].leader].key = g[q].key
        BY <4>1
      <4>3. g[q].leader \notin Waiting(p) \cup {p}
        BY <3>5, <3>7, <4>1, <4>2
      <4> QED
        BY <3>2, <4>1, <4>2, <4>3
    <3>13. \A q \in Procs : pc'[q] \notin {"settled", "ret", "done"} => g'[q].err = "none"
      BY <3>2, <3>3, <3>4
    <3> QED
      BY <3>10, <3>11, <3>12, <3>13
  <2> QED
    BY <1>4, <2>2, <2>3, <2>4, <2>5, <2>6, <2>7 DEF Flight, Settle
<1>5. ASSUME NEW key \in Keys, Evict(key)
      PROVE  FlightInv'
  BY <1>5 DEF Evict
<1>6. CASE UNCHANGED vars
  BY <1>6 DEF vars
<1> QED
  BY <1>1, <1>2, <1>3, <1>4, <1>5, <1>6 DEF Next

\* In every state the group names exactly the goroutines in flight.
THEOREM FlightCorrect == Spec => [](TypeOK /\ FlightInv)
BY TypeInit, TypeStep, FlightInit, FlightStep, PTL DEF Spec

\* No key is ever fetched twice at a time.
THEOREM SingleFlightHolds == Spec => []SingleFlight
<1>1. FlightInv => SingleFlight
  BY DEF FlightInv, SingleFlight
<1> QED
  BY <1>1, FlightCorrect, PTL

-----------------------------------------------------------------------------
(* Monotone answers *)

\* The flight of p holds an answer of the backend.
Known(p) == pc[p] \in {"answered", "settled"} /\ g[p].err = "none"

\* x may be returned for the key: nothing that can be returned later is older.
Under(key, x) ==
    /\ x <= stage[key]
    /\ Has(cache, key) => x <= Entry(cache, key).outcome
    /\ \A p \in Procs : Known(p) /\ g[p].key = key => x <= g[p].val

\* L1 is no newer than the backend and than an answer on its way; once stored,
\* an answer is what L1 holds, if L1 still holds the key.
StoredInv ==
    /\ Capacity = 0 => DOMAIN cache.items = {}
    /\ \A key \in DOMAIN cache.items : Entry(cache, key).outcome <= stage[key]
    /\ \A p \in Procs : Known(p) =>
           /\ g[p].val <= stage[g[p].key]
           /\ Has(cache, g[p].key) =>
                 /\ Entry(cache, g[p].key).outcome <= g[p].val
                 /\ pc[p] = "settled" => g[p].val <= Entry(cache, g[p].key).outcome

\* What a call is about to return, or may fall back on, is no newer than what
\* later calls will find, and no older than what it must not fall behind.
PromiseOf(c) ==
    /\ pc[c] = "ret" /\ g[c].err = "none" =>
           Under(g[c].key, g[c].val) /\ g[c].floor <= g[c].val
    /\ g[c].stale => Under(g[c].key, Live) /\ g[c].floor <= Live
    /\ g[c].floor <= seen[g[c].key]
    /\ pc[c] = "done" /\ g[c].err = "none" => g[c].floor <= g[c].val

AgeInv ==
    /\ StoredInv
    /\ \A key \in Keys : Under(key, seen[key])
    /\ \A c \in Procs : PromiseOf(c)

\* Nothing has been promised at first.
LEMMA AgeInit == Init => AgeInv
<1> SUFFICES ASSUME Init PROVE AgeInv
  OBVIOUS
<1>1. DOMAIN cache.items = {}
  BY DEF Init, newLruCache
<1>2. \A p \in Procs : pc[p] = "idle" /\ g[p] = Blank(AnyKey)
  BY DEF Init
<1>3. \A key \in Keys : seen[key] = 0 /\ stage[key] = 0
  BY DEF Init, Unknown
<1>4. StoredInv
  BY <1>1, <1>2 DEF StoredInv, Known
<1>5. \A key \in Keys : Under(key, seen[key])
  BY <1>1, <1>2, <1>3 DEF Under, Has, Known
<1>6. \A c \in Procs : PromiseOf(c)
  BY <1>2, <1>3, AnyKeyIsKey DEF PromiseOf, Blank, Unknown
<1> QED
  BY <1>4, <1>5, <1>6 DEF AgeInv

\* A step that neither stores an entry nor receives an answer.
Calm ==
    /\ \A key \in Keys : stage[key] <= stage'[key]
    /\ DOMAIN cache'.items \subseteq DOMAIN cache.items
    /\ \A key \in DOMAIN cache'.items : cache'.items[key] = cache.items[key]
    /\ \A p \in Procs : Known(p)' =>
           Known(p) /\ pc'[p] = pc[p] /\ g'[p].key = g[p].key /\ g'[p].val = g[p].val

\* What was no newer than anything to come stays so.
UnderKept == \A key \in Keys, x \in Stages : Under(key, x) => Under(key, x)'

\* The call of c is where it was, as far as PromiseOf can tell.
Keeps(c) ==
    /\ g'[c].key = g[c].key /\ g'[c].floor = g[c].floor
    /\ g'[c].stale => g[c].stale
    /\ pc'[c] \in {"ret", "done"} =>
           pc'[c] = pc[c] /\ g'[c].val = g[c].val /\ g'[c].err = g[c].err

\* Stages are ordered as numbers are.
LEMMA StageNat ==
    /\ Stages \subseteq Nat
    /\ \A s \in Stages : s <= s
BY DEF Stages, Unknown, Live, Ended

\* Stages of the state are stages.
LEMMA StagesTyped ==
    ASSUME TypeOK
    PROVE  /\ \A key \in Keys : stage[key] \in Stages /\ stage[key] <= stage[key]
           /\ \A key \in Keys : seen[key] \in Stages /\ seen[key] <= seen[key]
BY StageNat DEF TypeOK

\* So is the outcome of an entry.
LEMMA CachedStage ==
    ASSUME TypeOK, NEW key \in Keys, Has(cache, key)
    PROVE  Entry(cache, key).outcome \in Stages
BY DEF TypeOK, CacheTypeOK, CacheEntry, Has, Entry

\* A calm step keeps what may be returned.
LEMMA CalmUnder ==
    ASSUME TypeOK, TypeOK', Calm
    PROVE  UnderKept
<1> SUFFICES ASSUME NEW key \in Keys, NEW x \in Stages, Under(key, x)
             PROVE  Under(key, x)'
  BY DEF UnderKept
<1>1. stage[key] \in Nat /\ stage'[key] \in Nat /\ x \in Nat
  BY StageNat DEF TypeOK
<1>2. x <= stage'[key]
  BY <1>1 DEF Under, Calm
<1>3. Has(cache', key) => x <= Entry(cache', key).outcome
  BY DEF Under, Calm, Has, Entry
<1>4. \A p \in Procs : Known(p)' /\ g'[p].key = key => x <= g'[p].val
  BY DEF Under, Calm
<1> QED
  BY <1>2, <1>3, <1>4 DEF Under

\* ... and the order of L1, answers and backend.
LEMMA CalmStored ==
    ASSUME TypeOK, TypeOK', Calm, StoredInv
    PROVE  StoredInv'
<1>1. Capacity = 0 => DOMAIN cache'.items = {}
  BY DEF Calm, StoredInv
<1>2. ASSUME NEW key \in DOMAIN cache'.items
      PROVE  Entry(cache', key).outcome <= stage'[key]
  <2>1. key \in Keys /\ key \in DOMAIN cache.items /\ Has(cache, key)
    BY <1>2 DEF Calm, TypeOK, CacheTypeOK, Has
  <2>2. Entry(cache', key) = Entry(cache, key)
    BY <1>2 DEF Calm, Entry
  <2>3. Entry(cache, key).outcome <= stage[key] /\ stage[key] <= stage'[key]
    BY <2>1 DEF Calm, StoredInv
  <2>4. /\ Entry(cache, key).outcome \in Nat /\ stage[key] \in Nat
        /\ stage'[key] \in Nat
    BY <2>1, CachedStage, StageNat DEF TypeOK
  <2> QED
    BY <2>2, <2>3, <2>4
<1>3. ASSUME NEW p \in Procs, Known(p)'
      PROVE  /\ g'[p].val <= stage'[g'[p].key]
             /\ Has(cache', g'[p].key) =>
                   /\ Entry(cache', g'[p].key).outcome <= g'[p].val
                   /\ pc'[p] = "settled" =>
                         g'[p].val <= Entry(cache', g'[p].key).outcome
  <2>1. /\ Known(p) /\ pc'[p] = pc[p]
        /\ g'[p].key = g[p].key /\ g'[p].val = g[p].val
    BY <1>3 DEF Calm
  <2>2. g[p].key \in Keys /\ g[p].val \in Nat
    BY StageNat DEF TypeOK, Locals
  <2>3. g[p].val <= stage[g[p].key] /\ stage[g[p].key] <= stage'[g[p].key]
    BY <2>1, <2>2 DEF StoredInv, Calm
  <2>4. stage[g[p].key] \in Nat /\ stage'[g[p].key] \in Nat
    BY <2>2, StageNat DEF TypeOK
  <2>5. Has(cache', g[p].key) =>
           Has(cache, g[p].key) /\ Entry(cache', g[p].key) = Entry(cache, g[p].key)
    BY DEF Calm, Has, Entry
  <2> QED
    BY <2>1, <2>2, <2>3, <2>4, <2>5 DEF StoredInv
<1> QED
  BY <1>1, <1>2, <1>3 DEF StoredInv

\* A call another one does not touch keeps its promise.
LEMMA PromiseKept ==
    ASSUME TypeOK, TypeOK', UnderKept, NEW c \in Procs, PromiseOf(c), Keeps(c),
           \A key \in Keys : seen[key] <= seen'[key]
    PROVE  PromiseOf(c)'
<1> DEFINE k == g[c].key
<1>1. /\ k \in Keys /\ g[c].val \in Stages /\ g[c].floor \in Nat
      /\ seen[k] \in Nat /\ seen'[k] \in Nat /\ Live \in Stages
  BY StageNat DEF TypeOK, Locals, Stages
<1>2. g'[c].key = k /\ g'[c].floor = g[c].floor
  BY DEF Keeps
<1>3. ASSUME pc'[c] = "ret", g'[c].err = "none"
      PROVE  Under(g[c].key, g[c].val)' /\ g'[c].floor <= g'[c].val
  <2>1. pc[c] = "ret" /\ g[c].err = "none" /\ g'[c].val = g[c].val
    BY <1>3 DEF Keeps
  <2>2. Under(g[c].key, g[c].val) /\ g[c].floor <= g[c].val
    BY <2>1 DEF PromiseOf
  <2> QED
    BY <1>1, <1>2, <2>1, <2>2 DEF UnderKept, Under
<1>4. ASSUME g'[c].stale
      PROVE  Under(g[c].key, Live)' /\ g'[c].floor <= Live
  <2>1. Under(g[c].key, Live) /\ g[c].floor <= Live
    BY <1>4 DEF Keeps, PromiseOf
  <2> QED
    BY <1>1, <1>2, <2>1 DEF UnderKept, Under
<1>5. g'[c].floor <= seen'[g'[c].key]
  <2>1. g[c].floor <= seen[k] /\ seen[k] <= seen'[k]
    BY <1>1 DEF PromiseOf
  <2> QED
    BY <1>1, <1>2, <2>1
<1>6. pc'[c] = "done" /\ g'[c].err = "none" => g'[c].floor <= g'[c].val
  BY <1>2 DEF Keeps, PromiseOf
<1> QED
  BY <1>3, <1>4, <1>5, <1>6 DEF PromiseOf

\* What L1 holds may be returned.
LEMMA CachedUnder ==
    ASSUME TypeOK, StoredInv, NEW key \in Keys, Has(cache, key)
    PROVE  Under(key, Entry(cache, key).outcome)
<1>1. Entry(cache, key).outcome \in Nat
  BY CachedStage, StageNat
<1> QED
  BY <1>1 DEF StoredInv, Under, Has

\* A calm step that leaves the calls alone keeps the whole invariant.
LEMMA CalmAge ==
    ASSUME TypeOK, TypeOK', AgeInv, Calm, seen' = seen,
           \A c \in Procs : Keeps(c) \/ PromiseOf(c)'
    PROVE  AgeInv'
<1>1. UnderKept
  BY CalmUnder
<1>2. StoredInv'
  BY CalmStored DEF AgeInv
<1>3. \A key \in Keys : seen[key] \in Stages /\ seen[key] <= seen'[key]
  BY StagesTyped
<1>4. ASSUME NEW key \in Keys
      PROVE  Under(key, seen[key])'
  BY <1>1, <1>3 DEF AgeInv, UnderKept, Under
<1>5. \A c \in Procs : PromiseOf(c)'
  BY <1>1, <1>3, PromiseKept DEF AgeInv
<1> QED
  BY <1>2, <1>4, <1>5 DEF AgeInv

\* Time, the wall clock, sign-ins and revocations.
LEMMA AgeEnvironment ==
    ASSUME TypeOK, TypeOK', AgeInv, Environment
    PROVE  AgeInv'
<1>1. UNCHANGED <<cache, pc, g, seen>>
  BY DEF Environment, Tick, SetClock, Issue, Revoke, clocks, backend
<1>2. ASSUME NEW key \in Keys
      PROVE  stage[key] <= stage'[key]
  <2>1. stage[key] \in Stages
    BY DEF TypeOK
  <2> QED
    BY <2>1 DEF Environment, Tick, SetClock, Issue, Revoke, backend, TypeOK,
                Stages, Unknown, Live, Ended
<1>3. Calm
  BY <1>1, <1>2 DEF Calm, Known
<1>4. \A c \in Procs : Keeps(c)
  BY <1>1 DEF Keeps
<1> QED
  BY <1>1, <1>3, <1>4, CalmAge

\* A call starts with what was reported last.
LEMMA AgeStart ==
    ASSUME TypeOK, TypeOK', AgeInv,
           NEW c \in Callers, NEW key \in Keys, Start(c, key)
    PROVE  AgeInv'
<1>1. c \in Procs /\ seen' = seen
  BY DEF Procs, Start
<1>2. g'[c].floor = seen[key] /\ g'[c].key = key /\ ~g'[c].stale /\ pc'[c] = "get"
  BY <1>1 DEF Start, Blank, TypeOK
<1>3. \A q \in Procs : q # c => g'[q] = g[q] /\ pc'[q] = pc[q]
  BY <1>1 DEF Start, TypeOK
<1>4. Calm
  BY <1>2, <1>3, StagesTyped DEF Calm, Known, Start, backend
<1>5. PromiseOf(c)'
  BY <1>1, <1>2, StagesTyped DEF PromiseOf
<1>6. \A q \in Procs : q # c => Keeps(q)
  BY <1>3 DEF Keeps
<1> QED
  BY <1>1, <1>4, <1>5, <1>6, CalmAge

\* The lookups that answer nothing, and the removal of an expired entry.
LEMMA AgeMiss ==
    ASSUME TypeOK, TypeOK', AgeInv, NEW c \in Callers,
           \/ LookupMiss(c) \/ LookupExpired(c) \/ LookupStale(c)
           \/ RemoveExpired(c)
    PROVE  AgeInv'
<1>1. c \in Procs /\ seen' = seen /\ g' = g /\ stage' = stage
  BY DEF Procs, LookupMiss, LookupExpired, LookupStale, RemoveExpired, backend
<1>2. pc'[c] \in {"peek", "remove"} /\ \A q \in Procs : q # c => pc'[q] = pc[q]
  BY <1>1 DEF LookupMiss, LookupExpired, LookupStale, RemoveExpired, TypeOK
<1>3. /\ DOMAIN cache'.items \subseteq DOMAIN cache.items
      /\ \A key \in DOMAIN cache'.items : cache'.items[key] = cache.items[key]
  BY PromoteItems, RemoveItems
     DEF LookupMiss, LookupExpired, LookupStale, RemoveExpired
<1>4. Calm
  BY <1>1, <1>2, <1>3, StagesTyped DEF Calm, Known
<1>5. \A q \in Procs : Keeps(q)
  BY <1>1, <1>2 DEF Keeps
<1> QED
  BY <1>1, <1>4, <1>5, CalmAge

\* A stale candidate is what L1 holds.
LEMMA AgePeek ==
    ASSUME TypeOK, TypeOK', AgeInv, NEW c \in Callers, PeekStale(c)
    PROVE  AgeInv'
<1> DEFINE k == g[c].key
<1>1. /\ c \in Procs /\ seen' = seen /\ stage' = stage /\ cache' = cache
      /\ k \in Keys
  BY DEF Procs, PeekStale, backend, TypeOK, Locals
<1>2. /\ pc'[c] = "do" /\ g'[c].key = k /\ g'[c].floor = g[c].floor
      /\ g'[c].stale = StaleCandidate(c)
      /\ \A q \in Procs : q # c => g'[q] = g[q] /\ pc'[q] = pc[q]
  BY <1>1 DEF PeekStale, TypeOK, Locals
<1>3. Calm
  BY <1>1, <1>2, StagesTyped DEF Calm, Known
<1>4. UnderKept
  BY <1>3, CalmUnder
<1>5. g[c].floor <= seen[k]
  BY <1>1 DEF AgeInv, PromiseOf
<1>6. StaleCandidate(c) => Under(k, Live)' /\ g[c].floor <= Live
  <2> SUFFICES ASSUME StaleCandidate(c) PROVE Under(k, Live)' /\ g[c].floor <= Live
    OBVIOUS
  <2>1. Has(cache, k) /\ Entry(cache, k).outcome = Live
    BY DEF StaleCandidate
  <2>2. Under(k, Live)
    BY <1>1, <2>1, CachedUnder DEF AgeInv
  <2>3. seen[k] <= Live
    BY <1>1, <2>1 DEF AgeInv, Under
  <2>4. g[c].floor \in Nat /\ seen[k] \in Nat /\ Live \in Nat
    BY <1>1, StageNat DEF TypeOK, Locals, Live
  <2>5. Live \in Stages
    BY DEF Stages
  <2>6. Under(k, Live)'
    BY <1>1, <1>2, <1>4, <2>2, <2>5 DEF UnderKept, Under
  <2> QED
    BY <1>5, <2>3, <2>4, <2>6
<1>7. PromiseOf(c)'
  BY <1>1, <1>2, <1>5, <1>6 DEF PromiseOf, Under
<1>8. \A q \in Procs : q # c => Keeps(q)
  BY <1>2 DEF Keeps
<1> QED
  BY <1>1, <1>3, <1>7, <1>8, CalmAge

\* Reporting an answer that is Under keeps what seen promises.
LEMMA SeenUnder ==
    ASSUME TypeOK, UnderKept, \A key \in Keys : Under(key, seen[key]),
           NEW k \in Keys, NEW x \in Stages, Under(k, x),
           seen' = [seen EXCEPT ![k] = Later(@, x)]
    PROVE  /\ \A key \in Keys : Under(key, seen[key])'
           /\ \A key \in Keys : seen[key] <= seen'[key]
           /\ x <= seen'[k]
<1>1. /\ \A key \in Keys : seen[key] \in Stages /\ seen[key] \in Nat
                               /\ seen[key] <= seen[key]
      /\ x \in Nat
  BY StageNat, StagesTyped
<1>2. \A key \in Keys : seen'[key] = IF key = k THEN Later(seen[k], x) ELSE seen[key]
  BY DEF TypeOK
<1>3. Later(seen[k], x) \in {seen[k], x} /\ seen[k] <= Later(seen[k], x)
                                       /\ x <= Later(seen[k], x)
  BY <1>1 DEF Later
<1>4. ASSUME NEW key \in Keys
      PROVE  Under(key, seen[key])'
  <2>1. seen'[key] \in {seen[key]} \cup (IF key = k THEN {x} ELSE {})
    BY <1>2, <1>3
  <2>2. CASE seen'[key] = seen[key]
    BY <1>1, <2>2 DEF UnderKept, Under
  <2>3. CASE key = k /\ seen'[key] = x
    BY <2>3 DEF UnderKept, Under
  <2> QED
    BY <2>1, <2>2, <2>3
<1> QED
  BY <1>1, <1>2, <1>3, <1>4

\* A hit reports what L1 holds.
LEMMA AgeHit ==
    ASSUME TypeOK, TypeOK', AgeInv, NEW c \in Callers, LookupHit(c)
    PROVE  AgeInv'
<1> DEFINE k == g[c].key
           x == Entry(cache, k).outcome
           served == [g EXCEPT ![c].val = x]
<1>1. c \in Procs /\ k \in Keys /\ Has(cache, k) /\ stage' = stage /\ pc[c] = "get"
  BY DEF Procs, LookupHit, backend, TypeOK, Locals, GetHits
<1>2. x \in Stages /\ Under(k, x)
  BY <1>1, CachedStage, CachedUnder DEF AgeInv
<1>3. seen' = [seen EXCEPT ![k] = Later(@, x)]
  BY DEF LookupHit
<1>4. cache'.items = cache.items
  BY PromoteItems DEF LookupHit
<1>5. /\ pc'[c] = "done" /\ g'[c].key = k /\ g'[c].floor = g[c].floor
      /\ g'[c].stale = g[c].stale /\ g'[c].val = x
      /\ \A q \in Procs : q # c =>
            \/ pc'[q] = pc[q] /\ g'[q] = g[q]
            \/ pc'[q] = "do" /\ g'[q] = Blank(k)
  <2>1. served \in [Procs -> Locals]
    <3>1. g \in [Procs -> Locals] /\ g[c] \in Locals
      BY <1>1 DEF TypeOK
    <3> HIDE DEF x, k
    <3>2. [g[c] EXCEPT !.val = x] \in Locals
      BY <1>2, <3>1 DEF Locals
    <3> QED
      BY <3>1, <3>2
  <2>2. /\ served[c].key = k /\ served[c].floor = g[c].floor
        /\ served[c].stale = g[c].stale /\ served[c].val = x
        /\ \A q \in Procs : q # c => served[q] = g[q]
    BY <1>1 DEF TypeOK, Locals
  <2> HIDE DEF served
  <2>3. CASE pc' = [pc EXCEPT ![c] = "done"] /\ g' = served
    BY <1>1, <2>2, <2>3 DEF TypeOK
  <2>4. CASE \E r \in IdleRefreshers :
               /\ pc' = [pc EXCEPT ![c] = "done", ![r] = "do"]
               /\ g' = [served EXCEPT ![r] = Blank(k)]
    <3>1. PICK r \in IdleRefreshers :
               /\ pc' = [pc EXCEPT ![c] = "done", ![r] = "do"]
               /\ g' = [served EXCEPT ![r] = Blank(k)]
      BY <2>4
    <3>2. r \in Procs /\ r # c
      BY <1>1 DEF IdleRefreshers, Procs
    <3>3. /\ g'[r] = Blank(k) /\ pc'[r] = "do" /\ pc'[c] = "done"
          /\ \A q \in Procs : q # r => g'[q] = served[q]
          /\ \A q \in Procs : q # r /\ q # c => pc'[q] = pc[q]
      BY <1>1, <2>1, <3>1, <3>2 DEF TypeOK
    <3> QED
      BY <1>1, <2>2, <3>2, <3>3
  <2> QED
    BY <2>3, <2>4 DEF LookupHit, served
<1>6. Calm
  BY <1>1, <1>4, <1>5, StagesTyped DEF Calm, Known
<1>7. UnderKept /\ StoredInv'
  BY <1>6, CalmUnder, CalmStored DEF AgeInv
<1>8. /\ \A key \in Keys : Under(key, seen[key])'
      /\ \A key \in Keys : seen[key] <= seen'[key]
      /\ x <= seen'[k]
  BY <1>1, <1>2, <1>3, <1>7, SeenUnder DEF AgeInv
<1>9. ASSUME NEW q \in Procs
      PROVE  PromiseOf(q)'
  <2>1. PromiseOf(q) /\ PromiseOf(c)
    BY <1>1 DEF AgeInv
  <2>2. CASE q = c
    <3>1. g[c].floor <= seen[k] /\ seen[k] <= x /\ seen[k] <= seen'[k]
      BY <1>1, <1>8, <2>1 DEF PromiseOf, AgeInv, Under
    <3>2. g[c].floor \in Nat /\ seen[k] \in Nat /\ seen'[k] \in Nat /\ x \in Nat
      BY <1>1, <1>2, StageNat DEF TypeOK, Locals
    <3>3. g[c].floor <= x /\ g[c].floor <= seen'[k]
      BY <3>1, <3>2
    <3>4. g[c].stale => Under(k, Live)' /\ g[c].floor <= Live
      <4> SUFFICES ASSUME g[c].stale PROVE Under(k, Live)' /\ g[c].floor <= Live
        OBVIOUS
      <4>1. Under(k, Live) /\ g[c].floor <= Live /\ Live \in Stages
        BY <2>1 DEF PromiseOf, Stages
      <4>2. g'[c].key = k
        BY <1>5
      <4> QED
        BY <1>1, <1>7, <4>1, <4>2 DEF UnderKept, Under
    <3> QED
      BY <1>5, <2>2, <3>3, <3>4 DEF PromiseOf, Under
  <2>3. CASE q # c /\ pc'[q] = pc[q] /\ g'[q] = g[q]
    <3>1. Keeps(q)
      BY <2>3 DEF Keeps
    <3> QED
      BY <1>7, <1>8, <2>1, <3>1, PromiseKept
  <2>4. CASE q # c /\ pc'[q] = "do" /\ g'[q] = Blank(k)
    <3>1. seen'[k] \in Nat
      BY <1>1, StageNat DEF TypeOK
    <3>2. 0 <= seen'[k]
      BY <3>1
    <3> QED
      BY <1>1, <2>4, <3>2 DEF PromiseOf, Blank, Unknown
  <2> QED
    BY <1>5, <2>2, <2>3, <2>4
<1> QED
  BY <1>7, <1>8, <1>9 DEF AgeInv

\* resolve returns the result of the flight or its stale candidate.
LEMMA AgeReturn ==
    ASSUME TypeOK, TypeOK', AgeInv, NEW c \in Callers, Return(c)
    PROVE  AgeInv'
<1> DEFINE k == g[c].key
           x == Answer(c).val
<1>1. /\ c \in Procs /\ k \in Keys /\ stage' = stage /\ cache' = cache
      /\ pc[c] = "ret"
  BY DEF Procs, Return, backend, TypeOK, Locals
<1>2. /\ pc'[c] = "done" /\ g'[c] = Answer(c)
      /\ \A q \in Procs : q # c => pc'[q] = pc[q] /\ g'[q] = g[q]
  BY <1>1 DEF Return, TypeOK
<1>3. /\ Answer(c).key = k /\ Answer(c).floor = g[c].floor /\ ~Answer(c).stale
      /\ x \in Stages
  BY <1>1 DEF Answer, TypeOK, Locals, Stages
<1>4. Calm
  BY <1>1, <1>2, StagesTyped DEF Calm, Known
<1>5. UnderKept /\ StoredInv'
  BY <1>4, CalmUnder, CalmStored DEF AgeInv
<1>6. PromiseOf(c)
  BY <1>1 DEF AgeInv
<1>7. Answer(c).err = "none" => Under(k, x) /\ g[c].floor <= x
  <2>1. CASE g[c].err = "transport" /\ g[c].stale
    <3>1. x = Live
      BY <1>1, <2>1 DEF Answer, TypeOK, Locals
    <3> QED
      BY <1>6, <2>1, <3>1 DEF PromiseOf
  <2>2. CASE ~(g[c].err = "transport" /\ g[c].stale)
    <3>1. x = g[c].val /\ Answer(c).err = g[c].err
      BY <1>1, <2>2 DEF Answer, TypeOK, Locals
    <3> QED
      BY <1>1, <1>6, <3>1 DEF PromiseOf
  <2> QED
    BY <2>1, <2>2
<1>8. /\ \A key \in Keys : Under(key, seen[key])'
      /\ \A key \in Keys : seen[key] <= seen'[key]
  <2>1. CASE Answer(c).err = "none"
    BY <1>1, <1>3, <1>5, <1>7, <2>1, SeenUnder DEF Return, AgeInv
  <2>2. CASE Answer(c).err # "none"
    BY <1>5, <2>2, StagesTyped DEF Return, AgeInv, UnderKept, Under
  <2> QED
    BY <2>1, <2>2
<1>9. ASSUME NEW q \in Procs
      PROVE  PromiseOf(q)'
  <2>1. CASE q = c
    <3>1. g[c].floor <= seen[k] /\ seen[k] <= seen'[k]
      BY <1>1, <1>6, <1>8 DEF PromiseOf
    <3>2. g[c].floor \in Nat /\ seen[k] \in Nat /\ seen'[k] \in Nat
      BY <1>1, StageNat DEF TypeOK, Locals
    <3>3. g[c].floor <= seen'[k]
      BY <3>1, <3>2
    <3> QED
      BY <1>2, <1>3, <1>7, <2>1, <3>3 DEF PromiseOf
  <2>2. CASE q # c
    <3>1. Keeps(q)
      BY <1>2, <2>2 DEF Keeps
    <3> QED
      BY <1>5, <1>8, <3>1, PromiseKept DEF AgeInv
  <2> QED
    BY <2>1, <2>2
<1> QED
  BY <1>5, <1>8, <1>9 DEF AgeInv

\* Entering the flight group, and a failed fetch.
LEMMA AgeNoAnswer ==
    ASSUME TypeOK, TypeOK', AgeInv, NEW p \in Procs,
           Lead(p) \/ Follow(p) \/ FetchFails(p)
    PROVE  AgeInv'
<1>1. stage' = stage /\ cache' = cache /\ seen' = seen
  BY DEF Lead, Follow, FetchFails, backend
<1>2. \A q \in Procs : q # p => pc'[q] = pc[q] /\ g'[q] = g[q]
  BY DEF Lead, Follow, FetchFails, TypeOK
<1>3. /\ pc'[p] \in {"sent", "wait", "settled"}
      /\ pc'[p] = "settled" => g'[p].err # "none"
      /\ g'[p].key = g[p].key /\ g'[p].floor = g[p].floor /\ g'[p].stale = g[p].stale
  <2>1. CASE Lead(p)
    BY <2>1 DEF Lead, TypeOK, Locals
  <2>2. CASE Follow(p)
    BY <2>2 DEF Follow, TypeOK, Locals
  <2>3. CASE FetchFails(p)
    <3>1. PICK e \in Errors \ {"none"} :
             g' = [g EXCEPT ![p].err = e, ![p].val = Unknown]
      BY <2>3 DEF FetchFails
    <3>2. g'[p] = [g[p] EXCEPT !.err = e, !.val = Unknown]
      BY <3>1 DEF TypeOK
    <3>3. g[p] \in Locals /\ pc'[p] = "settled"
      BY <2>3 DEF FetchFails, TypeOK
    <3> QED
      BY <3>2, <3>3 DEF Locals
  <2> QED
    BY <2>1, <2>2, <2>3
<1>4. Calm
  BY <1>1, <1>2, <1>3, StagesTyped DEF Calm, Known
<1>5. \A q \in Procs : Keeps(q)
  BY <1>2, <1>3 DEF Keeps
<1> QED
  BY <1>1, <1>4, <1>5, CalmAge

\* A step of a flight that keeps every call and what was Under, keeps AgeInv.
LEMMA KeptAge ==
    ASSUME TypeOK, TypeOK', AgeInv, StoredInv', UnderKept, seen' = seen,
           \A c \in Procs : Keeps(c)
    PROVE  AgeInv'
<1>1. \A key \in Keys : Under(key, seen[key])'
  BY StagesTyped DEF AgeInv, UnderKept, Under
<1>2. \A c \in Procs : PromiseOf(c)'
  BY StagesTyped, PromiseKept DEF AgeInv
<1> QED
  BY <1>1, <1>2 DEF AgeInv

\* The backend's answer is as new as can be.
LEMMA AgeRead ==
    ASSUME TypeOK, TypeOK', FlightInv, AgeInv, NEW p \in Procs, BackendRead(p)
    PROVE  AgeInv'
<1> DEFINE k == g[p].key
<1>1. stage' = stage /\ cache' = cache /\ seen' = seen /\ k \in Keys
  BY DEF BackendRead, backend, TypeOK, Locals
<1>2. \A q \in Procs : q # p => pc'[q] = pc[q] /\ g'[q] = g[q]
  BY DEF BackendRead, TypeOK
<1>3. /\ pc'[p] = "answered" /\ g'[p].key = k /\ g'[p].val = stage[k]
      /\ g'[p].floor = g[p].floor /\ g'[p].stale = g[p].stale
  BY DEF BackendRead, TypeOK, Locals
<1>4. \A q \in Procs : Keeps(q)
  BY <1>2, <1>3 DEF Keeps
<1>5. UnderKept
  <2> SUFFICES ASSUME NEW key \in Keys, NEW x \in Stages, Under(key, x)
               PROVE  Under(key, x)'
    BY DEF UnderKept
  <2>1. x <= stage[key]
    BY DEF Under
  <2>2. \A q \in Procs : Known(q)' /\ g'[q].key = key => x <= g'[q].val
    BY <1>2, <1>3, <2>1 DEF Under, Known
  <2> QED
    BY <1>1, <2>2 DEF Under
<1>6. StoredInv'
  <2>1. ASSUME NEW q \in Procs, Known(q)'
        PROVE  /\ g'[q].val <= stage'[g'[q].key]
               /\ Has(cache', g'[q].key) =>
                     /\ Entry(cache', g'[q].key).outcome <= g'[q].val
                     /\ pc'[q] = "settled" =>
                           g'[q].val <= Entry(cache', g'[q].key).outcome
    <3>1. CASE q = p
      BY <1>1, <1>3, <3>1, StagesTyped DEF AgeInv, StoredInv, Has
    <3>2. CASE q # p
      BY <1>1, <1>2, <2>1, <3>2 DEF AgeInv, StoredInv, Known
    <3> QED
      BY <3>1, <3>2
  <2> QED
    BY <1>1, <2>1 DEF AgeInv, StoredInv
<1> QED
  BY <1>1, <1>4, <1>5, <1>6, KeptAge

\* The answer of the only flight of its key replaces an entry no newer than it.
LEMMA AgeFill ==
    ASSUME TypeOK, TypeOK', FlightInv, AgeInv, NEW p \in Procs, Fill(p)
    PROVE  AgeInv'
<1> DEFINE k == g[p].key
           v == g[p].val
<1>1. /\ stage' = stage /\ seen' = seen /\ g' = g /\ k \in Keys
      /\ v \in Stages /\ pc[p] = "answered"
  BY DEF Fill, backend, TypeOK, Locals
<1>2. pc'[p] = "settled" /\ \A q \in Procs : q # p => pc'[q] = pc[q]
  BY DEF Fill, TypeOK
<1>3. g[p].err = "none"
  BY <1>1 DEF FlightInv
<1>4. Known(p)
  BY <1>1, <1>3 DEF Known
<1>5. \A q \in Procs : Known(q)' => Known(q) /\ (q # p => pc'[q] = pc[q])
  BY <1>1, <1>2, <1>4 DEF Known
<1>6. \A q \in Procs : Known(q) /\ g[q].key = k => q = p
  BY <1>1 DEF FlightInv, Known, InFlight, FlightSteps
<1>7. \A q \in Procs : Keeps(q)
  BY <1>1, <1>2 DEF Keeps
<1>8. PICK entry : entry.outcome = v /\ cache' = put(cache, k, entry, Capacity)
  <2>1. PICK t \in EffectiveTTLs :
           cache' = put(cache, k, IF v = Live THEN SessionEntry(k, t)
                                              ELSE Tombstone(v), Capacity)
    BY DEF Fill
  <2>2. SessionEntry(k, t).outcome = Live /\ Tombstone(v).outcome = v
    BY DEF SessionEntry, Tombstone
  <2> QED
    BY <2>1, <2>2
<1>9. \/ Capacity = 0 /\ cache' = cache
      \/ /\ Capacity # 0
         /\ DOMAIN cache'.items \subseteq DOMAIN cache.items \cup {k}
         /\ \A key \in DOMAIN cache'.items :
               cache'.items[key] = IF key = k THEN entry ELSE cache.items[key]
  BY <1>8, PutItems
<1>10. Capacity = 0 => DOMAIN cache'.items = {}
  BY <1>9 DEF AgeInv, StoredInv
<1>11. \A key \in Keys : Has(cache', key) =>
          \/ key = k /\ Entry(cache', key).outcome = v
          \/ key # k /\ Has(cache, key) /\ Entry(cache', key) = Entry(cache, key)
  BY <1>8, <1>9, <1>10 DEF Has, Entry
<1>12. UnderKept
  <2> SUFFICES ASSUME NEW key \in Keys, NEW x \in Stages, Under(key, x)
               PROVE  Under(key, x)'
    BY DEF UnderKept
  <2>1. Has(cache', key) => x <= Entry(cache', key).outcome
    BY <1>4, <1>11 DEF Under
  <2> QED
    BY <1>1, <1>5, <2>1 DEF Under
<1>13. StoredInv'
  <2>1. ASSUME NEW key \in DOMAIN cache'.items
        PROVE  Entry(cache', key).outcome <= stage'[key]
    <3>1. key \in Keys /\ Has(cache', key)
      BY <1>1, <1>9 DEF TypeOK, CacheTypeOK, Has
    <3>2. CASE key = k
      BY <1>1, <1>4, <1>11, <3>1, <3>2 DEF AgeInv, StoredInv
    <3>3. CASE key # k
      BY <1>1, <1>11, <3>1, <3>3 DEF AgeInv, StoredInv, Has
    <3> QED
      BY <3>2, <3>3
  <2>2. ASSUME NEW q \in Procs, Known(q)'
        PROVE  /\ g'[q].val <= stage'[g'[q].key]
               /\ Has(cache', g'[q].key) =>
                     /\ Entry(cache', g'[q].key).outcome <= g'[q].val
                     /\ pc'[q] = "settled" =>
                           g'[q].val <= Entry(cache', g'[q].key).outcome
    <3>1. g[q].key \in Keys /\ Known(q)
      BY <1>5, <2>2 DEF TypeOK, Locals
    <3>2. CASE q = p
      BY <1>1, <1>4, <1>11, <3>2, StageNat DEF AgeInv, StoredInv
    <3>3. CASE q # p
      BY <1>1, <1>5, <1>6, <1>11, <2>2, <3>1, <3>3 DEF AgeInv, StoredInv
    <3> QED
      BY <3>2, <3>3
  <2> QED
    BY <1>10, <2>1, <2>2 DEF StoredInv
<1> QED
  BY <1>1, <1>7, <1>12, <1>13, KeptAge

\* Everyone who waited gets an answer no older than what any of them had seen
\* promised, and no newer than what L1 holds.
LEMMA AgeFinish ==
    ASSUME TypeOK, TypeOK', FlightInv, AgeInv, NEW p \in Procs, Finish(p)
    PROVE  AgeInv'
<1> DEFINE k == g[p].key
           v == g[p].val
           released == Waiting(p) \cup {p}
<1>1. /\ stage' = stage /\ cache' = cache /\ seen' = seen /\ pc[p] = "settled"
      /\ k \in Keys /\ v \in Stages
  BY DEF Finish, backend, TypeOK, Locals
<1>2. \A q \in Procs : q \notin released => pc'[q] = pc[q] /\ g'[q] = g[q]
  BY DEF Finish
<1>3. ASSUME NEW q \in Procs, q \in released, q \in Callers
      PROVE  /\ pc'[q] = "ret" /\ g'[q].key = g[q].key /\ g'[q].val = v
             /\ g'[q].err = g[p].err /\ g'[q].floor = g[q].floor
             /\ g'[q].stale = g[q].stale
  <2>1. pc'[q] = AfterFlight(q)
    BY <1>3 DEF Finish
  <2>2. g'[q] = [g[q] EXCEPT !.val = g[p].val, !.err = g[p].err,
                             !.leader = None, !.began = 0]
    BY <1>3 DEF Finish
  <2>3. g[q] \in Locals
    BY DEF TypeOK
  <2> QED
    BY <1>3, <2>1, <2>2, <2>3 DEF AfterFlight, Locals
<1>4. ASSUME NEW q \in Procs, q \in released, q \notin Callers
      PROVE  pc'[q] = "idle" /\ g'[q] = Blank(AnyKey)
  <2>1. pc'[q] = AfterFlight(q)
    BY <1>4 DEF Finish
  <2>2. g'[q] = Blank(AnyKey)
    BY <1>4 DEF Finish
  <2> QED
    BY <1>4, <2>1, <2>2 DEF AfterFlight
<1>5. \A q \in Procs : q \in released => g[q].key = k
  BY DEF Waiting, FlightInv
<1>6. \A q \in Procs : Known(q)' => q \notin released
  BY <1>3, <1>4 DEF Known
<1>7. Calm
  BY <1>1, <1>2, <1>6, StagesTyped DEF Calm, Known
<1>8. UnderKept
  BY <1>7, CalmUnder
<1>9. g[p].err = "none" => seen[k] <= v
  BY <1>1 DEF AgeInv, Under, Known
<1>10. g[p].err = "none" => Under(k, v)
  <2> SUFFICES ASSUME g[p].err = "none" PROVE Under(k, v)
    OBVIOUS
  <2>1. Known(p)
    BY <1>1 DEF Known
  <2>2. \A q \in Procs : Known(q) /\ g[q].key = k => q = p
    BY <1>1 DEF FlightInv, Known, InFlight, FlightSteps
  <2>3. v <= v
    BY <1>1, StageNat
  <2> QED
    BY <1>1, <2>1, <2>2, <2>3 DEF Under, AgeInv, StoredInv
<1>11. ASSUME NEW q \in Procs
       PROVE  Keeps(q) \/ PromiseOf(q)'
  <2>1. CASE q \notin released
    BY <1>2, <2>1 DEF Keeps
  <2>2. CASE q \in released /\ q \notin Callers
    <3>1. seen[AnyKey] \in Nat
      BY AnyKeyIsKey, StageNat DEF TypeOK
    <3>2. 0 <= seen[AnyKey]
      BY <3>1
    <3> QED
      BY <1>1, <1>4, <2>2, <3>2, AnyKeyIsKey DEF PromiseOf, Blank, Unknown
  <2>3. CASE q \in released /\ q \in Callers
    <3>1. /\ pc'[q] = "ret" /\ g'[q].key = k /\ g'[q].val = v
          /\ g'[q].err = g[p].err /\ g'[q].floor = g[q].floor
          /\ g'[q].stale = g[q].stale
      BY <1>3, <1>5, <2>3
    <3>2. g[q].floor <= seen[k] /\ (g[q].stale => Under(k, Live) /\ g[q].floor <= Live)
      BY <1>5, <2>3 DEF AgeInv, PromiseOf
    <3>3. g[q].floor \in Nat /\ seen[k] \in Nat /\ v \in Nat /\ Live \in Stages
      BY <1>1, StageNat DEF TypeOK, Locals, Stages
    <3>4. g[p].err = "none" => g[q].floor <= v
      BY <1>9, <3>2, <3>3
    <3>5. g[p].err = "none" => Under(g[q].key, g[q].val)'
      BY <1>1, <1>8, <1>10, <3>1 DEF UnderKept, Under
    <3>6. g[q].stale => Under(g[q].key, Live)'
      BY <1>1, <1>8, <3>1, <3>2, <3>3 DEF UnderKept, Under
    <3> QED
      BY <1>1, <3>1, <3>2, <3>4, <3>5, <3>6 DEF PromiseOf
  <2> QED
    BY <2>1, <2>2, <2>3
<1> QED
  BY <1>1, <1>7, <1>11, CalmAge

\* An eviction makes nothing older.
LEMMA AgeEvict ==
    ASSUME TypeOK, TypeOK', AgeInv, NEW key \in Keys, Evict(key)
    PROVE  AgeInv'
<1>1. UNCHANGED <<stage, pc, g, seen>>
  BY DEF Evict, backend
<1>2. /\ DOMAIN cache'.items \subseteq DOMAIN cache.items
      /\ \A k \in DOMAIN cache'.items : cache'.items[k] = cache.items[k]
  BY RemoveItems DEF Evict
<1>3. Calm
  BY <1>1, <1>2, StagesTyped DEF Calm, Known
<1>4. \A c \in Procs : Keeps(c)
  BY <1>1 DEF Keeps
<1> QED
  BY <1>1, <1>3, <1>4, CalmAge

\* Every step.
LEMMA AgeStep == TypeOK /\ TypeOK' /\ FlightInv /\ AgeInv /\ [Next]_vars => AgeInv'
<1> SUFFICES ASSUME TypeOK, TypeOK', FlightInv, AgeInv, [Next]_vars PROVE AgeInv'
  OBVIOUS
<1>1. CASE Environment
  BY <1>1, AgeEnvironment
<1>2. ASSUME NEW c \in Callers, NEW key \in Keys, Start(c, key)
      PROVE  AgeInv'
  BY <1>2, AgeStart
<1>3. ASSUME NEW c \in Callers, Resolve(c)
      PROVE  AgeInv'
  BY <1>3, AgeMiss, AgeHit, AgePeek, AgeReturn DEF Resolve, Lookup
<1>4. ASSUME NEW p \in Procs, Flight(p)
      PROVE  AgeInv'
  BY <1>4, AgeNoAnswer, AgeRead, AgeFill, AgeFinish DEF Flight, Settle
<1>5. ASSUME NEW key \in Keys, Evict(key)
      PROVE  AgeInv'
  BY <1>5, AgeEvict
<1>6. CASE UNCHANGED vars
  <2>1. UNCHANGED <<stage, cache, pc, g, seen>>
    BY <1>6 DEF vars
  <2>2. Calm
    BY <2>1, StagesTyped DEF Calm, Known
  <2>3. \A c \in Procs : Keeps(c)
    BY <2>1 DEF Keeps
  <2> QED
    BY <2>1, <2>2, <2>3, CalmAge
<1> QED
  BY <1>1, <1>2, <1>3, <1>4, <1>5, <1>6 DEF Next

\* In every state what L1, the flights and the calls hold is in order of age.
THEOREM AgeCorrect == Spec => [](TypeOK /\ FlightInv /\ AgeInv)
BY TypeInit, TypeStep, FlightInit, FlightStep, AgeInit, AgeStep, PTL DEF Spec

\* No call returns an older state of its session than one that some call had
\* returned before it started: what was reported gone stays gone.
THEOREM AnswersMonotone == Spec => []MonotoneAnswers
<1>1. TypeOK /\ AgeInv => MonotoneAnswers
  <2> SUFFICES ASSUME TypeOK, AgeInv, NEW c \in Callers, Answered(c)
               PROVE  g[c].val >= g[c].floor
    BY DEF MonotoneAnswers
  <2>1. c \in Procs /\ g[c].floor \in Nat /\ g[c].val \in Nat
    BY StageNat DEF Procs, TypeOK, Locals
  <2>2. g[c].floor <= g[c].val
    BY <2>1 DEF AgeInv, PromiseOf, Answered
  <2> QED
    BY <2>1, <2>2
<1> QED
  BY <1>1, AgeCorrect, PTL

-----------------------------------------------------------------------------
(* The LRU's list *)

Once(s) == \A i, j \in DOMAIN s : s[i] = s[j] => i = j

\* Of a list without repetition RemoveFirst removes the one place.
LEMMA FirstPlace ==
    ASSUME NEW S, NEW s \in Seq(S), Once(s), NEW i \in 1..Len(s)
    PROVE  RemoveFirst(s, s[i]) = RemoveAt(s, i)
<1> DEFINE I == {j \in 1..Len(s) : s[j] = s[i]}
<1>1. I = {i}
  BY DEF Once
<1>2. Min({i}) = i
  BY DEF Min
<1>3. RemoveFirst(s, s[i]) = RemoveAt(s, IF I # {} THEN Min(I) ELSE 0)
  BY DEF RemoveFirst, SelectInSeq
<1> QED
  BY <1>1, <1>2, <1>3

\* A list without its i-th element.
LEMMA RemovedAt ==
    ASSUME NEW S, NEW s \in Seq(S), NEW i \in 1..Len(s)
    PROVE  /\ RemoveAt(s, i) \in Seq(S)
           /\ Len(RemoveAt(s, i)) = Len(s) - 1
           /\ \A j \in 1..(Len(s) - 1) :
                 RemoveAt(s, i)[j] = IF j < i THEN s[j] ELSE s[j + 1]
<1> DEFINE a == SubSeq(s, 1, i - 1)
           b == SubSeq(s, i + 1, Len(s))
<1>1. /\ a \in Seq(S) /\ Len(a) = i - 1
      /\ \A j \in 1..(i - 1) : a[j] = s[j]
  OBVIOUS
<1>2. /\ b \in Seq(S) /\ Len(b) = Len(s) - i
      /\ \A j \in 1..(Len(s) - i) : b[j] = s[i + j]
  OBVIOUS
<1> HIDE DEF a, b
<1>3. /\ a \o b \in Seq(S) /\ Len(a \o b) = Len(s) - 1
      /\ \A j \in 1..(Len(s) - 1) :
            (a \o b)[j] = IF j <= i - 1 THEN a[j] ELSE b[j - (i - 1)]
  <2>1. Len(a) + Len(b) = Len(s) - 1
    BY <1>1, <1>2
  <2>2. /\ a \o b \in Seq(S) /\ Len(a \o b) = Len(a) + Len(b)
        /\ \A j \in 1..Len(a) + Len(b) :
              (a \o b)[j] = IF j <= Len(a) THEN a[j] ELSE b[j - Len(a)]
    BY <1>1, <1>2, ConcatProperties, Zenon
  <2> QED
    BY <1>1, <2>1, <2>2
<1>4. ASSUME NEW j \in 1..(Len(s) - 1)
      PROVE  (a \o b)[j] = IF j < i THEN s[j] ELSE s[j + 1]
  BY <1>1, <1>2, <1>3
<1>5. RemoveAt(s, i) = a \o b
  BY DEF RemoveAt, a, b
<1> QED
  BY <1>3, <1>4, <1>5

\* RemoveFirst takes one key from the list, if it is there.
LEMMA RemovedFirst ==
    ASSUME NEW S, NEW s \in Seq(S), Once(s), NEW e
    PROVE  /\ RemoveFirst(s, e) \in Seq(S) /\ Once(RemoveFirst(s, e))
           /\ ToSet(RemoveFirst(s, e)) = ToSet(s) \ {e}
           /\ Len(RemoveFirst(s, e)) = IF e \in ToSet(s) THEN Len(s) - 1 ELSE Len(s)
<1>1. CASE \E i \in 1..Len(s) : s[i] = e
  <2>1. PICK i \in 1..Len(s) : s[i] = e
    BY <1>1
  <2>2. RemoveFirst(s, e) = RemoveAt(s, i)
    <3>1. RemoveFirst(s, s[i]) = RemoveAt(s, i)
      BY FirstPlace
    <3> QED
      BY <2>1, <3>1
  <2> DEFINE r == RemoveAt(s, i)
  <2>3. /\ r \in Seq(S) /\ Len(r) = Len(s) - 1
        /\ \A j \in 1..(Len(s) - 1) : r[j] = IF j < i THEN s[j] ELSE s[j + 1]
    BY RemovedAt
  <2> HIDE DEF r
  <2>4. /\ DOMAIN r = 1..(Len(s) - 1) /\ DOMAIN s = 1..Len(s) /\ Len(s) \in Nat
    BY <2>3
  <2>5. Once(r)
    <3> SUFFICES ASSUME NEW j \in 1..(Len(s) - 1), NEW l \in 1..(Len(s) - 1), r[j] = r[l]
                 PROVE  j = l
      BY <2>4 DEF Once
    <3> DEFINE from(x) == IF x < i THEN x ELSE x + 1
    <3>1. from(j) \in 1..Len(s) /\ from(l) \in 1..Len(s) /\ (from(j) = from(l) => j = l)
      BY <2>4
    <3>2. r[j] = s[from(j)] /\ r[l] = s[from(l)]
      BY <2>3
    <3> HIDE DEF from
    <3>3. from(j) = from(l)
      BY <2>4, <3>1, <3>2 DEF Once
    <3> QED
      BY <3>1, <3>3
  <2>6. ToSet(r) = ToSet(s) \ {e}
    <3>1. ASSUME NEW x \in ToSet(r) PROVE x \in ToSet(s) /\ x # e
      <4>1. PICK l \in 1..(Len(s) - 1) : x = r[l]
        BY <2>4 DEF ToSet
      <4>2. PICK j \in 1..Len(s) : x = s[j] /\ j # i
        <5>1. CASE l < i
          BY <2>3, <2>4, <4>1, <5>1
        <5>2. CASE ~(l < i)
          <6>1. l + 1 \in 1..Len(s) /\ l + 1 # i
            BY <2>4, <5>2
          <6>2. r[l] = s[l + 1]
            BY <2>3, <5>2
          <6> QED
            BY <4>1, <6>1, <6>2
        <5> QED
          BY <5>1, <5>2
      <4>3. s[j] \in ToSet(s)
        BY <2>4 DEF ToSet
      <4>4. s[j] # s[i]
        BY <2>4, <4>2 DEF Once
      <4> QED
        BY <2>1, <4>2, <4>3, <4>4
    <3>2. ASSUME NEW x \in ToSet(s), x # e PROVE x \in ToSet(r)
      <4>1. PICK j \in 1..Len(s) : x = s[j] /\ j # i
        BY <2>1, <2>4, <3>2 DEF ToSet
      <4>2. CASE j < i
        <5>1. j \in 1..(Len(s) - 1)
          BY <2>4, <4>2
        <5>2. r[j] = x
          BY <2>3, <4>1, <4>2, <5>1
        <5> QED
          BY <2>4, <5>1, <5>2 DEF ToSet
      <4>3. CASE j > i
        <5>1. j - 1 \in 1..(Len(s) - 1) /\ ~(j - 1 < i) /\ (j - 1) + 1 = j
          BY <2>4, <4>3
        <5>2. r[j - 1] = x
          BY <2>3, <4>1, <5>1
        <5> QED
          BY <2>4, <5>1, <5>2 DEF ToSet
      <4> QED
        BY <4>1, <4>2, <4>3
    <3> QED
      BY <3>1, <3>2
  <2>7. e \in ToSet(s)
    BY <2>1, <2>4 DEF ToSet
  <2> QED
    BY <2>2, <2>3, <2>5, <2>6, <2>7 DEF r
<1>2. CASE ~\E i \in 1..Len(s) : s[i] = e
  BY <1>2 DEF RemoveFirst, ToSet
<1> QED
  BY <1>1, <1>2

\* An element moved or added to the front.
LEMMA MovedToFront ==
    ASSUME NEW S, NEW s \in Seq(S), Once(s), NEW e \in S
    PROVE  /\ MoveToFront(s, e) \in Seq(S) /\ Once(MoveToFront(s, e))
           /\ ToSet(MoveToFront(s, e)) = ToSet(s) \cup {e}
           /\ Len(MoveToFront(s, e)) = IF e \in ToSet(s) THEN Len(s) ELSE Len(s) + 1
<1> DEFINE r == RemoveFirst(s, e)
           m == <<e>> \o r
<1>1. /\ r \in Seq(S) /\ Once(r) /\ ToSet(r) = ToSet(s) \ {e}
      /\ Len(r) = IF e \in ToSet(s) THEN Len(s) - 1 ELSE Len(s)
  BY RemovedFirst
<1> HIDE DEF r
<1>2. /\ m \in Seq(S) /\ Len(m) = Len(r) + 1 /\ m[1] = e
      /\ \A j \in 2..(Len(r) + 1) : m[j] = r[j - 1]
  BY <1>1
<1> HIDE DEF m
<1>3. DOMAIN m = 1..(Len(r) + 1) /\ DOMAIN r = 1..Len(r) /\ Len(r) \in Nat
  BY <1>1, <1>2
<1>4. \A j \in 1..Len(r) : r[j] # e
  BY <1>1, <1>3 DEF ToSet
<1>5. Once(m)
  <2> SUFFICES ASSUME NEW i \in 1..(Len(r) + 1), NEW j \in 1..(Len(r) + 1), m[i] = m[j]
               PROVE  i = j
    BY <1>3 DEF Once
  <2>1. CASE i = 1 \/ j = 1
    BY <1>2, <1>3, <1>4, <2>1
  <2>2. CASE i # 1 /\ j # 1
    <3>1. /\ i - 1 \in 1..Len(r) /\ j - 1 \in 1..Len(r) /\ r[i - 1] = r[j - 1]
      BY <1>2, <1>3, <2>2
    <3>2. i - 1 = j - 1
      BY <1>1, <1>3, <3>1 DEF Once
    <3> QED
      BY <1>3, <3>2
  <2> QED
    BY <2>1, <2>2
<1>6. ToSet(m) = ToSet(r) \cup {e}
  <2>1. \A j \in 1..Len(r) : j + 1 \in DOMAIN m /\ m[j + 1] = r[j]
    BY <1>2, <1>3
  <2>2. \A j \in DOMAIN m : m[j] = e \/ (j - 1 \in 1..Len(r) /\ m[j] = r[j - 1])
    BY <1>2, <1>3
  <2>3. 1 \in DOMAIN m
    BY <1>3
  <2>4. ASSUME NEW x \in ToSet(m) PROVE x \in ToSet(r) \cup {e}
    BY <1>3, <2>2, <2>4 DEF ToSet
  <2>5. ASSUME NEW x \in ToSet(r) \cup {e} PROVE x \in ToSet(m)
    <3>1. CASE x = e
      BY <1>2, <2>3, <3>1 DEF ToSet
    <3>2. CASE x \in ToSet(r)
      <4>1. PICK j \in 1..Len(r) : x = r[j]
        BY <1>3, <3>2 DEF ToSet
      <4> QED
        BY <2>1, <4>1 DEF ToSet
    <3> QED
      BY <2>5, <3>1, <3>2
  <2> QED
    BY <2>4, <2>5
<1> QED
  <2>1. MoveToFront(s, e) = m
    BY DEF MoveToFront, m, r
  <2>2. Len(s) \in Nat
    OBVIOUS
  <2> QED
    BY <1>1, <1>2, <1>5, <1>6, <2>1, <2>2

\* The first n of a list without repetition, and the others.
LEMMA CutOff ==
    ASSUME NEW S, NEW s \in Seq(S), Once(s), NEW n \in Nat, n < Len(s)
    PROVE  /\ SubSeq(s, 1, n) \in Seq(S) /\ Once(SubSeq(s, 1, n)) /\ Len(SubSeq(s, 1, n)) = n
           /\ ToSet(SubSeq(s, 1, n)) = ToSet(s) \ ToSet(SubSeq(s, n + 1, Len(s)))
<1> DEFINE a == SubSeq(s, 1, n)
           b == SubSeq(s, n + 1, Len(s))
<1>1. /\ a \in Seq(S) /\ Len(a) = n /\ \A j \in 1..n : a[j] = s[j]
  OBVIOUS
<1>2. /\ b \in Seq(S) /\ Len(b) = Len(s) - n /\ \A j \in 1..(Len(s) - n) : b[j] = s[n + j]
  OBVIOUS
<1> HIDE DEF a, b
<1>3. DOMAIN a = 1..n /\ DOMAIN b = 1..(Len(s) - n) /\ DOMAIN s = 1..Len(s) /\ Len(s) \in Nat
  BY <1>1, <1>2
<1>4. Once(a)
  BY <1>1, <1>3 DEF Once
<1>5. \A j \in 1..n, i \in 1..(Len(s) - n) : a[j] # b[i]
  <2> SUFFICES ASSUME NEW j \in 1..n, NEW i \in 1..(Len(s) - n) PROVE a[j] # b[i]
    OBVIOUS
  <2>1. j \in DOMAIN s /\ n + i \in DOMAIN s /\ j # n + i
    BY <1>3
  <2>2. s[j] # s[n + i]
    BY <2>1 DEF Once
  <2> QED
    BY <1>1, <1>2, <2>2
<1>6. \A i \in 1..Len(s) :
         \/ i \in 1..n /\ s[i] = a[i]
         \/ i - n \in 1..(Len(s) - n) /\ s[i] = b[i - n]
  <2> SUFFICES ASSUME NEW i \in 1..Len(s), ~(i \in 1..n)
               PROVE  i - n \in 1..(Len(s) - n) /\ s[i] = b[i - n]
    BY <1>1
  <2>1. i - n \in 1..(Len(s) - n) /\ n + (i - n) = i
    BY <1>3
  <2> QED
    BY <1>2, <2>1
<1>7. ToSet(a) \subseteq ToSet(s)
  BY <1>1, <1>3 DEF ToSet
<1>8. ToSet(a) = ToSet(s) \ ToSet(b)
  BY <1>3, <1>5, <1>6, <1>7 DEF ToSet
<1> QED
  BY <1>1, <1>4, <1>8 DEF a, b

\* The list is one, and in step with the map.
Linked(c) ==
    /\ c.order \in Seq(Keys) /\ Once(c.order)
    /\ ToSet(c.order) = DOMAIN c.items
    /\ Len(c.order) <= Capacity

\* get keeps list and map together.
LEMMA PromoteLinked ==
    ASSUME NEW c, Linked(c), NEW key \in Keys, Has(c, key)
    PROVE  Linked(Promote(c, key))
<1>1. key \in ToSet(c.order)
  BY DEF Linked, Has
<1> QED
  BY <1>1, MovedToFront DEF Linked, Promote

\* So does remove.
LEMMA RemoveLinked ==
    ASSUME NEW c, Linked(c), NEW key \in Keys
    PROVE  Linked(remove(c, key))
<1>1. CASE Has(c, key)
  <2>1. key \in ToSet(c.order) /\ Len(c.order) \in Nat
    BY <1>1 DEF Linked, Has
  <2>2. /\ RemoveFirst(c.order, key) \in Seq(Keys) /\ Once(RemoveFirst(c.order, key))
        /\ ToSet(RemoveFirst(c.order, key)) = DOMAIN c.items \ {key}
        /\ Len(RemoveFirst(c.order, key)) <= Capacity
    BY <2>1, ConfigNat, RemovedFirst DEF Linked
  <2>3. /\ remove(c, key).order = RemoveFirst(c.order, key)
        /\ DOMAIN remove(c, key).items = DOMAIN c.items \ {key}
    BY <1>1 DEF remove
  <2> QED
    BY <2>2, <2>3 DEF Linked
<1>2. CASE ~Has(c, key)
  BY <1>2 DEF remove
<1> QED
  BY <1>1, <1>2

\* ... and put, with what it evicts.
LEMMA PutLinked ==
    ASSUME NEW c, Linked(c), NEW key \in Keys, NEW entry
    PROVE  Linked(put(c, key, entry, Capacity))
<1> DEFINE order   == MoveToFront(c.order, key)
           kept    == SubSeq(order, 1, Capacity)
           evicted == ToSet(SubSeq(order, Capacity + 1, Len(order)))
<1>1. CASE Capacity = 0
  BY <1>1 DEF put
<1>2. CASE Capacity # 0
  <2>1. /\ order \in Seq(Keys) /\ Once(order)
        /\ ToSet(order) = DOMAIN c.items \cup {key}
    BY MovedToFront DEF Linked
  <2>2. /\ put(c, key, entry, Capacity).order = IF Len(order) > Capacity THEN kept ELSE order
        /\ DOMAIN put(c, key, entry, Capacity).items = ToSet(order) \ evicted
    BY <1>2, <2>1 DEF put
  <2> HIDE DEF order
  <2>3. CASE Len(order) > Capacity
    <3>1. Capacity < Len(order) /\ Capacity \in Nat
      BY <2>1, <2>3, ConfigNat
    <3>2. /\ kept \in Seq(Keys) /\ Once(kept) /\ Len(kept) = Capacity
          /\ ToSet(kept) = ToSet(order) \ evicted
      BY <2>1, <3>1, CutOff
    <3> QED
      BY <2>2, <2>3, <3>1, <3>2 DEF Linked
  <2>4. CASE ~(Len(order) > Capacity)
    <3>1. Len(order) <= Capacity /\ Len(order) \in Nat
      BY <2>1, <2>4, ConfigNat
    <3>2. SubSeq(order, Capacity + 1, Len(order)) = << >>
      BY <2>1, <3>1, ConfigNat
    <3>3. ToSet(<<>>) = {}
      BY DEF ToSet
    <3>4. evicted = {}
      BY <3>2, <3>3
    <3> QED
      BY <2>1, <2>2, <2>4, <3>1, <3>4 DEF Linked
  <2> QED
    BY <2>3, <2>4
<1> QED
  BY <1>1, <1>2

\* An empty LRU.
LEMMA LinkedInit == Init => Linked(cache)
BY ConfigNat DEF Init, newLruCache, Linked, Once, ToSet

\* Every step.
LEMMA LinkedStep == TypeOK /\ Linked(cache) /\ [Next]_vars => Linked(cache)'
<1> SUFFICES ASSUME TypeOK, Linked(cache), [Next]_vars PROVE Linked(cache')
  BY DEF Linked, Once
<1>k. \A p \in Procs : g[p].key \in Keys
  BY DEF TypeOK, Locals
<1>1. CASE cache' = cache
  BY <1>1
<1>2. ASSUME NEW c \in Callers, LookupExpired(c) \/ LookupStale(c) \/ LookupHit(c)
      PROVE  Linked(cache')
  BY <1>2, <1>k, PromoteLinked DEF LookupExpired, LookupStale, LookupHit, GetHits, Procs
<1>3. ASSUME NEW c \in Callers, RemoveExpired(c)
      PROVE  Linked(cache')
  BY <1>3, <1>k, RemoveLinked DEF RemoveExpired, Procs
<1>4. ASSUME NEW p \in Procs, Fill(p)
      PROVE  Linked(cache')
  BY <1>4, <1>k, PutLinked DEF Fill
<1>5. ASSUME NEW key \in Keys, Evict(key)
      PROVE  Linked(cache')
  BY <1>5, RemoveLinked DEF Evict
<1>6. CASE Environment
  BY <1>1, <1>6 DEF Environment, Tick, SetClock, Issue, Revoke
<1>7. ASSUME NEW c \in Callers, Resolve(c) \/ \E key \in Keys : Start(c, key)
      PROVE  Linked(cache')
  BY <1>1, <1>2, <1>3, <1>7 DEF Resolve, Lookup, LookupMiss, PeekStale, Return, Start
<1>8. ASSUME NEW p \in Procs, Flight(p)
      PROVE  Linked(cache')
  BY <1>1, <1>4, <1>8 DEF Flight, Settle, Lead, Follow, BackendRead, FetchFails, Finish
<1>9. CASE UNCHANGED vars
  BY <1>1, <1>9 DEF vars
<1> QED
  BY <1>5, <1>6, <1>7, <1>8, <1>9 DEF Next

\* The LRU's list and map never get out of step: the same keys, each once, and
\* no more than its capacity, whatever is looked up, stored and dropped.
THEOREM CacheStaysCoherent == Spec => []CacheCoherent
<1>1. Linked(cache) => CacheCoherent
  BY DEF Linked, CacheCoherent, Coherent, Once
<1> QED
  BY <1>1, TypeInit, TypeStep, LinkedInit, LinkedStep, PTL DEF Spec
=============================================================================
