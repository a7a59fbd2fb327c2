------------------------------ MODULE WatchProofs ------------------------------
(***************************************************************************)
(* The watermark of Watch and Recv of src/client.go, for every value of    *)
(* the constants: any changelog, any number of broken streams.             *)
(***************************************************************************)
EXTENDS CallProofs

\* The version the i-th event on its way brings, after the one of resume.
At(i) == IF i = 0 THEN resume - 1 ELSE queue[i].ts - 1

\* What is on its way follows resume without a gap, up to where the stream is.
Chained ==
    /\ \A i \in DOMAIN queue :
         /\ At(i - 1) < At(i) /\ At(i) \in 1..Version
         /\ queue[i].updates = UpdatesOf(log[At(i)])
         /\ Quiet(At(i - 1), At(i) - 1)
    /\ stream = "open" => sent = At(Len(queue))

Placed ==
    /\ stream \in {"none", "open"}
    /\ queue \in Seq(WatchResponses)
    /\ delivered \in Seq(WatchEvents)
    /\ start \in NoTimestamp..Zookie(Version) /\ resume \in start..Zookie(Version)
    /\ start = NoTimestamp => stream = "none" /\ delivered = <<>> /\ resume = NoTimestamp
    /\ stream = "none" => queue = <<>> /\ sent = 0

\* What was delivered: in order and whole ...
Ordered ==
    /\ resume = IF delivered = <<>> THEN start ELSE delivered[Len(delivered)].ts
    /\ \A i \in DOMAIN delivered :
         /\ delivered[i].ts > IF i = 1 THEN start ELSE delivered[i - 1].ts
         /\ delivered[i].ts - 1 \in 1..Version
         /\ Resent(delivered[i].updates) = UpdatesOf(log[delivered[i].ts - 1])

\* ... and nothing left out.
Complete ==
    start # NoTimestamp =>
        \A v \in start..(resume - 1) :
            UpdatesOf(log[v]) # {} => \E i \in DOMAIN delivered : delivered[i].ts = Zookie(v)

WatchInv == Shape /\ Placed /\ Chained /\ Ordered /\ Complete

-----------------------------------------------------------------------------
(* Events *)

\* What an event carries are update messages.
LEMMA UpdatesAreMessages ==
    ASSUME Shape, NEW v \in 1..Version
    PROVE  UpdatesOf(log[v]) \in SUBSET Updates
<1>1. log[v] \in OwnWrites \cup ForeignWrites
  BY DEF Shape, Version
<1>2. Changes(log[v]) \subseteq WireTuples
  BY <1>1 DEF OwnWrites, ForeignWrites, WriteRequests, Changes
<1> QED
  BY <1>2 DEF UpdatesOf, Updates

\* An event that is read holds what was sent.
LEMMA EventRead ==
    ASSUME NEW resp \in WatchResponses, watchEventFromProto(resp) # Error
    PROVE  /\ watchEventFromProto(resp) \in WatchEvents
           /\ watchEventFromProto(resp).ts = resp.ts
           /\ Resent(watchEventFromProto(resp).updates) = resp.updates
<1> DEFINE read(u) == [tuple |-> tupleFromProto(u.tuple), deleted |-> u.deleted]
<1>1. /\ \A u \in resp.updates : Readable(u.tuple)
      /\ watchEventFromProto(resp) =
           [ts |-> resp.ts, updates |-> {read(u) : u \in resp.updates}]
  BY DEF watchEventFromProto
<1>2. ASSUME NEW u \in resp.updates
      PROVE  /\ read(u) \in WatchUpdates
             /\ [tuple |-> tupleToProto(read(u).tuple), deleted |-> read(u).deleted] = u
  <2>1. u \in Updates /\ u.tuple \in WireTuples /\ Readable(u.tuple)
    BY <1>1 DEF WatchResponses, Updates
  <2>2. tupleFromProto(u.tuple) \in GoTuples /\ tupleToProto(tupleFromProto(u.tuple)) = u.tuple
    BY <2>1, ReceivedKept
  <2> QED
    BY <2>1, <2>2 DEF WatchUpdates, Updates
<1> HIDE DEF read
<1>3. Resent({read(u) : u \in resp.updates}) = resp.updates
  BY <1>2 DEF Resent
<1> QED
  BY <1>1, <1>2, <1>3 DEF WatchEvents, WatchResponses

\* What a commit changed stays as it was when others follow.
LEMMA PastKept ==
    ASSUME Shape, [Next]_vars
    PROVE  /\ Version \in Nat /\ Version' \in Nat /\ Version' >= Version
           /\ \A v \in 1..Version : log'[v] = log[v] /\ UpdatesOf(log'[v]) = UpdatesOf(log[v])
<1>1. Shape' /\ LogStep
  BY ShapeInductive, LogStepHolds
<1>2. Version \in Nat /\ Version' \in Nat
  BY <1>1 DEF Shape, Version
<1>3. Version' >= Version /\ \A v \in DOMAIN log : log'[v] = log[v]
  BY <1>1, LogGrows
<1>4. DOMAIN log = 1..Version
  BY DEF Shape, Version
<1> QED
  BY <1>2, <1>3, <1>4

\* Versions in the invariant are past versions.
LEMMA Bounds ==
    ASSUME WatchInv
    PROVE  /\ Version \in Nat /\ start \in Nat /\ resume \in Nat /\ resume - 1 <= Version
           /\ \A i \in DOMAIN queue : At(i - 1) \in 0..Version
           /\ start # NoTimestamp => start >= 1 /\ resume >= 1
           /\ Len(queue) \in Nat /\ DOMAIN queue = 1..Len(queue)
           /\ Len(delivered) \in Nat /\ DOMAIN delivered = 1..Len(delivered)
<1>1. /\ Version \in Nat /\ start \in Nat /\ resume \in Nat /\ resume - 1 <= Version
      /\ resume >= start
  BY TimestampsNat DEF WatchInv, Placed, Zookie, NoTimestamp
<1>2. start # NoTimestamp => start >= 1 /\ resume >= 1
  BY <1>1 DEF NoTimestamp
<1>3. /\ Len(queue) \in Nat /\ DOMAIN queue = 1..Len(queue)
      /\ Len(delivered) \in Nat /\ DOMAIN delivered = 1..Len(delivered)
  BY DEF WatchInv, Placed
<1>4. ASSUME NEW i \in DOMAIN queue
      PROVE  At(i - 1) \in 0..Version
  <2>1. CASE i = 1
    <3>1. start # NoTimestamp
      BY <1>3, <2>1 DEF WatchInv, Placed
    <3> QED
      BY <1>1, <1>2, <2>1, <3>1 DEF At
  <2>2. CASE i # 1
    <3>1. i - 1 \in DOMAIN queue
      BY <1>3, <2>2
    <3> QED
      BY <1>1, <3>1 DEF WatchInv, Chained
  <2> QED
    BY <2>1, <2>2
<1> QED
  BY <1>1, <1>2, <1>3, <1>4

\* Steps that leave the stream and the consumer alone.
LEMMA OthersKeep ==
    ASSUME WatchInv, [Next]_vars, UNCHANGED watchVars
    PROVE  WatchInv'
<1>1. Shape /\ Shape'
  BY ShapeInductive DEF WatchInv
<1>2. /\ Version \in Nat /\ Version' \in Nat /\ Version' >= Version
      /\ \A v \in 1..Version : UpdatesOf(log'[v]) = UpdatesOf(log[v])
  BY <1>1, PastKept
<1>3. UNCHANGED <<stream, sent, queue, start, resume, delivered>>
  BY DEF watchVars
<1>4. Placed'
  <2>1. ASSUME NEW now \in Nat, now >= Version
        PROVE  start \in NoTimestamp..Zookie(now) /\ resume \in start..Zookie(now)
    <3>1. /\ Version \in Nat
          /\ start \in NoTimestamp..Zookie(Version) /\ resume \in start..Zookie(Version)
      BY <1>2 DEF WatchInv, Placed
    <3> HIDE DEF Version
    <3> QED
      BY <2>1, <3>1 DEF Zookie, NoTimestamp
  <2>2. start \in NoTimestamp..Zookie(Version') /\ resume \in start..Zookie(Version')
    BY <1>2, <2>1
  <2> QED
    BY <1>3, <2>2 DEF WatchInv, Placed
<1>5. Chained'
  <2>1. ASSUME NEW i \in DOMAIN queue
        PROVE  /\ At(i - 1) < At(i) /\ At(i) \in 1..Version'
               /\ queue[i].updates = UpdatesOf(log'[At(i)])
               /\ \A v \in (At(i - 1) + 1)..(At(i) - 1) : UpdatesOf(log'[v]) = {}
    <3>1. /\ At(i - 1) < At(i) /\ At(i) \in 1..Version /\ At(i - 1) \in 0..Version
          /\ queue[i].updates = UpdatesOf(log[At(i)])
          /\ \A v \in (At(i - 1) + 1)..(At(i) - 1) : UpdatesOf(log[v]) = {}
      BY Bounds DEF WatchInv, Chained, Quiet
    <3>2. \A v \in (At(i - 1) + 1)..(At(i) - 1) : v \in 1..Version
      BY <1>2, <3>1
    <3> QED
      BY <1>2, <3>1, <3>2
  <2>2. \A i : At(i)' = At(i)
    BY <1>3 DEF At
  <2> QED
    BY <1>3, <2>1, <2>2 DEF WatchInv, Chained, Quiet, At
<1>6. Ordered'
  BY <1>2, <1>3 DEF WatchInv, Ordered
<1>7. Complete'
  <2>1. start # NoTimestamp => \A v \in start..(resume - 1) : v \in 1..Version
    BY Bounds
  <2> QED
    BY <1>2, <1>3, <2>1 DEF WatchInv, Complete
<1> QED
  BY <1>1, <1>4, <1>5, <1>6, <1>7 DEF WatchInv

-----------------------------------------------------------------------------
(* The stream *)

\* The backend sends the next commit.
LEMMA SendKeeps ==
    ASSUME WatchInv, [Next]_vars, SendEvent
    PROVE  WatchInv'
<1> DEFINE n == Len(queue)
<1>1. PICK v \in (sent + 1)..Version :
         /\ stream = "open" /\ Quiet(sent, v - 1) /\ sent' = v
         /\ queue' = Append(queue, [ts |-> Zookie(v), updates |-> UpdatesOf(log[v])])
  BY DEF SendEvent, Send
<1>2. /\ UNCHANGED <<stream, start, resume, delivered, log>>
      /\ Version' = Version
  BY DEF SendEvent, Send, Still, Rest, Version
<1>3. Shape /\ Shape'
  BY ShapeInductive DEF WatchInv
<1>4. sent \in 0..Version /\ sent = At(n) /\ n \in Nat /\ DOMAIN queue = 1..n
  <2>1. start # NoTimestamp
    BY <1>1 DEF WatchInv, Placed
  <2>2. sent = At(n)
    BY <1>1 DEF WatchInv, Chained
  <2>3. CASE n = 0
    BY <2>1, <2>2, <2>3, Bounds DEF At
  <2>4. CASE n # 0
    BY <2>2, <2>4, Bounds DEF WatchInv, Chained
  <2> QED
    BY <2>2, <2>3, <2>4, Bounds
<1>5. v \in 1..Version /\ sent < v
  BY <1>1, <1>4, Bounds
<1> DEFINE event == [ts |-> Zookie(v), updates |-> UpdatesOf(log[v])]
<1>6. event \in WatchResponses
  BY <1>3, <1>5, UpdatesAreMessages DEF WatchResponses, Zookie
<1>7. /\ queue' \in Seq(WatchResponses) /\ Len(queue') = n + 1 /\ DOMAIN queue' = 1..(n + 1)
      /\ \A i \in 1..n : queue'[i] = queue[i]
      /\ queue'[n + 1] = event
  <2> HIDE DEF event
  <2>1. queue \in Seq(WatchResponses) /\ queue' = Append(queue, event)
    BY <1>1 DEF WatchInv, Placed, event
  <2> QED
    BY <1>4, <1>6, <2>1
<1>8. Placed'
  BY <1>1, <1>2, <1>7 DEF WatchInv, Placed
<1>9. /\ \A i \in 0..n : At(i)' = At(i)
      /\ \A i : i = n + 1 => At(i)' = v
  <2>1. \A i \in 0..n : At(i)' = At(i)
    BY <1>2, <1>7 DEF At
  <2>2. \A i : i = n + 1 => At(i)' = v
    BY <1>4, <1>5, <1>7 DEF At, Zookie
  <2> QED
    BY <2>1, <2>2
<1>10. Chained'
  <2>1. ASSUME NEW i \in 1..n
        PROVE  /\ At(i - 1)' < At(i)' /\ At(i)' \in 1..Version
               /\ queue'[i].updates = UpdatesOf(log[At(i)'])
               /\ \A w \in (At(i - 1)' + 1)..(At(i)' - 1) : UpdatesOf(log[w]) = {}
    <3>1. At(i)' = At(i) /\ At(i - 1)' = At(i - 1)
      BY <1>4, <1>9
    <3> QED
      BY <1>4, <1>7, <3>1 DEF WatchInv, Chained, Quiet
  <2>2. ASSUME NEW i, i = n + 1
        PROVE  /\ At(i - 1)' < At(i)' /\ At(i)' \in 1..Version
               /\ queue'[i].updates = UpdatesOf(log[At(i)'])
               /\ \A w \in (At(i - 1)' + 1)..(At(i)' - 1) : UpdatesOf(log[w]) = {}
    <3>1. At(i)' = v /\ i - 1 = n /\ n \in 0..n
      BY <1>4, <1>9, <2>2
    <3>2. At(i - 1)' = sent
      BY <1>4, <1>9, <3>1
    <3>3. /\ queue'[i].updates = UpdatesOf(log[v])
          /\ \A w \in (sent + 1)..(v - 1) : UpdatesOf(log[w]) = {}
      <4>1. queue'[i] = event
        BY <1>7, <2>2
      <4>2. Quiet(sent, v - 1)
        BY <1>1
      <4> QED
        BY <4>1, <4>2 DEF Quiet
    <3> QED
      BY <1>5, <3>1, <3>2, <3>3
  <2>3. ASSUME NEW i, i = Len(queue')
        PROVE  sent' = At(i)'
    BY <1>1, <1>7, <1>9, <2>3
  <2>4. ASSUME NEW i \in DOMAIN queue'
        PROVE  /\ At(i - 1)' < At(i)' /\ At(i)' \in 1..Version
               /\ queue'[i].updates = UpdatesOf(log[At(i)'])
               /\ \A w \in (At(i - 1)' + 1)..(At(i)' - 1) : UpdatesOf(log[w]) = {}
    <3>1. i \in 1..n \/ i = n + 1
      BY <1>4, <1>7, <2>4
    <3> QED
      BY <2>1, <2>2, <3>1
  <2>5. stream' = "open" => sent' = At(Len(queue))'
    BY <2>3 DEF At
  <2> QED
    BY <1>2, <2>4, <2>5 DEF Chained, Quiet, At
<1>11. Ordered' /\ Complete'
  BY <1>2 DEF WatchInv, Ordered, Complete
<1> QED
  BY <1>3, <1>8, <1>10, <1>11 DEF WatchInv

\* The stream closes, and what was on its way is lost.
LEMMA CloseKeeps ==
    ASSUME WatchInv, [Next]_vars, Close, UNCHANGED <<start, resume, delivered, log>>
    PROVE  WatchInv'
<1>1. Shape'
  BY ShapeInductive DEF WatchInv
<1>2. stream' = "none" /\ queue' = <<>> /\ sent' = 0
  BY DEF Close
<1>3. Placed'
  <2>1. start = NoTimestamp => delivered = <<>> /\ resume = NoTimestamp
    BY DEF WatchInv, Placed
  <2>2. queue' \in Seq(WatchResponses) /\ Version' = Version
    BY <1>2 DEF Version
  <2> QED
    BY <1>2, <2>1, <2>2 DEF WatchInv, Placed
<1>4. Chained'
  BY <1>2 DEF Chained
<1>5. Ordered' /\ Complete'
  BY DEF WatchInv, Ordered, Complete, Version
<1> QED
  BY <1>1, <1>3, <1>4, <1>5 DEF WatchInv

\* A watch opens after the last event.
LEMMA WatchKeeps ==
    ASSUME WatchInv, [Next]_vars, NEW ts \in StartTimestamps \cup {resume}, Watch(ts)
    PROVE  WatchInv'
<1>1. CASE UNCHANGED watchVars
  BY <1>1, OthersKeep
<1>2. CASE /\ stream = "none" /\ (start # NoTimestamp => ts = resume)
           /\ ts # NoTimestamp
           /\ stream' = "open" /\ sent' = ts - 1 /\ resume' = ts
           /\ start' = IF start = NoTimestamp THEN ts ELSE start
           /\ UNCHANGED <<queue, delivered, log>>
  <2>1. Shape' /\ Version' = Version
    BY <1>2, ShapeInductive DEF WatchInv, Version
  <2>2. ts \in 1..Zookie(Version)
    <3>1. Version \in Nat /\ resume \in Nat /\ resume <= Version + 1
      BY Bounds
    <3> HIDE DEF Version
    <3> QED
      BY <1>2, <3>1 DEF StartTimestamps, Zookie, NoTimestamp, TimestampEmpty
  <2>3. start' \in 1..Zookie(Version) /\ resume' \in start'..Zookie(Version)
        /\ start' # NoTimestamp
    <3>1. Version \in Nat /\ start \in Nat /\ Zookie(Version) \in Nat
          /\ start \in NoTimestamp..Zookie(Version) /\ resume \in start..Zookie(Version)
      BY Bounds DEF WatchInv, Placed, Zookie
    <3> HIDE DEF Version
    <3> QED
      BY <1>2, <2>2, <3>1 DEF NoTimestamp
  <2>4. queue = <<>>
    BY <1>2 DEF WatchInv, Placed
  <2>5. Placed'
    BY <1>2, <2>1, <2>3 DEF WatchInv, Placed, NoTimestamp
  <2>6. Chained'
    BY <1>2, <2>4 DEF Chained, At
  <2>7. CASE start = NoTimestamp
    <3>1. delivered = <<>> /\ start' = ts /\ resume' = ts
      BY <1>2, <2>7 DEF WatchInv, Placed
    <3>2. Ordered'
      BY <1>2, <3>1 DEF Ordered
    <3>3. Complete'
      BY <2>2, <3>1 DEF Complete
    <3> QED
      BY <2>1, <2>5, <2>6, <3>2, <3>3 DEF WatchInv
  <2>8. CASE start # NoTimestamp
    <3>1. UNCHANGED <<start, resume>>
      BY <1>2, <2>8
    <3>2. Ordered' /\ Complete'
      BY <1>2, <2>1, <3>1 DEF WatchInv, Ordered, Complete
    <3> QED
      BY <2>1, <2>5, <2>6, <3>2 DEF WatchInv
  <2> QED
    BY <2>7, <2>8
<1> QED
  BY <1>1, <1>2 DEF Watch, Still, Rest

\* Recv delivers, refuses or finds the stream broken.
LEMMA RecvKeeps ==
    ASSUME WatchInv, [Next]_vars, Recv
    PROVE  WatchInv'
<1> DEFINE event == watchEventFromProto(Head(queue))
           n     == Len(queue)
           m     == Len(delivered)
<1>1. UNCHANGED <<start, log>> /\ queue # <<>>
  BY DEF Recv, Still, Rest
<1>2. CASE event = Error
  <2>1. Close /\ UNCHANGED <<resume, delivered>>
    BY <1>2 DEF Recv
  <2> QED
    BY <1>1, <2>1, CloseKeeps
<1>3. CASE event # Error
  <2>1. /\ queue' = Tail(queue) /\ resume' = event.ts
        /\ delivered' = Append(delivered, event) /\ UNCHANGED stream
        /\ UNCHANGED sent
    BY <1>3 DEF Recv
  <2>2. Shape' /\ Version' = Version
    BY <1>1, ShapeInductive DEF WatchInv, Version
  <2>3. queue \in Seq(WatchResponses) /\ delivered \in Seq(WatchEvents)
        /\ Head(queue) = queue[1] /\ Head(queue) \in WatchResponses
        /\ n \in Nat \ {0} /\ DOMAIN queue = 1..n /\ m \in Nat /\ DOMAIN delivered = 1..m
    BY <1>1 DEF WatchInv, Placed
  <2>4. /\ event \in WatchEvents /\ event.ts = queue[1].ts
        /\ Resent(event.updates) = queue[1].updates
    BY <1>3, <2>3, EventRead
  <2> HIDE DEF event
  <2>5. /\ queue' \in Seq(WatchResponses) /\ Len(queue') = n - 1 /\ DOMAIN queue' = 1..(n - 1)
        /\ \A i \in 1..(n - 1) : queue'[i] = queue[i + 1]
    BY <2>1, <2>3
  <2>6. /\ delivered' \in Seq(WatchEvents) /\ Len(delivered') = m + 1
        /\ DOMAIN delivered' = 1..(m + 1)
        /\ \A i \in 1..m : delivered'[i] = delivered[i]
        /\ delivered'[m + 1] = event
    BY <2>1, <2>3, <2>4
  <2> DEFINE v == At(1)
  <2>7. /\ v \in 1..Version /\ v = queue[1].ts - 1 /\ queue[1].ts \in Nat
        /\ resume' = v + 1 /\ resume - 1 < v /\ v > 0
        /\ queue[1].updates = UpdatesOf(log[v])
        /\ \A w \in resume..(v - 1) : UpdatesOf(log[w]) = {}
    <3>1. 1 \in DOMAIN queue
      BY <2>3
    <3>2. At(0) = resume - 1 /\ At(1) = queue[1].ts - 1 /\ queue[1].ts \in Nat
      BY <2>3 DEF At, WatchResponses
    <3>3. At(0) < v /\ v \in 1..Version /\ queue[1].updates = UpdatesOf(log[v])
          /\ Quiet(At(0), v - 1)
      BY <3>1 DEF WatchInv, Chained
    <3>4. resume \in Nat /\ Version \in Nat
      BY Bounds
    <3>5. v = queue[1].ts - 1 /\ resume' = queue[1].ts
      BY <2>1, <2>4, <3>2
    <3> HIDE DEF v, Version
    <3>6. resume' = v + 1 /\ resume - 1 < v /\ v > 0 /\ (resume - 1) + 1 = resume
      BY <3>2, <3>3, <3>4, <3>5
    <3>7. \A w \in ((resume - 1) + 1)..(v - 1) : UpdatesOf(log[w]) = {}
      BY <3>2, <3>3 DEF Quiet
    <3> QED
      BY <3>2, <3>3, <3>5, <3>6, <3>7
  <2>8. start # NoTimestamp /\ stream = "open"
    BY <1>1 DEF WatchInv, Placed
  <2> HIDE DEF v
  <2>9. Placed'
    <3>1. start \in Nat /\ resume \in start..Zookie(Version) /\ Version \in Nat
      BY Bounds DEF WatchInv, Placed
    <3>2. resume' \in start..Zookie(Version)
      <4> HIDE DEF Version
      <4> QED
        BY <2>7, <3>1 DEF Zookie
    <3> QED
      BY <1>1, <2>1, <2>2, <2>5, <2>6, <2>8, <3>2 DEF WatchInv, Placed
  <2>10. \A i \in 0..(n - 1) : At(i)' = At(i + 1)
    BY <2>3, <2>5, <2>7 DEF At, v
  <2>11. Chained'
    <3>1. ASSUME NEW i \in 1..(n - 1)
          PROVE  /\ At(i - 1)' < At(i)' /\ At(i)' \in 1..Version
                 /\ queue'[i].updates = UpdatesOf(log[At(i)'])
                 /\ \A w \in (At(i - 1)' + 1)..(At(i)' - 1) : UpdatesOf(log[w]) = {}
      <4>1. At(i)' = At(i + 1) /\ At(i - 1)' = At(i) /\ queue'[i] = queue[i + 1]
        BY <2>3, <2>5, <2>10
      <4>2. i + 1 \in DOMAIN queue /\ (i + 1) - 1 = i
        BY <2>3
      <4>3. /\ At(i) < At(i + 1) /\ At(i + 1) \in 1..Version
            /\ queue[i + 1].updates = UpdatesOf(log[At(i + 1)])
            /\ \A w \in (At(i) + 1)..(At(i + 1) - 1) : UpdatesOf(log[w]) = {}
        BY <4>2 DEF WatchInv, Chained, Quiet
      <4> QED
        BY <4>1, <4>3
    <3>2. sent' = At(Len(queue))'
      <4>1. sent = At(n)
        BY <2>8 DEF WatchInv, Chained
      <4>2. ASSUME NEW i, i = n - 1
            PROVE  At(i)' = At(n)
        BY <2>3, <2>10, <4>2
      <4>3. ASSUME NEW i, i = Len(queue')
            PROVE  sent' = At(i)'
        BY <2>1, <2>5, <4>1, <4>2, <4>3
      <4> QED
        BY <4>3 DEF At
    <3> QED
      BY <1>1, <2>2, <2>5, <3>1, <3>2 DEF Chained, Quiet, At
  <2>12. Ordered'
    <3>1. delivered' # <<>> /\ resume' = delivered'[Len(delivered')].ts
      BY <2>1, <2>3, <2>6
    <3>2. ASSUME NEW i \in 1..m
          PROVE  /\ delivered'[i].ts > IF i = 1 THEN start ELSE delivered'[i - 1].ts
                 /\ delivered'[i].ts - 1 \in 1..Version
                 /\ Resent(delivered'[i].updates) = UpdatesOf(log[delivered'[i].ts - 1])
      <4>1. delivered'[i] = delivered[i] /\ (i # 1 => delivered'[i - 1] = delivered[i - 1])
        BY <2>3, <2>6
      <4> QED
        BY <2>3, <4>1 DEF WatchInv, Ordered
    <3>3. ASSUME NEW i, i = m + 1
          PROVE  /\ delivered'[i].ts > IF i = 1 THEN start ELSE delivered'[i - 1].ts
                 /\ delivered'[i].ts - 1 \in 1..Version
                 /\ Resent(delivered'[i].updates) = UpdatesOf(log[delivered'[i].ts - 1])
      <4>1. delivered'[i] = event /\ event.ts = v + 1 /\ event.ts - 1 = v
        BY <2>1, <2>4, <2>6, <2>7, <3>3
      <4>2. resume = IF i = 1 THEN start ELSE delivered'[i - 1].ts
        <5>1. CASE m = 0
          BY <2>3, <3>3, <5>1 DEF WatchInv, Ordered
        <5>2. CASE m # 0
          <6>1. delivered # <<>> /\ i # 1 /\ delivered'[i - 1] = delivered[m]
            BY <2>3, <2>6, <3>3, <5>2
          <6> QED
            BY <6>1 DEF WatchInv, Ordered
        <5> QED
          BY <5>1, <5>2
      <4>3. event.ts > resume
        <5>1. resume \in Nat /\ Version \in Nat
          BY Bounds
        <5> HIDE DEF Version
        <5> QED
          BY <2>7, <4>1, <5>1
      <4> QED
        BY <2>4, <2>7, <4>1, <4>2, <4>3
    <3>4. ASSUME NEW i \in DOMAIN delivered'
          PROVE  /\ delivered'[i].ts > IF i = 1 THEN start ELSE delivered'[i - 1].ts
                 /\ delivered'[i].ts - 1 \in 1..Version
                 /\ Resent(delivered'[i].updates) = UpdatesOf(log[delivered'[i].ts - 1])
      <4>1. i \in 1..m \/ i = m + 1
        BY <2>3, <2>6, <3>4
      <4> QED
        BY <3>2, <3>3, <4>1
    <3> QED
      BY <1>1, <2>2, <3>1, <3>4 DEF Ordered
  <2>13. Complete'
    <3>1. ASSUME NEW w \in start..(resume' - 1), UpdatesOf(log[w]) # {}
          PROVE  \E i \in DOMAIN delivered' : delivered'[i].ts = Zookie(w)
      <4>1. CASE w < resume
        <5>1. w \in start..(resume - 1)
          BY <4>1, Bounds
        <5>2. PICK i \in DOMAIN delivered : delivered[i].ts = Zookie(w)
          BY <2>8, <3>1, <5>1 DEF WatchInv, Complete
        <5> QED
          BY <2>3, <2>6, <5>2
      <4>2. CASE w >= resume
        <5> HIDE DEF Version
        <5>0. w \in Int /\ v \in Int /\ resume \in Int /\ w <= v
          BY <2>7, <3>1, Bounds
        <5>1. w = v
          <6>1. w \notin resume..(v - 1)
            BY <2>7, <3>1
          <6> QED
            BY <4>2, <5>0, <6>1
        <5>2. delivered'[m + 1].ts = Zookie(w)
          BY <2>1, <2>6, <2>7, <5>1 DEF Zookie
        <5> QED
          BY <2>3, <2>6, <5>2
      <4> QED
        BY <4>1, <4>2, Bounds
    <3> QED
      BY <1>1, <3>1 DEF Complete
  <2> QED
    BY <2>2, <2>9, <2>11, <2>12, <2>13 DEF WatchInv
<1> QED
  BY <1>2, <1>3

-----------------------------------------------------------------------------

\* Every step.
LEMMA WatchInductive ==
    ASSUME WatchInv, [Next]_vars
    PROVE  WatchInv'
<1>1. CASE UNCHANGED watchVars
  BY <1>1, OthersKeep
<1>2. CASE SendEvent
  BY <1>2, SendKeeps
<1>3. CASE Consume
  <2>1. CASE RecvEnds
    <3>1. Close /\ UNCHANGED <<start, resume, delivered, log>>
      BY <2>1 DEF RecvEnds, Still, Rest
    <3> QED
      BY <3>1, CloseKeeps
  <2> QED
    BY <1>3, <2>1, WatchKeeps, RecvKeeps DEF Consume
<1> QED
  BY <1>1, <1>2, <1>3 DEF Next, Backend, Begin, vars

\* Nobody watches at first.
LEMMA WatchInitial ==
    ASSUME WatchInit
    PROVE  WatchInv
<1>1. Shape /\ Version \in Nat
  BY FresherInitial, TimestampsNat DEF Fresher
<1> QED
  BY <1>1 DEF WatchInit, WatchInv, Placed, Chained, Ordered, Complete, NoTimestamp, Zookie

\* The zookie of an event is a watermark: a consumer that resumes from the last
\* event it got has been given every change since it started, each once, whole
\* and in order, across broken streams and events that could not be converted.
THEOREM WatermarkHolds == Spec => []WatermarkTrue
<1>1. WatchInit => WatchInv
  BY WatchInitial
<1>2. WatchInv /\ [Next]_vars => WatchInv'
  BY WatchInductive
<1>3. WatchInv => WatermarkTrue
  BY DEF WatchInv, Ordered, Complete, WatermarkTrue, Resent, Last
<1> QED
  BY <1>1, <1>2, <1>3, PTL DEF Spec

-----------------------------------------------------------------------------
(* A reader of the changelog *)

\* The changes of the namespace, commit by commit.
History == [v \in DOMAIN log |-> UpdatesOf(log[v])]

\* The history is as long as the log.
LEMMA HistoryShape ==
    ASSUME Shape
    PROVE  /\ Version \in Nat /\ DOMAIN History = 1..Version /\ Len(History) = Version
           /\ History \in Seq({UpdatesOf(log[v]) : v \in DOMAIN log})
           /\ \A v \in 1..Version : History[v] = UpdatesOf(log[v])
<1>1. DOMAIN log = 1..Version /\ Version \in Nat
  BY DEF Shape, Version
<1> QED
  BY <1>1 DEF History

\* A commit, or nothing, happens to the history.
LEMMA HistoryGrows ==
    ASSUME Shape, [Next]_vars
    PROVE  \/ UNCHANGED History
           \/ /\ Len(History') = Len(History) + 1
              /\ SubSeq(History', 1, Len(History)) = History
<1>1. Shape' /\ LogStep
  BY ShapeInductive, LogStepHolds
<1>2. CASE log' = log
  BY <1>2 DEF History, UpdatesOf
<1>3. ASSUME NEW c \in OwnWrites \cup ForeignWrites, log' = Append(log, c)
      PROVE  /\ Len(History') = Len(History) + 1
             /\ SubSeq(History', 1, Len(History)) = History
  <2>1. log' \in Seq(OwnWrites \cup ForeignWrites) /\ Version' = Version + 1 /\ Len(log') = Version'
    BY <1>3, LogGrows, <1>1 DEF Shape, Version
  <2>2. /\ Version \in Nat /\ DOMAIN History = 1..Version /\ Len(History) = Version
        /\ \A v \in 1..Version : History[v] = UpdatesOf(log[v])
    BY HistoryShape
  <2>6. History' = [v \in 1..(Version + 1) |-> UpdatesOf(log'[v])]
    BY <2>1 DEF History, UpdatesOf
  <2>7. /\ DOMAIN History' = 1..(Version + 1) /\ Len(History') = Version + 1
        /\ \A v \in 1..(Version + 1) : History'[v] = UpdatesOf(log'[v])
    BY <2>2, <2>6
  <2>3. \A v \in 1..Version : History'[v] = History[v]
    BY <2>2, <2>7, PastKept
  <2>4. SubSeq(History', 1, Version) = [v \in 1..Version |-> History'[v]]
    BY <2>2, <2>7
  <2>5. History = [v \in 1..Version |-> History[v]]
    BY <2>2 DEF History
  <2> QED
    BY <2>2, <2>3, <2>4, <2>5, <2>7
<1> QED
  BY <1>1, <1>2, <1>3, LogGrows

\* Zookies of versions that follow one another.
LEMMA Following ==
    ASSUME NEW from \in Nat, NEW to \in Nat, NEW version \in Nat,
           from - 1 < to - 1, to - 1 \in 1..version
    PROVE  /\ to - 1 \in from..version /\ from = (from - 1) + 1 /\ to - 2 = (to - 1) - 1
           /\ \A v \in from..(to - 2) : from >= 1 => v \in 1..version
OBVIOUS

\* The versions from a zookie of one to a later one.
LEMMA Between ==
    ASSUME NEW from \in Nat, from >= 1, NEW to \in Nat, NEW version \in Nat,
           to - 1 \in from..version
    PROVE  /\ from - 1 < to - 1 /\ to - 1 \in 1..version /\ from - 1 # -1
           /\ \A v \in from..(to - 2) : v \in 1..version
OBVIOUS

\* A zookie is at most that of the latest version.
LEMMA Within ==
    ASSUME NEW from \in Nat, NEW version \in Nat, NEW to \in from..(version + 1)
    PROVE  to \in Nat /\ to - 1 <= version
OBVIOUS

\* What Recv returns is the next change, or a heartbeat past quiet commits.
LEMMA RecvTakes ==
    ASSUME WatchInv, Recv, watchEventFromProto(Head(queue)) # Error
    PROVE  /\ start # NoTimestamp
           /\ resume' - 1 \in resume..Version
           /\ \A v \in resume..(resume' - 2) : UpdatesOf(log[v]) = {}
           /\ delivered' = Append(delivered, watchEventFromProto(Head(queue)))
           /\ Resent(watchEventFromProto(Head(queue)).updates) = UpdatesOf(log[resume' - 1])
<1> DEFINE event == watchEventFromProto(Head(queue))
<1>1. /\ queue # <<>> /\ resume' = event.ts /\ delivered' = Append(delivered, event)
  BY DEF Recv
<1>2. /\ Head(queue) = queue[1] /\ queue[1] \in WatchResponses /\ 1 \in DOMAIN queue
      /\ start # NoTimestamp
  BY <1>1 DEF WatchInv, Placed
<1>3. event.ts = queue[1].ts /\ Resent(event.updates) = queue[1].updates
  BY <1>2, EventRead
<1> HIDE DEF event
<1>4. At(0) = resume - 1 /\ At(1) = queue[1].ts - 1 /\ queue[1].ts \in Nat
  BY <1>2 DEF At, WatchResponses
<1>5. At(0) < At(1) /\ At(1) \in 1..Version /\ queue[1].updates = UpdatesOf(log[At(1)])
      /\ Quiet(At(0), At(1) - 1)
  BY <1>2 DEF WatchInv, Chained
<1>6. resume \in Nat /\ Version \in Nat
  BY Bounds
<1>7. resume' \in Nat /\ resume' - 1 = At(1)
  BY <1>1, <1>3, <1>4
<1>8. \A w \in (At(0) + 1)..(At(1) - 1) : UpdatesOf(log[w]) = {}
  BY <1>5 DEF Quiet
<1> HIDE DEF Version
<1>9. resume' - 1 \in resume..Version /\ resume = At(0) + 1 /\ resume' - 2 = At(1) - 1
  <2>1. resume - 1 < resume' - 1 /\ resume' - 1 \in 1..Version
    BY <1>4, <1>5, <1>7
  <2>2. /\ resume' - 1 \in resume..Version /\ resume = (resume - 1) + 1
        /\ resume' - 2 = (resume' - 1) - 1
    BY <1>6, <1>7, <2>1, Following
  <2> QED
    BY <1>4, <1>7, <2>2
<1> QED
  BY <1>1, <1>2, <1>3, <1>5, <1>7, <1>8, <1>9 DEF event

\* A step of the system is a step of the reader, or none.
LEMMA ReaderStep ==
    ASSUME WatchInv, WatchInv', [Next]_vars
    PROVE  [Reader!Next]_(Reader!vars)
<1>n. /\ resume \in Nat /\ Version \in Nat /\ (start # NoTimestamp => resume >= 1)
      /\ resume' \in Nat /\ resume' - 1 <= Version'
  <2>1. start' \in Nat /\ Version' \in Nat /\ resume' \in start'..Zookie(Version')
    BY PastKept DEF WatchInv, Placed, NoTimestamp, Zookie
  <2>2. resume' \in Nat /\ resume' - 1 <= Version'
    BY <2>1, Within DEF Zookie
  <2> QED
    BY <2>2, Bounds
<1>h. /\ Reader!Commit <=> /\ Len(History') = Len(History) + 1
                           /\ SubSeq(History', 1, Len(History)) = History
                           /\ UNCHANGED <<ReaderAt, ReaderGiven>>
      /\ Reader!Start <=> /\ ReaderAt = -1
                          /\ ReaderAt' \in 0..Len(History)
                          /\ UNCHANGED <<History, ReaderGiven>>
      /\ Reader!Advance <=>
           /\ ReaderAt # -1
           /\ ReaderAt' \in (ReaderAt + 1)..Len(History)
           /\ \A v \in (ReaderAt + 1)..(ReaderAt' - 1) : History[v] = {}
           /\ ReaderGiven' = Append(ReaderGiven, History[ReaderAt'])
           /\ UNCHANGED History
      /\ UNCHANGED Reader!vars <=> UNCHANGED <<History, ReaderAt, ReaderGiven>>
  <2>1. Reader!Commit <=> /\ Len(History') = Len(History) + 1
                           /\ SubSeq(History', 1, Len(History)) = History
                           /\ UNCHANGED <<ReaderAt, ReaderGiven>>
    BY DEF Reader!Commit, History
  <2>2. Reader!Start <=> /\ ReaderAt = -1
                          /\ ReaderAt' \in 0..Len(History)
                          /\ UNCHANGED <<History, ReaderGiven>>
    BY DEF Reader!Start, Reader!NotReading, History
  <2>3. Reader!Advance <=>
           /\ ReaderAt # -1
           /\ ReaderAt' \in (ReaderAt + 1)..Len(History)
           /\ \A v \in (ReaderAt + 1)..(ReaderAt' - 1) : History[v] = {}
           /\ ReaderGiven' = Append(ReaderGiven, History[ReaderAt'])
           /\ UNCHANGED History
    BY DEF Reader!Advance, Reader!NotReading, History
  <2>4. UNCHANGED Reader!vars <=> UNCHANGED <<History, ReaderAt, ReaderGiven>>
    BY DEF Reader!vars, History
  <2> QED
    BY <2>1, <2>2, <2>3, <2>4
<1>1. CASE UNCHANGED <<start, resume, delivered>>
  <2>1. UNCHANGED <<ReaderAt, ReaderGiven>>
    BY <1>1 DEF ReaderAt, ReaderGiven
  <2> QED
    BY <2>1, <1>h, HistoryGrows DEF WatchInv, Reader!Next
<1>2. ASSUME NEW ts \in Nat, ts # NoTimestamp, start = NoTimestamp, resume' = ts, start' = ts,
             UNCHANGED <<delivered, log>>
      PROVE  Reader!Start
  <2>1. ReaderAt = -1 /\ ReaderAt' = ts - 1 /\ UNCHANGED ReaderGiven
    BY <1>2 DEF ReaderAt, ReaderGiven
  <2>2. UNCHANGED History /\ Version' = Version
    BY <1>2 DEF History, Version
  <2>3. ts - 1 \in 0..Version
    <3>1. ts - 1 <= Version
      BY <1>2, <2>2, <1>n
    <3>2. Version \in Nat
      BY <1>n
    <3> HIDE DEF Version
    <3> QED
      BY <1>2, <3>1, <3>2 DEF NoTimestamp
  <2> QED
    BY <1>h, <2>1, <2>2, <2>3, HistoryShape DEF WatchInv
<1>3. CASE Recv /\ watchEventFromProto(Head(queue)) # Error
  <2> DEFINE event == watchEventFromProto(Head(queue))
             m     == Len(delivered)
  <2>1. /\ start # NoTimestamp /\ start' = start /\ log' = log
        /\ resume' - 1 \in resume..Version
        /\ \A v \in resume..(resume' - 2) : UpdatesOf(log[v]) = {}
        /\ delivered' = Append(delivered, event)
        /\ Resent(event.updates) = UpdatesOf(log[resume' - 1])
    BY <1>3, RecvTakes DEF Recv, Still, Rest
  <2> HIDE DEF event
  <2>2. /\ resume \in Nat /\ resume >= 1 /\ Version \in Nat /\ resume' \in Nat
    BY <2>1, <1>n
  <2>3. UNCHANGED History /\ Len(History) = Version
        /\ \A v \in 1..Version : History[v] = UpdatesOf(log[v])
    BY <2>1, HistoryShape DEF WatchInv, History
  <2>4. ReaderAt = resume - 1 /\ ReaderAt' = resume' - 1
    BY <2>1 DEF ReaderAt
  <2> HIDE DEF Version
  <2>5. ReaderAt # -1 /\ ReaderAt + 1 = resume /\ ReaderAt' - 1 = resume' - 2
        /\ ReaderAt' \in resume..Version /\ ReaderAt' \in 1..Version
    <3>1. resume - 1 < resume' - 1 /\ resume' - 1 \in 1..Version /\ resume - 1 # -1
      BY <2>1, <2>2, Between
    <3> QED
      BY <2>1, <2>2, <2>4, <3>1, Following
  <2>6. \A v \in resume..(resume' - 2) : v \in 1..Version
    BY <2>1, <2>2, Between
  <2>7. \A v \in (ReaderAt + 1)..(ReaderAt' - 1) : History[v] = {}
    BY <2>1, <2>3, <2>5, <2>6
  <2>8. ReaderGiven' = Append(ReaderGiven, History[ReaderAt'])
    <3>1. /\ m \in Nat /\ DOMAIN delivered = 1..m /\ DOMAIN delivered' = 1..(m + 1)
          /\ \A i \in 1..m : delivered'[i] = delivered[i]
          /\ delivered'[m + 1] = event
      BY <2>1, Bounds DEF WatchInv, Placed
    <3>2. ReaderGiven = [i \in 1..m |-> Resent(delivered[i].updates)]
      BY <3>1 DEF ReaderGiven
    <3>3. ReaderGiven' = [i \in 1..(m + 1) |-> Resent(delivered'[i].updates)]
      BY <3>1 DEF ReaderGiven, Resent
    <3>4. Resent(delivered'[m + 1].updates) = History[ReaderAt']
      BY <2>1, <2>3, <2>4, <2>5, <3>1
    <3> HIDE DEF m
    <3>5. Len(ReaderGiven) = m
      BY <3>1, <3>2
    <3>6. Append(ReaderGiven, History[ReaderAt']) =
            [i \in 1..(m + 1) |-> IF i = m + 1 THEN History[ReaderAt'] ELSE ReaderGiven[i]]
      BY <3>1, <3>2, <3>5
    <3> QED
      BY <3>1, <3>2, <3>3, <3>4, <3>6
  <2> QED
    BY <1>h, <2>3, <2>5, <2>7, <2>8 DEF Reader!Next
<1>4. CASE Consume
  <2>1. ASSUME NEW ts \in StartTimestamps \cup {resume}, Watch(ts),
               ~UNCHANGED <<start, resume, delivered>>
        PROVE  Reader!Start
    <3>1. /\ ts # NoTimestamp /\ resume' = ts /\ UNCHANGED <<delivered, log>>
          /\ start' = IF start = NoTimestamp THEN ts ELSE start
          /\ start # NoTimestamp => ts = resume
      BY <2>1 DEF Watch, watchVars, Still, Rest
    <3>2. start = NoTimestamp /\ start' = ts
      BY <2>1, <3>1
    <3>3. resume' \in Nat
      BY <1>n
    <3> QED
      BY <1>2, <3>1, <3>2, <3>3
  <2>2. CASE Recv /\ watchEventFromProto(Head(queue)) = Error
    BY <1>1, <2>2 DEF Recv
  <2>3. CASE RecvEnds
    BY <1>1, <2>3 DEF RecvEnds
  <2> QED
    BY <1>1, <1>3, <1>4, <2>1, <2>2, <2>3 DEF Consume, Reader!Next
<1> QED
  BY <1>1, <1>4 DEF Next, Backend, Begin, SendEvent, Send, watchVars, vars

\* The consumer of a watch implements Changelog: whatever breaks in between, it
\* is given the commits of the namespace, as they were made and in their order,
\* none twice and none left out.
THEOREM WatchIsReader == Spec => ImplementsChangelog
<1>1. WatchInit => WatchInv
  BY WatchInitial
<1>2. WatchInv /\ [Next]_vars => WatchInv'
  BY WatchInductive
<1>3. WatchInit => Reader!Init
  BY DEF WatchInit, Init, Reader!Init, Reader!NotReading, ReaderAt, ReaderGiven
<1>4. WatchInv /\ WatchInv' /\ [Next]_vars => [Reader!Next]_(Reader!vars)
  BY ReaderStep
<1> QED
  BY <1>1, <1>2, <1>3, <1>4, PTL DEF Spec, ImplementsChangelog, Reader!Spec

-----------------------------------------------------------------------------
(* Types *)

\* The backend has sent no more than there is.
LEMMA SentIsVersion ==
    ASSUME WatchInv
    PROVE  sent \in 0..Version
<1> DEFINE n == Len(queue)
<1>1. Version \in Nat /\ resume \in Nat /\ resume - 1 <= Version /\ n \in Nat
      /\ DOMAIN queue = 1..n
  BY Bounds
<1>2. CASE stream = "none"
  BY <1>1, <1>2 DEF WatchInv, Placed
<1>3. CASE stream = "open" /\ n = 0
  <2>1. start # NoTimestamp
    BY <1>3 DEF WatchInv, Placed
  <2>2. resume >= 1 /\ sent = resume - 1
    BY <1>3, <2>1, Bounds DEF WatchInv, Chained, At
  <2> HIDE DEF Version
  <2> QED
    BY <1>1, <2>2
<1>4. CASE stream = "open" /\ n # 0
  <2>1. n \in DOMAIN queue /\ sent = At(n)
    BY <1>1, <1>4 DEF WatchInv, Chained
  <2>2. At(n) \in 1..Version
    BY <2>1 DEF WatchInv, Chained
  <2> QED
    BY <2>1, <2>2
<1> QED
  BY <1>2, <1>3, <1>4 DEF WatchInv, Placed

\* Whatever the program is given, what it sends and what the backend sends it
\* are messages of proto/iam.pb.go, nothing that could not be converted is among
\* them, and every zookie is one of a version there is.
THEOREM ClientTypeCorrect == Spec => []TypeOK
<1>1. WatchInit => WatchInv /\ Messages
  <2>1. WatchInit => Messages
    <3>1. WatchInit => dialled = FALSE /\ ~Asked
      BY DEF WatchInit, Init, Asked, Answered, NoAnswer
    <3> QED
      BY <3>1 DEF Messages
  <2> QED
    BY <2>1, WatchInitial
<1>2. WatchInv /\ Messages /\ [Next]_vars => WatchInv' /\ Messages'
  <2>1. WatchInv => Shape
    BY DEF WatchInv
  <2> QED
    BY <2>1, WatchInductive, MessagesInductive
<1>3. ASSUME WatchInv, Committed, Messages
      PROVE  TypeOK
  <2>1. /\ \A i \in DOMAIN log : log[i].req \in WriteRequests
        /\ \A write \in adrift : write.req \in WriteRequests
        /\ held \in NoTimestamp..Zookie(Version)
        /\ mine \in 0..Version /\ kept \in BOOLEAN
    <3>1. \A w \in OwnWrites \cup ForeignWrites : w.req \in WriteRequests
      BY DEF OwnWrites, ForeignWrites
    <3>2. \A i \in DOMAIN log : log[i] \in OwnWrites \cup ForeignWrites
      BY <1>3 DEF WatchInv, Shape
    <3>3. adrift \subseteq OwnWrites
      BY <1>3 DEF WatchInv, Shape
    <3> QED
      BY <1>3, <3>1, <3>2, <3>3 DEF WatchInv, Shape
  <2>2. Asked => /\ ReadResponse(answer.at, answer.req) \in ReadResponses
                 /\ ExpandResponse(answer.at, answer.req) \in ExpandResponses
    BY <1>3, AnswersAreMessages DEF Messages
  <2>3. /\ stream \in {"none", "open"}
        /\ sent \in 0..Version
        /\ \A i \in DOMAIN queue : queue[i] \in WatchResponses
        /\ \A i \in DOMAIN delivered : delivered[i] \in WatchEvents
        /\ {start, resume} \subseteq NoTimestamp..Zookie(Version)
    <3>1. sent \in 0..Version
      BY <1>3, SentIsVersion
    <3>2. start \in NoTimestamp..Zookie(Version) /\ resume \in start..Zookie(Version)
      BY <1>3 DEF WatchInv, Placed
    <3>3. resume \in NoTimestamp..Zookie(Version)
      <4>1. start \in Nat /\ resume \in Nat
        BY <1>3, Bounds
      <4> QED
        BY <3>2, <4>1 DEF NoTimestamp
    <3> QED
      BY <1>3, <3>1, <3>2, <3>3 DEF WatchInv, Placed
  <2>4. dialled \in BOOLEAN
    BY <1>3 DEF Messages
  <2>5. Asked => answer.req \in CheckRequests \cup ListRequests \cup ReadRequests
                     \cup ExpandRequests \cup ContentChangeCheckRequests
    BY <1>3 DEF Messages
  <2> QED
    BY <2>1, <2>2, <2>3, <2>4, <2>5 DEF TypeOK
<1> QED
  BY <1>1, <1>2, <1>3, CommittedInvariant, PTL DEF Spec

-----------------------------------------------------------------------------
(* Arguments *)

\* The last text that was read was an argument, read as parseSubject or as
\* ParseUserId does.
Parsed ==
    /\ answer.op = "parse" =>
         answer.text \in ArgumentTexts /\ answer.result = parseSubject(answer.text)
    /\ answer.op = "parseUser" =>
         answer.text \in ArgumentTexts /\ answer.result = ParseUserId(answer.text)

\* A call answers a call.
LEMMA AsksParseNothing ==
    ASSUME Asks \/ Learns
    PROVE  answer'.op \notin {"parse", "parseUser"}
<1> DEFINE answers(op) == Fail(op) \/ \E req, t, v, result : Answer(op, req, t, v, result)
<1>0. ASSUME NEW op, op \notin {"parse", "parseUser"}, answers(op)
      PROVE  answer'.op \notin {"parse", "parseUser"}
  BY <1>0 DEF Fail, Answer
<1>1. ASSUME NEW q, NEW ts, CheckWithTimestamp(q, ts)
      PROVE  answer'.op \notin {"parse", "parseUser"}
  <2>1. answers("check") \/ \E r : answer' = [op |-> "impossible", result |-> r]
    BY <1>1, Zenon DEF CheckWithTimestamp
  <2> HIDE DEF answers
  <2> QED
    BY <1>0, <2>1
<1>2. ASSUME NEW q, NEW ts, ListWithTimestamp(q, ts)
      PROVE  answer'.op \notin {"parse", "parseUser"}
  <2>1. answers("list")
    BY <1>2, Zenon DEF ListWithTimestamp
  <2> HIDE DEF answers
  <2> QED
    BY <1>0, <2>1
<1>3. ASSUME NEW q, NEW ts, ExpandWithTimestamp(q, ts)
      PROVE  answer'.op \notin {"parse", "parseUser"}
  <2>1. answers("expand")
    BY <1>3, Zenon DEF ExpandWithTimestamp
  <2> HIDE DEF answers
  <2> QED
    BY <1>0, <2>1
<1>4. ASSUME NEW ts, NEW filters, ReadWithTimestamp(ts, filters)
      PROVE  answer'.op \notin {"parse", "parseUser"}
  <2>1. answers("read")
    BY <1>4, Zenon DEF ReadWithTimestamp
  <2> HIDE DEF answers
  <2> QED
    BY <1>0, <2>1
<1>5. ASSUME NEW q, List(q) \/ ContentChangeCheck(q)
      PROVE  answer'.op \notin {"parse", "parseUser"}
  <2>1. answers("list") \/ answers("contentChangeCheck")
    BY <1>5, Zenon DEF List, ContentChangeCheck
  <2> HIDE DEF answers
  <2> QED
    BY <1>0, <2>1
<1> QED
  BY <1>1, <1>2, <1>3, <1>4, <1>5
     DEF Asks, Learns, Check, ListResult, Expand, GetAll, GetAllRel, ReadBySubject, Read

\* Nothing but reading an argument answers as if one had been read.
LEMMA ParsedInductive ==
    ASSUME Shape, Parsed, [Next]_vars
    PROVE  Parsed'
<1>1. CASE Backend \/ Begin
  <2>1. ASSUME NEW text \in Texts, ParseArgs(text) \/ ParseUserArg(text)
        PROVE  Parsed'
    BY <2>1, ClientAssumption DEF ParseArgs, ParseUserArg, Parsed
  <2> QED
    BY <1>1, <2>1 DEF Backend, ForeignWrite, Land, Proceed, Begin, Connect, NoAnswer, Parsed
<1>2. CASE Asks \/ Learns
  BY <1>2, AsksParseNothing DEF Parsed
<1>3. CASE Writes
  <2>1. PICK add \in SUBSET GoTuples, del \in SUBSET GoTuples,
             precondition \in Nat \cup {NoPrecondition} : Write(add, del, precondition)
    BY <1>3, WritesStep
  <2>2. \E result : answer' = [op |-> "write", result |-> result]
    BY <2>1, Zenon DEF Write, Fail
  <2> QED
    BY <2>2 DEF Parsed
<1>4. CASE SendEvent
  BY <1>4 DEF SendEvent, Send, Parsed
<1>5. CASE Consume
  BY <1>5 DEF Consume, Watch, Recv, RecvEnds, Fail, Parsed
<1>6. CASE UNCHANGED vars
  BY <1>6 DEF vars, clientVars, Parsed
<1> QED
  BY <1>1, <1>2, <1>3, <1>4, <1>5, <1>6 DEF Next

\* What each of the three kinds of texts is read as is what it is written for.
LEMMA SubjectReadBack ==
    ASSUME answer.op = "parse", Parsed
    PROVE  ParsesBack
<1> DEFINE text == answer.text
           sub  == answer.result
<1>0. SUFFICES ASSUME text \in ArgumentTexts, sub = parseSubject(text)
               PROVE  ParsesBack
  BY DEF Parsed
<1> HIDE DEF text, sub
<1>1. \A n : /\ UserId(n).kind = "userId" /\ UserId(n).id = n
             /\ UserId(n) # AllUsers /\ UserId(n) # AuthenticatedUsers /\ UserId(n) # Error
             /\ n > 0 => Proper(UserId(n))
  BY DEF UserId, AllUsers, AuthenticatedUsers, Wildcard, Error, Proper
<1>2. ASSUME text \in {AllUsersText, AuthenticatedUsersText}
      PROVE  ParsesBack
  <2>1. /\ Len(text) = 1 /\ DOMAIN text = 1..1
        /\ text[1] \in {Base + 3, Base + 4}
        /\ (text = AllUsersText <=> text[1] = Base + 3)
        /\ (text = AuthenticatedUsersText <=> text[1] = Base + 4)
    BY <1>2, IdAssumption DEF AllUsersText, AuthenticatedUsersText
  <2>2. /\ sub \in {AllUsers, AuthenticatedUsers}
        /\ (text = AllUsersText <=> sub = AllUsers)
        /\ (text = AuthenticatedUsersText <=> sub = AuthenticatedUsers)
    BY <1>0, <1>2, <2>1, IdAssumption DEF parseSubject, AllUsers, AuthenticatedUsers, Wildcard
  <2>3. ASSUME NEW n \in 1..MaxId
        PROVE  text # Numeral[n]
    <3>1. n \in 0..MaxId
      BY IdAssumption
    <3>2. Numeral[n] \in Seq(Digits)
      BY <3>1, NumeralRead
    <3>3. \A d \in Digits : d # Base + 3 /\ d # Base + 4
      BY IdAssumption DEF Digits
    <3> QED
      BY <2>1, <3>2, <3>3
  <2>4. sub.kind = "wildcard" /\ Proper(sub)
    BY <2>2 DEF AllUsers, AuthenticatedUsers, Wildcard, Proper
  <2>5. \A i \in DOMAIN text : text[i] # Hash
    BY <2>1, IdAssumption DEF Hash
  <2>6. \A n : sub # UserId(n)
    BY <2>4, <1>1
  <2> QED
    BY <2>2, <2>3, <2>4, <2>5, <2>6 DEF ParsesBack, text, sub
<1>3. ASSUME text \in Seq(Chars)
      PROVE  /\ text # AllUsersText /\ text # AuthenticatedUsersText
             /\ DOMAIN text = 1..Len(text)
  <2>1. \A i \in 1..Len(text) : text[i] \in Chars
    BY <1>3
  <2>2. /\ Base + 3 \notin Chars /\ Len(AllUsersText) = 1 /\ AllUsersText[1] = Base + 3
        /\ Base + 4 \notin Chars /\ Len(AuthenticatedUsersText) = 1
        /\ AuthenticatedUsersText[1] = Base + 4
    BY IdAssumption DEF Chars, AllUsersText, AuthenticatedUsersText
  <2>3. ASSUME NEW name, Len(name) = 1, name[1] \notin Chars
        PROVE  text # name
    BY <2>1, <2>3
  <2>4. DOMAIN text = 1..Len(text)
    BY <1>3
  <2> QED
    BY <2>2, <2>3, <2>4
<1>4. ASSUME text \in Seq(Chars), ~Contains(text, Hash)
      PROVE  ParsesBack
  <2>1. /\ \A n \in 1..MaxId : text = Numeral[n] <=> sub = UserId(n)
        /\ sub \in {UserId(n) : n \in 1..MaxId} \cup {Error}
    BY <1>0, <1>4, NumberRead, UserIdRead
  <2>2. /\ sub.kind = "userId" => sub.id \in 1..MaxId
        /\ sub.kind # "userSet" /\ sub # AllUsers /\ sub # AuthenticatedUsers
        /\ sub # Error => Proper(sub)
    BY <1>1, <2>1, IdAssumption DEF Error, AllUsers, AuthenticatedUsers, Wildcard
  <2>3. \A i \in DOMAIN text : text[i] # Hash
    BY <1>3, <1>4 DEF Contains
  <2> QED
    BY <1>3, <1>4, <2>1, <2>2, <2>3 DEF ParsesBack, text, sub
<1>5. ASSUME text \in Seq(Chars), Contains(text, Hash)
      PROVE  ParsesBack
  <2>1. /\ \/ sub = Error
           \/ \E ns, obj, rel : /\ sub = UserSet(ns, obj, rel)
                                /\ text = ns \o <<Colon>> \o obj \o <<Hash>> \o rel
                                /\ ~Contains(ns, Colon) /\ ~Contains(obj, Hash)
        /\ \A i, j \in DOMAIN text :
             text[i] = Colon /\ text[j] = Hash /\ i < j => sub # Error
    <3>1. /\ \/ parseSubject(text) = Error
             \/ \E ns, obj, rel : /\ parseSubject(text) = UserSet(ns, obj, rel)
                                  /\ text = ns \o <<Colon>> \o obj \o <<Hash>> \o rel
                                  /\ ~Contains(ns, Colon) /\ ~Contains(obj, Hash)
          /\ \A i, j \in DOMAIN text :
               text[i] = Colon /\ text[j] = Hash /\ i < j => parseSubject(text) # Error
      BY <1>5, UserSetRead, Zenon
    <3> QED
      BY <1>0, <3>1
  <2>2. /\ /\ sub.kind \in {"error", "userSet"}
           /\ sub # AllUsers /\ sub # AuthenticatedUsers
        /\ (sub.kind = "error" <=> sub = Error)
        /\ sub.kind = "userSet" =>
             /\ text = sub.ns \o <<Colon>> \o sub.obj \o <<Hash>> \o sub.rel
             /\ ~Contains(sub.ns, Colon) /\ ~Contains(sub.obj, Hash)
        /\ sub # Error => Proper(sub)
    <3>1. CASE sub = Error
      BY <3>1 DEF Error, AllUsers, AuthenticatedUsers, Wildcard
    <3>2. ASSUME NEW ns, NEW obj, NEW rel, sub = UserSet(ns, obj, rel),
                 text = ns \o <<Colon>> \o obj \o <<Hash>> \o rel,
                 ~Contains(ns, Colon), ~Contains(obj, Hash)
          PROVE  <2>2!1 /\ <2>2!2 /\ <2>2!3 /\ <2>2!4
      <4>1. /\ sub.kind = "userSet" /\ sub.ns = ns /\ sub.obj = obj /\ sub.rel = rel
        BY <3>2 DEF UserSet
      <4>2. sub # Error /\ sub # AllUsers /\ sub # AuthenticatedUsers
        BY <4>1 DEF Error, AllUsers, AuthenticatedUsers, Wildcard
      <4> QED
        BY <3>2, <4>1, <4>2 DEF Proper
    <3> QED
      BY <2>1, <3>1, <3>2
  <2>3. ASSUME NEW n \in 1..MaxId
        PROVE  text # Numeral[n] /\ sub # UserId(n)
    <3>1. n \in 0..MaxId
      BY IdAssumption
    <3>2. Numeral[n] \in Seq(Digits)
      BY <3>1, NumeralRead
    <3>3. Hash \notin Digits
      BY IdAssumption DEF Digits, Hash
    <3>4. text # Numeral[n]
      BY <1>5, <3>2, <3>3 DEF Contains
    <3> QED
      BY <1>1, <2>2, <3>4
  <2> QED
    BY <1>3, <1>5, <2>1, <2>2, <2>3 DEF ParsesBack, text, sub
<1> QED
  BY <1>0, <1>2, <1>4, <1>5 DEF ArgumentTexts

\* Where an id is asked for only the numeral of one is read, and a text with
\* another character in it is none.
LEMMA UserReadBack ==
    ASSUME Parsed, answer.op = "parseUser"
    PROVE  ParsesBack
<1> DEFINE text == answer.text
           sub  == answer.result
<1>1. answer.op = "parseUser" /\ text \in ArgumentTexts /\ sub = ParseUserId(text)
  BY DEF Parsed
<1>2. /\ \A n \in 1..MaxId : text = Numeral[n] <=> sub = UserId(n)
      /\ sub \in {UserId(n) : n \in 1..MaxId} \cup {Error}
  <2>1. CASE text \in Seq(Chars)
    BY <1>1, <2>1, UserIdRead
  <2>2. CASE text \in {AllUsersText, AuthenticatedUsersText}
    <3>1. /\ DOMAIN text = 1..1 /\ text[1] \notin Digits
          /\ sub = Error
      BY <1>1, <2>2, IdAssumption
         DEF AllUsersText, AuthenticatedUsersText, Digits, ParseUserId, isPositiveDecimal
    <3>2. ASSUME NEW n \in 1..MaxId
          PROVE  text # Numeral[n]
      <4>1. n \in 0..MaxId
        BY IdAssumption
      <4>2. Numeral[n] \in Seq(Digits)
        BY <4>1, NumeralRead
      <4> QED
        BY <3>1, <4>2
    <3>3. \A n : sub # UserId(n)
      BY <3>1 DEF Error, UserId
    <3> QED
      BY <3>1, <3>2, <3>3
  <2> QED
    BY <1>1, <2>1, <2>2 DEF ArgumentTexts
<1> HIDE DEF text, sub
<1>3. /\ sub.kind \in {"userId", "error"}
      /\ sub.kind = "userId" => sub.id \in 1..MaxId
      /\ sub # Error => Proper(sub)
  BY <1>2, IdAssumption DEF UserId, Error, Proper
<1> QED
  BY <1>1, <1>2, <1>3 DEF ParsesBack, text, sub

\* A subject is read from a text exactly if the text is how it is written: an id
\* from its numeral and from no other text, a user set from ns:obj#rel, cut at the
\* first colon and the first hash after it, each of the two wildcards from its
\* name; and everything else is refused.
THEOREM TextsReadBack == Spec => []ParsesBack
<1>1. WatchInit => Shape /\ Parsed
  <2>1. ASSUME WatchInit
        PROVE  Shape /\ Parsed
    <3>1. Shape
      BY <2>1, FresherInitial DEF Fresher
    <3>2. answer = NoAnswer
      BY <2>1 DEF WatchInit, Init
    <3> QED
      BY <3>1, <3>2 DEF Parsed, NoAnswer
  <2> QED
    BY <2>1
<1>2. Shape /\ Parsed /\ [Next]_vars => Shape' /\ Parsed'
  BY ShapeInductive, ParsedInductive
<1>3. Parsed => ParsesBack
  <2>1. answer.op \notin {"parse", "parseUser"} => ParsesBack
    BY DEF ParsesBack
  <2> QED
    BY <2>1, SubjectReadBack, UserReadBack
<1> QED
  BY <1>1, <1>2, <1>3, PTL DEF Spec
=============================================================================
