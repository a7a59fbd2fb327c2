------------------------------ MODULE LruCache ------------------------------
(***************************************************************************)
(* The bounded least-recently-used cache of src/session.go (lruCache): a   *)
(* doubly linked list of keys, most recently used first, and a map from    *)
(* each key to its entry.  Every method runs under the cache's mutex, so   *)
(* each one is a single operator from cache value to cache value.          *)
(*                                                                         *)
(*   order   the list, front first         (ll)                            *)
(*   items   entry of each key in the map  (items, item.entry)             *)
(***************************************************************************)
EXTENDS Integers, SequencesExt

newLruCache == [order |-> <<>>, items |-> <<>>]

\* What get and peek report as their second result.
Has(cache, key) == key \in DOMAIN cache.items

Entry(cache, key) == cache.items[key]

\* ll.MoveToFront, and ll.PushFront of a key that is not in the list yet.
MoveToFront(order, key) == <<key>> \o RemoveFirst(order, key)

\* get finds nothing in a cache of capacity 0, and promotes what it finds.
GetHits(cache, key, capacity) == capacity # 0 /\ Has(cache, key)

Promote(cache, key) ==
    [order |-> MoveToFront(cache.order, key), items |-> cache.items]

remove(cache, key) ==
    IF Has(cache, key)
    THEN [order |-> RemoveFirst(cache.order, key),
          items |-> [k \in DOMAIN cache.items \ {key} |-> cache.items[k]]]
    ELSE cache

\* Mutant: the evicted key stays in the map.
putLeaking(cache, key, entry, capacity) ==
    LET order == MoveToFront(cache.order, key)
    IN  IF capacity = 0 THEN cache
        ELSE [order |-> IF Len(order) > capacity THEN SubSeq(order, 1, capacity)
                                                 ELSE order,
              items |-> [k \in DOMAIN cache.items \cup {key} |->
                           IF k = key THEN entry ELSE cache.items[k]]]

\* put: overwrite or insert at the front, then drop from the back while the
\* list is longer than the capacity.
put(cache, key, entry, capacity) ==
    LET order   == MoveToFront(cache.order, key)
        kept    == SubSeq(order, 1, capacity)
        evicted == ToSet(SubSeq(order, capacity + 1, Len(order)))
        held    == (DOMAIN cache.items \cup {key}) \ evicted
    IN  IF capacity = 0 THEN cache
        ELSE [order |-> IF Len(order) > capacity THEN kept ELSE order,
              items |-> [k \in held |-> IF k = key THEN entry ELSE cache.items[k]]]

\* The list and the map hold the same keys, each once, within the capacity.
Coherent(cache, capacity) ==
    /\ \A i, j \in DOMAIN cache.order : cache.order[i] = cache.order[j] => i = j
    /\ ToSet(cache.order) = DOMAIN cache.items
    /\ Len(cache.order) <= capacity
=============================================================================
