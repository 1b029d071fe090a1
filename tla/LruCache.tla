------------------------------ MODULE LruCache ------------------------------
(***************************************************************************)
(* The cache of hw04_lru_cache/cache.go: a map from keys to the items of a *)
(* linked list, whose order is that of their last use.  Every method holds *)
(* the mutex from its first line to its return: a call is one step.        *)
(***************************************************************************)
EXTENDS LinkedList

CONSTANTS
  Keys,
  Values,
  Capacities   \* the capacities caches are created with

cacheItem == [key : Keys, value : Values]

ASSUME LruAssumption ==
  /\ Capacities \subseteq Int
  /\ \A n \in Capacities : n < Cardinality(Cells)
  /\ Nil \notin cacheItem

VARIABLES
  capacity,
  queue,    \* the list
  stored,   \* the Value of each item: a *cacheItem, or Nil
  items,    \* the map: the item of each key, or Nil
  answer    \* what the last call returned

cacheVars == <<capacity, queue, stored, items, answer>>

\* Type invariant; a cache never holds more than its capacity.
CacheTypeOK ==
  /\ capacity \in Capacities
  /\ queue \in List
  /\ queue.len >= 0 /\ (queue.len > 0 => queue.len <= capacity)
  /\ stored \in [Cells -> cacheItem \cup {Nil}]
  /\ items \in [Keys -> Pointer]

NoItems == [k \in Keys |-> Nil]
NoneStored == [c \in Cells |-> Nil]

\* NewCache(capacity)
CacheInit ==
  /\ capacity \in Capacities
  /\ queue = NewList
  /\ stored = NoneStored
  /\ items = NoItems
  /\ answer = <<>>

----------------------------------------------------------------------------
(* The methods *)

\* Mutant: a read is no use of the key.
Peek(k) ==
  LET i == items[k] IN
  /\ answer' = IF i = Nil THEN <<FALSE>> ELSE <<stored[i].value, TRUE>>
  /\ UNCHANGED <<capacity, queue, stored, items>>

Get(k) ==
  LET i == items[k] IN
  /\ \/ i = Nil /\ answer' = <<FALSE>> /\ UNCHANGED queue
     \/ /\ i # Nil
        /\ queue' = MoveToFront(queue, i)
        /\ answer' = <<stored[i].value, TRUE>>
  /\ UNCHANGED <<capacity, stored, items>>

SetExisting(k, v) ==
  LET i == items[k] IN
  /\ i # Nil
  /\ stored' = [stored EXCEPT ![i].value = v]
  /\ queue' = MoveToFront(queue, i)
  /\ answer' = <<TRUE>>
  /\ UNCHANGED <<capacity, items>>

\* The item that was used the longest ago leaves the list q and the map m.
removeOldest(q, s, m) ==
  /\ queue' = RemoveItem(q, q.back)
  /\ stored' = [s EXCEPT ![q.back] = Nil]
  /\ items' = [m EXCEPT ![s[q.back].key] = Nil]

\* The new item is some cell that is in no use.
SetNew(k, v) == \E i \in Cells :
  LET q == PushFront(queue, i)
      s == [stored EXCEPT ![i] = [key |-> k, value |-> v]]
      m == [items EXCEPT ![k] = i]
  IN
  /\ items[k] = Nil
  /\ stored[i] = Nil
  /\ \/ q.len > capacity /\ removeOldest(q, s, m)
     \/ q.len <= capacity /\ queue' = q /\ stored' = s /\ items' = m
  /\ answer' = <<FALSE>>
  /\ UNCHANGED capacity

Set(k, v) == SetExisting(k, v) \/ SetNew(k, v)

Clear ==
  /\ queue' = NewList
  /\ stored' = NoneStored
  /\ items' = NoItems
  /\ answer' = <<>>
  /\ UNCHANGED capacity

CacheNext ==
  \/ \E k \in Keys : Get(k) \/ \E v \in Values : Set(k, v)
  \/ Clear

CacheSpec == CacheInit /\ [][CacheNext]_cacheVars

----------------------------------------------------------------------------
(* Properties *)

\* However items are moved and removed, the list reads the same in both
\* directions, with no item twice, and its length is right.
WellLinked == \E s \in Arrangements : Represents(queue, s)

\* The items of the list, first to last; there is one way to read it.
Order == CHOOSE s \in Arrangements : Represents(queue, s)

\* The map and the list name the same items: no key leads to an item that has
\* left the list, and no item of the list is out of reach of the map.
MapMatchesList ==
  /\ \A k \in Keys : items[k] # Nil =>
       items[k] \in Range(Order) /\ stored[items[k]].key = k
  /\ \A c \in Range(Order) : stored[c] # Nil /\ items[stored[c].key] = c

\* The invariant of the cache: the pointers of the list and the map agree, and
\* there are never more items than the capacity.
WellFormed == CacheTypeOK /\ WellLinked /\ MapMatchesList

\* The cache keeps exactly the keys used last, with the values set last, and
\* answers accordingly.
Kept == {k \in Keys : items[k] # Nil}
KeyOrder == [n \in DOMAIN Order |-> stored[Order[n]].key]
ValueOf == [k \in Kept |-> stored[items[k]].value]
Promise == INSTANCE Recency WITH order <- KeyOrder, value <- ValueOf
ImplementsRecency == Promise!Spec
=============================================================================
