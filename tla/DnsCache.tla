------------------------------ MODULE DnsCache ------------------------------
(***************************************************************************)
(* The response cache of the DNS handler (src/src/dns/cache.rs): an LRU    *)
(* map from questions to answers, each with the time it has left.  The     *)
(* mutex makes every method one step.  Time is counted in units of a       *)
(* second and relative: left is the time to expires_at, rounded up, and an *)
(* entry with nothing left has expired.                                    *)
(***************************************************************************)
EXTENDS LruList

CONSTANTS
  Keys,      \* the questions: lower-cased name and type
  Capacity,  \* of the LRU cache
  MinTtl,    \* the TTL an entry is stored for is clamped to MinTtl..MaxTtl
  MaxTtl,
  NoEntry

VARIABLES
  lru,       \* the keys of the cache, least recently used first
  entry      \* entry[k]: [ans, left] of a cached key, or NoEntry

cacheVars == <<lru, entry>>

ASSUME CacheAssumption ==
  /\ Capacity \in Nat \ {0}
  /\ MinTtl \in Nat /\ MaxTtl \in Nat /\ MinTtl <= MaxTtl

CacheInit ==
  /\ lru = <<>>
  /\ entry = [k \in Keys |-> NoEntry]

\* Mutant: the TTL is only kept from being too short.
ClampBelow(ttl) == IF ttl < MinTtl THEN MinTtl ELSE ttl

\* u32::clamp(min_ttl, max_ttl).
Clamp(ttl) == IF ttl < MinTtl THEN MinTtl ELSE IF ttl > MaxTtl THEN MaxTtl ELSE ttl

Cached(k) == k \in ToSet(lru)
Fresh(k) == Cached(k) /\ entry[k].left > 0

\* What is left of the entries when the keys of l are still there.
Kept(l, e) == [k \in Keys |-> IF k \in ToSet(l) THEN e[k] ELSE NoEntry]

\* get() of a fresh entry: it is touched, and the TTL that goes with the
\* copy is the whole seconds that remain.
CacheHit(k, ttl) ==
  /\ Fresh(k)
  /\ ttl \in {entry[k].left - 1, entry[k].left}
  /\ lru' = LruGet(lru, k)
  /\ UNCHANGED entry

\* get() of an absent key changes nothing; of an expired one, drops it.
CacheMiss(k) ==
  /\ ~Fresh(k)
  /\ lru' = LruPop(lru, k)
  /\ entry' = Kept(lru', entry)

\* Mutant: nothing is pushed out of a full cache.
CacheInsertGrows(k, a, ttl) ==
  /\ lru' = Append(LruPop(lru, k), k)
  /\ entry' = Kept(lru', [entry EXCEPT ![k] = [ans |-> a, left |-> Clamp(ttl)]])

\* insert(): the new entry is the most recently used, and may push the
\* least recently used one out.
CacheInsert(k, a, ttl) ==
  /\ lru' = LruPut(lru, k, Capacity)
  /\ entry' = Kept(lru', [entry EXCEPT ![k] = [ans |-> a, left |-> Clamp(ttl)]])

\* remove(), clear() and cleanup_expired() forget a set of keys; the others
\* keep their order.
CacheForget(K) ==
  /\ \E l \in SetToSeqs(ToSet(lru) \ K) :
       /\ \A i, j \in DOMAIN l : i < j => LruPosition(lru, l[i]) < LruPosition(lru, l[j])
       /\ lru' = l
  /\ entry' = Kept(lru', entry)

CacheRemove(k) == Cached(k) /\ CacheForget({k})
CacheClear == lru # <<>> /\ CacheForget(ToSet(lru))
CacheCleanup ==
  LET expired == {k \in ToSet(lru) : entry[k].left = 0}
  IN  expired # {} /\ CacheForget(expired)

\* A second passes; older[k] is the answer under k a second later.
CacheAge(older) ==
  /\ entry' = [k \in Keys |->
       IF ~Cached(k) THEN NoEntry
       ELSE [ans |-> older[k],
             left |-> IF entry[k].left = 0 THEN 0 ELSE entry[k].left - 1]]
  /\ UNCHANGED lru
-----------------------------------------------------------------------------
\* The map holds at most Capacity entries, in an order that names each of them
\* once: get, insert, expiry and cleanup in any order leave neither an entry
\* that can never be evicted nor a place in the order without an entry.
CacheIsLru ==
  /\ Len(lru) <= Capacity
  /\ \A i, j \in 1..Len(lru) : lru[i] = lru[j] => i = j
  /\ \A k \in Keys : Cached(k) <=> entry[k] # NoEntry
=============================================================================
