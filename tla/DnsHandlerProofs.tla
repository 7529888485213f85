-------------------------- MODULE DnsHandlerProofs --------------------------
(***************************************************************************)
(* Proofs about DnsHandler, for any tasks, clients, names, upstreams,      *)
(* timeouts and size of the cache: its inductive invariant, and the safety *)
(* properties of its run that follow from it.                              *)
(***************************************************************************)
EXTENDS DnsHandler, SequenceLemmas

LEMMA ConstantFacts ==
  /\ Capacity \in Nat \ {0} /\ MinTtl \in Nat /\ MaxTtl \in Nat /\ MinTtl <= MaxTtl
  /\ Len(Upstreams) \in Nat \ {0} /\ Timeout \in Nat \ {0}
  /\ Longest \in Nat
  /\ Keys = Names \X Types
<1>1. /\ Len(Upstreams) \in Nat \ {0} /\ Timeout \in Nat \ {0}
      /\ Keys = Names \X Types
  BY HandlerAssumption
<1>2. Longest \in Nat
  BY <1>1 DEF Longest
<1> QED
  BY <1>1, <1>2, CacheAssumption

(* What is known of a cache whose list becomes l, and whose entries under  *)
(* the keys of l become those of e.                                        *)
LEMMA KeptKeepsCacheInv ==
  ASSUME NEW l \in Seq(Keys), IsInjective(l), Len(l) <= Capacity, lru' = l,
         NEW e, entry' = Kept(l, e),
         \A k \in Keys : k \in ToSet(l) => EntryInv(k, e[k])
  PROVE  CacheInv'
<1>1. /\ entry' = [k \in Keys |-> entry'[k]]
      /\ \A k \in Keys : entry'[k] = IF k \in ToSet(l) THEN e[k] ELSE NoEntry
  BY DEF Kept
<1>2. \A k \in Keys : Cached(k)' <=> k \in ToSet(l)
  BY DEF Cached
<1>3. \A k \in Keys : EntryInv(k, entry[k])' <=> EntryInv(k, entry'[k])
  BY DEF EntryInv, FakeKey
<1>4. \A k \in Keys : (IF Cached(k) THEN EntryInv(k, entry[k]) ELSE entry[k] = NoEntry)'
  BY <1>1, <1>2, <1>3
<1> QED
  BY <1>1, <1>4 DEF CacheInv

LEMMA CacheInvFacts ==
  ASSUME CacheInv
  PROVE  /\ lru \in Seq(Keys) /\ IsInjective(lru) /\ Len(lru) <= Capacity
         /\ entry = [k \in Keys |-> entry[k]]
         /\ \A k \in Keys : k \in ToSet(lru) => EntryInv(k, entry[k])
         /\ \A k \in Keys : k \notin ToSet(lru) => entry[k] = NoEntry
BY DEF CacheInv, Cached

LEMMA CacheUnchanged ==
  ASSUME CacheInv, UNCHANGED cacheVars
  PROVE  CacheInv'
BY DEF CacheInv, cacheVars, Cached, EntryInv, FakeKey

LEMMA CacheHitKeeps ==
  ASSUME CacheInv, NEW k \in Keys, NEW ttl, CacheHit(k, ttl)
  PROVE  CacheInv' /\ EntryInv(k, entry[k]) /\ ttl <= entry[k].left /\ ttl \in Int
<1>1. /\ lru' = LruGet(lru, k) /\ entry' = entry
      /\ k \in ToSet(lru)
      /\ ttl \in {entry[k].left - 1, entry[k].left}
  BY DEF CacheHit, Fresh, Cached
<1>2. /\ LruGet(lru, k) \in Seq(Keys) /\ ToSet(LruGet(lru, k)) = ToSet(lru)
      /\ IsInjective(LruGet(lru, k)) /\ Len(LruGet(lru, k)) <= Capacity
  BY CacheInvFacts, LruGetKeys
<1>3. entry' = Kept(LruGet(lru, k), entry)
  BY <1>1, <1>2, CacheInvFacts DEF Kept
<1>4. CacheInv'
  BY <1>1, <1>2, <1>3, CacheInvFacts, KeptKeepsCacheInv
<1>5. EntryInv(k, entry[k])
  BY <1>1, CacheInvFacts
<1>6. entry[k].left \in Nat
  BY <1>5, ConstantFacts DEF EntryInv
<1> QED
  BY <1>1, <1>4, <1>5, <1>6

LEMMA CacheMissKeeps ==
  ASSUME CacheInv, NEW k \in Keys, CacheMiss(k)
  PROVE  CacheInv'
<1>1. lru' = LruPop(lru, k) /\ entry' = Kept(LruPop(lru, k), entry)
  BY DEF CacheMiss
<1>2. /\ LruPop(lru, k) \in Seq(Keys) /\ ToSet(LruPop(lru, k)) \subseteq ToSet(lru)
      /\ IsInjective(LruPop(lru, k)) /\ Len(LruPop(lru, k)) <= Capacity
  <2>1. /\ LruPop(lru, k) \in Seq(Keys) /\ ToSet(LruPop(lru, k)) = ToSet(lru) \ {k}
        /\ IsInjective(LruPop(lru, k))
        /\ Len(LruPop(lru, k)) = IF k \in ToSet(lru) THEN Len(lru) - 1 ELSE Len(lru)
    BY CacheInvFacts, LruPopKeys
  <2>2. Len(lru) \in Nat /\ Len(lru) <= Capacity /\ Capacity \in Nat
    BY CacheInvFacts, ConstantFacts
  <2> QED
    BY <2>1, <2>2
<1> QED
  BY <1>1, <1>2, CacheInvFacts, KeptKeepsCacheInv

(* Whatever the TTL, an entry is not stored for longer than its answer has *)
(* to live.                                                                *)
LEMMA CacheInsertKeeps ==
  ASSUME CacheInv, NEW k \in Keys, NEW a \in UpstreamAnswer, NEW ttl \in Nat,
         a.of = k, ~FakeKey(k), a.life = (IF ttl < MinTtl THEN MinTtl ELSE ttl),
         CacheInsert(k, a, ttl)
  PROVE  CacheInv'
<1> DEFINE l == LruPut(lru, k, Capacity)
           e == [entry EXCEPT ![k] = [ans |-> a, left |-> Clamp(ttl)]]
<1>1. lru' = l /\ entry' = Kept(l, e)
  BY DEF CacheInsert
<1>2. /\ l \in Seq(Keys) /\ ToSet(l) \subseteq ToSet(lru) \cup {k}
      /\ IsInjective(l) /\ Len(l) <= Capacity
  BY CacheInvFacts, ConstantFacts, LruPutKeys
<1>3. Clamp(ttl) \in 0..MaxTtl /\ Clamp(ttl) <= a.life
  BY ConstantFacts DEF Clamp
<1>4. \A j \in Keys : j \in ToSet(l) => EntryInv(j, e[j])
  <2>1. EntryInv(k, e[k])
    <3>1. e[k] = [ans |-> a, left |-> Clamp(ttl)]
      BY CacheInvFacts
    <3> HIDE DEF e
    <3> QED
      BY <1>3, <3>1 DEF EntryInv
  <2>2. \A j \in Keys : j # k => e[j] = entry[j]
    BY CacheInvFacts
  <2> HIDE DEF e, l
  <2> QED
    BY <1>2, <2>1, <2>2, CacheInvFacts
<1> HIDE DEF e, l
<1> QED
  BY <1>1, <1>2, <1>4, KeptKeepsCacheInv

LEMMA CacheForgetKeeps ==
  ASSUME CacheInv, NEW K, CacheForget(K)
  PROVE  CacheInv'
<1>1. PICK l \in SetToSeqs(ToSet(lru) \ K) : lru' = l /\ entry' = Kept(l, entry)
  BY DEF CacheForget
<1>2. /\ IsFiniteSet(ToSet(lru)) /\ Cardinality(ToSet(lru)) = Len(lru)
  BY CacheInvFacts, LruCardinality
<1>3. /\ IsFiniteSet(ToSet(lru) \ K)
      /\ Cardinality(ToSet(lru) \ K) <= Len(lru)
  BY <1>2, FS_Subset
<1>4. ToSet(lru) \ K \subseteq Keys
  BY CacheInvFacts DEF ToSet
<1>5. /\ l \in Seq(Keys) /\ ToSet(l) \subseteq ToSet(lru) \ K
      /\ IsInjective(l) /\ Len(l) = Cardinality(ToSet(lru) \ K)
  BY <1>3, <1>4, SetToSeqsKeys
<1>6. Len(l) <= Capacity
  BY <1>3, <1>5, CacheInvFacts, ConstantFacts
<1> QED
  BY <1>1, <1>5, <1>6, CacheInvFacts, KeptKeepsCacheInv

LEMMA CacheAgeKeeps ==
  ASSUME CacheInv, CacheAge([k \in ToSet(lru) |-> Older(entry[k].ans)])
  PROVE  CacheInv'
<1> DEFINE e == [k \in Keys |->
       [ans |-> Older(entry[k].ans),
        left |-> IF entry[k].left = 0 THEN 0 ELSE entry[k].left - 1]]
<1>1. lru' = lru /\ entry' = Kept(lru, e)
  BY DEF CacheAge, Kept, Cached
<1>2. \A k \in Keys : k \in ToSet(lru) => EntryInv(k, e[k])
  <2> SUFFICES ASSUME NEW k \in Keys, k \in ToSet(lru) PROVE EntryInv(k, e[k])
    OBVIOUS
  <2>1. EntryInv(k, entry[k])
    BY CacheInvFacts
  <2>2. /\ entry[k].ans \in UpstreamAnswer /\ entry[k].left \in 0..MaxTtl
        /\ entry[k].ans.life \in Nat /\ entry[k].left <= entry[k].ans.life
        /\ entry[k].ans.of = k
    BY <2>1 DEF EntryInv, UpstreamAnswer
  <2>3. /\ Older(entry[k].ans) \in UpstreamAnswer
        /\ Older(entry[k].ans).of = k
        /\ Older(entry[k].ans).life =
             IF entry[k].ans.life > 0 THEN entry[k].ans.life - 1 ELSE entry[k].ans.life
    BY <2>2 DEF Older, UpstreamAnswer, IsUpstream
  <2>4. e[k] = [ans |-> Older(entry[k].ans),
                left |-> IF entry[k].left = 0 THEN 0 ELSE entry[k].left - 1]
    OBVIOUS
  <2> HIDE DEF e
  <2> QED
    BY <2>1, <2>2, <2>3, <2>4, ConstantFacts DEF EntryInv
<1> HIDE DEF e
<1> QED
  BY <1>1, <1>2, CacheInvFacts, KeptKeepsCacheInv

-----------------------------------------------------------------------------
(***************************************************************************)
(* Steps of a task.                                                        *)
(***************************************************************************)

(* A step that leaves permissions alone need only be right for its task.   *)
LEMMA GotoKeeps ==
  ASSUME IInv, NEW t \in Tasks, NEW q, Goto(t, q), TaskInv(q), CacheInv'
  PROVE  IInv'
<1>1. /\ query' = [query EXCEPT ![t] = q]
      /\ denied' = denied /\ deniedFor' = deniedFor /\ prompt' = prompt
  BY DEF Goto
<1>2. query \in [Tasks -> Query] /\ q \in Query
  BY DEF IInv, TaskInv
<1>3. query' \in [Tasks -> Query]
  BY <1>1, <1>2
<1>4. \A u \in Tasks : TaskInv(query'[u])
  BY <1>1, <1>2 DEF IInv
<1>5. \A u \in Tasks : TaskInv(query[u])' <=> TaskInv(query'[u])
  BY <1>1 DEF TaskInv, Waited, WithinLife, FakeKey, Key, Answers, IsUpstream
<1>6. DenialInv' /\ (prompt \subseteq {Upstreams[Len(Upstreams)]})'
  BY <1>1 DEF IInv, DenialInv
<1> QED
  BY <1>3, <1>4, <1>5, <1>6 DEF IInv

LEMMA IInvFacts ==
  ASSUME IInv, NEW t \in Tasks
  PROVE  CacheInv /\ DenialInv /\ query[t] \in Query /\ TaskInv(query[t])
BY DEF IInv

LEMMA IdleFits == TaskInv(Idle)
<1>1. Idle \in Query
  BY ConstantFacts DEF Idle, Query, Answer
<1> QED
  BY <1>1 DEF TaskInv, Idle, Answers, IsUpstream

(* An answer that is no answer of an upstream and no fake one. *)
LEMMA RefusalFits ==
  ASSUME NEW q \in Query, NEW kind \in {"formerr", "nxdomain", "servfail", "garbled"},
         kind = "servfail" => prompt = {},
         kind = "garbled" /\ <<q.c, q.n>> \in denied => deniedFor[<<q.c, q.n>>] <= Longest
  PROVE  TaskInv([q EXCEPT !.pc = "reply", !.ans = Plain(kind)])
<1> DEFINE r == [q EXCEPT !.pc = "reply", !.ans = Plain(kind)]
<1>1. /\ r \in Query
      /\ r.pc = "reply" /\ r.ans = Plain(kind) /\ r.c = q.c /\ r.n = q.n
  BY DEF Query, Answer, Plain
<1>2. Plain(kind).kind = kind
  BY DEF Plain
<1> HIDE DEF r
<1>3. Waited(r) = Longest
  BY <1>1 DEF Waited
<1> QED
  <2>1. TaskInv(r)
    BY <1>1, <1>2, <1>3 DEF TaskInv, Answers, IsUpstream
  <2> QED
    BY <2>1 DEF r

LEMMA ArriveKeeps ==
  ASSUME IInv, NEW t \in Tasks, Arrive(t)
  PROVE  IInv'
<1>1. PICK a \in Asked :
        Goto(t, [Idle EXCEPT !.pc = "check", !.c = a[1], !.n = a[2], !.ty = a[3]])
  BY DEF Arrive
<1>2. a[1] \in Clients /\ a[2] \in Names /\ a[3] \in Types
  BY HandlerAssumption
<1> DEFINE q == [Idle EXCEPT !.pc = "check", !.c = a[1], !.n = a[2], !.ty = a[3]]
<1>3. /\ q \in Query
      /\ q.pc = "check" /\ q.n = a[2] /\ q.ty = a[3] /\ q.k = 0 /\ q.ans = [kind |-> "none"]
  <2>1. /\ Idle \in Query /\ Idle.k = 0 /\ Idle.ans = [kind |-> "none"]
    BY ConstantFacts DEF Idle, Query, Answer
  <2> QED
    BY <1>2, <2>1 DEF Query
<1> HIDE DEF q
<1>4. TaskInv(q)
  BY <1>2, <1>3 DEF TaskInv, Answers, IsUpstream
<1>5. CacheInv'
  BY CacheUnchanged, IInvFacts DEF Arrive
<1> QED
  BY <1>1, <1>4, <1>5, GotoKeeps DEF q

LEMMA ArriveGarbledKeeps ==
  ASSUME IInv, NEW t \in Tasks, ArriveGarbled(t)
  PROVE  IInv'
<1>1. TaskInv([query[t] EXCEPT !.pc = "reply", !.ans = Plain("formerr")])
  BY IInvFacts, RefusalFits
<1> QED
  BY <1>1, CacheUnchanged, IInvFacts, GotoKeeps DEF ArriveGarbled, Answered

LEMMA CheckKeeps ==
  ASSUME IInv, NEW t \in Tasks, Check(t)
  PROVE  IInv'
<1>1. CacheInv'
  BY CacheUnchanged, IInvFacts DEF Check
<1>2. CASE Answered(t, Plain("nxdomain"))
  <2>1. TaskInv([query[t] EXCEPT !.pc = "reply", !.ans = Plain("nxdomain")])
    BY IInvFacts, RefusalFits
  <2> QED
    BY <1>1, <1>2, <2>1, GotoKeeps DEF Answered
<1>3. CASE /\ <<query[t].c, query[t].n>> \notin denied
           /\ Goto(t, [query[t] EXCEPT !.pc = "lookup"])
  <2> DEFINE q == [query[t] EXCEPT !.pc = "lookup"]
  <2>1. /\ q \in Query
        /\ q.pc = "lookup" /\ q.c = query[t].c /\ q.n = query[t].n /\ q.ty = query[t].ty
        /\ q.k = query[t].k /\ q.ans = query[t].ans
    BY IInvFacts DEF Query
  <2>2. /\ query[t].n \in Names /\ query[t].ty \in Types
        /\ query[t].k = 0 /\ query[t].ans.kind = "none"
    BY IInvFacts DEF TaskInv, Check
  <2> HIDE DEF q
  <2>3. TaskInv(q)
    BY <1>3, <2>1, <2>2 DEF TaskInv, Answers, IsUpstream
  <2> QED
    BY <1>1, <1>3, <2>3, GotoKeeps DEF q
<1> QED
  BY <1>2, <1>3 DEF Check

LEMMA KeyIsAKey ==
  ASSUME IInv, NEW t \in Tasks, query[t].pc \in {"lookup", "ask"}
  PROVE  Key(query[t]) \in Keys
BY IInvFacts, ConstantFacts DEF TaskInv, Key

(* A task that has waited no longer than it may can answer what fits.      *)
LEMMA AnswerFits ==
  ASSUME IInv, NEW t \in Tasks, query[t].pc \in {"lookup", "ask"}, NEW a,
         \/ /\ a \in UpstreamAnswer /\ a.of = Key(query[t]) /\ ~FakeKey(Key(query[t]))
            /\ \A i \in DOMAIN a.ttls : i = 1 \/ query[t].k = 0 => a.ttls[i] <= a.life
         \/ a = Fake(query[t].n) /\ FakeKey(Key(query[t]))
         \/ a = Plain("garbled")
  PROVE  TaskInv([query[t] EXCEPT !.pc = "reply", !.ans = a])
<1> DEFINE q == query[t]
           r == [q EXCEPT !.pc = "reply", !.ans = a]
<1>1. q \in Query /\ TaskInv(q) /\ q.n \in Names /\ q.ty \in Types
  BY IInvFacts DEF TaskInv
<1>2. a \in Answer
  BY <1>1 DEF Answer, Fake, Plain
<1>3. /\ r \in Query
      /\ r.pc = "reply" /\ r.ans = a /\ r.c = q.c /\ r.n = q.n /\ r.ty = q.ty /\ r.k = q.k
  BY <1>1, <1>2 DEF Query
<1>4. Waited(q) <= Longest
  <2>1. q.k \in 0..Len(Upstreams) /\ q.timer \in 0..Timeout
    BY <1>1 DEF Query
  <2>2. q.k * Timeout <= Len(Upstreams) * Timeout
    BY <2>1, ConstantFacts
  <2>3. q.k * Timeout \in Nat
    BY <2>1, ConstantFacts
  <2> QED
    BY <2>1, <2>2, <2>3, ConstantFacts DEF Waited, Longest
<1>5. <<q.c, q.n>> \in denied => deniedFor[<<q.c, q.n>>] <= Longest
  <2> SUFFICES ASSUME <<q.c, q.n>> \in denied PROVE deniedFor[<<q.c, q.n>>] <= Longest
    OBVIOUS
  <2>1. deniedFor[<<q.c, q.n>>] <= Waited(q)
    BY <1>1 DEF TaskInv
  <2>2. deniedFor[<<q.c, q.n>>] \in Nat
    BY IInvFacts DEF DenialInv
  <2>3. Waited(q) \in Int
    BY <1>1, ConstantFacts DEF Waited, Query
  <2> QED
    BY <1>4, <2>1, <2>2, <2>3, ConstantFacts
<1>6. Key(r) = Key(q) /\ Waited(r) = Longest
  BY <1>3 DEF Key, Waited
<1>7. /\ IsUpstream(a) =>
           /\ a.of = Key(q) /\ ~FakeKey(Key(q))
           /\ \A i \in DOMAIN a.ttls : i = 1 \/ q.k = 0 => a.ttls[i] <= a.life
      /\ a.kind = "fake" => a.of = q.n /\ FakeKey(Key(q))
      /\ a.kind # "servfail"
  BY DEF UpstreamAnswer, Fake, Plain, IsUpstream
<1> HIDE DEF q, r
<1> QED
  <2>1. TaskInv(r)
    BY <1>3, <1>5, <1>6, <1>7 DEF TaskInv, WithinLife
  <2> QED
    BY <2>1 DEF q, r

LEMMA LookupHitKeeps ==
  ASSUME IInv, NEW t \in Tasks, LookupHit(t)
  PROVE  IInv'
<1> DEFINE k == Key(query[t])
<1>1. PICK ttl \in 0..MaxTtl :
        CacheHit(k, ttl) /\ Answered(t, WithTtl(entry[k].ans, ttl))
  BY DEF LookupHit
<1>2. query[t].pc = "lookup" /\ k \in Keys
  BY KeyIsAKey DEF LookupHit
<1> HIDE DEF k
<1>3. CacheInv' /\ EntryInv(k, entry[k]) /\ ttl <= entry[k].left
  BY <1>1, <1>2, CacheHitKeeps, IInvFacts
<1>4. /\ entry[k].ans \in UpstreamAnswer /\ entry[k].ans.of = k /\ ~FakeKey(k)
      /\ entry[k].left \in Nat /\ entry[k].left <= entry[k].ans.life
  BY <1>3, ConstantFacts DEF EntryInv
<1> DEFINE a == WithTtl(entry[k].ans, ttl)
<1>5. a \in UpstreamAnswer /\ a.of = k /\ \A i \in DOMAIN a.ttls : a.ttls[i] <= a.life
  <2> DEFINE old == entry[k].ans
             ttls == [i \in DOMAIN old.ttls |-> ttl]
  <2>1. ttl \in Nat /\ ttl <= old.life
    <3>1. ttl \in Nat /\ entry[k].ans.life \in Nat
      BY <1>1, <1>4, ConstantFacts DEF UpstreamAnswer
    <3> QED
      BY <1>3, <1>4, <3>1
  <2>2. ttls \in Seq(Nat) /\ \A i \in DOMAIN ttls : ttls[i] = ttl
    <3>1. old.ttls \in Seq(Nat)
      BY <1>4 DEF UpstreamAnswer
    <3> QED
      BY <2>1, <3>1
  <2>3. a = [old EXCEPT !.ttls = ttls]
    BY DEF WithTtl
  <2> HIDE DEF a, ttls, old
  <2>4. old \in UpstreamAnswer /\ old.of = k
    BY <1>4 DEF old
  <2>5. a \in UpstreamAnswer /\ a.of = k /\ a.ttls = ttls /\ a.life = old.life
    BY <2>2, <2>3, <2>4 DEF UpstreamAnswer
  <2> QED
    BY <2>1, <2>2, <2>5
<1> HIDE DEF a
<1>6. TaskInv([query[t] EXCEPT !.pc = "reply", !.ans = a])
  BY <1>2, <1>4, <1>5, AnswerFits DEF k
<1> QED
  BY <1>1, <1>3, <1>6, GotoKeeps DEF a, Answered

(* A first or a next upstream is asked. *)
LEMMA ExchangeFits ==
  ASSUME IInv, NEW t \in Tasks, query[t].pc \in {"lookup", "ask"}, ~FakeKey(Key(query[t])),
         NEW k \in 1..Len(Upstreams),
         <<query[t].c, query[t].n>> \in denied
           => deniedFor[<<query[t].c, query[t].n>>] <= (k - 1) * Timeout
  PROVE  TaskInv(Exchange(query[t], k))
<1> DEFINE q == query[t]
           r == Exchange(q, k)
<1>1. q \in Query /\ q.n \in Names /\ q.ty \in Types /\ q.ans.kind = "none"
  BY IInvFacts DEF TaskInv
<1>2. /\ r \in Query
      /\ r.pc = "ask" /\ r.k = k /\ r.timer = Timeout
      /\ r.c = q.c /\ r.n = q.n /\ r.ty = q.ty /\ r.ans = q.ans
  <2>1. k \in 0..Len(Upstreams) /\ Timeout \in 0..Timeout
    BY ConstantFacts
  <2>2. r = [q EXCEPT !.pc = "ask", !.k = k, !.timer = Timeout]
    BY DEF Exchange
  <2> HIDE DEF q, r
  <2> QED
    BY <1>1, <2>1, <2>2 DEF Query
<1>3. Waited(r) = (k - 1) * Timeout
  <2>1. Waited(r) = k * Timeout - Timeout
    BY <1>2 DEF Waited
  <2>2. (k - 1) * Timeout = k * Timeout - Timeout
    BY ConstantFacts
  <2> QED
    BY <2>1, <2>2
<1>4. Key(r) = Key(q) /\ k # 0 /\ Timeout > 0
  BY <1>2, ConstantFacts DEF Key
<1> HIDE DEF r
<1>5. TaskInv(r)
  BY <1>1, <1>2, <1>3, <1>4 DEF TaskInv, IsUpstream
<1> QED
  BY <1>5 DEF r

LEMMA LookupMissKeeps ==
  ASSUME IInv, NEW t \in Tasks, LookupMiss(t)
  PROVE  IInv'
<1>1. query[t].pc = "lookup" /\ Key(query[t]) \in Keys
  BY KeyIsAKey DEF LookupMiss
<1>2. CacheInv'
  BY <1>1, CacheMissKeeps, IInvFacts DEF LookupMiss
<1>3. FakeKey(Key(query[t])) <=> FakeDnsOn /\ query[t].ty = "A"
  BY DEF FakeKey, Key
<1>4. CASE FakeKey(Key(query[t]))
  <2>1. TaskInv([query[t] EXCEPT !.pc = "reply", !.ans = Fake(query[t].n)])
    BY <1>1, <1>4, AnswerFits
  <2> QED
    BY <1>2, <1>3, <1>4, <2>1, GotoKeeps DEF LookupMiss, Answered
<1>5. CASE ~FakeKey(Key(query[t]))
  <2>1. <<query[t].c, query[t].n>> \in denied => deniedFor[<<query[t].c, query[t].n>>] <= 0
    BY <1>1, IInvFacts DEF TaskInv, Waited
  <2>2. 1 \in 1..Len(Upstreams) /\ (1 - 1) * Timeout = 0
    BY ConstantFacts
  <2>3. TaskInv(Exchange(query[t], 1))
    BY <1>1, <1>5, <2>1, <2>2, ExchangeFits
  <2> QED
    BY <1>2, <1>3, <1>5, <2>3, GotoKeeps DEF LookupMiss
<1> QED
  BY <1>4, <1>5

LEMMA AskFacts ==
  ASSUME IInv, NEW t \in Tasks, query[t].pc = "ask"
  PROVE  /\ query[t].k \in 1..Len(Upstreams) /\ query[t].timer \in 0..Timeout
         /\ ~FakeKey(Key(query[t]))
         /\ Upstreams[query[t].k] \in prompt => query[t].timer > 0
<1>1. /\ query[t].k # 0 /\ ~FakeKey(Key(query[t]))
      /\ Upstreams[query[t].k] \in prompt => query[t].timer > 0
  <2>1. TaskInv(query[t])
    BY IInvFacts
  <2> QED
    BY <2>1 DEF TaskInv
<1>2. query[t].k \in 0..Len(Upstreams) /\ query[t].timer \in 0..Timeout
  BY IInvFacts DEF Query
<1> QED
  BY <1>1, <1>2, ConstantFacts

LEMMA ReceiveKeeps ==
  ASSUME IInv, NEW t \in Tasks, NEW kind \in {"data", "empty", "failed"}, NEW ttls \in Seq(Nat),
         Receive(t, kind, ttls)
  PROVE  IInv'
<1> DEFINE k == Key(query[t])
           cacheFor == IF ttls = <<>> THEN CacheTtl ELSE ttls[1]
           life == IF cacheFor < MinTtl THEN MinTtl ELSE cacheFor
           a == FromUpstream(kind, k, ttls, life)
<1>1. query[t].pc = "ask" /\ CacheInsert(k, a, cacheFor) /\ Answered(t, a)
  BY DEF Receive
<1>2. k \in Keys /\ ~FakeKey(k) /\ query[t].k # 0
  BY <1>1, KeyIsAKey, AskFacts
<1>3. cacheFor \in Nat
  BY HandlerAssumption
<1>4. /\ a \in UpstreamAnswer /\ a.of = k /\ a.life = life
      /\ \A i \in DOMAIN a.ttls : i = 1 \/ query[t].k = 0 => a.ttls[i] <= a.life
  <2>1. life \in Nat /\ cacheFor <= life
    <3> HIDE DEF cacheFor
    <3> QED
      BY <1>3, ConstantFacts
  <2>2. \A i \in DOMAIN ttls : i = 1 => ttls[i] <= life
    <3> HIDE DEF life
    <3> QED
      BY <2>1
  <2> HIDE DEF k, life
  <2>3. /\ a \in UpstreamAnswer /\ a.of = k /\ a.life = life /\ a.ttls = ttls
    BY <1>2, <2>1 DEF UpstreamAnswer, FromUpstream
  <2> HIDE DEF a
  <2> QED
    BY <1>2, <2>2, <2>3
<1> HIDE DEF a, k
<1>5. CacheInv'
  <2> HIDE DEF cacheFor
  <2> QED
    BY <1>1, <1>2, <1>3, <1>4, CacheInsertKeeps, IInvFacts
<1>6. TaskInv([query[t] EXCEPT !.pc = "reply", !.ans = a])
  BY <1>1, <1>2, <1>4, AnswerFits DEF k
<1> QED
  BY <1>1, <1>5, <1>6, GotoKeeps DEF Answered

LEMMA UpstreamAnswersKeeps ==
  ASSUME IInv, NEW t \in Tasks, UpstreamAnswers(t)
  PROVE  IInv'
<1>1. \A ttls \in UpstreamTtls : ttls \in Seq(Nat)
  BY HandlerAssumption
<1>2. << >> \in Seq(Nat)
  OBVIOUS
<1> QED
  BY <1>1, <1>2, ReceiveKeeps DEF UpstreamAnswers

LEMMA UpstreamFailsKeeps ==
  ASSUME IInv, NEW t \in Tasks, UpstreamFails(t)
  PROVE  IInv'
<1>1. << >> \in Seq(Nat)
  OBVIOUS
<1> QED
  BY <1>1, ReceiveKeeps DEF UpstreamFails

LEMMA UpstreamGarbledKeeps ==
  ASSUME IInv, NEW t \in Tasks, UpstreamGarbled(t)
  PROVE  IInv'
<1>1. TaskInv([query[t] EXCEPT !.pc = "reply", !.ans = Plain("garbled")])
  BY AnswerFits DEF UpstreamGarbled
<1> QED
  BY <1>1, CacheUnchanged, IInvFacts, GotoKeeps DEF UpstreamGarbled, Answered

(* A prompt upstream is the last one, and a task that asks it neither fails *)
(* nor runs into its timeout.                                               *)
LEMMA NextUpstreamKeeps ==
  ASSUME IInv, NEW t \in Tasks, query[t].pc = "ask", NextUpstream(t), UNCHANGED cacheVars,
         Upstreams[query[t].k] \notin prompt
  PROVE  IInv'
<1> DEFINE q == query[t]
<1>1. CacheInv'
  BY CacheUnchanged, IInvFacts
<1>2. q \in Query /\ q.k \in 1..Len(Upstreams) /\ q.timer \in 0..Timeout /\ ~FakeKey(Key(q))
  BY IInvFacts, AskFacts
<1>3. CASE q.k < Len(Upstreams)
  <2>1. q.k + 1 \in 1..Len(Upstreams)
    BY <1>2, <1>3, ConstantFacts
  <2>2. <<q.c, q.n>> \in denied => deniedFor[<<q.c, q.n>>] <= (q.k + 1 - 1) * Timeout
    <3> SUFFICES ASSUME <<q.c, q.n>> \in denied
                 PROVE  deniedFor[<<q.c, q.n>>] <= (q.k + 1 - 1) * Timeout
      OBVIOUS
    <3>1. deniedFor[<<q.c, q.n>>] <= q.k * Timeout - q.timer
      BY IInvFacts DEF TaskInv, Waited
    <3>2. deniedFor[<<q.c, q.n>>] \in Nat
      BY IInvFacts DEF DenialInv
    <3>3. q.k * Timeout \in Nat /\ q.k + 1 - 1 = q.k
      BY <1>2, ConstantFacts
    <3> QED
      BY <1>2, <3>1, <3>2, <3>3
  <2>3. TaskInv(Exchange(q, q.k + 1))
    BY <1>2, <2>1, <2>2, ExchangeFits
  <2>4. Goto(t, Exchange(q, q.k + 1))
    BY <1>3 DEF NextUpstream
  <2> QED
    BY <1>1, <2>3, <2>4, GotoKeeps
<1>4. CASE ~(q.k < Len(Upstreams))
  <2>1. q.k = Len(Upstreams)
    BY <1>2, <1>4, ConstantFacts
  <2>2. prompt = {}
    BY <2>1 DEF IInv
  <2>3. TaskInv([q EXCEPT !.pc = "reply", !.ans = Plain("servfail")])
    BY <1>2, <2>2, RefusalFits
  <2>4. Goto(t, [q EXCEPT !.pc = "reply", !.ans = Plain("servfail")])
    BY <1>4 DEF NextUpstream, Answered
  <2> QED
    BY <1>1, <2>3, <2>4, GotoKeeps
<1> QED
  BY <1>3, <1>4

LEMMA ExchangeFailsKeeps ==
  ASSUME IInv, NEW t \in Tasks, ExchangeFails(t)
  PROVE  IInv'
BY NextUpstreamKeeps DEF ExchangeFails

LEMMA TimesOutKeeps ==
  ASSUME IInv, NEW t \in Tasks, TimesOut(t)
  PROVE  IInv'
<1>1. query[t].pc = "ask" /\ query[t].timer = 0
  BY DEF TimesOut
<1>2. Upstreams[query[t].k] \notin prompt
  BY <1>1, AskFacts
<1> QED
  BY <1>1, <1>2, NextUpstreamKeeps DEF TimesOut

LEMMA ReplyKeeps ==
  ASSUME IInv, NEW t \in Tasks, Reply(t)
  PROVE  IInv'
BY IdleFits, CacheUnchanged, IInvFacts, GotoKeeps DEF Reply

-----------------------------------------------------------------------------
(***************************************************************************)
(* Permissions, time and maintenance.                                      *)
(***************************************************************************)
LEMMA WaitedIsNatural ==
  ASSUME IInv, NEW t \in Tasks
  PROVE  Waited(query[t]) \in Nat
<1>1. CASE query[t].pc = "ask"
  <2>1. query[t].k \in 1..Len(Upstreams) /\ query[t].timer \in 0..Timeout
    BY <1>1, AskFacts
  <2>2. query[t].k * Timeout \in Nat /\ query[t].k * Timeout >= Timeout
    BY <2>1, ConstantFacts
  <2> QED
    BY <1>1, <2>1, <2>2, ConstantFacts DEF Waited
<1>2. CASE query[t].pc # "ask"
  BY <1>2, ConstantFacts DEF Waited
<1> QED
  BY <1>1, <1>2

(* A permission that is withdrawn now has not been denied for any time.    *)
LEMMA DenyKeeps ==
  ASSUME IInv, NEW d \in Deniable, Deny(d)
  PROVE  IInv'
<1>1. /\ denied' = denied \cup {d} /\ d \notin denied
      /\ lru' = lru /\ entry' = entry /\ query' = query
      /\ deniedFor' = deniedFor /\ prompt' = prompt
  BY DEF Deny
<1>2. CacheInv'
  BY <1>1, CacheUnchanged DEF IInv, cacheVars
<1>3. DenialInv' /\ deniedFor[d] = 0
  BY <1>1 DEF IInv, DenialInv
<1>4. ASSUME NEW t \in Tasks PROVE TaskInv(query[t])'
  <2>1. TaskInv(query[t]) /\ Waited(query[t]) >= 0
    BY WaitedIsNatural, IInvFacts
  <2> QED
    BY <1>1, <1>3, <2>1 DEF TaskInv, Waited, WithinLife, FakeKey, Key, Answers, IsUpstream
<1> QED
  BY <1>1, <1>2, <1>3, <1>4 DEF IInv

LEMMA AllowKeeps ==
  ASSUME IInv, NEW d \in Deniable, Allow(d)
  PROVE  IInv'
<1>1. /\ denied' = denied \ {d}
      /\ lru' = lru /\ entry' = entry /\ query' = query
      /\ deniedFor' = [deniedFor EXCEPT ![d] = 0] /\ prompt' = prompt
  BY DEF Allow
<1>2. CacheInv'
  BY <1>1, CacheUnchanged DEF IInv, cacheVars
<1>3. /\ DenialInv'
      /\ \A e \in denied' : e \in denied /\ deniedFor'[e] = deniedFor[e]
  BY <1>1 DEF IInv, DenialInv
<1>4. ASSUME NEW t \in Tasks PROVE TaskInv(query[t])'
  <2>1. TaskInv(query[t])
    BY IInvFacts
  <2> QED
    BY <1>1, <1>3, <2>1 DEF TaskInv, Waited, WithinLife, FakeKey, Key, Answers, IsUpstream
<1> QED
  BY <1>1, <1>2, <1>3, <1>4 DEF IInv

(* A second adds to the age of a denial what it adds to the wait of every  *)
(* task, for no task that is neither idle nor waiting lets it pass.        *)
LEMMA TickKeeps ==
  ASSUME IInv, Tick
  PROVE  IInv'
<1>1. /\ denied' = denied /\ prompt' = prompt
      /\ query' = [t \in Tasks |-> IF query[t].pc = "ask"
                                   THEN [query[t] EXCEPT !.timer = @ - 1] ELSE query[t]]
      /\ \A t \in Tasks :
           \/ query[t].pc = "idle"
           \/ /\ query[t].pc = "ask" /\ query[t].timer > 0
              /\ query[t].timer = 1 => Upstreams[query[t].k] \notin prompt
      /\ deniedFor' = [d \in Deniable |-> IF d \in denied /\ deniedFor[d] <= Longest
                                          THEN deniedFor[d] + 1 ELSE deniedFor[d]]
  BY DEF Tick
<1>2. CacheInv'
  BY CacheAgeKeeps DEF IInv, Tick
<1>3. /\ DenialInv'
      /\ \A d \in denied : deniedFor[d] \in Nat /\ deniedFor'[d] \in Nat
                             /\ deniedFor'[d] <= deniedFor[d] + 1
  <2>1. denied \subseteq Deniable /\ deniedFor \in [Deniable -> Nat]
        /\ \A d \in Deniable \ denied : deniedFor[d] = 0
    BY DEF IInv, DenialInv
  <2>2. deniedFor' \in [Deniable -> Nat]
    BY <1>1, <2>1
  <2>3. \A d \in Deniable \ denied : deniedFor'[d] = 0
    BY <1>1, <2>1
  <2> QED
    BY <1>1, <2>1, <2>2, <2>3 DEF DenialInv
<1>4. ASSUME NEW t \in Tasks PROVE query'[t] \in Query /\ TaskInv(query[t])'
  <2> DEFINE q == query[t]
             r == query'[t]
  <2>1. TaskInv(q) /\ q \in Query
    BY IInvFacts
  <2>2. CASE q.pc = "idle"
    <3>1. r = q
      BY <1>1, <2>2
    <3> QED
      BY <1>1, <2>1, <2>2, <3>1 DEF TaskInv, Waited, WithinLife, FakeKey, Key, Answers, IsUpstream
  <2>3. CASE q.pc = "ask"
    <3>1. /\ q.k \in 1..Len(Upstreams) /\ q.timer \in 0..Timeout
          /\ ~FakeKey(Key(q)) /\ q.timer > 0
          /\ q.timer = 1 => Upstreams[q.k] \notin prompt
      BY <1>1, <2>3, AskFacts
    <3>2. /\ r = [q EXCEPT !.timer = q.timer - 1]
          /\ q.timer - 1 \in 0..Timeout
      BY <1>1, <2>3, <3>1, ConstantFacts
    <3>3. q.n \in Names /\ q.ty \in Types /\ q.ans.kind = "none"
      BY <2>1, <2>3 DEF TaskInv
    <3> HIDE DEF q, r
    <3>4. /\ r \in Query
          /\ r.pc = "ask" /\ r.timer = q.timer - 1
          /\ r.k = q.k /\ r.c = q.c /\ r.n = q.n /\ r.ty = q.ty /\ r.ans = q.ans
      BY <2>1, <2>3, <3>2 DEF Query
    <3>5. Waited(q) \in Nat /\ Waited(r) = Waited(q) + 1
      <4>1. q.k * Timeout \in Nat
        BY <3>1, ConstantFacts
      <4>2. Waited(q) \in Nat
        BY WaitedIsNatural DEF q
      <4> QED
        BY <2>3, <3>1, <3>4, <4>1, <4>2 DEF Waited
    <3>6. <<r.c, r.n>> \in denied => deniedFor'[<<r.c, r.n>>] <= Waited(r)
      <4> SUFFICES ASSUME <<r.c, r.n>> \in denied
                   PROVE  deniedFor'[<<r.c, r.n>>] <= Waited(r)
        OBVIOUS
      <4>1. deniedFor[<<r.c, r.n>>] <= Waited(q)
        BY <2>1, <2>3, <3>4 DEF TaskInv
      <4> QED
        BY <1>3, <3>5, <4>1
    <3>7. TaskInv(query[t])' <=>
            /\ r \in Query
            /\ r.pc \in {"check", "lookup", "ask"} => r.n \in Names /\ r.ty \in Types
            /\ r.pc # "reply" => r.ans.kind = "none"
            /\ r.pc \in {"check", "lookup"} => r.k = 0
            /\ r.pc = "ask" =>
                 /\ r.k # 0 /\ ~FakeKey(Key(r))
                 /\ Upstreams[r.k] \in prompt => r.timer > 0
            /\ (r.pc \in {"lookup", "ask"} \/ Answers(r.ans)) /\ <<r.c, r.n>> \in denied
                 => deniedFor'[<<r.c, r.n>>] <= Waited(r)
            /\ IsUpstream(r.ans) => r.ans.of = Key(r) /\ ~FakeKey(Key(r)) /\ WithinLife(r)
            /\ r.ans.kind = "fake" => r.ans.of = r.n /\ FakeKey(Key(r))
            /\ prompt # {} => r.ans.kind # "servfail"
      BY <1>1 DEF TaskInv, r, Waited, WithinLife, FakeKey, Key, Answers, IsUpstream
    <3>8. FakeKey(Key(r)) = FakeKey(Key(q)) /\ (Upstreams[r.k] \in prompt => r.timer > 0) /\ r.k # 0
      BY <3>1, <3>4 DEF Key
    <3>9. TaskInv(query[t])'
      BY <3>1, <3>3, <3>4, <3>6, <3>7, <3>8 DEF IsUpstream
    <3> QED
      BY <3>4, <3>9 DEF r
  <2> QED
    BY <1>1, <2>2, <2>3
<1>5. query' \in [Tasks -> Query]
  BY <1>1, <1>4
<1> QED
  BY <1>1, <1>2, <1>3, <1>4, <1>5 DEF IInv

LEMMA MaintainKeeps ==
  ASSUME IInv, Maintain
  PROVE  IInv'
<1>1. /\ query' = query /\ denied' = denied /\ deniedFor' = deniedFor /\ prompt' = prompt
      /\ \E K : CacheForget(K)
  BY DEF Maintain, hvars, CacheRemove, CacheClear, CacheCleanup
<1>2. CacheInv'
  BY <1>1, CacheForgetKeeps DEF IInv
<1>3. ASSUME NEW t \in Tasks PROVE TaskInv(query[t])'
  BY <1>1, IInvFacts DEF TaskInv, Waited, WithinLife, FakeKey, Key, Answers, IsUpstream
<1> QED
  BY <1>1, <1>2, <1>3 DEF IInv, DenialInv

-----------------------------------------------------------------------------
(***************************************************************************)
(* The invariant, and what follows from it.                                *)
(***************************************************************************)
LEMMA InitIInv == Init => IInv
<1> SUFFICES ASSUME Init PROVE IInv
  OBVIOUS
<1>1. << >> \in Seq(Keys) /\ Len(<< >>) = 0 /\ DOMAIN << >> = {}
  OBVIOUS
<1>2. CacheInv
  BY <1>1, ConstantFacts DEF Init, CacheInit, CacheInv, Cached, ToSet, IsInjective
<1>3. DenialInv
  BY DEF Init, DenialInv
<1>4. prompt \subseteq {Upstreams[Len(Upstreams)]}
  BY DEF Init
<1>5. query \in [Tasks -> Query] /\ \A t \in Tasks : TaskInv(query[t])
  <2>1. Idle \in Query
    BY IdleFits DEF TaskInv
  <2> QED
    BY <2>1, IdleFits DEF Init
<1> QED
  BY <1>2, <1>3, <1>4, <1>5 DEF IInv

LEMMA NextIInv == IInv /\ [Next]_vars => IInv'
<1> SUFFICES ASSUME IInv, [Next]_vars PROVE IInv'
  OBVIOUS
<1>1. ASSUME NEW t \in Tasks, Arrive(t) PROVE IInv'
  BY <1>1, ArriveKeeps
<1>2. ASSUME NEW t \in Tasks, ArriveGarbled(t) PROVE IInv'
  BY <1>2, ArriveGarbledKeeps
<1>3. ASSUME NEW t \in Tasks, Step(t) PROVE IInv'
  BY <1>3, CheckKeeps, LookupHitKeeps, LookupMissKeeps, TimesOutKeeps, ReplyKeeps DEF Step
<1>4. ASSUME NEW t \in Tasks,
             UpstreamAnswers(t) \/ UpstreamFails(t) \/ UpstreamGarbled(t) \/ ExchangeFails(t)
      PROVE  IInv'
  BY <1>4, UpstreamAnswersKeeps, UpstreamFailsKeeps, UpstreamGarbledKeeps, ExchangeFailsKeeps
<1>5. ASSUME NEW d \in Deniable, Deny(d) \/ Allow(d) PROVE IInv'
  BY <1>5, DenyKeeps, AllowKeeps
<1>6. CASE Tick
  BY <1>6, TickKeeps
<1>7. CASE Maintain
  BY <1>7, MaintainKeeps
<1>8. CASE UNCHANGED vars
  <2>1. /\ query' = query /\ denied' = denied /\ deniedFor' = deniedFor /\ prompt' = prompt
        /\ UNCHANGED cacheVars
    BY <1>8 DEF vars, hvars, cacheVars
  <2>2. CacheInv'
    BY <2>1, CacheUnchanged DEF IInv
  <2>3. ASSUME NEW t \in Tasks PROVE TaskInv(query[t])'
    BY <2>1, IInvFacts DEF TaskInv, Waited, WithinLife, FakeKey, Key, Answers, IsUpstream
  <2> QED
    BY <2>1, <2>2, <2>3 DEF IInv, DenialInv
<1> QED
  BY <1>1, <1>2, <1>3, <1>4, <1>5, <1>6, <1>7, <1>8 DEF Next

(* Cache, tasks and denials keep, together, what the properties rest on.   *)
THEOREM Invariance == Spec => []IInv
<1> QED
  BY InitIInv, NextIInv, PTL DEF Spec

(* Cache entries, tasks and permissions are always of their types; only    *)
(* answers of upstreams are in the cache (handler.rs, cache.rs).           *)
THEOREM TypeCorrect == Spec => []TypeOK
<1>1. IInv => TypeOK
  <2> SUFFICES ASSUME IInv PROVE TypeOK
    OBVIOUS
  <2>1. \A k \in Keys : Cached(k) => entry[k].ans \in UpstreamAnswer /\ entry[k].left \in 0..MaxTtl
    BY DEF IInv, CacheInv, EntryInv
  <2>2. \A t \in Tasks :
          /\ query[t].pc \in {"idle", "check", "lookup", "ask", "reply"}
          /\ query[t].ans \in Answer
          /\ query[t].k \in 0..Len(Upstreams) /\ query[t].timer \in 0..Timeout
    BY DEF IInv, Query
  <2>3. prompt \subseteq {Upstreams[k] : k \in 1..Len(Upstreams)}
    BY ConstantFacts DEF IInv
  <2> QED
    BY <2>1, <2>2, <2>3 DEF IInv, CacheInv, DenialInv, TypeOK
<1> QED
  BY <1>1, Invariance, PTL

(* The cache never exceeds its capacity, its order names each entry once,  *)
(* and nothing else is in the map: get, insert, remove, clear and cleanup  *)
(* of cache.rs.                                                            *)
THEOREM CacheIsAlwaysLru == Spec => []CacheIsLru
<1>1. IInv => CacheIsLru
  <2> SUFFICES ASSUME IInv PROVE CacheIsLru
    OBVIOUS
  <2>1. DOMAIN lru = 1..Len(lru)
    BY DEF IInv, CacheInv
  <2>2. \A i, j \in 1..Len(lru) : lru[i] = lru[j] => i = j
    BY <2>1 DEF IInv, CacheInv, IsInjective
  <2>3. \A k \in Keys : Cached(k) => entry[k] # NoEntry
    BY NoEntryAssumption DEF IInv, CacheInv, EntryInv
  <2>4. \A k \in Keys : ~Cached(k) => entry[k] = NoEntry
    BY DEF IInv, CacheInv
  <2> QED
    BY <2>2, <2>3, <2>4 DEF IInv, CacheInv, CacheIsLru
<1> QED
  BY <1>1, Invariance, PTL

(* No answer, of however many records, is kept for more time than its      *)
(* first record had, or the floor of the cache, and none is shown with     *)
(* more once it is old (handler.rs: 160-164, cache.rs: insert, get).  The  *)
(* other records have no such promise.                                     *)
THEOREM AnswersNeverOutliveTheirFirstRecord == Spec => []NoAnswerOutlivesItsFirstRecord
<1>1. IInv => NoAnswerOutlivesItsFirstRecord
  BY DEF IInv, CacheInv, EntryInv, TaskInv, NoAnswerOutlivesItsFirstRecord
<1> QED
  BY <1>1, Invariance, PTL

(* A task replies to its own question, and with FakeDNS on never with a    *)
(* real address to an "A" question (handler.rs, steps 3 to 6).             *)
THEOREM RepliesAlwaysFit == Spec => []RepliesFitTheirQuestion
<1>1. IInv => RepliesFitTheirQuestion
  BY DEF IInv, TaskInv, RepliesFitTheirQuestion, FakeKey, Key
<1> QED
  BY <1>1, Invariance, PTL

(* A denial reaches the replies within the timeouts of all upstreams, with *)
(* any number of clients, names and tasks that fill the cache.             *)
THEOREM DenialsReachAnswers == Spec => []DenialReachesAnswers
<1>1. IInv => DenialReachesAnswers
  <2> SUFFICES ASSUME IInv, NEW t \in Tasks, Answers(query[t].ans),
                      <<query[t].c, query[t].n>> \in denied
               PROVE  deniedFor[<<query[t].c, query[t].n>>] <= Longest
    BY DEF DenialReachesAnswers
  <2>1. TaskInv(query[t])
    BY IInvFacts
  <2>2. query[t].pc = "reply"
    BY <2>1 DEF TaskInv, Answers, IsUpstream
  <2> QED
    BY <2>1, <2>2 DEF TaskInv, Waited
<1> QED
  BY <1>1, Invariance, PTL

(* A last upstream that answers in time keeps HomeGuard from a SERVFAIL of *)
(* its own, with any number of upstreams before it that are silent or out  *)
(* of reach; one that replies that it has failed is not passed over        *)
(* (resolver.rs: resolve).                                                 *)
THEOREM SilentUpstreamsAreAlwaysPassedOver == Spec => []SilentUpstreamsArePassedOver
<1>1. IInv => SilentUpstreamsArePassedOver
  BY DEF IInv, TaskInv, SilentUpstreamsArePassedOver
<1> QED
  BY <1>1, Invariance, PTL
=============================================================================
