----------------------------- MODULE DnsHandler -----------------------------
(***************************************************************************)
(* The life of a DNS query: DnsServer spawns a task for each packet        *)
(* (src/src/dns/server.rs), DnsHandler decides it (handler.rs), the        *)
(* DnsResolver asks the upstreams in turn (resolver.rs).  The tasks share  *)
(* the response cache and the decisions of the parental controller, which  *)
(* change while queries are under way.                                     *)
(*                                                                         *)
(* Everything up to the first await takes no time; a second passes only    *)
(* while tasks wait for an upstream.  What FakeDns answers is fixed by     *)
(* FakeIpMap: here a fake answer for n is the address allocate(n) gave.    *)
(***************************************************************************)
EXTENDS DnsCache

CONSTANTS
  Tasks,        \* the spawned tasks
  Clients, Names, Types,
  Asked,        \* the questions that are asked: subset of Clients \X Names \X Types
  Deniable,     \* what the controller may come to deny: Clients \X Names
  Blocked,      \* names the filter (the rule engine) rejects
  FakeDnsOn,    \* the handler has a FakeDns: it answers every "A" question
  Upstreams,    \* the configured servers, a sequence
  Timeout,      \* seconds an exchange with an upstream may take
  UpstreamTtls, \* TTLs of the records of an answer, in the order of the packet
  CacheTtl,     \* config.cache_ttl
  Nobody        \* the client, name and type of a task that has no query

VARIABLES
  query,        \* query[t]: where task t stands
  denied,       \* what the parental controller denies now
  deniedFor,    \* for how long it has, in seconds (up to Longest + 1)
  prompt        \* upstreams that answer every exchange in time

hvars == <<query, denied, deniedFor, prompt>>
vars == <<lru, entry, hvars>>

ASSUME HandlerAssumption ==
  /\ Asked \subseteq Clients \X Names \X Types
  /\ Keys = Names \X Types
  /\ Len(Upstreams) \in Nat \ {0}
  /\ Timeout \in Nat \ {0}
  /\ UpstreamTtls \subseteq Seq(Nat) \ {<<>>} /\ CacheTtl \in Nat

\* The longest a query can wait: every upstream in turn runs into the timeout.
Longest == Len(Upstreams) * Timeout

Idle == [pc |-> "idle", c |-> Nobody, n |-> Nobody, ty |-> Nobody, k |-> 0, timer |-> 0,
         ans |-> [kind |-> "none"]]

\* Mutant: the type of the question is no part of the key.
KeyOfName(q) == <<q.n, "AAAA">>

Key(q) == <<q.n, q.ty>>

\* Answers.  A reply of an upstream has data, or no records, or it reports
\* that the upstream has failed (SERVFAIL, REFUSED).  It carries the question
\* it answers, the TTL of each record as the packet has it, and the life that
\* is left of what its first record allowed when it was received.
Plain(kind) == [kind |-> kind]
Fake(n) == [kind |-> "fake", of |-> n]
FromUpstream(kind, k, ttls, life) == [kind |-> kind, of |-> k, ttls |-> ttls, life |-> life]
IsUpstream(a) == a.kind \in {"data", "empty", "failed"}

\* Mutant: only the record that the answer was cached for gets a new TTL.
WithTtlFirst(a, ttl) ==
  [a EXCEPT !.ttls = [i \in DOMAIN a.ttls |-> IF i = 1 THEN ttl ELSE a.ttls[i]]]

\* update_response_ttl(): every record of the copy gets the time that is left.
WithTtl(a, ttl) == [a EXCEPT !.ttls = [i \in DOMAIN a.ttls |-> ttl]]

\* A second of the life of an answer; the TTLs are part of the packet.
Older(a) == IF IsUpstream(a) /\ a.life > 0 THEN [a EXCEPT !.life = a.life - 1] ELSE a

Init ==
  /\ CacheInit
  /\ query = [t \in Tasks |-> Idle]
  /\ denied = {}
  /\ deniedFor = [d \in Deniable |-> 0]
  /\ prompt \in SUBSET {Upstreams[Len(Upstreams)]}

Goto(t, q) ==
  /\ query' = [query EXCEPT ![t] = q]
  /\ UNCHANGED <<denied, deniedFor, prompt>>

Answered(t, a) == Goto(t, [query[t] EXCEPT !.pc = "reply", !.ans = a])

\* A packet arrives and a task is spawned for it.
Arrive(t) ==
  /\ query[t].pc = "idle"
  /\ \E a \in Asked :
       Goto(t, [Idle EXCEPT !.pc = "check", !.c = a[1], !.n = a[2], !.ty = a[3]])
  /\ UNCHANGED cacheVars

\* A packet that does not parse gets FORMERR; one that has not even a header
\* gets an error, and then not even SERVFAIL: the task ends in silence.
ArriveGarbled(t) ==
  /\ query[t].pc = "idle"
  /\ Answered(t, Plain("formerr"))
  /\ UNCHANGED cacheVars

\* Mutant: a fresh answer in the cache needs no permission.
CheckUncachedOnly(t) ==
  LET q == query[t]
  IN  /\ q.pc = "check"
      /\ IF ~Fresh(Key(q)) /\ (<<q.c, q.n>> \in denied \/ q.n \in Blocked)
           THEN Answered(t, Plain("nxdomain"))
           ELSE Goto(t, [q EXCEPT !.pc = "lookup"])
      /\ UNCHANGED cacheVars

\* check_access() of the device, then the filter, before anything is answered.
Check(t) ==
  LET q == query[t]
  IN  /\ q.pc = "check"
      /\ IF <<q.c, q.n>> \in denied \/ q.n \in Blocked
           THEN Answered(t, Plain("nxdomain"))
           ELSE Goto(t, [q EXCEPT !.pc = "lookup"])
      /\ UNCHANGED cacheVars


\* The cached answer goes out with the time it has left as its TTL.
LookupHit(t) ==
  LET q == query[t]
  IN  /\ q.pc = "lookup"
      /\ \E ttl \in 0..MaxTtl :
           /\ CacheHit(Key(q), ttl)
           /\ Answered(t, WithTtl(entry[Key(q)].ans, ttl))

\* The first exchange: a new socket, and the time it may take.
Exchange(q, k) == [q EXCEPT !.pc = "ask", !.k = k, !.timer = Timeout]

LookupMiss(t) ==
  LET q == query[t]
  IN  /\ q.pc = "lookup"
      /\ CacheMiss(Key(q))
      /\ IF FakeDnsOn /\ q.ty = "A"
           THEN Answered(t, Fake(q.n))
           ELSE Goto(t, Exchange(q, 1))

\* A reply is passed on as it came and cached as a whole for the TTL of its
\* first record, one without records (a name that does not exist, an upstream
\* that failed) for the configured time.
Receive(t, kind, ttls) ==
  LET q == query[t]
      cacheFor == IF ttls = <<>> THEN CacheTtl ELSE ttls[1]
      a == FromUpstream(kind, Key(q), ttls, IF cacheFor < MinTtl THEN MinTtl ELSE cacheFor)
  IN  /\ q.pc = "ask" /\ q.timer > 0
      /\ CacheInsert(Key(q), a, cacheFor)
      /\ Answered(t, a)

UpstreamAnswers(t) ==
  \/ Receive(t, "empty", <<>>)
  \/ \E ttls \in UpstreamTtls : Receive(t, "data", ttls)

\* An upstream replies that it has failed: its reply is a reply like any
\* other, and the next upstream is not asked.
UpstreamFails(t) ==
  /\ query[t].pc = "ask" /\ Upstreams[query[t].k] \notin prompt
  /\ Receive(t, "failed", <<>>)

\* What cannot be parsed is passed on and not cached.
UpstreamGarbled(t) ==
  /\ query[t].pc = "ask" /\ query[t].timer > 0
  /\ Upstreams[query[t].k] \notin prompt
  /\ Answered(t, Plain("garbled"))
  /\ UNCHANGED cacheVars

\* Mutant: the first failure is the query's failure.
NextUpstreamNone(t) == Answered(t, Plain("servfail"))

\* The exchange failed: the next upstream is asked; after the last one the
\* error reaches the server, which answers SERVFAIL.
NextUpstream(t) ==
  LET q == query[t]
  IN  IF q.k < Len(Upstreams)
        THEN Goto(t, Exchange(q, q.k + 1))
        ELSE Answered(t, Plain("servfail"))

\* No route, a port that is closed.
ExchangeFails(t) ==
  /\ query[t].pc = "ask" /\ query[t].timer > 0
  /\ Upstreams[query[t].k] \notin prompt
  /\ NextUpstream(t)
  /\ UNCHANGED cacheVars

\* Mutant: recv_from() is awaited without a timeout.
TimesOutNever(t) == FALSE

TimesOut(t) ==
  /\ query[t].pc = "ask" /\ query[t].timer = 0
  /\ NextUpstream(t)
  /\ UNCHANGED cacheVars

\* The server sends the reply, whether it arrives or not, and the task ends.
Reply(t) ==
  /\ query[t].pc = "reply"
  /\ Goto(t, Idle)
  /\ UNCHANGED cacheVars

\* The controller's rules, grants or the time of day change.
Deny(d) ==
  /\ denied' = denied \union {d}
  /\ d \notin denied
  /\ UNCHANGED <<lru, entry, query, deniedFor, prompt>>

Allow(d) ==
  /\ d \in denied
  /\ denied' = denied \ {d}
  /\ deniedFor' = [deniedFor EXCEPT ![d] = 0]
  /\ UNCHANGED <<lru, entry, query, prompt>>

\* A second passes.  An upstream that is prompt answers before the timeout.
Tick ==
  /\ \A t \in Tasks :
       \/ query[t].pc = "idle"
       \/ /\ query[t].pc = "ask" /\ query[t].timer > 0
          /\ query[t].timer = 1 => Upstreams[query[t].k] \notin prompt
  /\ query' = [t \in Tasks |-> IF query[t].pc = "ask"
                               THEN [query[t] EXCEPT !.timer = @ - 1] ELSE query[t]]
  /\ deniedFor' = [d \in Deniable |-> IF d \in denied /\ deniedFor[d] <= Longest
                                      THEN deniedFor[d] + 1 ELSE deniedFor[d]]
  /\ CacheAge([k \in ToSet(lru) |-> Older(entry[k].ans)])
  /\ UNCHANGED <<denied, prompt>>

\* The rest of the cache's interface.
Maintain ==
  /\ \/ \E k \in Keys : CacheRemove(k)
     \/ CacheClear
     \/ CacheCleanup
  /\ UNCHANGED hvars

Step(t) == Check(t) \/ LookupHit(t) \/ LookupMiss(t) \/ TimesOut(t) \/ Reply(t)

Next ==
  \/ \E t \in Tasks :
       \/ Arrive(t) \/ ArriveGarbled(t)
       \/ Step(t)
       \/ UpstreamAnswers(t) \/ UpstreamFails(t) \/ UpstreamGarbled(t) \/ ExchangeFails(t)
  \/ \E d \in Deniable : Deny(d) \/ Allow(d)
  \/ Tick
  \/ Maintain

PromptAnswer(t) ==
  /\ query[t].pc = "ask" /\ Upstreams[query[t].k] \in prompt
  /\ UpstreamAnswers(t)

Spec == Init /\ [][Next]_vars

\* The runtime schedules every task; the clock does not stop; an upstream
\* owes no answer, unless it is prompt.
FairSpec ==
  /\ Spec
  /\ \A t \in Tasks : WF_vars(Step(t)) /\ WF_vars(PromptAnswer(t))
  /\ SF_vars(Tick)

-----------------------------------------------------------------------------
(* Properties *)

UpstreamAnswer ==
  [kind : {"data", "empty", "failed"}, of : Keys, ttls : Seq(Nat), life : Nat]
ASSUME NoEntryAssumption == NoEntry \notin [ans : UpstreamAnswer, left : 0..MaxTtl]

Answer ==
  UpstreamAnswer \union [kind : {"fake"}, of : Names]
    \union [kind : {"none", "formerr", "nxdomain", "servfail", "garbled"}]

\* Type invariant of the handler's state.
TypeOK ==
  /\ lru \in Seq(Keys)
  /\ \A k \in Keys : Cached(k) => entry[k].ans \in UpstreamAnswer /\ entry[k].left \in 0..MaxTtl
  /\ \A t \in Tasks :
       /\ query[t].pc \in {"idle", "check", "lookup", "ask", "reply"}
       /\ query[t].ans \in Answer
       /\ query[t].k \in 0..Len(Upstreams) /\ query[t].timer \in 0..Timeout
  /\ denied \subseteq Deniable
  /\ prompt \subseteq {Upstreams[k] : k \in 1..Len(Upstreams)}

\* What goes out has no more time than its first record: a reply that was
\* passed on has the TTL of that record, and one from the cache (a task that
\* asked no upstream) must have no record with more.
WithinLife(q) == \A i \in DOMAIN q.ans.ttls : i = 1 \/ q.k = 0 => q.ans.ttls[i] <= q.ans.life

\* However old the copy, however often it was cached and served, no answer
\* goes out, and none stays servable, for longer than its FIRST record (or the
\* floor MinTtl, or cache_ttl for an answer without records) allowed from the
\* moment it was received (cache.rs: clamp, expires_at, update_response_ttl).
\* Nothing holds for the other records: a CNAME of an hour before an address
\* of 20 seconds lets the address live an hour, and get a new TTL with every
\* hit (handler.rs:160-164), while docs/phase2-dns-service.md:178 says
\* "Respect original TTL from upstream".
NoAnswerOutlivesItsFirstRecord ==
  /\ \A t \in Tasks : IsUpstream(query[t].ans) => WithinLife(query[t])
  /\ \A k \in Keys : Cached(k) => entry[k].left <= entry[k].ans.life

\* Every reply answers the question of its own task: nothing that two tasks,
\* the cache or a retry share mixes up names or types, and with FakeDNS on an
\* "A" question never gets a real address (handler.rs, steps 3 to 6).
RepliesFitTheirQuestion ==
  \A t \in Tasks :
    LET q == query[t]
    IN  /\ IsUpstream(q.ans) => q.ans.of = Key(q) /\ ~(FakeDnsOn /\ q.ty = "A")
        /\ q.ans.kind = "fake" => q.ans.of = q.n /\ FakeDnsOn /\ q.ty = "A"

\* What tells a client more than a refusal does.
Answers(a) == IsUpstream(a) \/ a.kind \in {"fake", "garbled"}

\* A device gets no answer for a name that it has been denied for longer than
\* a query can take: neither the cache, filled for other devices, nor a query
\* that was under way makes a denial late by more than the timeouts.
DenialReachesAnswers ==
  \A t \in Tasks :
    LET q == query[t]
    IN  Answers(q.ans) /\ <<q.c, q.n>> \in denied
          => deniedFor[<<q.c, q.n>>] <= Longest

\* Upstreams that are silent or cannot be reached cost a query nothing but
\* time: as long as the last one answers in time, every query that is let pass
\* gets a reply of some upstream, and never the SERVFAIL HomeGuard makes of its
\* own failure (phase2-dns-service.md:323 "Upstream timeout: try next upstream").
\* It is no more than that: the reply of an upstream that says it has failed,
\* or that is garbled, counts as a reply, is passed on in place of the good
\* one's, and the former is cached (resolver.rs:80-83, "until one succeeds" in line 74).
SilentUpstreamsArePassedOver ==
  prompt # {} => \A t \in Tasks : query[t].ans.kind # "servfail"

\* Every query is answered, even when no upstream ever answers.
EveryQueryIsAnswered ==
  \A t \in Tasks : query[t].pc # "idle" ~> query[t].pc = "idle"

-----------------------------------------------------------------------------
(***************************************************************************)
(* The inductive invariant behind the safety properties: what the cache    *)
(* knows of each entry, what a task knows before it has its answer, and    *)
(* how long a permission that a task was given can have been withdrawn.    *)
(***************************************************************************)
\* A key that FakeDns answers is never cached.
FakeKey(k) == FakeDnsOn /\ k[2] = "A"

EntryInv(k, e) ==
  /\ e \in [ans : UpstreamAnswer, left : 0..MaxTtl]
  /\ e.ans.of = k /\ ~FakeKey(k)
  /\ e.left <= e.ans.life

CacheInv ==
  /\ lru \in Seq(Keys) /\ IsInjective(lru) /\ Len(lru) <= Capacity
  /\ entry = [k \in Keys |-> entry[k]]
  /\ \A k \in Keys : IF Cached(k) THEN EntryInv(k, entry[k]) ELSE entry[k] = NoEntry

Query == [pc : {"idle", "check", "lookup", "ask", "reply"},
          c : Clients \union {Nobody}, n : Names \union {Nobody}, ty : Types \union {Nobody},
          k : 0..Len(Upstreams), timer : 0..Timeout, ans : Answer]

\* Seconds a task has waited, at most; once it has its answer, for any of them.
Waited(q) ==
  IF q.pc = "lookup" THEN 0 ELSE IF q.pc = "ask" THEN q.k * Timeout - q.timer ELSE Longest

TaskInv(q) ==
  /\ q \in Query
  /\ q.pc \in {"check", "lookup", "ask"} => q.n \in Names /\ q.ty \in Types
  /\ q.pc # "reply" => q.ans.kind = "none"
  /\ q.pc \in {"check", "lookup"} => q.k = 0
  /\ q.pc = "ask" =>
       /\ q.k # 0 /\ ~FakeKey(Key(q))
       /\ Upstreams[q.k] \in prompt => q.timer > 0
  /\ (q.pc \in {"lookup", "ask"} \/ Answers(q.ans)) /\ <<q.c, q.n>> \in denied
       => deniedFor[<<q.c, q.n>>] <= Waited(q)
  /\ IsUpstream(q.ans) => q.ans.of = Key(q) /\ ~FakeKey(Key(q)) /\ WithinLife(q)
  /\ q.ans.kind = "fake" => q.ans.of = q.n /\ FakeKey(Key(q))
  /\ prompt # {} => q.ans.kind # "servfail"

DenialInv ==
  /\ denied \subseteq Deniable
  /\ deniedFor \in [Deniable -> Nat]
  /\ \A d \in Deniable \ denied : deniedFor[d] = 0

IInv ==
  /\ CacheInv
  /\ DenialInv
  /\ prompt \subseteq {Upstreams[Len(Upstreams)]}
  /\ query \in [Tasks -> Query]
  /\ \A t \in Tasks : TaskInv(query[t])
=============================================================================
