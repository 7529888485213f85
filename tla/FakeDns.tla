------------------------------ MODULE FakeDns ------------------------------
(***************************************************************************)
(* FakeDns (src/src/dns/fake_dns.rs): the table that gives every proxied   *)
(* domain an address of a reserved pool, shared by the DNS queries, which  *)
(* allocate, and by the proxied connections, which look up.                *)
(*                                                                         *)
(* The steps are those of the locks.  ip_to_domain and domain_to_ip are    *)
(* DashMaps, tables split into shards with a readers-writer lock each; a   *)
(* mutex guards the LRU list.  A write to a shard is one step, which waits *)
(* for the shard's readers.  A read of one shard that goes on to lock the  *)
(* LRU list keeps the shard's read guard until it returns: the two pc      *)
(* values "touch_domain" and "touch_ip" stand for holding such a guard and *)
(* waiting for the mutex.                                                  *)
(***************************************************************************)
EXTENDS LruList

CONSTANTS
  Tasks,         \* tasks that call FakeDns concurrently
  Domains,       \* domains asked for, in lower case without a trailing dot
  NoTask, NoDomain, NoIp,
  Network,       \* first and last address of the network the pool is
  Broadcast,     \*   configured as (fake_dns_pool)
  CacheSize,     \* dns.cache_size, the capacity that is asked for
  ZeroCapacity,  \* the capacity used in place of 0 (1000 in the code)
  DomainShard,   \* DomainShard[d], IpShard[i]: the shard of a key
  IpShard

VARIABLES
  ip_to_domain,  \* ip_to_domain[i]: a domain, or NoDomain when i is absent
  domain_to_ip,  \* domain_to_ip[d]: an address, or NoIp when d is absent
  lru,           \* addresses, least recently used first
  next_ip,       \* the round-robin counter
  lru_owner,     \* the task that holds the mutex of lru, or NoTask
  pc,            \* the step each task is at; "idle" between calls
  dom,           \* the domain a call is about
  ip,            \* the address a call is about
  gone           \* the domain whose address the call has just taken away

tables == <<ip_to_domain, domain_to_ip>>
vars == <<tables, lru, next_ip, lru_owner, pc, dom, ip, gone>>

(***************************************************************************)
(* The pool: the network without its first and its last address.           *)
(***************************************************************************)
PoolStart == Network + 1
PoolEnd == Broadcast - 1
PoolSize == (IF PoolEnd >= PoolStart THEN PoolEnd - PoolStart ELSE 0) + 1

\* The addresses the round robin can give out.  A network of one or two
\* addresses leaves PoolEnd below PoolStart, and PoolStart is given out.
Ips == PoolStart .. (IF PoolEnd >= PoolStart THEN PoolEnd ELSE PoolStart)

Capacity ==
  LET asked == IF CacheSize <= PoolSize THEN CacheSize ELSE PoolSize
  IN  IF asked = 0 THEN ZeroCapacity ELSE asked

ASSUME PoolAssumption ==
  /\ Network \in Nat
  /\ Broadcast \in Nat \ {0}
  /\ CacheSize \in Nat
  /\ ZeroCapacity \in Nat \ {0}

ASSUME SentinelAssumption ==
  /\ NoTask \notin Tasks
  /\ NoDomain \notin Domains
  /\ NoIp \notin Ips

(***************************************************************************)
(* Locks.                                                                  *)
(***************************************************************************)

\* A task in one of these steps holds the mutex of lru.
Critical == {"evict_ip", "evict_domain", "next_ip", "reclaim_ip",
             "reclaim_domain", "insert_ip", "insert_domain"}

Pcs == Critical \cup
       {"idle", "find_domain", "touch_domain", "new", "find_ip", "touch_ip"}

\* Mutant: lookup drops its read guard before it takes the mutex.
UnguardedIp(i) == TRUE

\* The shard of a key can be written: no task holds a read guard on it.
DomainWritable(d) ==
  \A u \in Tasks : pc[u] = "touch_domain" => DomainShard[dom[u]] # DomainShard[d]
IpWritable(i) ==
  \A u \in Tasks : pc[u] = "touch_ip" => IpShard[ip[u]] # IpShard[i]

Goto(t, step) == pc' = [pc EXCEPT ![t] = step]

Init ==
  /\ ip_to_domain = [i \in Ips |-> NoDomain]
  /\ domain_to_ip = [d \in Domains |-> NoIp]
  /\ lru = << >>
  /\ next_ip = PoolStart
  /\ lru_owner = NoTask
  /\ pc = [t \in Tasks |-> "idle"]
  /\ dom = [t \in Tasks |-> NoDomain]
  /\ ip = [t \in Tasks |-> NoIp]
  /\ gone = [t \in Tasks |-> NoDomain]

-----------------------------------------------------------------------------
(***************************************************************************)
(* allocate(domain)                                                        *)
(***************************************************************************)

Allocate(t, d) ==
  /\ pc[t] = "idle"
  /\ Goto(t, "find_domain")
  /\ dom' = [dom EXCEPT ![t] = d]
  /\ ip' = [ip EXCEPT ![t] = NoIp]
  /\ UNCHANGED <<tables, lru, next_ip, lru_owner, gone>>

\* domain_to_ip.get: a hit keeps the read guard, a miss keeps nothing.
FindDomain(t) ==
  /\ pc[t] = "find_domain"
  /\ IF domain_to_ip[dom[t]] # NoIp
     THEN /\ ip' = [ip EXCEPT ![t] = domain_to_ip[dom[t]]]
          /\ Goto(t, "touch_domain")
     ELSE /\ Goto(t, "new")
          /\ UNCHANGED ip
  /\ UNCHANGED <<tables, lru, next_ip, lru_owner, dom, gone>>

\* lru.lock().get(&ip) under the read guard, and the address is returned.
TouchDomain(t) ==
  /\ pc[t] = "touch_domain"
  /\ lru_owner = NoTask
  /\ lru' = LruGet(lru, ip[t])
  /\ Goto(t, "idle")
  /\ UNCHANGED <<tables, next_ip, lru_owner, dom, ip, gone>>

(***************************************************************************)
(* allocate_new_ip(domain), which holds the mutex of lru from its first    *)
(* step to its last.                                                       *)
(***************************************************************************)

\* Mutant: the capacity is compared after the insertion it should precede.
NewLate(t) ==
  /\ pc[t] = "new"
  /\ lru_owner = NoTask
  /\ lru_owner' = t
  /\ IF Len(lru) > Capacity
     THEN /\ ip' = [ip EXCEPT ![t] = Head(lru)]
          /\ lru' = Tail(lru)
          /\ Goto(t, "evict_ip")
     ELSE /\ Goto(t, "next_ip")
          /\ UNCHANGED <<lru, ip>>
  /\ UNCHANGED <<tables, next_ip, dom, gone>>

\* Mutant: the least recently used address is read and not popped.
NewPeeks(t) ==
  /\ pc[t] = "new"
  /\ lru_owner = NoTask
  /\ lru_owner' = t
  /\ IF Len(lru) >= Capacity
     THEN /\ ip' = [ip EXCEPT ![t] = Head(lru)]
          /\ Goto(t, "evict_ip")
     ELSE /\ Goto(t, "next_ip")
          /\ UNCHANGED ip
  /\ UNCHANGED <<tables, lru, next_ip, dom, gone>>

\* lock, and pop the least recently used address of a full list.
New(t) ==
  /\ pc[t] = "new"
  /\ lru_owner = NoTask
  /\ lru_owner' = t
  /\ IF Len(lru) >= Capacity
     THEN /\ ip' = [ip EXCEPT ![t] = Head(lru)]
          /\ lru' = Tail(lru)
          /\ Goto(t, "evict_ip")
     ELSE /\ Goto(t, "next_ip")
          /\ UNCHANGED <<lru, ip>>
  /\ UNCHANGED <<tables, next_ip, dom, gone>>

\* ip_to_domain.remove(&ip), in two places: what it returns decides whether
\* the reverse entry is removed next.
RemoveIp(t, removed, absent) ==
  LET old == ip_to_domain[ip[t]]
  IN  /\ IpWritable(ip[t])
      /\ ip_to_domain' = [ip_to_domain EXCEPT ![ip[t]] = NoDomain]
      /\ gone' = [gone EXCEPT ![t] = old]
      /\ Goto(t, IF old # NoDomain THEN removed ELSE absent)
      /\ UNCHANGED <<domain_to_ip, lru, next_ip, lru_owner, dom, ip>>

\* domain_to_ip.remove(&old_domain), whatever address it holds by now.
RemoveDomain(t) ==
  /\ DomainWritable(gone[t])
  /\ domain_to_ip' = [domain_to_ip EXCEPT ![gone[t]] = NoIp]
  /\ gone' = [gone EXCEPT ![t] = NoDomain]

EvictIp(t) ==
  /\ pc[t] = "evict_ip"
  /\ RemoveIp(t, "evict_domain", "next_ip")

\* Mutant: the reverse entry of the evicted address is forgotten.
EvictDomainNever(t) ==
  /\ pc[t] = "evict_domain"
  /\ gone' = [gone EXCEPT ![t] = NoDomain]
  /\ Goto(t, "next_ip")
  /\ UNCHANGED <<tables, lru, next_ip, lru_owner, dom, ip>>

EvictDomain(t) ==
  /\ pc[t] = "evict_domain"
  /\ RemoveDomain(t)
  /\ Goto(t, "next_ip")
  /\ UNCHANGED <<ip_to_domain, lru, next_ip, lru_owner, dom, ip>>

\* Mutant: the counter wraps one address too late.
SuccessorLate(i) == IF i > PoolEnd THEN PoolStart ELSE i + 1

Successor(i) == IF i >= PoolEnd THEN PoolStart ELSE i + 1

\* The round robin and the "safety check": the address may be in use.
NextIp(t) ==
  /\ pc[t] = "next_ip"
  /\ ip' = [ip EXCEPT ![t] = next_ip]
  /\ next_ip' = Successor(next_ip)
  /\ Goto(t, IF ip_to_domain[next_ip] # NoDomain THEN "reclaim_ip" ELSE "insert_ip")
  /\ UNCHANGED <<tables, lru, lru_owner, dom, gone>>

ReclaimIp(t) ==
  /\ pc[t] = "reclaim_ip"
  /\ RemoveIp(t, "reclaim_domain", "insert_ip")

ReclaimDomain(t) ==
  /\ pc[t] = "reclaim_domain"
  /\ RemoveDomain(t)
  /\ lru' = LruPop(lru, ip[t])
  /\ Goto(t, "insert_ip")
  /\ UNCHANGED <<ip_to_domain, next_ip, lru_owner, dom, ip>>

InsertIp(t) ==
  /\ pc[t] = "insert_ip"
  /\ IpWritable(ip[t])
  /\ ip_to_domain' = [ip_to_domain EXCEPT ![ip[t]] = dom[t]]
  /\ Goto(t, "insert_domain")
  /\ UNCHANGED <<domain_to_ip, lru, next_ip, lru_owner, dom, ip, gone>>

\* Insert the reverse entry, put the address in the LRU list, unlock, return.
InsertDomain(t) ==
  /\ pc[t] = "insert_domain"
  /\ DomainWritable(dom[t])
  /\ domain_to_ip' = [domain_to_ip EXCEPT ![dom[t]] = ip[t]]
  /\ lru' = LruPut(lru, ip[t], Capacity)
  /\ lru_owner' = NoTask
  /\ Goto(t, "idle")
  /\ UNCHANGED <<ip_to_domain, next_ip, dom, ip, gone>>

-----------------------------------------------------------------------------
(***************************************************************************)
(* lookup(ip)                                                              *)
(***************************************************************************)

Lookup(t, i) ==
  /\ pc[t] = "idle"
  /\ Goto(t, "find_ip")
  /\ dom' = [dom EXCEPT ![t] = NoDomain]
  /\ ip' = [ip EXCEPT ![t] = i]
  /\ UNCHANGED <<tables, lru, next_ip, lru_owner, gone>>

\* ip_to_domain.get: a hit keeps the read guard, a miss returns None.
FindIp(t) ==
  /\ pc[t] = "find_ip"
  /\ dom' = [dom EXCEPT ![t] = ip_to_domain[ip[t]]]
  /\ Goto(t, IF ip_to_domain[ip[t]] # NoDomain THEN "touch_ip" ELSE "idle")
  /\ UNCHANGED <<tables, lru, next_ip, lru_owner, ip, gone>>

\* lru.lock().get(&ip) under the read guard, and the domain is returned.
TouchIp(t) ==
  /\ pc[t] = "touch_ip"
  /\ lru_owner = NoTask
  /\ lru' = LruGet(lru, ip[t])
  /\ Goto(t, "idle")
  /\ UNCHANGED <<tables, next_ip, lru_owner, dom, ip, gone>>

(***************************************************************************)
(* clear(): nothing in the program calls it, only a unit test, which makes *)
(* no other call meanwhile.                                                *)
(***************************************************************************)
Clear ==
  /\ \A t \in Tasks : pc[t] = "idle"
  /\ ip_to_domain' = [i \in Ips |-> NoDomain]
  /\ domain_to_ip' = [d \in Domains |-> NoIp]
  /\ lru' = << >>
  /\ UNCHANGED <<next_ip, lru_owner, pc, dom, ip, gone>>

-----------------------------------------------------------------------------
AllocateNewIp(t) ==
  \/ New(t) \/ EvictIp(t) \/ EvictDomain(t) \/ NextIp(t)
  \/ ReclaimIp(t) \/ ReclaimDomain(t) \/ InsertIp(t) \/ InsertDomain(t)

\* A step of a call in progress.
Step(t) ==
  \/ FindDomain(t) \/ TouchDomain(t) \/ AllocateNewIp(t)
  \/ FindIp(t) \/ TouchIp(t)

Next ==
  \/ \E t \in Tasks, d \in Domains : Allocate(t, d)
  \/ \E t \in Tasks, i \in Ips : Lookup(t, i)
  \/ \E t \in Tasks : Step(t)
  \/ Clear

Spec == Init /\ [][Next]_vars

\* Every task is scheduled, and every lock it can take again and again is
\* given to it in the end.
FairSpec == Spec /\ \A t \in Tasks : SF_vars(Step(t))

-----------------------------------------------------------------------------
TypeOK ==
  /\ ip_to_domain \in [Ips -> Domains \cup {NoDomain}]
  /\ domain_to_ip \in [Domains -> Ips \cup {NoIp}]
  /\ lru \in Seq(Ips)
  /\ next_ip \in Ips
  /\ lru_owner \in Tasks \cup {NoTask}
  /\ pc \in [Tasks -> Pcs]
  /\ dom \in [Tasks -> Domains \cup {NoDomain}]
  /\ ip \in [Tasks -> Ips \cup {NoIp}]
  /\ gone \in [Tasks -> Domains \cup {NoDomain}]

Mapped == {i \in Ips : ip_to_domain[i] # NoDomain}

(***************************************************************************)
(* When no allocation is under way, the address that a domain is answered  *)
(* with leads back to the same domain, so the connection a client opens to *)
(* it is proxied, and filtered, under the name the client asked for.       *)
(***************************************************************************)
AnswersLeadBack ==
  lru_owner = NoTask =>
    \A d \in Domains :
      domain_to_ip[d] # NoIp => ip_to_domain[domain_to_ip[d]] = d

(***************************************************************************)
(* When no allocation is under way, the LRU list holds each address that   *)
(* is bound exactly once, and nothing else: no binding is beyond eviction, *)
(* and no eviction is wasted on an address that is not bound.              *)
(***************************************************************************)
LruTracksMappings ==
  lru_owner = NoTask => IsInjective(lru) /\ ToSet(lru) = Mapped

(***************************************************************************)
(* The table never holds more bindings than its capacity, at any step of   *)
(* any allocation, and put never has to evict behind the tables' back.     *)
(***************************************************************************)
CapacityBound ==
  /\ Len(lru) <= Capacity
  /\ Cardinality(Mapped) <= Capacity
  /\ \A t \in Tasks : pc[t] = "insert_domain" => Len(lru) < Capacity

(***************************************************************************)
(* FakeDns implements FakeIpMap: every answer was true when it was given   *)
(* and no address changes its domain without being given up first, though  *)
(* both tables and the LRU list are changed one lock at a time.            *)
(***************************************************************************)
Answered ==
  [t \in Tasks |-> IF pc[t] = "idle" THEN <<ip[t], dom[t]>> ELSE <<NoIp, NoDomain>>]
Promise == INSTANCE FakeIpMap WITH binding <- ip_to_domain, reply <- Answered
Implements == Promise!Spec

-----------------------------------------------------------------------------
(***************************************************************************)
(* The inductive invariant behind the properties above.  They speak of the *)
(* moments when no allocation is under way; between its steps an           *)
(* allocation owes the tables exactly one change, which these parts name.  *)
(***************************************************************************)

\* The mutex is held by the one task that is inside allocate_new_ip.
LockInv == \A t \in Tasks : pc[t] \in Critical <=> lru_owner = t

RegistersInv ==
  \A t \in Tasks :
    /\ pc[t] \in {"find_domain", "touch_domain", "new"} \cup Critical => dom[t] \in Domains
    /\ pc[t] \in {"touch_domain", "find_ip", "touch_ip"} \cup (Critical \ {"next_ip"}) => ip[t] \in Ips
    /\ pc[t] \in {"evict_domain", "reclaim_domain"} => gone[t] \in Domains

\* What a task read under a read guard is still in the table.
GuardInv ==
  \A t \in Tasks :
    /\ pc[t] = "touch_domain" => domain_to_ip[dom[t]] = ip[t]
    /\ pc[t] = "touch_ip" => dom[t] \in Domains /\ ip_to_domain[ip[t]] = dom[t]

\* What the task inside allocate_new_ip knows of its address.
AllocationInv ==
  \A t \in Tasks :
    /\ pc[t] \in {"evict_ip", "reclaim_ip"} => ip_to_domain[ip[t]] # NoDomain
    /\ pc[t] \in {"evict_domain", "reclaim_domain", "insert_ip"} => ip_to_domain[ip[t]] = NoDomain
    /\ pc[t] = "insert_domain" => ip_to_domain[ip[t]] = dom[t]

\* domain_to_ip leads back, but for an entry that is about to be removed.
ReverseInv ==
  \A d \in Domains :
    \/ domain_to_ip[d] = NoIp
    \/ ip_to_domain[domain_to_ip[d]] = d
    \/ \E t \in Tasks : /\ pc[t] \in {"evict_domain", "reclaim_domain"}
                        /\ gone[t] = d
                        /\ ip[t] = domain_to_ip[d]

\* The LRU list holds the addresses that are bound, but for one.
LruInv ==
  \A i \in Ips :
    i \in ToSet(lru) <=>
      \/ /\ ip_to_domain[i] # NoDomain
         /\ ~ \E t \in Tasks : pc[t] \in {"evict_ip", "insert_domain"} /\ ip[t] = i
      \/ \E t \in Tasks : pc[t] = "reclaim_domain" /\ ip[t] = i

\* Room for the address being allocated.
RoomInv ==
  /\ IsInjective(lru)
  /\ Len(lru) <= Capacity
  /\ lru_owner # NoTask => Len(lru) < Capacity

IInv ==
  /\ TypeOK /\ LockInv /\ RegistersInv /\ GuardInv /\ AllocationInv
  /\ ReverseInv /\ LruInv /\ RoomInv

-----------------------------------------------------------------------------
(***************************************************************************)
(* What the comments of the code say, and the code does not keep.          *)
(***************************************************************************)

\* "If the domain already has an allocated IP, returns it": one domain has
\* one address.
OneIpPerDomain ==
  lru_owner = NoTask =>
    \A i, j \in Mapped : ip_to_domain[i] = ip_to_domain[j] => i = j

\* "If this IP is still in use (shouldn't happen with proper LRU)".
NextIpIsFree == \A t \in Tasks : pc[t] # "reclaim_ip"

\* An allocation that was called returns.
AllocateReturns == \A t \in Tasks : pc[t] = "find_domain" ~> pc[t] = "idle"
=============================================================================
