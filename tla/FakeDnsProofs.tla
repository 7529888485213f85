--------------------------- MODULE FakeDnsProofs ---------------------------
(***************************************************************************)
(* Proofs about FakeDns, for any tasks, domains, pool, capacity and        *)
(* sharding: its inductive invariant, and the properties of its runs that  *)
(* follow from it.                                                         *)
(***************************************************************************)
EXTENDS FakeDns, SequenceLemmas

(***************************************************************************)
(* The pool and the capacity, whatever network and cache size the          *)
(* configuration asks for.                                                 *)
(***************************************************************************)
LEMMA PoolFacts ==
  /\ Capacity \in Nat \ {0}
  /\ PoolStart \in Ips
  /\ \A i \in Ips : Successor(i) \in Ips
  /\ IsFiniteSet(Ips)
<1>1. Capacity \in Nat \ {0}
  BY PoolAssumption DEF Capacity, PoolSize, PoolStart, PoolEnd
<1>2. PoolStart \in Ips
  BY PoolAssumption DEF Ips, PoolStart, PoolEnd
<1>3. \A i \in Ips : Successor(i) \in Ips
  BY PoolAssumption DEF Ips, PoolStart, PoolEnd, Successor
<1>4. IsFiniteSet(Ips)
  <2>1. /\ PoolStart \in Int
        /\ (IF PoolEnd >= PoolStart THEN PoolEnd ELSE PoolStart) \in Int
    BY PoolAssumption DEF PoolStart, PoolEnd
  <2> QED
    BY <2>1, FS_Interval DEF Ips
<1> QED
  BY <1>1, <1>2, <1>3, <1>4

LEMMA InitIInv == Init => IInv
<1> SUFFICES ASSUME Init PROVE IInv
  OBVIOUS
<1>1. << >> \in Seq(Ips) /\ Len(<< >>) = 0 /\ DOMAIN << >> = {}
  OBVIOUS
<1>2. ToSet(lru) = {} /\ IsInjective(lru)
  BY <1>1 DEF Init, ToSet, IsInjective
<1>3. TypeOK
  BY <1>1, PoolFacts, SentinelAssumption DEF Init, TypeOK, Pcs
<1>4. LockInv /\ RegistersInv /\ GuardInv /\ AllocationInv
  BY SentinelAssumption DEF Init, LockInv, RegistersInv, GuardInv, AllocationInv, Critical
<1>5. ReverseInv
  BY DEF Init, ReverseInv
<1>6. LruInv
  BY <1>2 DEF Init, LruInv
<1>7. RoomInv
  BY <1>1, <1>2, PoolFacts DEF Init, RoomInv
<1> QED
  BY <1>3, <1>4, <1>5, <1>6, <1>7 DEF IInv

(***************************************************************************)
(* The owed changes of ReverseInv and LruInv are owed by a task inside     *)
(* allocate_new_ip, so the steps of the other tasks leave both alone.      *)
(***************************************************************************)
LEMMA ReverseStable ==
  ASSUME ReverseInv, NEW t \in Tasks, UNCHANGED <<tables, gone>>,
         pc[t] \notin {"evict_domain", "reclaim_domain"},
         \A u \in Tasks \ {t} : pc'[u] = pc[u] /\ ip'[u] = ip[u]
  PROVE  ReverseInv'
BY DEF ReverseInv, tables

LEMMA LruStable ==
  ASSUME LruInv, NEW t \in Tasks, ip_to_domain' = ip_to_domain, ToSet(lru') = ToSet(lru),
         pc[t] \notin {"evict_ip", "insert_domain", "reclaim_domain"},
         pc'[t] \notin {"evict_ip", "insert_domain", "reclaim_domain"},
         \A u \in Tasks \ {t} : pc'[u] = pc[u] /\ ip'[u] = ip[u]
  PROVE  LruInv'
<1> SUFFICES ASSUME NEW i \in Ips
             PROVE  i \in ToSet(lru') <=>
                      \/ /\ ip_to_domain'[i] # NoDomain
                         /\ ~ \E u \in Tasks : pc'[u] \in {"evict_ip", "insert_domain"} /\ ip'[u] = i
                      \/ \E u \in Tasks : pc'[u] = "reclaim_domain" /\ ip'[u] = i
  BY DEF LruInv
<1>1. \A u \in Tasks : /\ pc'[u] \in {"evict_ip", "insert_domain"} /\ ip'[u] = i
                            <=> pc[u] \in {"evict_ip", "insert_domain"} /\ ip[u] = i
                       /\ pc'[u] = "reclaim_domain" /\ ip'[u] = i
                            <=> pc[u] = "reclaim_domain" /\ ip[u] = i
  OBVIOUS
<1> QED
  BY <1>1 DEF LruInv

(***************************************************************************)
(* Steps that change neither table nor list: the calls, and the reads.     *)
(***************************************************************************)
LEMMA AllocateIInv ==
  ASSUME IInv, NEW t \in Tasks, NEW d \in Domains, Allocate(t, d)
  PROVE  IInv'
<1> USE DEF Allocate, IInv, TypeOK, Goto, tables
<1>1. TypeOK'
  BY DEF Pcs, Critical
<1>2. (LockInv /\ RegistersInv /\ GuardInv /\ AllocationInv)'
  BY DEF LockInv, RegistersInv, GuardInv, AllocationInv, Critical
<1>3. ReverseInv'
  BY ReverseStable
<1>4. LruInv'
  BY LruStable
<1>5. RoomInv'
  BY DEF RoomInv
<1> QED
  BY <1>1, <1>2, <1>3, <1>4, <1>5

LEMMA LookupIInv ==
  ASSUME IInv, NEW t \in Tasks, NEW i \in Ips, Lookup(t, i)
  PROVE  IInv'
<1> USE DEF Lookup, IInv, TypeOK, Goto, tables
<1>1. TypeOK'
  BY DEF Pcs, Critical
<1>2. (LockInv /\ RegistersInv /\ GuardInv /\ AllocationInv)'
  BY DEF LockInv, RegistersInv, GuardInv, AllocationInv, Critical
<1>3. ReverseInv'
  BY ReverseStable
<1>4. LruInv'
  BY LruStable
<1>5. RoomInv'
  BY DEF RoomInv
<1> QED
  BY <1>1, <1>2, <1>3, <1>4, <1>5

LEMMA FindDomainIInv ==
  ASSUME IInv, NEW t \in Tasks, FindDomain(t)
  PROVE  IInv'
<1> USE DEF FindDomain, IInv, TypeOK, Goto, tables
<1>0. dom[t] \in Domains
  BY DEF RegistersInv
<1>1. TypeOK'
  BY <1>0 DEF Pcs, Critical
<1>2. (LockInv /\ RegistersInv /\ GuardInv /\ AllocationInv)'
  BY <1>0 DEF LockInv, RegistersInv, GuardInv, AllocationInv, Critical
<1>3. ReverseInv'
  BY ReverseStable
<1>4. LruInv'
  BY LruStable
<1>5. RoomInv'
  BY DEF RoomInv
<1> QED
  BY <1>1, <1>2, <1>3, <1>4, <1>5

LEMMA FindIpIInv ==
  ASSUME IInv, NEW t \in Tasks, FindIp(t)
  PROVE  IInv'
<1> USE DEF FindIp, IInv, TypeOK, Goto, tables
<1>0. ip[t] \in Ips
  BY DEF RegistersInv
<1>1. TypeOK'
  BY <1>0 DEF Pcs, Critical
<1>2. (LockInv /\ RegistersInv /\ GuardInv /\ AllocationInv)'
  BY <1>0 DEF LockInv, RegistersInv, GuardInv, AllocationInv, Critical
<1>3. ReverseInv'
  BY ReverseStable
<1>4. LruInv'
  BY LruStable
<1>5. RoomInv'
  BY DEF RoomInv
<1> QED
  BY <1>1, <1>2, <1>3, <1>4, <1>5

(***************************************************************************)
(* Steps that only reorder the LRU list.                                   *)
(***************************************************************************)
LEMMA TouchDomainIInv ==
  ASSUME IInv, NEW t \in Tasks, TouchDomain(t)
  PROVE  IInv'
<1> USE DEF TouchDomain, IInv, TypeOK, Goto, tables
<1>0. ip[t] \in Ips /\ IsInjective(lru)
  BY DEF RegistersInv, RoomInv
<1>1. /\ lru' \in Seq(Ips)
      /\ ToSet(lru') = ToSet(lru)
      /\ IsInjective(lru')
      /\ Len(lru') = Len(lru)
  BY <1>0, LruGetKeys
<1>2. TypeOK'
  BY <1>1 DEF Pcs, Critical
<1>3. (LockInv /\ RegistersInv /\ GuardInv /\ AllocationInv)'
  BY DEF LockInv, RegistersInv, GuardInv, AllocationInv, Critical
<1>4. ReverseInv'
  BY ReverseStable
<1>5. LruInv'
  BY <1>1, LruStable
<1>6. RoomInv'
  BY <1>1 DEF RoomInv
<1> QED
  BY <1>2, <1>3, <1>4, <1>5, <1>6

LEMMA TouchIpIInv ==
  ASSUME IInv, NEW t \in Tasks, TouchIp(t)
  PROVE  IInv'
<1> USE DEF TouchIp, IInv, TypeOK, Goto, tables
<1>0. ip[t] \in Ips /\ IsInjective(lru)
  BY DEF RegistersInv, RoomInv
<1>1. /\ lru' \in Seq(Ips)
      /\ ToSet(lru') = ToSet(lru)
      /\ IsInjective(lru')
      /\ Len(lru') = Len(lru)
  BY <1>0, LruGetKeys
<1>2. TypeOK'
  BY <1>1 DEF Pcs, Critical
<1>3. (LockInv /\ RegistersInv /\ GuardInv /\ AllocationInv)'
  BY DEF LockInv, RegistersInv, GuardInv, AllocationInv, Critical
<1>4. ReverseInv'
  BY ReverseStable
<1>5. LruInv'
  BY <1>1, LruStable
<1>6. RoomInv'
  BY <1>1 DEF RoomInv
<1> QED
  BY <1>2, <1>3, <1>4, <1>5, <1>6

(***************************************************************************)
(* The steps of allocate_new_ip.  The task that makes one is the only one  *)
(* inside: what the invariant says of the others' allocations is empty.    *)
(***************************************************************************)
LEMMA OneInside ==
  ASSUME LockInv, NEW t \in Tasks, pc[t] \in Critical
  PROVE  lru_owner = t /\ \A u \in Tasks \ {t} : pc[u] \notin Critical
BY DEF LockInv

LEMMA NewIInv ==
  ASSUME IInv, NEW t \in Tasks, New(t)
  PROVE  IInv'
<1> USE DEF New, IInv, TypeOK, Goto, tables
<1>0. /\ \A u \in Tasks : pc[u] \notin Critical
      /\ \A u \in Tasks \ {t} : pc'[u] = pc[u] /\ ip'[u] = ip[u]
  BY SentinelAssumption DEF LockInv
<1>1. CASE Len(lru) >= Capacity
  <2>1. lru # << >>
    BY <1>1, PoolFacts
  <2>2. /\ Head(lru) \in Ips
        /\ Head(lru) \in ToSet(lru)
        /\ lru' \in Seq(Ips)
        /\ ToSet(lru') = ToSet(lru) \ {Head(lru)}
        /\ IsInjective(lru')
        /\ Len(lru') = Len(lru) - 1
    <3>1. lru \in Seq(Ips) /\ IsInjective(lru) /\ lru' = Tail(lru)
      BY <1>1 DEF RoomInv
    <3> HIDE DEF New, IInv, TypeOK, Goto, tables
    <3> QED
      BY <2>1, <3>1, TailKeys
  <2>3. pc'[t] = "evict_ip" /\ ip'[t] = Head(lru)
    BY <1>1
  <2>4. \A i \in Ips : i \in ToSet(lru) <=> ip_to_domain[i] # NoDomain
    BY <1>0 DEF LruInv, Critical
  <2>5. TypeOK'
    BY <1>1, <2>2 DEF Pcs, Critical
  <2>6. (LockInv /\ RegistersInv /\ GuardInv /\ AllocationInv)'
    BY <1>0, <1>1, <2>2, <2>3, <2>4, SentinelAssumption
    DEF LockInv, RegistersInv, GuardInv, AllocationInv, Critical
  <2>7. ReverseInv'
    BY <1>0, ReverseStable DEF Critical
  <2>8. LruInv'
    BY <1>0, <2>2, <2>3, <2>4 DEF LruInv, Critical
  <2>9. RoomInv'
    <3>1. Len(lru) \in Nat /\ Len(lru) <= Capacity
      BY DEF RoomInv
    <3> QED
      BY <2>2, <3>1, PoolFacts DEF RoomInv
  <2> QED
    BY <2>5, <2>6, <2>7, <2>8, <2>9
<1>2. CASE ~(Len(lru) >= Capacity)
  <2>1. pc'[t] = "next_ip" /\ lru' = lru /\ ip' = ip
    BY <1>2
  <2>2. TypeOK'
    BY <2>1 DEF Pcs, Critical
  <2>3. (LockInv /\ RegistersInv /\ GuardInv /\ AllocationInv)'
    BY <1>0, <2>1, SentinelAssumption
    DEF LockInv, RegistersInv, GuardInv, AllocationInv, Critical
  <2>4. ReverseInv'
    BY <1>0, ReverseStable DEF Critical
  <2>5. LruInv'
    BY <1>0, <2>1, LruStable DEF Critical
  <2>6. RoomInv'
    BY <1>2, <2>1, PoolFacts DEF RoomInv
  <2> QED
    BY <2>2, <2>3, <2>4, <2>5, <2>6
<1> QED
  BY <1>1, <1>2

LEMMA EvictDomainIInv ==
  ASSUME IInv, NEW t \in Tasks, EvictDomain(t)
  PROVE  IInv'
<1> USE DEF EvictDomain, RemoveDomain, DomainWritable, IInv, TypeOK, Goto, tables
<1>0. /\ lru_owner = t
      /\ \A u \in Tasks \ {t} : pc[u] \notin Critical
      /\ gone[t] \in Domains
      /\ ip[t] \in Ips
      /\ pc'[t] = "next_ip"
      /\ \A u \in Tasks \ {t} : pc'[u] = pc[u]
  BY OneInside DEF RegistersInv, Critical
<1>1. TypeOK'
  BY <1>0 DEF Pcs, Critical
<1>2. (LockInv /\ RegistersInv /\ AllocationInv)'
  BY <1>0 DEF LockInv, RegistersInv, AllocationInv, Critical
<1>3. GuardInv'
  BY <1>0 DEF GuardInv
<1>4. ReverseInv'
  BY <1>0 DEF ReverseInv, Critical
<1>5. LruInv'
  BY <1>0, LruStable DEF Critical
<1>6. RoomInv'
  BY <1>0 DEF RoomInv
<1> QED
  BY <1>1, <1>2, <1>3, <1>4, <1>5, <1>6

LEMMA ReclaimDomainIInv ==
  ASSUME IInv, NEW t \in Tasks, ReclaimDomain(t)
  PROVE  IInv'
<1> USE DEF ReclaimDomain, RemoveDomain, DomainWritable, IInv, TypeOK, Goto, tables
<1>0. /\ lru_owner = t
      /\ \A u \in Tasks \ {t} : pc[u] \notin Critical
      /\ gone[t] \in Domains
      /\ ip[t] \in Ips
      /\ pc'[t] = "insert_ip"
      /\ \A u \in Tasks \ {t} : pc'[u] = pc[u]
  BY OneInside DEF RegistersInv, Critical
<1>a. /\ lru' \in Seq(Ips)
      /\ ToSet(lru') = ToSet(lru) \ {ip[t]}
      /\ IsInjective(lru')
      /\ Len(lru') <= Len(lru)
  <2>1. Len(lru) \in Nat
    OBVIOUS
  <2> QED
    BY <2>1, LruPopKeys DEF RoomInv
<1>1. TypeOK'
  BY <1>0, <1>a DEF Pcs, Critical
<1>2. (LockInv /\ RegistersInv /\ AllocationInv)'
  BY <1>0 DEF LockInv, RegistersInv, AllocationInv, Critical
<1>3. GuardInv'
  BY <1>0 DEF GuardInv
<1>4. ReverseInv'
  BY <1>0 DEF ReverseInv, Critical
<1>5. LruInv'
  <2>1. ip_to_domain[ip[t]] = NoDomain
    BY DEF AllocationInv
  <2> QED
    BY <1>0, <1>a, <2>1 DEF LruInv, Critical
<1>6. RoomInv'
  <2>1. Len(lru) \in Nat /\ Len(lru') \in Nat /\ Capacity \in Nat
    BY <1>a, PoolFacts
  <2> QED
    BY <1>0, <1>a, <2>1 DEF RoomInv
<1> QED
  BY <1>1, <1>2, <1>3, <1>4, <1>5, <1>6

LEMMA EvictIpIInv ==
  ASSUME IInv, NEW t \in Tasks, EvictIp(t)
  PROVE  IInv'
<1> USE DEF EvictIp, RemoveIp, IpWritable, IInv, TypeOK, Goto, tables
<1>0. /\ lru_owner = t
      /\ \A u \in Tasks \ {t} : pc[u] \notin Critical
      /\ ip[t] \in Ips
      /\ ip_to_domain[ip[t]] \in Domains
      /\ pc'[t] = "evict_domain"
      /\ gone'[t] = ip_to_domain[ip[t]]
      /\ \A u \in Tasks \ {t} : pc'[u] = pc[u] /\ gone'[u] = gone[u]
  BY OneInside DEF RegistersInv, AllocationInv, Critical
<1>1. ip_to_domain'[ip[t]] = NoDomain /\ \A i \in Ips \ {ip[t]} : ip_to_domain'[i] = ip_to_domain[i]
  BY <1>0
<1>2. TypeOK'
  BY <1>0 DEF Pcs, Critical
<1>3. (LockInv /\ RegistersInv /\ AllocationInv)'
  BY <1>0, <1>1 DEF LockInv, RegistersInv, AllocationInv, Critical
<1>4. GuardInv'
  BY <1>0 DEF GuardInv, RegistersInv
<1>5. ReverseInv'
  BY <1>0, <1>1, SentinelAssumption DEF ReverseInv, Critical
<1>6. LruInv'
  BY <1>0, <1>1 DEF LruInv, Critical
<1>7. RoomInv'
  BY <1>0 DEF RoomInv
<1> QED
  BY <1>2, <1>3, <1>4, <1>5, <1>6, <1>7

LEMMA ReclaimIpIInv ==
  ASSUME IInv, NEW t \in Tasks, ReclaimIp(t)
  PROVE  IInv'
<1> USE DEF ReclaimIp, RemoveIp, IpWritable, IInv, TypeOK, Goto, tables
<1>0. /\ lru_owner = t
      /\ \A u \in Tasks \ {t} : pc[u] \notin Critical
      /\ ip[t] \in Ips
      /\ ip_to_domain[ip[t]] \in Domains
      /\ pc'[t] = "reclaim_domain"
      /\ gone'[t] = ip_to_domain[ip[t]]
      /\ \A u \in Tasks \ {t} : pc'[u] = pc[u] /\ gone'[u] = gone[u]
  BY OneInside DEF RegistersInv, AllocationInv, Critical
<1>1. ip_to_domain'[ip[t]] = NoDomain /\ \A i \in Ips \ {ip[t]} : ip_to_domain'[i] = ip_to_domain[i]
  BY <1>0
<1>2. TypeOK'
  BY <1>0 DEF Pcs, Critical
<1>3. (LockInv /\ RegistersInv /\ AllocationInv)'
  BY <1>0, <1>1 DEF LockInv, RegistersInv, AllocationInv, Critical
<1>4. GuardInv'
  BY <1>0 DEF GuardInv, RegistersInv
<1>5. ReverseInv'
  BY <1>0, <1>1, SentinelAssumption DEF ReverseInv, Critical
<1>6. LruInv'
  BY <1>0, <1>1 DEF LruInv, Critical
<1>7. RoomInv'
  BY <1>0 DEF RoomInv
<1> QED
  BY <1>2, <1>3, <1>4, <1>5, <1>6, <1>7

LEMMA NextIpIInv ==
  ASSUME IInv, NEW t \in Tasks, NextIp(t)
  PROVE  IInv'
<1> USE DEF NextIp, IInv, TypeOK, Goto, tables
<1>0. /\ lru_owner = t
      /\ \A u \in Tasks \ {t} : pc[u] \notin Critical
      /\ ip'[t] = next_ip
      /\ pc'[t] \in {"reclaim_ip", "insert_ip"}
      /\ \A u \in Tasks \ {t} : pc'[u] = pc[u] /\ ip'[u] = ip[u]
  BY OneInside DEF Critical
<1>1. TypeOK'
  BY PoolFacts DEF Pcs, Critical
<1>2. (LockInv /\ RegistersInv /\ GuardInv /\ AllocationInv)'
  BY <1>0 DEF LockInv, RegistersInv, GuardInv, AllocationInv, Critical
<1>3. ReverseInv'
  BY <1>0, ReverseStable
<1>4. LruInv'
  BY <1>0, LruStable
<1>5. RoomInv'
  BY DEF RoomInv
<1> QED
  BY <1>1, <1>2, <1>3, <1>4, <1>5

LEMMA InsertIpIInv ==
  ASSUME IInv, NEW t \in Tasks, InsertIp(t)
  PROVE  IInv'
<1> USE DEF InsertIp, IpWritable, IInv, TypeOK, Goto, tables
<1>0. /\ lru_owner = t
      /\ \A u \in Tasks \ {t} : pc[u] \notin Critical
      /\ ip[t] \in Ips
      /\ dom[t] \in Domains
      /\ ip_to_domain[ip[t]] = NoDomain
      /\ pc'[t] = "insert_domain"
      /\ \A u \in Tasks \ {t} : pc'[u] = pc[u]
  BY OneInside DEF RegistersInv, AllocationInv, Critical
<1>1. ip_to_domain'[ip[t]] = dom[t] /\ \A i \in Ips \ {ip[t]} : ip_to_domain'[i] = ip_to_domain[i]
  BY <1>0
<1>2. TypeOK'
  BY <1>0 DEF Pcs, Critical
<1>3. (LockInv /\ RegistersInv /\ AllocationInv)'
  BY <1>0, <1>1 DEF LockInv, RegistersInv, AllocationInv, Critical
<1>4. GuardInv'
  BY <1>0 DEF GuardInv, RegistersInv
<1>5. ReverseInv'
  BY <1>0, <1>1, SentinelAssumption DEF ReverseInv, Critical
<1>6. LruInv'
  BY <1>0, <1>1, SentinelAssumption DEF LruInv, Critical
<1>7. RoomInv'
  BY <1>0 DEF RoomInv
<1> QED
  BY <1>2, <1>3, <1>4, <1>5, <1>6, <1>7

LEMMA InsertDomainIInv ==
  ASSUME IInv, NEW t \in Tasks, InsertDomain(t)
  PROVE  IInv'
<1> USE DEF InsertDomain, DomainWritable, IInv, TypeOK, Goto, tables
<1>0. /\ lru_owner = t
      /\ \A u \in Tasks \ {t} : pc[u] \notin Critical
      /\ ip[t] \in Ips
      /\ dom[t] \in Domains
      /\ ip_to_domain[ip[t]] = dom[t]
      /\ pc'[t] = "idle"
      /\ \A u \in Tasks \ {t} : pc'[u] = pc[u]
  BY OneInside DEF RegistersInv, AllocationInv, Critical
<1>a. IsInjective(lru) /\ Len(lru) < Capacity /\ ip[t] \notin ToSet(lru)
  BY <1>0, SentinelAssumption DEF RoomInv, LruInv, Critical
<1>b. /\ lru' \in Seq(Ips)
      /\ ToSet(lru') = ToSet(lru) \cup {ip[t]}
      /\ IsInjective(lru')
      /\ Len(lru') = Len(lru) + 1
  BY <1>0, <1>a, LruPutNewKey, PoolFacts
<1>1. TypeOK'
  BY <1>0, <1>b DEF Pcs, Critical
<1>2. (LockInv /\ RegistersInv /\ AllocationInv)'
  BY <1>0, SentinelAssumption DEF LockInv, RegistersInv, AllocationInv, Critical
<1>3. GuardInv'
  BY <1>0 DEF GuardInv
<1>4. ReverseInv'
  BY <1>0 DEF ReverseInv, Critical
<1>5. LruInv'
  BY <1>0, <1>b, SentinelAssumption DEF LruInv, Critical
<1>6. RoomInv'
  <2>1. Len(lru) \in Nat /\ Capacity \in Nat
    BY PoolFacts
  <2> QED
    BY <1>a, <1>b, <2>1 DEF RoomInv
<1> QED
  BY <1>1, <1>2, <1>3, <1>4, <1>5, <1>6

LEMMA ClearIInv ==
  ASSUME IInv, Clear
  PROVE  IInv'
<1> USE DEF Clear, IInv, TypeOK
<1>1. << >> \in Seq(Ips) /\ Len(<< >>) = 0 /\ DOMAIN << >> = {}
  OBVIOUS
<1>2. ToSet(lru') = {} /\ IsInjective(lru')
  BY <1>1 DEF ToSet, IsInjective
<1>3. TypeOK'
  BY <1>1
<1>4. (LockInv /\ RegistersInv /\ GuardInv /\ AllocationInv)'
  BY DEF LockInv, RegistersInv, GuardInv, AllocationInv, Critical
<1>5. ReverseInv'
  BY DEF ReverseInv
<1>6. LruInv'
  BY <1>2 DEF LruInv
<1>7. RoomInv'
  BY <1>1, <1>2, PoolFacts, SentinelAssumption DEF RoomInv, LockInv, Critical
<1> QED
  BY <1>3, <1>4, <1>5, <1>6, <1>7
-----------------------------------------------------------------------------
LEMMA NextIInv == IInv /\ [Next]_vars => IInv'
<1> SUFFICES ASSUME IInv, [Next]_vars PROVE IInv'
  OBVIOUS
<1>1. ASSUME NEW t \in Tasks, NEW d \in Domains, Allocate(t, d) PROVE IInv'
  BY <1>1, AllocateIInv
<1>2. ASSUME NEW t \in Tasks, NEW i \in Ips, Lookup(t, i) PROVE IInv'
  BY <1>2, LookupIInv
<1>3. ASSUME NEW t \in Tasks, Step(t) PROVE IInv'
  BY <1>3, FindDomainIInv, TouchDomainIInv, NewIInv, EvictIpIInv, EvictDomainIInv,
     NextIpIInv, ReclaimIpIInv, ReclaimDomainIInv, InsertIpIInv, InsertDomainIInv,
     FindIpIInv, TouchIpIInv
  DEF Step, AllocateNewIp
<1>4. CASE Clear
  BY <1>4, ClearIInv
<1>5. CASE UNCHANGED vars
  BY <1>5 DEF vars, tables, IInv, TypeOK, LockInv, RegistersInv, GuardInv, AllocationInv,
              ReverseInv, LruInv, RoomInv
<1> QED
  BY <1>1, <1>2, <1>3, <1>4, <1>5 DEF Next

(* The inductive invariant, for any number of tasks and any configuration. *)
THEOREM Invariance == Spec => []IInv
<1> QED
  BY InitIInv, NextIInv, PTL DEF Spec

(* The state of FakeDns (fake_dns.rs 27-46) is always well typed: next_ip  *)
(* stays in the pool, and the LRU list only holds addresses of it.         *)
THEOREM TypeCorrect == Spec => []TypeOK
<1>1. IInv => TypeOK
  BY DEF IInv
<1> QED
  BY <1>1, Invariance, PTL

LEMMA NobodyInside ==
  ASSUME LockInv, lru_owner = NoTask
  PROVE  \A t \in Tasks : pc[t] \notin Critical
BY SentinelAssumption DEF LockInv

(* Outside allocate_new_ip an answered address leads back to its domain.   *)
THEOREM AnswersAlwaysLeadBack == Spec => []AnswersLeadBack
<1>1. IInv => AnswersLeadBack
  BY NobodyInside DEF IInv, AnswersLeadBack, ReverseInv, Critical
<1> QED
  BY <1>1, Invariance, PTL

(* Outside allocate_new_ip the LRU list is the list of bound addresses.    *)
THEOREM LruAlwaysTracksMappings == Spec => []LruTracksMappings
<1>1. IInv => LruTracksMappings
  <2> SUFFICES ASSUME IInv, lru_owner = NoTask
               PROVE  IsInjective(lru) /\ ToSet(lru) = Mapped
    BY DEF LruTracksMappings
  <2>1. ToSet(lru) \subseteq Ips
    BY DEF IInv, TypeOK, ToSet
  <2>2. \A i \in Ips : i \in ToSet(lru) <=> ip_to_domain[i] # NoDomain
    BY NobodyInside DEF IInv, LruInv, Critical
  <2> QED
    BY <2>1, <2>2 DEF Mapped, IInv, RoomInv
<1> QED
  BY <1>1, Invariance, PTL

(* The table never holds more bindings than the capacity, even inside      *)
(* allocate_new_ip, so lru.put (fake_dns.rs 173) never drops an address.   *)
THEOREM CapacityIsNeverExceeded == Spec => []CapacityBound
<1>1. IInv => CapacityBound
  <2> SUFFICES ASSUME IInv PROVE CapacityBound
    OBVIOUS
  <2> DEFINE listed == ToSet(lru)
  <2>1. /\ lru \in Seq(Ips)
        /\ IsInjective(lru)
        /\ Len(lru) \in Nat
        /\ Len(lru) <= Capacity
        /\ Capacity \in Nat
    BY PoolFacts DEF IInv, TypeOK, RoomInv
  <2>2. IsFiniteSet(listed) /\ Cardinality(listed) = Len(lru)
    BY <2>1, LruCardinality
  <2>3. CASE lru_owner = NoTask
    <3>1. Mapped = listed
      <4>1. ToSet(lru) \subseteq Ips
        BY <2>1 DEF ToSet
      <4> QED
        BY <2>3, <4>1, NobodyInside DEF IInv, LruInv, Critical, Mapped
    <3>2. \A t \in Tasks : pc[t] # "insert_domain"
      BY <2>3, NobodyInside DEF IInv, Critical
    <3> QED
      BY <2>1, <2>2, <3>1, <3>2 DEF CapacityBound
  <2>4. CASE lru_owner # NoTask
    <3>1. Len(lru) < Capacity
      BY <2>4 DEF IInv, RoomInv
    <3>2. Mapped \subseteq listed \cup {ip[lru_owner]}
      <4> SUFFICES ASSUME NEW i \in Mapped, i \notin listed
                   PROVE  i = ip[lru_owner]
        OBVIOUS
      <4>1. PICK t \in Tasks : pc[t] \in {"evict_ip", "insert_domain"} /\ ip[t] = i
        BY DEF IInv, LruInv, Mapped
      <4> QED
        BY <4>1 DEF IInv, LockInv, Critical
    <3>3. /\ IsFiniteSet(listed \cup {ip[lru_owner]})
          /\ Cardinality(listed \cup {ip[lru_owner]}) <= Len(lru) + 1
      <4>1. /\ IsFiniteSet(listed \cup {ip[lru_owner]})
            /\ Cardinality(listed \cup {ip[lru_owner]}) \in {Len(lru), Len(lru) + 1}
        BY <2>2, FS_AddElement
      <4> HIDE DEF listed
      <4> QED
        BY <2>1, <4>1
    <3>4. /\ IsFiniteSet(Mapped)
          /\ Cardinality(Mapped) <= Cardinality(listed \cup {ip[lru_owner]})
      BY <3>2, <3>3, FS_Subset
    <3>5. Cardinality(Mapped) \in Nat /\ Cardinality(listed \cup {ip[lru_owner]}) \in Nat
      BY <3>3, <3>4, FS_CardinalityType
    <3> QED
      BY <2>1, <3>1, <3>3, <3>4, <3>5 DEF CapacityBound
  <2> QED
    BY <2>3, <2>4
<1> QED
  BY <1>1, Invariance, PTL
-----------------------------------------------------------------------------
(***************************************************************************)
(* The refinement.  A call makes the answer of its task Pending; only its  *)
(* last step gives a new one; the steps between change no answer.          *)
(***************************************************************************)
LEMMA AnswerUnchanged ==
  ASSUME NEW t \in Tasks, pc[t] # "idle", pc'[t] # "idle",
         \A u \in Tasks \ {t} : pc'[u] = pc[u] /\ ip'[u] = ip[u] /\ dom'[u] = dom[u]
  PROVE  Answered' = Answered
BY DEF Answered

LEMMA StartIsCall ==
  ASSUME NEW t \in Tasks, pc'[t] # "idle", UNCHANGED ip_to_domain,
         \A u \in Tasks \ {t} : pc'[u] = pc[u] /\ ip'[u] = ip[u] /\ dom'[u] = dom[u]
  PROVE  Promise!Next
<1>1. Answered' = [Answered EXCEPT ![t] = <<NoIp, NoDomain>>]
  BY DEF Answered
<1> QED
  BY <1>1 DEF Promise!Next, Promise!Call, Promise!Pending

LEMMA ReturnIsAnswer ==
  ASSUME NEW t \in Tasks, pc[t] # "idle", pc'[t] = "idle",
         ip'[t] \in Ips, dom'[t] = ip_to_domain[ip'[t]], UNCHANGED ip_to_domain,
         \A u \in Tasks \ {t} : pc'[u] = pc[u] /\ ip'[u] = ip[u] /\ dom'[u] = dom[u]
  PROVE  Promise!Next
<1>1. /\ Answered[t] = <<NoIp, NoDomain>>
      /\ Answered' = [Answered EXCEPT ![t] = <<ip'[t], ip_to_domain[ip'[t]]>>]
  BY DEF Answered
<1> QED
  BY <1>1 DEF Promise!Next, Promise!Answer, Promise!Pending

LEMMA RemoveIsRelease ==
  ASSUME NEW t \in Tasks, NEW step, IInv, pc[t] \in Critical, ip[t] \in Ips,
         ip_to_domain' = [ip_to_domain EXCEPT ![ip[t]] = NoDomain],
         pc' = [pc EXCEPT ![t] = step], step # "idle", UNCHANGED <<dom, ip>>
  PROVE  Promise!Next
<1>1. Answered' = Answered
  BY AnswerUnchanged DEF IInv, TypeOK, Critical
<1>2. ip_to_domain' = [i \in Ips |-> IF i \in {ip[t]} THEN NoDomain ELSE ip_to_domain[i]]
  BY DEF IInv, TypeOK
<1> QED
  BY <1>1, <1>2 DEF Promise!Next, Promise!Release

LEMMA StepImplements ==
  ASSUME IInv, NEW t \in Tasks, Step(t)
  PROVE  Promise!Next \/ UNCHANGED Promise!fvars
<1> USE DEF IInv, TypeOK, Goto, tables
<1>1. CASE FindDomain(t) \/ New(t) \/ EvictDomain(t) \/ NextIp(t) \/ ReclaimDomain(t)
  <2>1. Answered' = Answered
    BY <1>1, AnswerUnchanged
    DEF FindDomain, New, EvictDomain, NextIp, ReclaimDomain, RemoveDomain
  <2>2. ip_to_domain' = ip_to_domain
    BY <1>1 DEF FindDomain, New, EvictDomain, NextIp, ReclaimDomain, RemoveDomain
  <2> QED
    BY <2>1, <2>2 DEF Promise!fvars
<1>2. CASE TouchDomain(t)
  <2>1. ip[t] \in Ips /\ dom[t] \in Domains /\ domain_to_ip[dom[t]] = ip[t]
    BY <1>2 DEF TouchDomain, RegistersInv, GuardInv
  <2>2. ip_to_domain[ip[t]] = dom[t]
    BY <1>2, <2>1, SentinelAssumption, NobodyInside DEF TouchDomain, ReverseInv, Critical
  <2> QED
    BY <1>2, <2>1, <2>2, ReturnIsAnswer DEF TouchDomain
<1>3. CASE EvictIp(t) \/ ReclaimIp(t)
  <2>1. ip[t] \in Ips /\ pc[t] \in Critical
    BY <1>3 DEF EvictIp, ReclaimIp, RegistersInv, Critical
  <2> QED
    BY <1>3, <2>1, RemoveIsRelease DEF EvictIp, ReclaimIp, RemoveIp
<1>4. CASE InsertIp(t)
  <2>1. ip[t] \in Ips /\ dom[t] \in Domains /\ ip_to_domain[ip[t]] = NoDomain
    BY <1>4 DEF InsertIp, RegistersInv, AllocationInv, Critical
  <2>2. Answered' = Answered
    BY <1>4, AnswerUnchanged DEF InsertIp
  <2> QED
    BY <1>4, <2>1, <2>2 DEF InsertIp, Promise!Next, Promise!Bind
<1>5. CASE InsertDomain(t)
  <2>1. ip[t] \in Ips /\ dom[t] = ip_to_domain[ip[t]]
    BY <1>5 DEF InsertDomain, RegistersInv, AllocationInv, Critical
  <2> QED
    BY <1>5, <2>1, ReturnIsAnswer DEF InsertDomain
<1>6. CASE FindIp(t)
  <2>1. ip[t] \in Ips
    BY <1>6 DEF FindIp, RegistersInv
  <2>2. CASE ip_to_domain[ip[t]] = NoDomain
    BY <1>6, <2>1, <2>2, ReturnIsAnswer DEF FindIp
  <2>3. CASE ip_to_domain[ip[t]] # NoDomain
    <3>1. Answered' = Answered
      BY <1>6, <2>3, AnswerUnchanged DEF FindIp
    <3> QED
      BY <1>6, <3>1 DEF FindIp, Promise!fvars
  <2> QED
    BY <2>2, <2>3
<1>7. CASE TouchIp(t)
  <2>1. ip[t] \in Ips /\ dom[t] = ip_to_domain[ip[t]]
    BY <1>7 DEF TouchIp, RegistersInv, GuardInv
  <2> QED
    BY <1>7, <2>1, ReturnIsAnswer DEF TouchIp
<1> QED
  BY <1>1, <1>2, <1>3, <1>4, <1>5, <1>6, <1>7 DEF Step, AllocateNewIp

LEMMA NextImplements ==
  ASSUME IInv, [Next]_vars
  PROVE  [Promise!Next]_(Promise!fvars)
<1>1. ASSUME NEW t \in Tasks, NEW d \in Domains, Allocate(t, d)
      PROVE  Promise!Next
  BY <1>1, StartIsCall DEF Allocate, Goto, IInv, TypeOK, tables
<1>2. ASSUME NEW t \in Tasks, NEW i \in Ips, Lookup(t, i)
      PROVE  Promise!Next
  BY <1>2, StartIsCall DEF Lookup, Goto, IInv, TypeOK, tables
<1>3. ASSUME NEW t \in Tasks, Step(t)
      PROVE  Promise!Next \/ UNCHANGED Promise!fvars
  BY <1>3, StepImplements
<1>4. CASE Clear
  <2>1. Answered' = Answered
    BY <1>4 DEF Clear, Answered
  <2>2. ip_to_domain' = [i \in Ips |-> IF i \in Ips THEN NoDomain ELSE ip_to_domain[i]]
    BY <1>4 DEF Clear
  <2> QED
    BY <2>1, <2>2 DEF Promise!Next, Promise!Release
<1>5. CASE UNCHANGED vars
  BY <1>5 DEF vars, tables, Answered, Promise!fvars
<1> QED
  BY <1>1, <1>2, <1>3, <1>4, <1>5 DEF Next

LEMMA InitImplements == Init => Promise!Init
BY DEF Init, Answered, Promise!Init, Promise!Pending

(* FakeDns, which changes its tables one lock at a time, keeps the promise *)
(* of FakeIpMap: every answer of allocate and lookup was true when it was  *)
(* given, and no address is rebound before it is given up.                 *)
THEOREM ImplementsPromise == Spec => Implements
<1> QED
  BY InitImplements, NextImplements, Invariance, PTL DEF Spec, Implements, Promise!Spec
=============================================================================
