----------------------------- MODULE FakeIpMap -----------------------------
(***************************************************************************)
(* What FakeDns (src/src/dns/fake_dns.rs) promises to the DNS handler and  *)
(* to the transparent proxy: a table from fake addresses to domains, in    *)
(* which an address in use is given up before it is bound again, and whose *)
(* answers were true at the moment they were given.                        *)
(*                                                                         *)
(* An answer is a pair <<ip, domain>>: allocate(domain) answers the        *)
(* address it found or bound, lookup(ip) the domain it found (NoDomain for *)
(* None).  Locks, the LRU list and the reverse table are not part of the   *)
(* promise.                                                                *)
(***************************************************************************)
CONSTANTS
  Tasks,      \* the concurrent callers: spawned queries and connections
  Ips,        \* the addresses of the pool
  Domains,    \* the domains that are asked for
  NoIp,
  NoDomain

VARIABLES
  binding,    \* binding[ip]: the domain behind a fake address, or NoDomain
  reply       \* reply[t]: the last answer of task t, Pending during a call

fvars == <<binding, reply>>

Pending == <<NoIp, NoDomain>>

Init ==
  /\ binding = [i \in Ips |-> NoDomain]
  /\ reply = [t \in Tasks |-> Pending]

\* A task makes a call: its last answer is forgotten.
Call(t) ==
  /\ reply' = [reply EXCEPT ![t] = Pending]
  /\ UNCHANGED binding

\* Addresses are given up: eviction, reuse by the round robin, clear().
Release(S) ==
  /\ binding' = [i \in Ips |-> IF i \in S THEN NoDomain ELSE binding[i]]
  /\ UNCHANGED reply

\* Only an address that nothing is bound to is bound.
Bind(i, d) ==
  /\ binding[i] = NoDomain
  /\ binding' = [binding EXCEPT ![i] = d]
  /\ UNCHANGED reply

\* A call in progress answers what the table holds now.
Answer(t, i) ==
  /\ reply[t] = Pending
  /\ reply' = [reply EXCEPT ![t] = <<i, binding[i]>>]
  /\ UNCHANGED binding

Next ==
  \/ \E t \in Tasks : Call(t)
  \/ \E S \in SUBSET Ips : Release(S)
  \/ \E i \in Ips, d \in Domains : Bind(i, d)
  \/ \E t \in Tasks, i \in Ips : Answer(t, i)

Spec == Init /\ [][Next]_fvars
=============================================================================
