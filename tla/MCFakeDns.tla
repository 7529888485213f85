----------------------------- MODULE MCFakeDns -----------------------------
(* Instances of FakeDns for TLC: a pool of three addresses (a /29 cut down *)
(* to five) and shards that hold more than one key.                        *)
EXTENDS FakeDns

CONSTANTS d1, d2, d3

MCDomains == {d1, d2, d3}
MCDomainShard == d1 :> 0 @@ d2 :> 1 @@ d3 :> 0
MCIpShard == [i \in Ips |-> i % 2]
MCSymmetry == Permutations(Tasks)
=============================================================================
