------------------------- MODULE MCShadowsocksStream -------------------------
(* An instance of ShadowsocksStream for TLC: a name as the target, of more *)
(* bytes than a chunk of data, and a port that is two different bytes.     *)
EXTENDS ShadowsocksStream

MCTarget == [type |-> "domain", host |-> <<104, 111, 109, 101>>, port |-> 443]
=============================================================================
