---------------------------- MODULE MCDnsHandler ----------------------------
(* A child's device and another one, a name that may be denied to the      *)
(* child, one that the filter rejects, room for one cached answer.         *)
EXTENDS DnsHandler

CONSTANTS child, other, n1, n2, bad

MCNames == {n1, n2, bad}
MCTypes == {"A", "AAAA"}
MCKeys == MCNames \X MCTypes
MCAsked == {<<child, n1, "A">>, <<child, n1, "AAAA">>, <<other, n1, "AAAA">>,
            <<other, n2, "AAAA">>, <<child, bad, "A">>}
MCDeniable == {<<child, n1>>}
MCUpstreams == <<"first", "second">>
\* Answers of two records: the first lives shorter, or longer, than the second.
MCUpstreamTtls == {<<0, 3>>, <<3, 1>>}
=============================================================================
