---------------------------- MODULE MCRuleEngine ----------------------------
(* An instance of RuleEngine for TLC: nested and repeated names, keywords  *)
(* that overlap, networks inside networks, rule sets and bad lines.        *)
EXTENDS RuleEngine, TLC

CONSTANTS www, google, com, lan, other, six, cn, group

Rule(type, pattern, policy) ==
  [type |-> type, pattern |-> pattern, policy |-> policy, no_resolve |-> FALSE]
NoResolve(r) == [r EXCEPT !.no_resolve = TRUE]

MCNames == {<<www, google, com>>, <<google, com>>, <<www>>}
MCOneName == {<<www, google, com>>}
MCLabels == {www, google, com}
MCCountry == lan :> None @@ other :> cn @@ six :> cn
MCPolicies == {Direct, Reject, group}

MCFiles == "ads" :> <<NoResolve(Rule("IP-CIDR", {other}, group)),
                      Rule("DOMAIN-SUFFIX", <<google, com>>, group),
                      Rule("DOMAIN", <<www>>, group)>>

MCLines ==
  {Rule("DOMAIN", <<google, com>>, Reject), Rule("DOMAIN", <<google, com>>, Direct),
   Rule("DOMAIN-SUFFIX", <<google, com>>, Reject), Rule("DOMAIN-SUFFIX", <<www, google, com>>, group),
   Rule("DOMAIN-KEYWORD", <<www, google>>, group), Rule("DOMAIN-KEYWORD", <<google, com>>, Reject),
   Rule("DOMAIN-KEYWORD", <<google>>, Direct),
   Rule("IP-CIDR", {lan, other}, Reject), NoResolve(Rule("IP-CIDR", {lan}, Direct)),
   Rule("IP-CIDR6", {six}, Reject), Rule("GEOIP", cn, Direct),
   Rule("RULE-SET", "ads", Reject), Rule("RULE-SET", "missing", Reject),
   Rule("FINAL", None, group), Rule("FINAL", None, Reject), Rule("URL-REGEX", None, Direct)}
=============================================================================
