----------------------------- MODULE RuleEngine -----------------------------
(***************************************************************************)
(* The rule list (src/src/rule/): RuleParser::load_rules turns the lines   *)
(* of rules.list into rules, RuleEngine::new files them in one matcher per *)
(* kind, and match_domain (for DNS) and match_request (for connections)    *)
(* ask the matchers and take the lowest index among their answers.         *)
(*                                                                         *)
(* A name is the sequence of its labels.  A keyword is a sequence of       *)
(* adjacent labels: the scan for keywords may then begin, end and overlap  *)
(* at labels only, which is enough for one keyword to hide another.  A     *)
(* network is the set of its addresses.  Case is left out.                 *)
(***************************************************************************)
EXTENDS Integers, Sequences, SequencesExt, FiniteSetsExt

CONSTANTS
  Lines,      \* the lines that may stand in rules.list
  Files,      \* Files[f]: the rules of the file f of a RULE-SET line
  Labels,     \* the labels of names
  Names,      \* the names that are asked for
  Addresses4, Addresses6,
  Country,    \* Country[a]: what the GeoIP database says of address a
  Direct,     \* the policy DIRECT
  Reject,     \* the policy REJECT
  Policies,   \* these two and the groups
  None,       \* no name, no address, no country
  MaxLines    \* bound on the length of rules.list

Kinds == {"DOMAIN", "DOMAIN-SUFFIX", "DOMAIN-KEYWORD", "IP-CIDR", "IP-CIDR6", "GEOIP", "FINAL"}
DomainKinds == {"DOMAIN", "DOMAIN-SUFFIX", "DOMAIN-KEYWORD"}
Addresses == Addresses4 \union Addresses6

\* What parse_rule makes of a line: the pattern is of the kind of the rule.
IsRule(r) ==
  /\ r.type \in Kinds /\ r.policy \in Policies
  /\ r.type \in DomainKinds => r.pattern \in Seq(Labels)
  /\ r.type = "IP-CIDR" => r.pattern \subseteq Addresses4
  /\ r.type = "IP-CIDR6" => r.pattern \subseteq Addresses6

ASSUME PolicyAssumption == {Direct, Reject} \subseteq Policies
ASSUME CountryAssumption == DOMAIN Country = Addresses4 \union Addresses6
ASSUME NameAssumption ==
  /\ Names \subseteq Seq(Labels)
  /\ Addresses4 \intersect Addresses6 = {} /\ None \notin Names \union Addresses
ASSUME LineAssumption ==
  /\ \A line \in Lines : line.policy \in Policies /\ (line.type \in Kinds => IsRule(line))
  /\ \A f \in DOMAIN Files :
       Files[f] \in Seq(ToSet(Files[f])) /\ \A r \in ToSet(Files[f]) : IsRule(r)

VARIABLES
  phase,      \* "loading", "ready", or "failed": main returned an error
  lines,      \* the lines read so far, as they are written
  rules,      \* the rules made of them
  exact,      \* DomainMatcher::exact, a map to indices of rules
  suffix_trie,
  keywords,   \* the patterns of the Aho-Corasick automaton with their rules
  ipv4_cidrs, ipv6_cidrs,
  country_rules,
  database,   \* a GeoIP database is configured
  final_policy, final_index

matchers == <<exact, suffix_trie, keywords, ipv4_cidrs, ipv6_cidrs, country_rules,
              database, final_policy, final_index>>
vars == <<phase, lines, rules, matchers>>

Init ==
  /\ phase = "loading"
  /\ lines = <<>> /\ rules = <<>>
  /\ exact = <<>> /\ suffix_trie = <<>>
  /\ keywords = {}
  /\ ipv4_cidrs = {} /\ ipv6_cidrs = {}
  /\ country_rules = {}
  /\ database = FALSE
  /\ final_policy = Direct /\ final_index = 0

-----------------------------------------------------------------------------
(* load_rules: one line of rules.list.                                     *)

LoadRule(line) ==
  /\ line.type \in Kinds
  /\ rules' = Append(rules, line)

\* Mutant: the rules of the file keep their own policies.
LoadRuleSetOwnPolicies(line) ==
  /\ line.type = "RULE-SET"
  /\ line.pattern \in DOMAIN Files
  /\ rules' = rules \o Files[line.pattern]

\* The policy of the RULE-SET line; the options are those of the file's rule.
WithPolicy(r, policy) ==
  [type |-> r.type, pattern |-> r.pattern, policy |-> policy, no_resolve |-> r.no_resolve]

\* Options on the RULE-SET line itself are dropped.
LoadRuleSet(line) ==
  /\ line.type = "RULE-SET"
  /\ line.pattern \in DOMAIN Files
  /\ rules' = rules \o [k \in DOMAIN Files[line.pattern] |->
                          WithPolicy(Files[line.pattern][k], line.policy)]

LoadLine(line) ==
  /\ phase = "loading" /\ Len(lines) < MaxLines
  /\ LoadRule(line) \/ LoadRuleSet(line)
  /\ lines' = Append(lines, line)
  /\ UNCHANGED <<phase, matchers>>

\* A line of an unknown type, or a file that is missing, ends the program.
LoadBadLine(line) ==
  /\ phase = "loading" /\ Len(lines) < MaxLines
  /\ \/ line.type \notin Kinds \union {"RULE-SET"}
     \/ line.type = "RULE-SET" /\ line.pattern \notin DOMAIN Files
  /\ phase' = "failed"
  /\ UNCHANGED <<lines, rules, matchers>>

-----------------------------------------------------------------------------
(* RuleEngine::new and the build functions of the matchers.                *)

OfType(type) == {i \in DOMAIN rules : rules[i].type = type}

\* Mutant: indices that count from 0 against rules that count from 1.
MapOfFromZero(type) ==
  [p \in {rules[i].pattern : i \in OfType(type)} |-> Max({i \in OfType(type) : rules[i].pattern = p}) - 1]

\* The maps keep the last rule of a pattern.
MapOf(type) ==
  [p \in {rules[i].pattern : i \in OfType(type)} |-> Max({i \in OfType(type) : rules[i].pattern = p})]

ListOf(type) == {<<rules[i].pattern, i>> : i \in OfType(type)}

\* The last FINAL counts, wherever it stands; without one it is DIRECT.
FinalIndex == IF OfType("FINAL") = {} THEN Len(rules) + 1 ELSE Max(OfType("FINAL"))

New(has_database) ==
  /\ phase = "loading"
  /\ phase' = "ready"
  /\ exact' = MapOf("DOMAIN") /\ suffix_trie' = MapOf("DOMAIN-SUFFIX")
  /\ keywords' = ListOf("DOMAIN-KEYWORD")
  /\ ipv4_cidrs' = ListOf("IP-CIDR") /\ ipv6_cidrs' = ListOf("IP-CIDR6")
  /\ country_rules' = ListOf("GEOIP")
  /\ database' = has_database
  /\ final_index' = FinalIndex
  /\ final_policy' = IF OfType("FINAL") = {} THEN Direct ELSE rules[FinalIndex].policy
  /\ UNCHANGED <<lines, rules>>

\* The GeoIP database is configured but cannot be opened: main returns the error.
FailNew ==
  /\ phase = "loading"
  /\ phase' = "failed"
  /\ UNCHANGED <<lines, rules, matchers>>

Load == \E line \in Lines : LoadLine(line) \/ LoadBadLine(line)
Build == FailNew \/ \E has_database \in BOOLEAN : New(has_database)
Next == Load \/ Build
Spec == Init /\ [][Next]_vars

-----------------------------------------------------------------------------
(* The matchers.  Each returns the set of the indices of rules.            *)

MatchExact(d) == {exact[p] : p \in {d} \intersect DOMAIN exact}

\* Mutant: only the node where the walk ends is asked.
MatchSuffixAtTheEnd(d) == {suffix_trie[p] : p \in {d} \intersect DOMAIN suffix_trie}

\* The walk down the trie keeps the deepest node that ends a suffix.
MatchSuffix(d) ==
  LET found == {p \in DOMAIN suffix_trie : IsSuffix(p, d)}
  IN  {suffix_trie[p] : p \in {p \in found : \A q \in found : Len(q) <= Len(p)}}

StartsAt(keyword, d, k) == IsPrefix(keyword, SubSeq(d, k, Len(d)))

\* find_iter under LeftmostFirst: where keywords begin the first of them in the
\* list is found and the scan goes on behind it, elsewhere one further.
StartingAt(d, k) == {entry[2] : entry \in {e \in keywords : StartsAt(e[1], d, k)}}
NextPlace(d, k) ==
  IF StartingAt(d, k) = {} THEN k + 1
  ELSE k + Max({1, Len(rules[Min(StartingAt(d, k))].pattern)})

\* The places where the scan looks: the first, and from each the next.
ScanFrom1(d, places) ==
  1 \in places /\ \A k \in places : NextPlace(d, k) \in DOMAIN d => NextPlace(d, k) \in places
Visited(d) == {k \in DOMAIN d : \A places \in SUBSET DOMAIN d : ScanFrom1(d, places) => k \in places}

MatchKeywords(d) == {Min(StartingAt(d, k)) : k \in {j \in Visited(d) : StartingAt(d, j) # {}}}

MatchNames(d) == MatchExact(d) \union MatchSuffix(d) \union MatchKeywords(d)

MatchCidrs(a) ==
  {entry[2] : entry \in {e \in IF a \in Addresses4 THEN ipv4_cidrs ELSE ipv6_cidrs : a \in e[1]}}

MatchCountry(a) ==
  IF database THEN {entry[2] : entry \in {e \in country_rules : e[1] = Country[a]}} ELSE {}

\* create_match_result and final_result.
Decide(candidates) ==
  IF candidates = {} THEN [index |-> final_index, policy |-> final_policy]
  ELSE [index |-> Min(candidates), policy |-> rules[Min(candidates)].policy]

\* Mutant: exact before suffix before keyword, whatever the order of the file.
MatchDomainByKind(d) ==
  Decide(IF MatchExact(d) # {} THEN MatchExact(d)
         ELSE IF MatchSuffix(d) # {} THEN MatchSuffix(d) ELSE MatchKeywords(d))

\* match_domain; DnsHandler's filter blocks d if its policy is REJECT.
MatchDomain(d) == Decide(MatchNames(d))

\* Mutant: names before addresses, whatever the order of the file.
MatchRequestNamesFirst(d, a) ==
  LET by_name == IF d = None THEN {} ELSE MatchNames(d)
      by_address == IF a = None THEN {} ELSE MatchCidrs(a) \union MatchCountry(a)
  IN  Decide(IF by_name # {} THEN by_name
             ELSE {i \in by_address : ~rules[i].no_resolve \/ d = None})

\* match_request: a rule with no-resolve counts only for a nameless connection.
MatchRequest(d, a) ==
  LET by_name == IF d = None THEN {} ELSE MatchNames(d)
      by_address == IF a = None THEN {} ELSE MatchCidrs(a) \union MatchCountry(a)
  IN  Decide(by_name \union {i \in by_address : ~rules[i].no_resolve \/ d = None})

\* match_ip: no-resolve does not matter.
MatchIp(a) == Decide(MatchCidrs(a) \union MatchCountry(a))

-----------------------------------------------------------------------------
(* What the lines say, read without any matcher.                           *)

CoversName(r, d) ==
  \/ r.type = "DOMAIN" /\ r.pattern = d
  \/ r.type = "DOMAIN-SUFFIX" /\ IsSuffix(r.pattern, d)
  \/ r.type = "DOMAIN-KEYWORD" /\ \E k \in DOMAIN d : StartsAt(r.pattern, d, k)
CoversAddress(r, a) ==
  \/ r.type \in {"IP-CIDR", "IP-CIDR6"} /\ a \in r.pattern
  \/ r.type = "GEOIP" /\ database /\ Country[a] = r.pattern

Covers(r, d, a) ==
  \/ d # None /\ CoversName(r, d)
  \/ a # None /\ CoversAddress(r, a) /\ (~r.no_resolve \/ d = None)

LineCovers(line, d, a) ==
  IF line.type = "RULE-SET"
  THEN \E k \in DOMAIN Files[line.pattern] : Covers(Files[line.pattern][k], d, a)
  ELSE Covers(line, d, a)

CoveringLines(d, a) == {k \in DOMAIN lines : LineCovers(lines[k], d, a)}
CoveringRules(d, a) == {i \in DOMAIN rules : Covers(rules[i], d, a)}

TypeOK ==
  /\ phase \in {"loading", "ready", "failed"}
  /\ lines \in Seq(Lines)
  /\ \A i \in DOMAIN rules : rules[i].type \in Kinds /\ rules[i].policy \in Policies
  /\ \A p \in DOMAIN exact : exact[p] \in OfType("DOMAIN")
  /\ \A p \in DOMAIN suffix_trie : suffix_trie[p] \in OfType("DOMAIN-SUFFIX")
  /\ final_policy \in Policies
  /\ final_index \in 0 .. Len(rules) + 1

\* The documented order (rules.list: "evaluated top-to-bottom, FIRST MATCH
\* WINS"), for connections to an address without a name: the first line that
\* covers the address gives the policy, also when it is a RULE-SET line.  To
\* match_ip and to match_request it is the same.
FirstLineWinsByAddress ==
  phase = "ready" =>
    \A a \in Addresses :
      LET covering == CoveringLines(None, a)
      IN  /\ covering # {} => MatchRequest(None, a).policy = lines[Min(covering)].policy
          /\ MatchIp(a) = MatchRequest(None, a)

\* FINAL decides only what no line covers, although the trie and the scan for
\* keywords each drop some of the rules that match.
FinalIsLast ==
  phase = "ready" =>
    \A d \in Names \union {None}, a \in Addresses \union {None} :
      LET chosen == MatchRequest(d, a)
      IN  IF CoveringLines(d, a) = {} THEN chosen.index = final_index /\ chosen.policy = final_policy
          ELSE chosen.index \in CoveringRules(d, a)

\* Rule r, though it stands earlier, is hidden by rule s of the same matcher:
\* the same name again, a suffix at least as long, or another keyword.
Hides(s, r) ==
  /\ rules[s].type = rules[r].type
  /\ \/ rules[r].type = "DOMAIN" /\ s > r
     \/ /\ rules[r].type = "DOMAIN-SUFFIX"
        /\ \/ Len(rules[s].pattern) > Len(rules[r].pattern)
           \/ s > r /\ rules[s].pattern = rules[r].pattern
     \/ rules[r].type = "DOMAIN-KEYWORD" /\ rules[s].pattern # rules[r].pattern

\* Where the first rule does not win, a name rule that covers the same request
\* hides it inside its own matcher; across matchers the order of the file
\* holds, and address rules are never passed over.
PassedOverOnlyIfHidden ==
  phase = "ready" =>
    \A d \in Names \union {None}, a \in Addresses \union {None} :
      \A r \in CoveringRules(d, a) :
        r < MatchRequest(d, a).index /\ CoveringRules(d, a) # {} =>
          \E s \in CoveringRules(d, a) : Hides(s, r)

\* The DNS filter asks match_domain and the proxy later asks match_request for
\* the same name: they differ only where an address rule stands earlier.
FilterAgreesWithProxy ==
  phase = "ready" =>
    \A d \in Names, a \in Addresses :
      LET asked == MatchDomain(d)
          dialled == MatchRequest(d, a)
      IN  dialled # asked =>
            /\ rules[dialled.index].type \notin DomainKinds
            /\ ~rules[dialled.index].no_resolve
            /\ \/ dialled.index < asked.index
               \/ MatchNames(d) = {}

\* engine.rs: "Rules are matched in their original order. First match wins."
\* For names it does not hold: a longer suffix that stands later wins.
FirstMatchWins ==
  phase = "ready" =>
    \A d \in Names :
      LET covering == CoveringRules(d, None)
      IN  covering # {} => MatchDomain(d).policy = rules[Min(covering)].policy
=============================================================================
