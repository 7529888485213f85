-------------------------- MODULE RuleEngineProofs --------------------------
(***************************************************************************)
(* Which rule decides, for every list of rules, every name and every       *)
(* address.  The invariant says where the rules come from (each from one   *)
(* line, in the order of the lines) and that the matchers are those that   *)
(* RuleEngine::new files; the lemmas about the matchers say what each of   *)
(* them answers, and the properties follow from the least answer.          *)
(***************************************************************************)
EXTENDS RuleEngine, SequenceLemmas

\* The rules of a line, whatever their order.
Expansion(line) ==
  IF line.type = "RULE-SET"
  THEN {WithPolicy(Files[line.pattern][k], line.policy) : k \in DOMAIN Files[line.pattern]}
  ELSE {line}

FileRules == UNION {ToSet(Files[f]) : f \in DOMAIN Files}
AllRules == Lines \union {WithPolicy(r, p) : r \in FileRules, p \in Policies}

\* src names the line in ls of each rule of rs.
Provenance(rs, ls, src) ==
  /\ src \in [DOMAIN rs -> DOMAIN ls]
  /\ \A i, j \in DOMAIN rs : i <= j => src[i] <= src[j]
  /\ \A i \in DOMAIN rs : rs[i] \in Expansion(ls[src[i]])
  /\ \A k \in DOMAIN ls : \A r \in Expansion(ls[k]) :
       \E i \in DOMAIN rs : src[i] = k /\ rs[i] = r

Loaded ==
  /\ lines \in Seq(Lines)
  /\ rules \in Seq(AllRules)
  /\ \A i \in DOMAIN rules : IsRule(rules[i])
  /\ \E src : Provenance(rules, lines, src)

Empty ==
  /\ exact = <<>> /\ suffix_trie = <<>>
  /\ final_policy = Direct /\ final_index = 0

Built ==
  /\ exact = MapOf("DOMAIN") /\ suffix_trie = MapOf("DOMAIN-SUFFIX")
  /\ keywords = ListOf("DOMAIN-KEYWORD")
  /\ ipv4_cidrs = ListOf("IP-CIDR") /\ ipv6_cidrs = ListOf("IP-CIDR6")
  /\ country_rules = ListOf("GEOIP")
  /\ final_index = FinalIndex
  /\ final_policy = IF OfType("FINAL") = {} THEN Direct ELSE rules[FinalIndex].policy

RuleInv ==
  /\ phase \in {"loading", "ready", "failed"}
  /\ Loaded
  /\ phase # "ready" => Empty
  /\ phase = "ready" => Built

-----------------------------------------------------------------------------
(* Loading. *)

\* new is what a line appends: its rules, and rules they are.
Appends(line, new) ==
  /\ \A j \in 1..Len(new) : new[j] \in Expansion(line) /\ IsRule(new[j])
  /\ \A r \in Expansion(line) : \E j \in 1..Len(new) : new[j] = r

LEMMA RuleAppends ==
  ASSUME NEW line \in Lines, rules \in Seq(AllRules), LoadRule(line)
  PROVE  \E new \in Seq(AllRules) : rules' = rules \o new /\ Appends(line, new)
<1>1. line \in AllRules
  BY DEF AllRules
<1>2. rules' = rules \o <<line>>
  BY <1>1, AppendIsConcat DEF LoadRule
<1>3. line.type \in Kinds /\ line.type # "RULE-SET"
  BY DEF LoadRule, Kinds
<1>4. Expansion(line) = {line} /\ IsRule(line)
  BY <1>3, LineAssumption DEF Expansion
<1>5. <<line>> \in Seq(AllRules) /\ Len(<<line>>) = 1 /\ <<line>>[1] = line
  BY <1>1
<1>6. Appends(line, <<line>>)
  BY <1>4, <1>5 DEF Appends
<1> QED
  BY <1>2, <1>5, <1>6

LEMMA RuleSetAppends ==
  ASSUME NEW line \in Lines, rules \in Seq(AllRules), LoadRuleSet(line)
  PROVE  \E new \in Seq(AllRules) : rules' = rules \o new /\ Appends(line, new)
<1>1. PICK file : file = Files[line.pattern]
  OBVIOUS
<1>2. /\ line.type = "RULE-SET" /\ line.pattern \in DOMAIN Files
      /\ line.policy \in Policies
  BY LineAssumption DEF LoadRuleSet
<1>3. file \in Seq(ToSet(file)) /\ \A r \in ToSet(file) : IsRule(r)
  BY <1>1, <1>2, LineAssumption
<1>4. DOMAIN file = 1..Len(file) /\ Len(file) \in Nat
  BY <1>3
<1>5. \A k \in 1..Len(file) : file[k] \in ToSet(file)
  BY <1>4 DEF ToSet
<1>6. PICK new : new = [k \in 1..Len(file) |-> WithPolicy(file[k], line.policy)]
  OBVIOUS
<1>7. \A k \in 1..Len(file) : new[k] = WithPolicy(file[k], line.policy)
  BY <1>6
<1>8. \A k \in 1..Len(file) : new[k] \in AllRules
  <2> SUFFICES ASSUME NEW k \in 1..Len(file) PROVE new[k] \in AllRules
    OBVIOUS
  <2>1. file[k] \in FileRules
    BY <1>1, <1>2, <1>5 DEF FileRules
  <2>2. PICK p \in Policies : p = line.policy
    BY <1>2
  <2>3. WithPolicy(file[k], p) \in {WithPolicy(x, q) : x \in FileRules, q \in Policies}
    BY <2>1
  <2>4. WithPolicy(file[k], line.policy) \in AllRules
    BY <2>2, <2>3 DEF AllRules
  <2> QED
    BY <2>4, <1>7
<1>9. new \in Seq(AllRules) /\ Len(new) = Len(file)
  <2>1. new = [k \in 1..Len(file) |-> new[k]]
    BY <1>6, <1>7, Zenon
  <2>2. [k \in 1..Len(file) |-> new[k]] \in [1..Len(file) -> AllRules]
    BY <1>8
  <2>3. new \in [1..Len(file) -> AllRules]
    BY <2>1, <2>2, Zenon
  <2> QED
    BY <1>4, <2>3
<1>10. Expansion(line) = {new[k] : k \in 1..Len(file)}
  BY <1>1, <1>2, <1>4, <1>7, Zenon DEF Expansion
<1>11. \A k \in 1..Len(file) : IsRule(new[k])
  <2> SUFFICES ASSUME NEW k \in 1..Len(file) PROVE IsRule(new[k])
    OBVIOUS
  <2>1. IsRule(file[k])
    BY <1>3, <1>5
  <2>2. /\ new[k].type = file[k].type /\ new[k].pattern = file[k].pattern
        /\ new[k].policy = line.policy
    <3>1. new[k] = [type |-> file[k].type, pattern |-> file[k].pattern,
                    policy |-> line.policy, no_resolve |-> file[k].no_resolve]
      BY <1>7, Zenon DEF WithPolicy
    <3> QED
      BY <3>1
  <2> QED
    BY <2>1, <2>2, <1>2, Zenon DEF IsRule
<1>12. Appends(line, new)
  BY <1>9, <1>10, <1>11, Zenon DEF Appends
<1>13. rules' = rules \o new
  BY <1>1, <1>4, <1>6, Zenon DEF LoadRuleSet
<1> QED
  BY <1>9, <1>12, <1>13

(* The rules of one more line come from that line, behind all others. *)
LEMMA ProvenanceAppend ==
  ASSUME NEW rs \in Seq(AllRules), NEW ls \in Seq(Lines), NEW src, Provenance(rs, ls, src),
         NEW line \in Lines, NEW new \in Seq(AllRules), Appends(line, new)
  PROVE  \E src2 : Provenance(rs \o new, Append(ls, line), src2)
<1> DEFINE rs2 == rs \o new
           ls2 == Append(ls, line)
           src2 == [i \in DOMAIN rs2 |-> IF i \in DOMAIN rs THEN src[i] ELSE Len(ls) + 1]
<1>1. Len(rs) \in Nat /\ Len(new) \in Nat /\ Len(ls) \in Nat
  OBVIOUS
<1>2. /\ DOMAIN rs = 1..Len(rs) /\ DOMAIN rs2 = 1..(Len(rs) + Len(new))
      /\ DOMAIN ls = 1..Len(ls) /\ DOMAIN ls2 = 1..(Len(ls) + 1)
  BY ConcatProperties, AppendProperties
<1>3. /\ \A i \in 1..Len(rs) : rs2[i] = rs[i]
      /\ \A j \in 1..Len(new) : rs2[Len(rs) + j] = new[j]
  BY <1>1, ConcatProperties
<1>4. (\A k \in 1..Len(ls) : ls2[k] = ls[k]) /\ ls2[Len(ls) + 1] = line
  BY <1>1, AppendProperties
<1>5. /\ \A i \in 1..Len(rs) : src[i] \in 1..Len(ls) /\ rs[i] \in Expansion(ls[src[i]])
      /\ \A i, j \in 1..Len(rs) : i <= j => src[i] <= src[j]
      /\ \A k \in 1..Len(ls) : \A r \in Expansion(ls[k]) :
           \E i \in 1..Len(rs) : src[i] = k /\ rs[i] = r
  <2>1. src \in [1..Len(rs) -> 1..Len(ls)]
    BY <1>2, Zenon DEF Provenance
  <2>2. \A i \in DOMAIN rs : rs[i] \in Expansion(ls[src[i]])
    BY Zenon DEF Provenance
  <2>3. \A i, j \in DOMAIN rs : i <= j => src[i] <= src[j]
    BY Zenon DEF Provenance
  <2>4. \A k \in DOMAIN ls : \A r \in Expansion(ls[k]) :
           \E i \in DOMAIN rs : src[i] = k /\ rs[i] = r
    BY Zenon DEF Provenance
  <2>5. \A i \in 1..Len(rs) : src[i] \in 1..Len(ls) /\ rs[i] \in Expansion(ls[src[i]])
    BY <1>2, <2>1, <2>2
  <2>6. \A i, j \in 1..Len(rs) : i <= j => src[i] <= src[j]
    BY <1>2, <2>3
  <2>7. \A k \in 1..Len(ls) : \A r \in Expansion(ls[k]) :
           \E i \in 1..Len(rs) : src[i] = k /\ rs[i] = r
    BY <1>2, <2>4
  <2> QED
    BY <2>5, <2>6, <2>7
<1>6. /\ \A i \in 1..Len(rs) : src2[i] = src[i]
      /\ \A j \in 1..Len(new) : src2[Len(rs) + j] = Len(ls) + 1
  BY <1>1, <1>2
<1>7. \A i \in DOMAIN rs2 : i \in 1..Len(rs) \/ \E j \in 1..Len(new) : i = Len(rs) + j
  <2> SUFFICES ASSUME NEW i \in 1..(Len(rs) + Len(new)), i \notin 1..Len(rs)
               PROVE  \E j \in 1..Len(new) : i = Len(rs) + j
    BY <1>2
  <2>1. i - Len(rs) \in 1..Len(new) /\ i = Len(rs) + (i - Len(rs))
    BY <1>1
  <2> QED
    BY <2>1, Zenon
<1> HIDE DEF rs2, ls2
<1>8. src2 \in [DOMAIN rs2 -> DOMAIN ls2]
  BY <1>1, <1>2, <1>5
<1> HIDE DEF src2
<1>9. \A i, j \in DOMAIN rs2 : i <= j => src2[i] <= src2[j]
  <2> SUFFICES ASSUME NEW i \in DOMAIN rs2, NEW j \in DOMAIN rs2, i <= j
               PROVE  src2[i] <= src2[j]
    OBVIOUS
  <2>1. CASE j \in 1..Len(rs)
    <3>1. i \in 1..Len(rs)
      BY <1>1, <1>2, <2>1
    <3> QED
      BY <2>1, <3>1, <1>5, <1>6
  <2>2. CASE \E k \in 1..Len(new) : j = Len(rs) + k
    <3>1. src2[j] = Len(ls) + 1
      BY <2>2, <1>6
    <3>2. src2[i] \in 1..(Len(ls) + 1)
      BY <1>2, <1>8
    <3> QED
      BY <3>1, <3>2, <1>1
  <2> QED
    BY <2>1, <2>2, <1>7
<1>10. \A i \in DOMAIN rs2 : rs2[i] \in Expansion(ls2[src2[i]])
  <2> SUFFICES ASSUME NEW i \in DOMAIN rs2 PROVE rs2[i] \in Expansion(ls2[src2[i]])
    OBVIOUS
  <2>1. CASE i \in 1..Len(rs)
    <3>1. rs2[i] = rs[i] /\ src2[i] = src[i] /\ ls2[src[i]] = ls[src[i]]
      BY <2>1, <1>3, <1>4, <1>5, <1>6
    <3> QED
      BY <2>1, <3>1, <1>5
  <2>2. CASE \E k \in 1..Len(new) : i = Len(rs) + k
    <3>1. PICK k \in 1..Len(new) : i = Len(rs) + k
      BY <2>2
    <3>2. rs2[i] = new[k] /\ ls2[src2[i]] = line
      BY <3>1, <1>3, <1>4, <1>6
    <3> QED
      BY <3>2, Zenon DEF Appends
  <2> QED
    BY <2>1, <2>2, <1>7
<1>11. \A k \in DOMAIN ls2 : \A r \in Expansion(ls2[k]) :
         \E i \in DOMAIN rs2 : src2[i] = k /\ rs2[i] = r
  <2> SUFFICES ASSUME NEW k \in DOMAIN ls2, NEW r \in Expansion(ls2[k])
               PROVE  \E i \in DOMAIN rs2 : src2[i] = k /\ rs2[i] = r
    OBVIOUS
  <2>1. CASE k \in 1..Len(ls)
    <3>1. PICK i \in 1..Len(rs) : src[i] = k /\ rs[i] = r
      BY <2>1, <1>4, <1>5, Zenon
    <3>2. i \in DOMAIN rs2
      BY <1>1, <1>2
    <3> QED
      BY <3>1, <3>2, <1>3, <1>6, Zenon
  <2>2. CASE k = Len(ls) + 1
    <3>1. PICK j \in 1..Len(new) : new[j] = r
      BY <2>2, <1>4, Zenon DEF Appends
    <3>2. Len(rs) + j \in DOMAIN rs2
      BY <1>1, <1>2
    <3> QED
      BY <2>2, <3>1, <3>2, <1>3, <1>6, Zenon
  <2> QED
    BY <2>1, <2>2, <1>1, <1>2
<1>12. Provenance(rs2, ls2, src2)
  BY <1>8, <1>9, <1>10, <1>11, Zenon DEF Provenance
<1> QED
  BY <1>12, Zenon DEF rs2, ls2

LEMMA LoadKeeps ==
  ASSUME Loaded, NEW line \in Lines, LoadLine(line)
  PROVE  Loaded'
<1>1. rules \in Seq(AllRules) /\ lines \in Seq(Lines) /\ lines' = Append(lines, line)
  BY DEF Loaded, LoadLine
<1>2. PICK new \in Seq(AllRules) : rules' = rules \o new /\ Appends(line, new)
  BY <1>1, RuleAppends, RuleSetAppends DEF LoadLine
<1>3. \E src : Provenance(rules', lines', src)
  BY <1>1, <1>2, ProvenanceAppend, Zenon DEF Loaded
<1>4. lines' \in Seq(Lines) /\ rules' \in Seq(AllRules)
  BY <1>1, <1>2, ConcatProperties
<1>5. \A i \in DOMAIN rules' : IsRule(rules'[i])
  <2>1. /\ Len(rules) \in Nat /\ Len(new) \in Nat /\ DOMAIN rules = 1..Len(rules)
        /\ DOMAIN rules' = 1..(Len(rules) + Len(new))
        /\ \A i \in 1..(Len(rules) + Len(new)) :
             rules'[i] = IF i <= Len(rules) THEN rules[i] ELSE new[i - Len(rules)]
    BY <1>1, <1>2, ConcatProperties
  <2> SUFFICES ASSUME NEW i \in 1..(Len(rules) + Len(new)) PROVE IsRule(rules'[i])
    BY <2>1
  <2>2. CASE i <= Len(rules)
    <3>1. i \in DOMAIN rules /\ rules'[i] = rules[i]
      BY <2>1, <2>2
    <3> QED
      BY <3>1, Zenon DEF Loaded
  <2>3. CASE ~(i <= Len(rules))
    <3>1. i - Len(rules) \in 1..Len(new) /\ rules'[i] = new[i - Len(rules)]
      BY <2>1, <2>3
    <3> QED
      BY <3>1, <1>2, Zenon DEF Appends
  <2> QED
    BY <2>2, <2>3
<1> QED
  BY <1>3, <1>4, <1>5, Zenon DEF Loaded

-----------------------------------------------------------------------------
(* The indices. *)

LEMMA RulesAre ==
  ASSUME Loaded
  PROVE  Len(rules) \in Nat /\ DOMAIN rules = 1..Len(rules)
BY DEF Loaded

LEMMA OfTypeAre ==
  ASSUME Loaded, NEW type
  PROVE  OfType(type) \in SUBSET (0..Len(rules)) /\ OfType(type) \subseteq DOMAIN rules
BY RulesAre DEF OfType

(* The maps hold for each pattern the last rule that has it. *)
LEMMA MapOfFacts ==
  ASSUME Loaded, NEW type
  PROVE  /\ \A p \in DOMAIN MapOf(type) :
              MapOf(type)[p] \in OfType(type) /\ rules[MapOf(type)[p]].pattern = p
         /\ \A i \in OfType(type) :
              rules[i].pattern \in DOMAIN MapOf(type) /\ i <= MapOf(type)[rules[i].pattern]
<1> DEFINE having(p) == {i \in OfType(type) : rules[i].pattern = p}
<1>1. /\ DOMAIN MapOf(type) = {rules[i].pattern : i \in OfType(type)}
      /\ \A p \in DOMAIN MapOf(type) : MapOf(type)[p] = Max(having(p))
  BY DEF MapOf
<1>2. \A p : having(p) # {} =>
        Max(having(p)) \in having(p) /\ \A i \in having(p) : i <= Max(having(p))
  <2> SUFFICES ASSUME NEW p, having(p) # {}
               PROVE  Max(having(p)) \in having(p) /\ \A i \in having(p) : i <= Max(having(p))
    OBVIOUS
  <2>1. having(p) \in SUBSET (0..Len(rules)) /\ Len(rules) \in Nat
    BY OfTypeAre, RulesAre
  <2> HIDE DEF having
  <2> QED
    BY <2>1, MaxIs
<1>3. \A p \in DOMAIN MapOf(type) : having(p) # {}
  BY <1>1
<1>4. ASSUME NEW p \in DOMAIN MapOf(type)
      PROVE  MapOf(type)[p] \in OfType(type) /\ rules[MapOf(type)[p]].pattern = p
  <2>1. MapOf(type)[p] \in having(p)
    BY <1>1, <1>2, <1>3, Zenon
  <2> QED
    BY <2>1
<1>5. ASSUME NEW i \in OfType(type)
      PROVE  rules[i].pattern \in DOMAIN MapOf(type) /\ i <= MapOf(type)[rules[i].pattern]
  <2>1. rules[i].pattern \in DOMAIN MapOf(type) /\ i \in having(rules[i].pattern)
    BY <1>1
  <2>2. i <= Max(having(rules[i].pattern))
    <3>1. having(rules[i].pattern) # {}
      BY <2>1
    <3> QED
      BY <2>1, <3>1, <1>2, Zenon
  <2> QED
    BY <2>1, <2>2, <1>1, Zenon
<1> QED
  BY <1>4, <1>5

LEMMA FinalFacts ==
  ASSUME Loaded
  PROVE  /\ FinalIndex \in 0..(Len(rules) + 1)
         /\ OfType("FINAL") # {} => FinalIndex \in DOMAIN rules
<1>1. Len(rules) \in Nat /\ OfType("FINAL") \in SUBSET (0..Len(rules))
      /\ OfType("FINAL") \subseteq DOMAIN rules
  BY RulesAre, OfTypeAre
<1>2. CASE OfType("FINAL") = {}
  BY <1>1, <1>2 DEF FinalIndex
<1>3. CASE OfType("FINAL") # {}
  <2>1. Max(OfType("FINAL")) \in OfType("FINAL")
    BY <1>1, <1>3, MaxIs
  <2> QED
    BY <2>1, <1>1, <1>3 DEF FinalIndex
<1> QED
  BY <1>2, <1>3

-----------------------------------------------------------------------------
(* The invariant. *)

LEMMA InitRuleInv == Init => RuleInv
<1> SUFFICES ASSUME Init PROVE RuleInv
  OBVIOUS
<1>1. rules = <<>> /\ lines = <<>> /\ phase = "loading" /\ Empty
  BY DEF Init, Empty
<1>2. lines \in Seq(Lines) /\ rules \in Seq(AllRules) /\ DOMAIN rules = {} /\ DOMAIN lines = {}
  BY <1>1
<1>3. Provenance(rules, lines, [i \in DOMAIN rules |-> i])
  <2>1. [i \in DOMAIN rules |-> i] \in [DOMAIN rules -> DOMAIN lines]
    BY <1>2
  <2> QED
    BY <1>2, <2>1, Zenon DEF Provenance
<1>4. Loaded
  BY <1>2, <1>3, Zenon DEF Loaded
<1> QED
  BY <1>1, <1>4 DEF RuleInv

(* The matchers are built of the rules that were loaded. *)
LEMMA NewBuilds ==
  ASSUME Loaded, NEW has_database, New(has_database)
  PROVE  Built'
<1>1. rules' = rules
  BY DEF New
<1>2. \A type : OfType(type)' = OfType(type)
  BY <1>1 DEF OfType
<1>3. \A type : MapOf(type)' = MapOf(type) /\ ListOf(type)' = ListOf(type)
  BY <1>1, <1>2 DEF MapOf, ListOf, OfType
<1>4. FinalIndex' = FinalIndex
  BY <1>1, <1>2 DEF FinalIndex
<1> QED
  BY <1>1, <1>2, <1>3, <1>4 DEF New, Built

LEMMA NextRuleInv == RuleInv /\ [Next]_vars => RuleInv'
<1> SUFFICES ASSUME RuleInv, [Next]_vars PROVE RuleInv'
  OBVIOUS
<1>1. ASSUME UNCHANGED <<lines, rules>> PROVE Loaded'
  <2>1. Loaded
    BY DEF RuleInv
  <2> QED
    BY <1>1, <2>1 DEF Loaded
<1>2. ASSUME UNCHANGED matchers, Empty PROVE Empty'
  BY <1>2 DEF matchers, Empty
<1>3. phase = "loading" => Empty
  BY DEF RuleInv
<1>4. ASSUME NEW line \in Lines, LoadLine(line) PROVE RuleInv'
  <2>1. phase = "loading" /\ phase' = phase /\ UNCHANGED matchers
    BY <1>4 DEF LoadLine
  <2>2. Loaded'
    BY <1>4, LoadKeeps DEF RuleInv
  <2> QED
    BY <2>1, <2>2, <1>2, <1>3 DEF RuleInv
<1>5. ASSUME NEW line \in Lines, LoadBadLine(line) PROVE RuleInv'
  <2>1. phase = "loading" /\ phase' = "failed" /\ UNCHANGED <<lines, rules>> /\ UNCHANGED matchers
    BY <1>5 DEF LoadBadLine
  <2> QED
    BY <2>1, <1>1, <1>2, <1>3 DEF RuleInv
<1>6. CASE FailNew
  <2>1. phase = "loading" /\ phase' = "failed" /\ UNCHANGED <<lines, rules>> /\ UNCHANGED matchers
    BY <1>6 DEF FailNew
  <2> QED
    BY <2>1, <1>1, <1>2, <1>3 DEF RuleInv
<1>7. ASSUME NEW has_database \in BOOLEAN, New(has_database) PROVE RuleInv'
  <2>1. phase' = "ready" /\ UNCHANGED <<lines, rules>>
    BY <1>7 DEF New
  <2>2. Built'
    BY <1>7, NewBuilds DEF RuleInv
  <2> QED
    BY <2>1, <2>2, <1>1 DEF RuleInv
<1>8. CASE UNCHANGED vars
  <2>1. UNCHANGED <<phase, lines, rules>> /\ UNCHANGED matchers
    BY <1>8 DEF vars
  <2>2. Built => Built'
    BY <2>1 DEF Built, matchers, MapOf, ListOf, FinalIndex, OfType
  <2> QED
    BY <2>1, <2>2, <1>1, <1>2 DEF RuleInv
<1> QED
  BY <1>4, <1>5, <1>6, <1>7, <1>8 DEF Next, Load, Build

THEOREM RuleInvariant == Spec => []RuleInv
BY InitRuleInv, NextRuleInv, PTL DEF Spec

(* RuleParser::load_rules and RuleEngine::new: every index that a matcher     *)
(* holds is that of a rule of its kind, and every rule has a policy.          *)
THEOREM TypeCorrect == Spec => []TypeOK
<1>1. RuleInv => TypeOK
  <2> SUFFICES ASSUME RuleInv PROVE TypeOK
    OBVIOUS
  <2>1. Loaded
    BY DEF RuleInv
  <2>2. \A i \in DOMAIN rules : rules[i].type \in Kinds /\ rules[i].policy \in Policies
    BY <2>1, Zenon DEF Loaded, IsRule
  <2>3. phase \in {"loading", "ready", "failed"} /\ lines \in Seq(Lines)
    BY <2>1, Zenon DEF RuleInv, Loaded
  <2>4. Len(rules) \in Nat /\ Direct \in Policies
    BY <2>1, RulesAre, PolicyAssumption
  <2>5. CASE phase # "ready"
    <3>1. exact = <<>> /\ suffix_trie = <<>> /\ final_policy = Direct /\ final_index = 0
      BY <2>5, Zenon DEF RuleInv, Empty
    <3>2. DOMAIN exact = {} /\ DOMAIN suffix_trie = {} /\ final_index \in 0..(Len(rules) + 1)
      BY <2>4, <3>1
    <3> QED
      BY <2>2, <2>3, <2>4, <3>1, <3>2 DEF TypeOK
  <2>6. CASE phase = "ready"
    <3>1. Built
      BY <2>6 DEF RuleInv
    <3>2. /\ \A p \in DOMAIN exact : exact[p] \in OfType("DOMAIN")
          /\ \A p \in DOMAIN suffix_trie : suffix_trie[p] \in OfType("DOMAIN-SUFFIX")
      BY <2>1, <3>1, MapOfFacts, Zenon DEF Built
    <3>3. final_index \in 0..(Len(rules) + 1)
      BY <2>1, <3>1, FinalFacts, Zenon DEF Built
    <3>4. final_policy \in Policies
      BY <2>1, <2>2, <2>4, <3>1, FinalFacts, Zenon DEF Built
    <3> QED
      BY <2>2, <2>3, <3>2, <3>3, <3>4, Zenon DEF TypeOK
  <2> QED
    BY <2>5, <2>6
<1> QED
  BY <1>1, RuleInvariant, PTL

-----------------------------------------------------------------------------
(* What the matchers answer. *)

(* The map of the names: the last rule of the name. *)
LEMMA ExactFacts ==
  ASSUME Loaded, Built, NEW d
  PROVE  /\ \A i \in MatchExact(d) : i \in OfType("DOMAIN") /\ rules[i].pattern = d
         /\ \A r \in OfType("DOMAIN") : rules[r].pattern = d => \E s \in MatchExact(d) : r <= s
<1>1. /\ \A p \in DOMAIN exact : exact[p] \in OfType("DOMAIN") /\ rules[exact[p]].pattern = p
      /\ \A i \in OfType("DOMAIN") :
           rules[i].pattern \in DOMAIN exact /\ i <= exact[rules[i].pattern]
  BY MapOfFacts, Zenon DEF Built
<1>2. \A i : i \in MatchExact(d) <=> d \in DOMAIN exact /\ i = exact[d]
  BY DEF MatchExact
<1> QED
  BY <1>1, <1>2, Zenon

(* Two suffixes of a name that are of one length are the same. *)
LEMMA SuffixFacts ==
  ASSUME NEW d \in Seq(Labels), NEW p \in Seq(Labels), IsSuffix(p, d)
  PROVE  Len(p) <= Len(d) /\ \A i \in 1..Len(p) : p[i] = d[Len(d) - Len(p) + i]
<1>1. Len(p) \in Nat /\ Len(d) \in Nat
  OBVIOUS
<1>2. /\ Reverse(p) \in Seq(Labels) /\ Len(Reverse(p)) = Len(p)
      /\ \A i \in 1..Len(p) : Reverse(p)[i] = p[Len(p) - i + 1]
  BY <1>1 DEF Reverse
<1>3. /\ Reverse(d) \in Seq(Labels) /\ Len(Reverse(d)) = Len(d)
      /\ \A i \in 1..Len(d) : Reverse(d)[i] = d[Len(d) - i + 1]
  BY <1>1 DEF Reverse
<1>4. /\ Len(p) <= Len(d)
      /\ SubSeq(Reverse(p), 1, Len(p)) = SubSeq(Reverse(d), 1, Len(p))
  BY <1>2, <1>3, Zenon DEF IsSuffix, IsPrefix
<1>5. \A i \in 1..Len(p) : Reverse(p)[i] = Reverse(d)[i]
  <2>1. \A i \in 1..Len(p) : SubSeq(Reverse(p), 1, Len(p))[i] = Reverse(p)[i]
    BY <1>1, <1>2
  <2>2. \A i \in 1..Len(p) : SubSeq(Reverse(d), 1, Len(p))[i] = Reverse(d)[i]
    BY <1>1, <1>3, <1>4
  <2> QED
    BY <2>1, <2>2, <1>4, Zenon
<1>6. ASSUME NEW i \in 1..Len(p) PROVE p[i] = d[Len(d) - Len(p) + i]
  <2>1. PICK j \in 1..Len(p) : j = Len(p) - i + 1
    <3>1. Len(p) - i + 1 \in 1..Len(p)
      BY <1>1
    <3> QED
      BY <3>1, Zenon
  <2>2. Reverse(p)[j] = p[i]
    <3>1. Len(p) - j + 1 = i
      BY <1>1, <2>1
    <3> QED
      BY <3>1, <1>2
  <2>3. Reverse(d)[j] = d[Len(d) - Len(p) + i]
    <3>1. Len(d) - j + 1 = Len(d) - Len(p) + i /\ j \in 1..Len(d)
      BY <1>1, <1>4, <2>1
    <3> QED
      BY <3>1, <1>3
  <2> QED
    BY <2>2, <2>3, <1>5
<1> QED
  BY <1>4, <1>6

LEMMA SuffixUnique ==
  ASSUME NEW d \in Seq(Labels), NEW p \in Seq(Labels), NEW q \in Seq(Labels),
         IsSuffix(p, d), IsSuffix(q, d), Len(p) = Len(q)
  PROVE  p = q
<1>1. \A i \in 1..Len(p) : p[i] = d[Len(d) - Len(p) + i]
  BY SuffixFacts
<1>2. \A i \in 1..Len(q) : q[i] = d[Len(d) - Len(q) + i]
  BY SuffixFacts
<1>3. \A i \in 1..Len(p) : p[i] = q[i]
  BY <1>1, <1>2
<1> QED
  BY <1>3, SeqEqual

(* The walk down the trie: the longest suffix, and of it the last rule. *)
LEMMA TrieFacts ==
  ASSUME Loaded, Built, NEW d \in Seq(Labels)
  PROVE  /\ \A i \in MatchSuffix(d) : i \in OfType("DOMAIN-SUFFIX") /\ IsSuffix(rules[i].pattern, d)
         /\ \A r \in OfType("DOMAIN-SUFFIX") : IsSuffix(rules[r].pattern, d) =>
              \E s \in MatchSuffix(d) :
                \/ r = s
                \/ s > r /\ rules[s].pattern = rules[r].pattern
                \/ Len(rules[s].pattern) > Len(rules[r].pattern)
<1> DEFINE found == {p \in DOMAIN suffix_trie : IsSuffix(p, d)}
<1>1. /\ \A p \in DOMAIN suffix_trie :
           suffix_trie[p] \in OfType("DOMAIN-SUFFIX") /\ rules[suffix_trie[p]].pattern = p
      /\ \A i \in OfType("DOMAIN-SUFFIX") :
           rules[i].pattern \in DOMAIN suffix_trie /\ i <= suffix_trie[rules[i].pattern]
  BY MapOfFacts, Zenon DEF Built
<1>2. MatchSuffix(d) = {suffix_trie[p] : p \in {p \in found : \A q \in found : Len(q) <= Len(p)}}
  BY Zenon DEF MatchSuffix
<1>3. \A i \in OfType("DOMAIN-SUFFIX") : i \in Nat /\ rules[i].pattern \in Seq(Labels)
  <2>1. \A i \in OfType("DOMAIN-SUFFIX") : i \in DOMAIN rules /\ rules[i].type = "DOMAIN-SUFFIX"
    BY DEF OfType
  <2>2. \A i \in OfType("DOMAIN-SUFFIX") : IsRule(rules[i])
    BY <2>1, Zenon DEF Loaded
  <2>3. "DOMAIN-SUFFIX" \in DomainKinds
    BY DEF DomainKinds
  <2>4. \A i \in OfType("DOMAIN-SUFFIX") : rules[i].pattern \in Seq(Labels)
    BY <2>1, <2>2, <2>3, Zenon DEF IsRule
  <2> QED
    BY <2>1, <2>4, RulesAre
<1>4. \A p \in found : p \in Seq(Labels) /\ IsSuffix(p, d) /\ p \in DOMAIN suffix_trie
  BY <1>1, <1>3, Zenon
<1>5. ASSUME NEW i \in MatchSuffix(d)
      PROVE  i \in OfType("DOMAIN-SUFFIX") /\ IsSuffix(rules[i].pattern, d)
  <2>1. PICK p \in found : i = suffix_trie[p]
    BY <1>2
  <2> QED
    BY <2>1, <1>1, <1>4, Zenon
<1>6. ASSUME NEW r \in OfType("DOMAIN-SUFFIX"), IsSuffix(rules[r].pattern, d)
      PROVE  \E s \in MatchSuffix(d) :
                \/ r = s
                \/ s > r /\ rules[s].pattern = rules[r].pattern
                \/ Len(rules[s].pattern) > Len(rules[r].pattern)
  <2>1. rules[r].pattern \in found
    BY <1>1, <1>6
  <2> HIDE DEF found
  <2>2. {Len(p) : p \in found} \in SUBSET (0..Len(d)) /\ Len(d) \in Nat
    <3>1. \A p \in found : Len(p) \in Nat /\ Len(p) <= Len(d)
      BY <1>4, SuffixFacts
    <3> QED
      BY <3>1
  <2>3. {Len(p) : p \in found} # {}
    BY <2>1
  <2>4. PICK q \in found : \A p \in found : Len(p) <= Len(q)
    <3>1. PICK n \in {Len(p) : p \in found} : \A m \in {Len(p) : p \in found} : m <= n
      BY <2>2, <2>3, MaxIs, Zenon
    <3>2. PICK q \in found : n = Len(q)
      BY <3>1
    <3>3. \A p \in found : Len(p) <= Len(q)
      BY <3>1, <3>2
    <3> QED
      BY <3>3
  <2>5. PICK s \in OfType("DOMAIN-SUFFIX") : s = suffix_trie[q] /\ rules[s].pattern = q
    BY <1>1, <1>4, <2>4, Zenon
  <2>6. s \in MatchSuffix(d)
    BY <1>2, <2>4, <2>5
  <2>7. CASE rules[r].pattern = q
    <3>1. r <= s
      BY <1>1, <2>5, <2>7, Zenon
    <3>2. r \in Nat /\ s \in Nat
      BY <1>3
    <3>3. r = s \/ s > r
      BY <3>1, <3>2
    <3> QED
      BY <3>3, <2>5, <2>6, <2>7
  <2>8. CASE rules[r].pattern # q
    <3>1. Len(rules[r].pattern) # Len(q)
      <4>1. rules[r].pattern \in Seq(Labels) /\ q \in Seq(Labels) /\ IsSuffix(q, d)
        BY <1>3, <1>4, Zenon
      <4> QED
        BY <4>1, <1>6, <2>8, SuffixUnique, Zenon
    <3>2. Len(rules[r].pattern) \in Nat /\ Len(q) \in Nat
      BY <1>3, <1>4
    <3>3. Len(rules[r].pattern) <= Len(q)
      BY <2>1, <2>4, Zenon
    <3>4. Len(q) > Len(rules[r].pattern)
      BY <3>1, <3>2, <3>3
    <3> QED
      BY <3>4, <2>5, <2>6
  <2> QED
    BY <2>7, <2>8
<1> QED
  BY <1>5, <1>6

(* The entries of a list are its rules with their patterns. *)
LEMMA ListOfFacts ==
  ASSUME NEW type
  PROVE  /\ \A e \in ListOf(type) : e[2] \in OfType(type) /\ e[1] = rules[e[2]].pattern
         /\ \A i \in OfType(type) : \E e \in ListOf(type) : e[2] = i /\ e[1] = rules[i].pattern
<1>1. \A p, i : <<p, i>>[1] = p /\ <<p, i>>[2] = i
  OBVIOUS
<1>2. ASSUME NEW e \in ListOf(type)
      PROVE  e[2] \in OfType(type) /\ e[1] = rules[e[2]].pattern
  <2>1. PICK i \in OfType(type) : e = <<rules[i].pattern, i>>
    BY Zenon DEF ListOf
  <2>2. e[1] = rules[i].pattern /\ e[2] = i
    BY <1>1, <2>1, Zenon
  <2> QED
    BY <2>2, Zenon
<1>3. ASSUME NEW i \in OfType(type)
      PROVE  \E e \in ListOf(type) : e[2] = i /\ e[1] = rules[i].pattern
  <2>1. PICK e : e = <<rules[i].pattern, i>>
    OBVIOUS
  <2>2. e \in ListOf(type)
    BY <2>1, Zenon DEF ListOf
  <2> QED
    BY <1>1, <2>1, <2>2, Zenon
<1> QED
  BY <1>2, <1>3

(* The rules with keywords that begin at k. *)
LEMMA StartingFacts ==
  ASSUME Loaded, Built, NEW d, NEW k
  PROVE  /\ StartingAt(d, k) = {i \in OfType("DOMAIN-KEYWORD") : StartsAt(rules[i].pattern, d, k)}
         /\ StartingAt(d, k) # {} =>
              /\ Min(StartingAt(d, k)) \in StartingAt(d, k)
              /\ \A i \in StartingAt(d, k) : Min(StartingAt(d, k)) <= i
<1>1. /\ \A e \in keywords :
           e[2] \in OfType("DOMAIN-KEYWORD") /\ e[1] = rules[e[2]].pattern
      /\ \A i \in OfType("DOMAIN-KEYWORD") :
           \E e \in keywords : e[2] = i /\ e[1] = rules[i].pattern
  BY ListOfFacts, Zenon DEF Built
<1>2. StartingAt(d, k) = {i \in OfType("DOMAIN-KEYWORD") : StartsAt(rules[i].pattern, d, k)}
  <2>1. \A i : i \in StartingAt(d, k) <=> \E e \in keywords : StartsAt(e[1], d, k) /\ i = e[2]
    BY DEF StartingAt
  <2>2. \A i : i \in StartingAt(d, k) <=>
          i \in OfType("DOMAIN-KEYWORD") /\ StartsAt(rules[i].pattern, d, k)
    BY <1>1, <2>1
  <2> QED
    BY <2>2
<1>3. StartingAt(d, k) \in SUBSET (0..Len(rules)) /\ Len(rules) \in Nat
  BY <1>2, OfTypeAre, RulesAre
<1> QED
  BY <1>2, <1>3, MinIs

(* The scan gets to the first place where a keyword begins. *)
LEMMA FirstPlaceVisited ==
  ASSUME NEW d, NEW n \in Nat, DOMAIN d = 1..n, NEW k \in 1..n,
         \A j \in 1..(k - 1) : StartingAt(d, j) = {}
  PROVE  k \in Visited(d)
<1> SUFFICES ASSUME NEW places \in SUBSET (1..n), ScanFrom1(d, places), k \notin places
             PROVE  FALSE
  BY DEF Visited
<1>1. /\ 1 \in places
      /\ \A j \in places : NextPlace(d, j) \in 1..n => NextPlace(d, j) \in places
  BY Zenon DEF ScanFrom1
<1> DEFINE missing == {j \in 1..k : j \notin places}
<1>2. missing \in SUBSET (0..n) /\ missing # {}
  OBVIOUS
<1>3. PICK j \in missing : \A i \in missing : j <= i
  <2> HIDE DEF missing
  <2> QED
    BY <1>2, MinIs
<1>4. j \in 1..k /\ j # 1 /\ j \notin places
  BY <1>1, <1>3
<1>5. j - 1 \in 1..(k - 1) /\ j - 1 \in 1..k /\ ~(j <= j - 1) /\ j \in 1..n
  BY <1>4
<1>6. j - 1 \in places
  <2>1. j - 1 \notin missing
    BY <1>3, <1>5
  <2> QED
    BY <2>1, <1>5
<1>7. NextPlace(d, j - 1) = j
  <2>1. NextPlace(d, j - 1) = (j - 1) + 1
    BY <1>5, Zenon DEF NextPlace
  <2> QED
    BY <2>1, <1>4
<1> QED
  BY <1>1, <1>4, <1>5, <1>6, <1>7, Zenon

(* The scan: keywords that are there, and one if there is any. *)
LEMMA KeywordFacts ==
  ASSUME Loaded, Built, NEW d \in Seq(Labels)
  PROVE  /\ \A i \in MatchKeywords(d) :
              i \in OfType("DOMAIN-KEYWORD") /\ \E k \in DOMAIN d : StartsAt(rules[i].pattern, d, k)
         /\ \A r \in OfType("DOMAIN-KEYWORD") :
              (\E k \in DOMAIN d : StartsAt(rules[r].pattern, d, k)) =>
                 \E s \in MatchKeywords(d) : s <= r \/ rules[s].pattern # rules[r].pattern
<1>1. MatchKeywords(d) = {Min(StartingAt(d, k)) : k \in {j \in Visited(d) : StartingAt(d, j) # {}}}
      /\ Visited(d) \subseteq DOMAIN d
  BY DEF MatchKeywords, Visited
<1>2. ASSUME NEW i \in MatchKeywords(d)
      PROVE  i \in OfType("DOMAIN-KEYWORD") /\ \E k \in DOMAIN d : StartsAt(rules[i].pattern, d, k)
  <2>1. PICK k \in DOMAIN d : i = Min(StartingAt(d, k)) /\ StartingAt(d, k) # {}
    BY <1>1
  <2>2. i \in StartingAt(d, k)
    BY <2>1, StartingFacts
  <2>3. i \in {x \in OfType("DOMAIN-KEYWORD") : StartsAt(rules[x].pattern, d, k)}
    BY <2>2, StartingFacts
  <2> QED
    BY <2>3
<1>3. ASSUME NEW r \in OfType("DOMAIN-KEYWORD"), NEW k0 \in DOMAIN d, StartsAt(rules[r].pattern, d, k0)
      PROVE  \E s \in MatchKeywords(d) : s <= r \/ rules[s].pattern # rules[r].pattern
  <2>1. PICK n \in Nat : n = Len(d) /\ DOMAIN d = 1..n
    OBVIOUS
  <2> DEFINE starting == {k \in 1..n : StartingAt(d, k) # {}}
  <2>2. k0 \in starting
    <3>1. r \in StartingAt(d, k0)
      BY <1>3, StartingFacts
    <3> QED
      BY <2>1, <3>1
  <2>3. PICK k \in starting : \A j \in starting : k <= j
    <3>1. starting \in SUBSET (0..n) /\ starting # {}
      BY <2>2
    <3> HIDE DEF starting
    <3> QED
      BY <3>1, MinIs
  <2>4. k \in 1..n /\ StartingAt(d, k) # {}
    OBVIOUS
  <2>5. \A j \in 1..(k - 1) : StartingAt(d, j) = {}
    <3> SUFFICES ASSUME NEW j \in 1..(k - 1), StartingAt(d, j) # {} PROVE FALSE
      OBVIOUS
    <3>1. j \in 1..n /\ ~(k <= j)
      BY <2>4
    <3> QED
      BY <3>1, <2>3
  <2>6. k \in Visited(d)
    BY <2>1, <2>4, <2>5, FirstPlaceVisited
  <2>7. PICK s : s = Min(StartingAt(d, k))
    OBVIOUS
  <2>8. s \in MatchKeywords(d)
    BY <1>1, <2>4, <2>6, <2>7
  <2>9. /\ s \in StartingAt(d, k) /\ \A i \in StartingAt(d, k) : s <= i
    BY <2>4, <2>7, StartingFacts
  <2>10. StartsAt(rules[s].pattern, d, k)
    BY <2>9, StartingFacts
  <2>11. CASE rules[s].pattern = rules[r].pattern
    <3>1. r \in StartingAt(d, k)
      BY <2>10, <2>11, StartingFacts
    <3> QED
      BY <3>1, <2>8, <2>9, Zenon
  <2> QED
    BY <2>8, <2>11
<1> QED
  BY <1>2, <1>3

(* The lists of the networks and of the countries: all rules that cover. *)
LEMMA AddressFacts ==
  ASSUME Loaded, Built, NEW a \in Addresses
  PROVE  MatchCidrs(a) \union MatchCountry(a) = {i \in DOMAIN rules : CoversAddress(rules[i], a)}
<1>1. \A type :
        /\ \A e \in ListOf(type) : e[2] \in OfType(type) /\ e[1] = rules[e[2]].pattern
        /\ \A i \in OfType(type) : \E e \in ListOf(type) : e[2] = i /\ e[1] = rules[i].pattern
  BY ListOfFacts
<1>2. \A i : i \in MatchCidrs(a) <=>
        i \in OfType(IF a \in Addresses4 THEN "IP-CIDR" ELSE "IP-CIDR6") /\ a \in rules[i].pattern
  <2>1. PICK type : type = IF a \in Addresses4 THEN "IP-CIDR" ELSE "IP-CIDR6"
    OBVIOUS
  <2>2. \A i : i \in MatchCidrs(a) <=> \E e \in ListOf(type) : a \in e[1] /\ i = e[2]
    BY <2>1 DEF MatchCidrs, Built
  <2>3. \A i : i \in MatchCidrs(a) <=> i \in OfType(type) /\ a \in rules[i].pattern
    BY <1>1, <2>2
  <2> QED
    BY <2>1, <2>3, Zenon
<1>3. \A i : i \in MatchCountry(a) <=>
        i \in OfType("GEOIP") /\ database /\ rules[i].pattern = Country[a]
  <2>1. \A i : i \in MatchCountry(a) <=>
          database /\ \E e \in ListOf("GEOIP") : e[1] = Country[a] /\ i = e[2]
    BY DEF MatchCountry, Built
  <2> QED
    BY <1>1, <2>1
<1>4. \A i \in DOMAIN rules :
        /\ rules[i].type = "IP-CIDR" /\ a \in rules[i].pattern => a \in Addresses4
        /\ rules[i].type = "IP-CIDR6" /\ a \in rules[i].pattern => a \notin Addresses4
  <2> SUFFICES ASSUME NEW i \in DOMAIN rules
      PROVE  /\ rules[i].type = "IP-CIDR" /\ a \in rules[i].pattern => a \in Addresses4
             /\ rules[i].type = "IP-CIDR6" /\ a \in rules[i].pattern => a \notin Addresses4
    OBVIOUS
  <2>1. IsRule(rules[i])
    BY DEF Loaded
  <2>2. Addresses4 \intersect Addresses6 = {}
    BY NameAssumption
  <2> QED
    BY <2>1, <2>2 DEF IsRule
<1>5. \A i \in DOMAIN rules :
        CoversAddress(rules[i], a) <=>
          \/ rules[i].type = "IP-CIDR" /\ a \in rules[i].pattern
          \/ rules[i].type = "IP-CIDR6" /\ a \in rules[i].pattern
          \/ rules[i].type = "GEOIP" /\ database /\ rules[i].pattern = Country[a]
  BY DEF CoversAddress
<1>6. \A i, type : i \in OfType(type) <=> i \in DOMAIN rules /\ rules[i].type = type
  BY DEF OfType
<1>7. \A i : i \in MatchCidrs(a) <=>
        /\ i \in DOMAIN rules
        /\ \/ rules[i].type = "IP-CIDR" /\ a \in rules[i].pattern
           \/ rules[i].type = "IP-CIDR6" /\ a \in rules[i].pattern
  <2>1. CASE a \in Addresses4
    BY <2>1, <1>2, <1>4, <1>6
  <2>2. CASE a \notin Addresses4
    BY <2>2, <1>2, <1>4, <1>6
  <2> QED
    BY <2>1, <2>2
<1>8. \A i : i \in MatchCountry(a) <=>
        i \in DOMAIN rules /\ rules[i].type = "GEOIP" /\ database /\ rules[i].pattern = Country[a]
  BY <1>3, <1>6
<1> QED
  BY <1>5, <1>7, <1>8

(* The three matchers of names together. *)
LEMMA NameFacts ==
  ASSUME Loaded, Built, NEW d \in Names
  PROVE  /\ \A i \in MatchNames(d) :
              i \in DOMAIN rules /\ rules[i].type \in DomainKinds /\ CoversName(rules[i], d)
         /\ \A r \in DOMAIN rules : CoversName(rules[r], d) =>
              \E s \in MatchNames(d) : s <= r \/ Hides(s, r)
<1>1. d \in Seq(Labels)
  BY NameAssumption
<1>2. \A i, type : i \in OfType(type) <=> i \in DOMAIN rules /\ rules[i].type = type
  BY DEF OfType
<1>3. \A i : i \in MatchNames(d) <=>
        i \in MatchExact(d) \/ i \in MatchSuffix(d) \/ i \in MatchKeywords(d)
  BY DEF MatchNames
<1>4. ASSUME NEW i \in MatchNames(d)
      PROVE  i \in DOMAIN rules /\ rules[i].type \in DomainKinds /\ CoversName(rules[i], d)
  <2>1. CASE i \in MatchExact(d)
    <3>1. i \in DOMAIN rules /\ rules[i].type = "DOMAIN" /\ rules[i].pattern = d
      BY <2>1, <1>2, ExactFacts
    <3> QED
      BY <3>1 DEF CoversName, DomainKinds
  <2>2. CASE i \in MatchSuffix(d)
    <3>1. i \in DOMAIN rules /\ rules[i].type = "DOMAIN-SUFFIX" /\ IsSuffix(rules[i].pattern, d)
      BY <2>2, <1>1, <1>2, TrieFacts
    <3> QED
      BY <3>1 DEF CoversName, DomainKinds
  <2>3. CASE i \in MatchKeywords(d)
    <3>1. /\ i \in DOMAIN rules /\ rules[i].type = "DOMAIN-KEYWORD"
          /\ \E k \in DOMAIN d : StartsAt(rules[i].pattern, d, k)
      BY <2>3, <1>1, <1>2, KeywordFacts
    <3> QED
      BY <3>1 DEF CoversName, DomainKinds
  <2> QED
    BY <2>1, <2>2, <2>3, <1>3
<1>5. ASSUME NEW r \in DOMAIN rules, CoversName(rules[r], d)
      PROVE  \E s \in MatchNames(d) : s <= r \/ Hides(s, r)
  <2>0. r \in Nat
    BY RulesAre
  <2>1. CASE rules[r].type = "DOMAIN" /\ rules[r].pattern = d
    <3>1. PICK s \in MatchExact(d) : r <= s
      BY <2>1, <1>2, ExactFacts
    <3>2. s \in DOMAIN rules /\ rules[s].type = "DOMAIN" /\ s \in MatchNames(d) /\ s \in Nat
      BY <3>1, <1>2, <1>3, ExactFacts, RulesAre
    <3>3. s <= r \/ s > r
      BY <2>0, <3>2
    <3>4. s > r => Hides(s, r)
      BY <2>1, <3>2 DEF Hides
    <3> QED
      BY <3>2, <3>3, <3>4
  <2>2. CASE rules[r].type = "DOMAIN-SUFFIX" /\ IsSuffix(rules[r].pattern, d)
    <3>1. r \in OfType("DOMAIN-SUFFIX")
      BY <2>2, <1>2
    <3>2. PICK s \in MatchSuffix(d) :
            \/ r = s
            \/ s > r /\ rules[s].pattern = rules[r].pattern
            \/ Len(rules[s].pattern) > Len(rules[r].pattern)
      BY <2>2, <3>1, <1>1, TrieFacts
    <3>3. rules[s].type = "DOMAIN-SUFFIX" /\ s \in MatchNames(d)
      BY <3>2, <1>1, <1>2, <1>3, TrieFacts
    <3>4. r = s \/ Hides(s, r)
      BY <2>2, <3>2, <3>3, Zenon DEF Hides
    <3>5. r <= r
      BY <2>0
    <3> QED
      BY <3>3, <3>4, <3>5
  <2>3. CASE rules[r].type = "DOMAIN-KEYWORD" /\ \E k \in DOMAIN d : StartsAt(rules[r].pattern, d, k)
    <3>1. r \in OfType("DOMAIN-KEYWORD")
      BY <2>3, <1>2
    <3>2. PICK s \in MatchKeywords(d) : s <= r \/ rules[s].pattern # rules[r].pattern
      BY <2>3, <3>1, <1>1, KeywordFacts
    <3>3. rules[s].type = "DOMAIN-KEYWORD" /\ s \in MatchNames(d)
      BY <3>2, <1>1, <1>2, <1>3, KeywordFacts
    <3>4. s <= r \/ Hides(s, r)
      BY <2>3, <3>2, <3>3, Zenon DEF Hides
    <3> QED
      BY <3>3, <3>4
  <2> QED
    BY <1>5, <2>1, <2>2, <2>3, Zenon DEF CoversName
<1> QED
  BY <1>4, <1>5

-----------------------------------------------------------------------------
(* The least answer. *)

LEMMA DecideFacts ==
  ASSUME Loaded, NEW C, C \subseteq DOMAIN rules
  PROVE  /\ C = {} => Decide(C).index = final_index /\ Decide(C).policy = final_policy
         /\ C # {} => /\ Decide(C).index \in C
                      /\ Decide(C).policy = rules[Decide(C).index].policy
                      /\ \A i \in C : Decide(C).index <= i
<1>1. CASE C = {}
  BY <1>1 DEF Decide
<1>2. CASE C # {}
  <2>1. C \in SUBSET (0..Len(rules)) /\ Len(rules) \in Nat
    BY RulesAre
  <2>2. Min(C) \in C /\ \A i \in C : Min(C) <= i
    BY <1>2, <2>1, MinIs
  <2>3. Decide(C).index = Min(C) /\ Decide(C).policy = rules[Min(C)].policy
    BY <1>2 DEF Decide
  <2> QED
    BY <1>2, <2>2, <2>3, Zenon
<1> QED
  BY <1>1, <1>2

\* What match_request takes the least of.
ByAddress(d, a) ==
  {i \in IF a = None THEN {} ELSE MatchCidrs(a) \union MatchCountry(a) :
     ~rules[i].no_resolve \/ d = None}
Candidates(d, a) == (IF d = None THEN {} ELSE MatchNames(d)) \union ByAddress(d, a)

LEMMA ByAddressFacts ==
  ASSUME Loaded, Built, NEW d, NEW a \in Addresses \union {None}
  PROVE  ByAddress(d, a) = {i \in DOMAIN rules :
           a # None /\ CoversAddress(rules[i], a) /\ (~rules[i].no_resolve \/ d = None)}
<1>1. CASE a = None
  BY <1>1 DEF ByAddress
<1>2. CASE a # None
  <2>1. MatchCidrs(a) \union MatchCountry(a) = {i \in DOMAIN rules : CoversAddress(rules[i], a)}
    BY <1>2, AddressFacts
  <2> QED
    BY <1>2, <2>1 DEF ByAddress
<1> QED
  BY <1>1, <1>2

LEMMA RequestFacts ==
  ASSUME Loaded, Built, NEW d \in Names \union {None}, NEW a \in Addresses \union {None}
  PROVE  /\ MatchRequest(d, a) = Decide(Candidates(d, a))
         /\ Candidates(d, a) \subseteq CoveringRules(d, a)
         /\ CoveringRules(d, a) \subseteq DOMAIN rules
         /\ \A r \in CoveringRules(d, a) : \E s \in Candidates(d, a) : s <= r \/ Hides(s, r)
<1>1. MatchRequest(d, a) = Decide(Candidates(d, a))
  BY Zenon DEF MatchRequest, Candidates, ByAddress
<1>2. CoveringRules(d, a) \subseteq DOMAIN rules
  BY DEF CoveringRules
<1>3. \A i : i \in ByAddress(d, a) <=>
        /\ i \in DOMAIN rules /\ a # None /\ CoversAddress(rules[i], a)
        /\ (~rules[i].no_resolve \/ d = None)
  BY ByAddressFacts
<1>4. \A i : i \in Candidates(d, a) <=> (d # None /\ i \in MatchNames(d)) \/ i \in ByAddress(d, a)
  BY DEF Candidates
<1>5. \A i : i \in CoveringRules(d, a) <=>
        /\ i \in DOMAIN rules
        /\ \/ d # None /\ CoversName(rules[i], d)
           \/ a # None /\ CoversAddress(rules[i], a) /\ (~rules[i].no_resolve \/ d = None)
  BY DEF CoveringRules, Covers
<1>6. d # None =>
        /\ \A i \in MatchNames(d) : i \in DOMAIN rules /\ CoversName(rules[i], d)
        /\ \A r \in DOMAIN rules : CoversName(rules[r], d) =>
             \E s \in MatchNames(d) : s <= r \/ Hides(s, r)
  BY NameFacts
<1>7. Candidates(d, a) \subseteq CoveringRules(d, a)
  BY <1>3, <1>4, <1>5, <1>6, Zenon
<1>8. ASSUME NEW r \in CoveringRules(d, a)
      PROVE  \E s \in Candidates(d, a) : s <= r \/ Hides(s, r)
  <2>1. r \in DOMAIN rules
    BY <1>2
  <2>2. CASE d # None /\ CoversName(rules[r], d)
    BY <2>1, <2>2, <1>4, <1>6, Zenon
  <2>3. CASE a # None /\ CoversAddress(rules[r], a) /\ (~rules[r].no_resolve \/ d = None)
    <3>1. r \in Candidates(d, a)
      BY <2>1, <2>3, <1>3, <1>4, Zenon
    <3>2. r <= r
      BY <2>1, RulesAre
    <3> QED
      BY <3>1, <3>2
  <2> QED
    BY <2>2, <2>3, <1>5, Zenon
<1> QED
  BY <1>1, <1>2, <1>7, <1>8

(* A line covers what one of its rules covers. *)
LEMMA LineCoversFacts ==
  ASSUME NEW line, NEW d, NEW a
  PROVE  LineCovers(line, d, a) <=> \E r \in Expansion(line) : Covers(r, d, a)
<1>1. \A r, p : Covers(WithPolicy(r, p), d, a) <=> Covers(r, d, a)
  <2> SUFFICES ASSUME NEW r, NEW p
               PROVE  Covers(WithPolicy(r, p), d, a) <=> Covers(r, d, a)
    OBVIOUS
  <2>1. /\ WithPolicy(r, p).type = r.type /\ WithPolicy(r, p).pattern = r.pattern
        /\ WithPolicy(r, p).no_resolve = r.no_resolve
    BY DEF WithPolicy
  <2> QED
    BY <2>1, Zenon DEF Covers, CoversName, CoversAddress
<1>2. CASE line.type = "RULE-SET"
  <2>1. \A r : r \in Expansion(line) <=>
          \E k \in DOMAIN Files[line.pattern] : r = WithPolicy(Files[line.pattern][k], line.policy)
    BY <1>2, Zenon DEF Expansion
  <2>2. LineCovers(line, d, a) <=>
          \E k \in DOMAIN Files[line.pattern] : Covers(Files[line.pattern][k], d, a)
    BY <1>2, Zenon DEF LineCovers
  <2>3. ASSUME NEW k \in DOMAIN Files[line.pattern], Covers(Files[line.pattern][k], d, a)
        PROVE  \E x \in Expansion(line) : Covers(x, d, a)
    <3>1. WithPolicy(Files[line.pattern][k], line.policy) \in Expansion(line)
      BY <2>1, Zenon
    <3> QED
      BY <2>3, <3>1, <1>1, Zenon
  <2>4. ASSUME NEW x \in Expansion(line), Covers(x, d, a)
        PROVE  \E k \in DOMAIN Files[line.pattern] : Covers(Files[line.pattern][k], d, a)
    <3>1. PICK k \in DOMAIN Files[line.pattern] : x = WithPolicy(Files[line.pattern][k], line.policy)
      BY <2>1, Zenon
    <3>2. Covers(WithPolicy(Files[line.pattern][k], line.policy), d, a)
      BY <2>4, <3>1
    <3> QED
      BY <3>2, <1>1, Zenon
  <2> QED
    BY <2>2, <2>3, <2>4, Zenon
<1>3. CASE line.type # "RULE-SET"
  BY <1>3, Zenon DEF Expansion, LineCovers
<1> QED
  BY <1>2, <1>3

(* The lines of the rules that cover are the lines that cover. *)
LEMMA CoveringFacts ==
  ASSUME Loaded, NEW src, Provenance(rules, lines, src), NEW d, NEW a
  PROVE  /\ \A i \in CoveringRules(d, a) : src[i] \in CoveringLines(d, a)
         /\ \A k \in CoveringLines(d, a) : \E i \in CoveringRules(d, a) : src[i] = k
<1>1. \A i \in DOMAIN rules : src[i] \in DOMAIN lines
  BY DEF Provenance
<1>2. \A k : k \in CoveringLines(d, a) <=>
        k \in DOMAIN lines /\ \E r \in Expansion(lines[k]) : Covers(r, d, a)
  BY LineCoversFacts DEF CoveringLines
<1>3. \A i : i \in CoveringRules(d, a) <=> i \in DOMAIN rules /\ Covers(rules[i], d, a)
  BY DEF CoveringRules
<1>4. \A i \in CoveringRules(d, a) : src[i] \in CoveringLines(d, a)
  BY <1>1, <1>2, <1>3, Zenon DEF Provenance
<1>5. ASSUME NEW k \in CoveringLines(d, a)
      PROVE  \E i \in CoveringRules(d, a) : src[i] = k
  <2>1. PICK r \in Expansion(lines[k]) : k \in DOMAIN lines /\ Covers(r, d, a)
    BY <1>2, Zenon
  <2>2. PICK i \in DOMAIN rules : src[i] = k /\ rules[i] = r
    BY <2>1, Zenon DEF Provenance
  <2> QED
    BY <2>1, <2>2, <1>3, Zenon
<1> QED
  BY <1>4, <1>5

-----------------------------------------------------------------------------
(* Which rule decides. *)

(* engine.rs, match_request and final_result: FINAL decides what no line      *)
(* covers and nothing else, although two matchers drop rules that match.      *)
THEOREM FinalDecidesOnlyTheRest == Spec => []FinalIsLast
<1>1. RuleInv => FinalIsLast
  <2> SUFFICES ASSUME RuleInv, phase = "ready",
                      NEW d \in Names \union {None}, NEW a \in Addresses \union {None}
               PROVE  IF CoveringLines(d, a) = {}
                      THEN /\ MatchRequest(d, a).index = final_index
                           /\ MatchRequest(d, a).policy = final_policy
                      ELSE MatchRequest(d, a).index \in CoveringRules(d, a)
    BY Zenon DEF FinalIsLast
  <2>1. Loaded /\ Built
    BY DEF RuleInv
  <2>2. /\ MatchRequest(d, a) = Decide(Candidates(d, a))
        /\ Candidates(d, a) \subseteq CoveringRules(d, a)
        /\ CoveringRules(d, a) \subseteq DOMAIN rules
        /\ \A r \in CoveringRules(d, a) : \E s \in Candidates(d, a) : s <= r \/ Hides(s, r)
    BY <2>1, RequestFacts
  <2>3. PICK src : Provenance(rules, lines, src)
    BY <2>1 DEF Loaded
  <2>4. CASE CoveringLines(d, a) = {}
    <3>1. CoveringRules(d, a) = {}
      BY <2>1, <2>3, <2>4, CoveringFacts
    <3>2. Candidates(d, a) = {}
      BY <2>2, <3>1
    <3> QED
      BY <2>1, <2>2, <2>4, <3>2, DecideFacts
  <2>5. CASE CoveringLines(d, a) # {}
    <3>1. CoveringRules(d, a) # {}
      BY <2>1, <2>3, <2>5, CoveringFacts
    <3>2. Candidates(d, a) # {} /\ Candidates(d, a) \subseteq DOMAIN rules
      BY <2>2, <3>1
    <3>3. Decide(Candidates(d, a)).index \in Candidates(d, a)
      BY <2>1, <3>2, DecideFacts
    <3> QED
      BY <2>2, <2>5, <3>3
  <2> QED
    BY <2>4, <2>5
<1> QED
  BY <1>1, RuleInvariant, PTL

(* engine.rs, match_request: a rule that stands earlier and covers the        *)
(* request is passed over only for one of its own matcher that hides it.      *)
THEOREM OnlyHiddenRulesArePassedOver == Spec => []PassedOverOnlyIfHidden
<1>1. RuleInv => PassedOverOnlyIfHidden
  <2> SUFFICES ASSUME RuleInv, phase = "ready",
                      NEW d \in Names \union {None}, NEW a \in Addresses \union {None},
                      NEW r \in CoveringRules(d, a), r < MatchRequest(d, a).index
               PROVE  \E s \in CoveringRules(d, a) : Hides(s, r)
    BY Zenon DEF PassedOverOnlyIfHidden
  <2>1. Loaded /\ Built
    BY DEF RuleInv
  <2>2. /\ MatchRequest(d, a) = Decide(Candidates(d, a))
        /\ Candidates(d, a) \subseteq CoveringRules(d, a)
        /\ CoveringRules(d, a) \subseteq DOMAIN rules
    BY <2>1, RequestFacts
  <2>3. PICK s \in Candidates(d, a) : s <= r \/ Hides(s, r)
    BY <2>1, RequestFacts
  <2>4. ~(s <= r)
    <3>1. Candidates(d, a) \subseteq DOMAIN rules /\ Candidates(d, a) # {}
      BY <2>2, <2>3
    <3>2. PICK m : m = Decide(Candidates(d, a)).index
      OBVIOUS
    <3>3. m \in Candidates(d, a) /\ m <= s
      BY <2>1, <2>3, <3>1, <3>2, DecideFacts
    <3>4. m \in Nat /\ s \in Nat /\ r \in Nat
      <4>1. DOMAIN rules \subseteq Nat
        BY <2>1, RulesAre
      <4> QED
        BY <4>1, <2>2, <2>3, <3>1, <3>3
    <3>5. r < m
      BY <2>2, <3>2
    <3> QED
      BY <3>3, <3>4, <3>5
  <2> QED
    BY <2>2, <2>3, <2>4
<1> QED
  BY <1>1, RuleInvariant, PTL

(* rules.list, "FIRST MATCH WINS", and load_rules: for an address the first   *)
(* line that covers it gives the policy, also a RULE-SET line.                *)
THEOREM FirstLineDecidesAddresses == Spec => []FirstLineWinsByAddress
<1>1. RuleInv => FirstLineWinsByAddress
  <2> SUFFICES ASSUME RuleInv, phase = "ready", NEW a \in Addresses
               PROVE  /\ CoveringLines(None, a) # {} =>
                           MatchRequest(None, a).policy = lines[Min(CoveringLines(None, a))].policy
                      /\ MatchIp(a) = MatchRequest(None, a)
    BY Zenon DEF FirstLineWinsByAddress
  <2>1. Loaded /\ Built
    BY DEF RuleInv
  <2>2. a # None
    BY NameAssumption
  <2>3. Candidates(None, a) = MatchCidrs(a) \union MatchCountry(a)
    BY <2>2 DEF Candidates, ByAddress
  <2>4. MatchRequest(None, a) = Decide(Candidates(None, a))
    BY <2>1, RequestFacts
  <2>5. MatchIp(a) = MatchRequest(None, a)
    BY <2>3, <2>4, Zenon DEF MatchIp
  <2>6. CoveringRules(None, a) = Candidates(None, a)
    <3>1. CoveringRules(None, a) = {i \in DOMAIN rules : CoversAddress(rules[i], a)}
      BY <2>2 DEF CoveringRules, Covers
    <3> QED
      BY <2>1, <2>3, <3>1, AddressFacts
  <2>7. ASSUME CoveringLines(None, a) # {}
        PROVE  MatchRequest(None, a).policy = lines[Min(CoveringLines(None, a))].policy
    <3>1. PICK src : Provenance(rules, lines, src)
      BY <2>1 DEF Loaded
    <3>2. PICK k : k = Min(CoveringLines(None, a))
      OBVIOUS
    <3>3. k \in CoveringLines(None, a) /\ \A j \in CoveringLines(None, a) : k <= j
      <4>1. CoveringLines(None, a) \in SUBSET (0..Len(lines)) /\ Len(lines) \in Nat
        BY <2>1 DEF CoveringLines, Loaded
      <4> QED
        BY <2>7, <3>2, <4>1, MinIs
    <3>4. PICK i \in CoveringRules(None, a) : src[i] = k
      BY <2>1, <3>1, <3>3, CoveringFacts
    <3>5. PICK m : m = Decide(Candidates(None, a)).index
      OBVIOUS
    <3>6. /\ m \in CoveringRules(None, a) /\ m <= i
          /\ Decide(Candidates(None, a)).policy = rules[m].policy
      <4>1. Candidates(None, a) # {} /\ Candidates(None, a) \subseteq DOMAIN rules
        BY <2>6, <3>4 DEF CoveringRules
      <4> QED
        BY <2>1, <2>6, <3>4, <3>5, <4>1, DecideFacts
    <3>7. i \in DOMAIN rules /\ m \in DOMAIN rules
      BY <3>4, <3>6 DEF CoveringRules
    <3>8. src[m] \in CoveringLines(None, a)
      BY <2>1, <3>1, <3>6, CoveringFacts
    <3>9. src[m] <= k /\ k <= src[m]
      BY <3>1, <3>3, <3>4, <3>6, <3>7, <3>8, Zenon DEF Provenance
    <3>10. src[m] = k
      <4>1. src[m] \in Nat /\ k \in Nat
        BY <2>1, <3>3, <3>8 DEF CoveringLines, Loaded
      <4> QED
        BY <3>9, <4>1
    <3>11. rules[m] \in Expansion(lines[k])
      BY <3>1, <3>7, <3>10, Zenon DEF Provenance
    <3>12. rules[m].policy = lines[k].policy
      BY <3>11 DEF Expansion, WithPolicy
    <3> QED
      BY <2>4, <3>2, <3>6, <3>12, Zenon
  <2> QED
    BY <2>5, <2>7
<1> QED
  BY <1>1, RuleInvariant, PTL

(* engine.rs, match_domain and match_request: what the DNS filter was told    *)
(* about a name holds for the connection unless an address rule is earlier.   *)
THEOREM FilterAndProxyAgree == Spec => []FilterAgreesWithProxy
<1>1. RuleInv => FilterAgreesWithProxy
  <2> SUFFICES ASSUME RuleInv, phase = "ready", NEW d \in Names, NEW a \in Addresses,
                      MatchRequest(d, a) # MatchDomain(d)
               PROVE  /\ rules[MatchRequest(d, a).index].type \notin DomainKinds
                      /\ ~rules[MatchRequest(d, a).index].no_resolve
                      /\ \/ MatchRequest(d, a).index < MatchDomain(d).index
                         \/ MatchNames(d) = {}
    BY Zenon DEF FilterAgreesWithProxy
  <2>1. Loaded /\ Built
    BY DEF RuleInv
  <2>2. d # None
    BY NameAssumption
  <2> DEFINE all == Candidates(d, a)
             names == MatchNames(d)
             addresses == ByAddress(d, a)
  <2>3. all = names \union addresses /\ MatchDomain(d) = Decide(names)
    BY <2>2, Zenon DEF Candidates, MatchDomain
  <2>4. MatchRequest(d, a) = Decide(all)
    BY <2>1, RequestFacts
  <2>5. names \subseteq DOMAIN rules
    BY <2>1, NameFacts
  <2>6. \A i \in addresses :
          i \in DOMAIN rules /\ rules[i].type \notin DomainKinds /\ ~rules[i].no_resolve
    <3>1. \A i \in addresses :
            i \in DOMAIN rules /\ CoversAddress(rules[i], a) /\ ~rules[i].no_resolve
      BY <2>1, <2>2, ByAddressFacts
    <3>2. \A r : CoversAddress(r, a) => r.type \notin DomainKinds
      BY DEF CoversAddress, DomainKinds
    <3> QED
      BY <3>1, <3>2
  <2>7. DOMAIN rules \subseteq Nat
    BY <2>1, RulesAre
  <2> HIDE DEF all, names, addresses
  <2>8. all # {}
    BY <2>3, <2>4
  <2>9. PICK m : m = Decide(all).index
    OBVIOUS
  <2>10. m \in all /\ (\A i \in all : m <= i) /\ Decide(all).policy = rules[m].policy
    <3>1. all \subseteq DOMAIN rules
      BY <2>3, <2>5, <2>6
    <3> QED
      BY <2>1, <2>8, <2>9, <3>1, DecideFacts
  <2>11. m \notin names /\ (names # {} => m < Decide(names).index)
    <3>1. CASE names = {}
      BY <3>1
    <3>2. CASE names # {}
      <4>1. PICK n : n = Decide(names).index
        OBVIOUS
      <4>2. n \in names /\ (\A i \in names : n <= i)
        BY <2>1, <2>5, <3>2, <4>1, DecideFacts
      <4>3. m \in Nat /\ n \in Nat /\ m <= n
        BY <2>3, <2>5, <2>6, <2>7, <2>10, <4>2
      <4>4. m # n
        <5>1. SUFFICES ASSUME m = n PROVE FALSE
          OBVIOUS
        <5>2. Decide(all) = [index |-> Min(all), policy |-> rules[Min(all)].policy]
          BY <2>8, Zenon DEF Decide
        <5>3. Decide(names) = [index |-> Min(names), policy |-> rules[Min(names)].policy]
          BY <3>2, Zenon DEF Decide
        <5>4. Min(all) = m /\ Min(names) = n
          BY <2>9, <4>1, <5>2, <5>3
        <5> QED
          BY <5>1, <5>2, <5>3, <5>4, <2>3, <2>4, Zenon
      <4>5. m < n
        BY <4>3, <4>4
      <4>6. m \notin names
        BY <4>2, <4>3, <4>5
      <4> QED
        BY <4>1, <4>5, <4>6
    <3> QED
      BY <3>1, <3>2
  <2>12. m \in addresses
    BY <2>3, <2>10, <2>11
  <2>13. MatchRequest(d, a).index = m /\ MatchDomain(d).index = Decide(names).index
    BY <2>3, <2>4, <2>9
  <2>14. rules[m].type \notin DomainKinds /\ ~rules[m].no_resolve
    BY <2>6, <2>12
  <2> QED
    BY <2>11, <2>13, <2>14, Zenon DEF names
<1> QED
  BY <1>1, RuleInvariant, PTL
=============================================================================
