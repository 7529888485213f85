--------------------------- MODULE SequenceLemmas ---------------------------
(***************************************************************************)
(* Facts about sequences without duplicates, about what the operators of   *)
(* LruList do to the keys and the length of such a list, and about least   *)
(* and greatest elements.  The proofs about the caches, the proxy groups,  *)
(* the rules, the grants and the database rest on them.                    *)
(***************************************************************************)
EXTENDS LruList, SequenceTheorems, FiniteSetTheorems, TLAPS

(* A listing of a finite set names its elements once each. *)
LEMMA SetToSeqsKeys ==
  ASSUME NEW S, NEW T, T \subseteq S, IsFiniteSet(T), NEW s \in SetToSeqs(T)
  PROVE  /\ s \in Seq(S)
         /\ ToSet(s) \subseteq T
         /\ IsInjective(s)
         /\ Len(s) = Cardinality(T)
<1>1. Cardinality(T) \in Nat
  BY FS_CardinalityType
<1>2. s \in [1 .. Cardinality(T) -> T]
  BY DEF SetToSeqs
<1>3. s \in Seq(T) /\ Len(s) = Cardinality(T) /\ DOMAIN s = 1 .. Cardinality(T)
  BY <1>1, <1>2
<1>4. IsInjective(s)
  BY <1>2 DEF SetToSeqs, IsInjective
<1>5. ToSet(s) \subseteq T
  BY <1>2, <1>3 DEF ToSet
<1> QED
  BY <1>1, <1>2, <1>3, <1>4, <1>5

(* Of finitely many keys with natural numbers, one has the least number    *)
(* and is the first of those.                                              *)
LEMMA LeastExists ==
  ASSUME NEW D, D \subseteq Nat, D # {}, IsFiniteSet(D), NEW f \in [D -> Nat]
  PROVE  \E x \in D : \A y \in D : f[x] <= f[y] /\ (f[x] = f[y] => x <= y)
<1> DEFINE Less(y, x) == f[y] < f[x] \/ (f[y] = f[x] /\ y < x)
           Below(x) == {y \in D : Less(y, x)}
           T == {Below(x) : x \in D}
<1>1. IsWellFoundedOn(StrictSubsetOrdering(D), FiniteSubsetsOf(D))
  BY FS_StrictSubsetOrderingWellFounded
<1>2. T \subseteq FiniteSubsetsOf(D) /\ T # {}
  <2>1. \A x \in D : Below(x) \subseteq D
    OBVIOUS
  <2> HIDE DEF Below
  <2>2. \A x \in D : IsFiniteSet(Below(x))
    BY <2>1, FS_Subset
  <2>3. \A x \in D : Below(x) \in FiniteSubsetsOf(D)
    BY <2>1, <2>2 DEF FiniteSubsetsOf
  <2> QED
    BY <2>3
<1> HIDE DEF T
<1>3. PICK B \in T : \A C \in T : ~(<<C, B>> \in StrictSubsetOrdering(D))
  BY <1>1, <1>2, WFMin
<1>4. PICK x \in D : B = Below(x)
  BY DEF T
<1>5. \A y \in D : ~Less(y, x)
  <2> SUFFICES ASSUME NEW y \in D, Less(y, x) PROVE FALSE
    OBVIOUS
  <2>1. Below(y) \in T /\ Below(y) \subseteq D /\ Below(x) \subseteq D
    BY DEF T
  <2>2. Below(y) \subseteq Below(x)
    <3> SUFFICES ASSUME NEW z \in D, Less(z, y) PROVE Less(z, x)
      OBVIOUS
    <3>1. f[x] \in Nat /\ f[y] \in Nat /\ f[z] \in Nat /\ x \in Nat /\ y \in Nat /\ z \in Nat
      OBVIOUS
    <3> QED
      BY <3>1
  <2>3. y \in Below(x) /\ y \notin Below(y)
    <3>1. f[y] \in Nat /\ y \in Nat
      OBVIOUS
    <3> QED
      BY <3>1
  <2>4. <<Below(y), B>> \in StrictSubsetOrdering(D)
    <3> HIDE DEF Below
    <3> QED
      BY <1>4, <2>1, <2>2, <2>3 DEF StrictSubsetOrdering
  <2> QED
    BY <1>3, <2>1, <2>4
<1>6. \A y \in D : f[x] <= f[y] /\ (f[x] = f[y] => x <= y)
  <2> SUFFICES ASSUME NEW y \in D PROVE f[x] <= f[y] /\ (f[x] = f[y] => x <= y)
    OBVIOUS
  <2>1. f[x] \in Nat /\ f[y] \in Nat /\ x \in Nat /\ y \in Nat
    OBVIOUS
  <2> QED
    BY <1>5, <2>1
<1> QED
  BY <1>6

(* The least and the greatest of some numbers up to a bound. *)
LEMMA MinIs ==
  ASSUME NEW n \in Nat, NEW S \in SUBSET (0 .. n), S # {}
  PROVE  Min(S) \in S /\ \A y \in S : Min(S) <= y
<1> DEFINE id == [x \in S |-> x]
<1>1. S \subseteq Nat /\ id \in [S -> Nat]
  OBVIOUS
<1>2. IsFiniteSet(S)
  <2>1. IsFiniteSet(0 .. n)
    BY FS_Interval
  <2>2. S \subseteq 0 .. n
    OBVIOUS
  <2> QED
    BY <2>1, <2>2, FS_Subset
<1>3. \E x \in S : \A y \in S : id[x] <= id[y] /\ (id[x] = id[y] => x <= y)
  <2> HIDE DEF id
  <2> QED
    BY <1>1, <1>2, LeastExists
<1>4. \E x \in S : \A y \in S : x <= y
  BY <1>3
<1> QED
  BY <1>4, Zenon DEF Min

(* Any set of natural numbers has a least one. *)
LEMMA LeastIn ==
  ASSUME NEW S \in SUBSET Nat, S # {}
  PROVE  Min(S) \in S
<1>1. PICK n \in S : TRUE
  OBVIOUS
<1>2. n \in Nat /\ S \cap (0 .. n) \in SUBSET (0 .. n) /\ S \cap (0 .. n) # {}
  BY <1>1
<1>3. PICK x \in S \cap (0 .. n) : \A y \in S \cap (0 .. n) : x <= y
  BY <1>2, MinIs
<1>4. \A y \in S : x <= y
  BY <1>2, <1>3
<1> QED
  BY <1>3, <1>4, Zenon DEF Min

LEMMA MaxIs ==
  ASSUME NEW n \in Nat, NEW S \in SUBSET (0 .. n), S # {}
  PROVE  Max(S) \in S /\ \A y \in S : y <= Max(S)
<1> DEFINE behind == [x \in S |-> n - x]
<1>1. S \subseteq Nat /\ behind \in [S -> Nat]
  OBVIOUS
<1>2. IsFiniteSet(S)
  <2>1. IsFiniteSet(0 .. n)
    BY FS_Interval
  <2>2. S \subseteq 0 .. n
    OBVIOUS
  <2> QED
    BY <2>1, <2>2, FS_Subset
<1>3. PICK x \in S : \A y \in S : behind[x] <= behind[y]
  <2> HIDE DEF behind
  <2> QED
    BY <1>1, <1>2, LeastExists
<1>4. \A y \in S : x >= y
  <2> SUFFICES ASSUME NEW y \in S PROVE x >= y
    OBVIOUS
  <2>1. behind[x] = n - x /\ behind[y] = n - y /\ behind[x] <= behind[y]
    BY <1>3
  <2> QED
    BY <2>1
<1>5. Max(S) \in S /\ \A y \in S : Max(S) >= y
  BY <1>4, Zenon DEF Max
<1> QED
  BY <1>5

(* A function into the numbers has a greatest value on a finite set. *)
LEMMA GreatestExists ==
  ASSUME NEW S \in SUBSET Nat, IsFiniteSet(S), S # {}, NEW f \in [S -> Nat]
  PROVE  \E x \in S : \A y \in S : f[y] <= f[x]
<1> DEFINE Above(x) == {y \in S : f[y] > f[x]}
           above == [x \in S |-> Cardinality(Above(x))]
<1>1. \A x \in S : IsFiniteSet(Above(x)) /\ Cardinality(Above(x)) \in Nat
  <2> TAKE x \in S
  <2>1. IsFiniteSet(Above(x))
    BY FS_Subset
  <2> QED
    BY <2>1, FS_CardinalityType
<1>2. PICK x \in S : \A y \in S : above[x] <= above[y]
  <2>1. above \in [S -> Nat]
    BY <1>1
  <2> HIDE DEF above
  <2> QED
    BY <2>1, LeastExists
<1>3. \A y \in S : ~(f[y] > f[x])
  <2> SUFFICES ASSUME NEW y \in S, f[y] > f[x] PROVE FALSE
    OBVIOUS
  <2>1. Above(y) \subseteq Above(x) /\ y \in Above(x) /\ y \notin Above(y)
    <3>1. \A z \in S : f[z] \in Nat
      OBVIOUS
    <3>2. \A z \in S : f[z] > f[y] => f[z] > f[x]
      BY <3>1
    <3>3. ~(f[y] > f[y])
      BY <3>1
    <3> QED
      BY <3>2, <3>3, Zenon
  <2>2. /\ Cardinality(Above(y)) <= Cardinality(Above(x))
        /\ Cardinality(Above(x)) = Cardinality(Above(y)) => Above(x) = Above(y)
    <3> HIDE DEF Above
    <3> QED
      BY <1>1, <2>1, FS_Subset
  <2>3. Cardinality(Above(x)) <= Cardinality(Above(y))
    BY <1>2
  <2> QED
    BY <1>1, <2>1, <2>2, <2>3
<1>4. \A y \in S : f[y] <= f[x]
  BY <1>3
<1> QED
  BY <1>4

-----------------------------------------------------------------------------
(***************************************************************************)
(* LruList: a proof about one of the caches opens no sequence again.       *)
(***************************************************************************)
(* A key stands at a position of the list, and popping it closes the gap.  *)
LEMMA RemoveAtElements ==
  ASSUME NEW S, NEW l \in Seq(S), NEW p \in 1 .. Len(l)
  PROVE  /\ RemoveAt(l, p) \in Seq(S)
         /\ Len(RemoveAt(l, p)) = Len(l) - 1
         /\ \A j \in 1 .. Len(l) - 1 :
              RemoveAt(l, p)[j] = IF j < p THEN l[j] ELSE l[j + 1]
<1> DEFINE a == SubSeq(l, 1, p - 1)
           b == SubSeq(l, p + 1, Len(l))
<1>1. /\ a \in Seq(S)
      /\ Len(a) = p - 1
      /\ \A j \in 1 .. p - 1 : a[j] = l[j]
  <2>1. \A j \in 1 .. p - 1 : l[j] \in S
    BY ElementOfSeq
  <2>2. p - 1 \in Int /\ (IF 1 <= p - 1 THEN p - 1 - 1 + 1 ELSE 0) = p - 1
    OBVIOUS
  <2> QED
    BY <2>1, <2>2, SubSeqProperties
<1>2. /\ b \in Seq(S)
      /\ Len(b) = Len(l) - p
      /\ \A j \in 1 .. Len(l) - p : b[j] = l[p + j]
  <2>1. \A j \in p + 1 .. Len(l) : l[j] \in S
    BY ElementOfSeq
  <2>2. /\ p + 1 \in Int
        /\ Len(l) \in Int
        /\ (IF p + 1 <= Len(l) THEN Len(l) - (p + 1) + 1 ELSE 0) = Len(l) - p
    OBVIOUS
  <2> QED
    BY <2>1, <2>2, SubSeqProperties
<1>3. RemoveAt(l, p) = a \o b
  BY DEF RemoveAt
<1> HIDE DEF a, b
<1>4. /\ a \o b \in Seq(S)
      /\ Len(a \o b) = Len(a) + Len(b)
      /\ \A j \in 1 .. Len(a) + Len(b) :
           (a \o b)[j] = IF j <= Len(a) THEN a[j] ELSE b[j - Len(a)]
  BY <1>1, <1>2, ConcatProperties
<1>5. Len(a) + Len(b) = Len(l) - 1
  BY <1>1, <1>2
<1>6. ASSUME NEW j \in 1 .. Len(l) - 1
      PROVE  (a \o b)[j] = IF j < p THEN l[j] ELSE l[j + 1]
  <2>1. (a \o b)[j] = IF j <= p - 1 THEN a[j] ELSE b[j - (p - 1)]
    BY <1>1, <1>4, <1>5
  <2>2. CASE j < p
    BY <2>1, <2>2, <1>1
  <2>3. CASE ~(j < p)
    <3>1. j - (p - 1) \in 1 .. Len(l) - p /\ p + (j - (p - 1)) = j + 1
      BY <2>3
    <3>2. b[j - (p - 1)] = l[p + (j - (p - 1))]
      BY <3>1, <1>2
    <3>3. b[j - (p - 1)] = l[j + 1]
      BY <3>1, <3>2, Zenon
    <3>4. ~(j <= p - 1)
      BY <2>3
    <3> QED
      BY <2>1, <2>3, <3>3, <3>4, Zenon
  <2> QED
    BY <2>2, <2>3
<1> QED
  BY <1>3, <1>4, <1>5, <1>6

LEMMA LruPositionIsThere ==
  ASSUME NEW l, NEW k \in ToSet(l)
  PROVE  LruPosition(l, k) \in DOMAIN l /\ l[LruPosition(l, k)] = k
BY DEF ToSet, LruPosition

(* pop removes the key and nothing else. *)
LEMMA LruPopKeys ==
  ASSUME NEW S, NEW l \in Seq(S), IsInjective(l), NEW k
  PROVE  /\ LruPop(l, k) \in Seq(S)
         /\ ToSet(LruPop(l, k)) = ToSet(l) \ {k}
         /\ IsInjective(LruPop(l, k))
         /\ Len(LruPop(l, k)) = IF k \in ToSet(l) THEN Len(l) - 1 ELSE Len(l)
<1>1. CASE k \notin ToSet(l)
  BY <1>1 DEF LruPop
<1>2. CASE k \in ToSet(l)
  <2> DEFINE p == LruPosition(l, k)
             r == LruPop(l, k)
  <2>1. DOMAIN l = 1 .. Len(l)
    OBVIOUS
  <2>2. p \in 1 .. Len(l) /\ l[p] = k
    BY <1>2, <2>1, LruPositionIsThere
  <2>3. /\ r \in Seq(S)
        /\ Len(r) = Len(l) - 1
        /\ \A j \in 1 .. Len(l) - 1 : r[j] = IF j < p THEN l[j] ELSE l[j + 1]
    BY <1>2, <2>2, RemoveAtElements DEF LruPop
  <2>4. DOMAIN r = 1 .. Len(l) - 1
    BY <2>3
  <2> HIDE DEF p, r
  <2>5. ToSet(r) \subseteq ToSet(l) \ {k}
    <3> SUFFICES ASSUME NEW j \in 1 .. Len(l) - 1
                 PROVE  r[j] \in ToSet(l) \ {k}
      BY <2>4 DEF ToSet
    <3>1. PICK i \in 1 .. Len(l) : r[j] = l[i] /\ i # p
      BY <2>2, <2>3
    <3> QED
      BY <3>1, <2>1, <2>2 DEF ToSet, IsInjective
  <2>6. ToSet(l) \ {k} \subseteq ToSet(r)
    <3> SUFFICES ASSUME NEW i \in 1 .. Len(l), i # p
                 PROVE  l[i] \in ToSet(r)
      BY <2>1, <2>2 DEF ToSet
    <3>1. PICK j \in 1 .. Len(l) - 1 : r[j] = l[i]
      <4>1. CASE i < p
        BY <4>1, <2>2, <2>3
      <4>2. CASE i > p
        <5>1. i - 1 \in 1 .. Len(l) - 1 /\ ~(i - 1 < p) /\ (i - 1) + 1 = i
          BY <4>2, <2>2
        <5> QED
          BY <5>1, <2>3
      <4> QED
        BY <4>1, <4>2, <2>2
    <3> QED
      BY <3>1, <2>4 DEF ToSet
  <2>7. IsInjective(r)
    <3> SUFFICES ASSUME NEW i \in 1 .. Len(l) - 1, NEW j \in 1 .. Len(l) - 1,
                        r[i] = r[j]
                 PROVE  i = j
      BY <2>4 DEF IsInjective
    <3>1. \A m, n \in 1 .. Len(l) : l[m] = l[n] => m = n
      BY <2>1 DEF IsInjective
    <3> QED
      BY <2>2, <2>3, <3>1
  <2> QED
    BY <1>2, <2>3, <2>5, <2>6, <2>7 DEF r
<1> QED
  BY <1>1, <1>2

(* Appending a new key. *)
LEMMA AppendKeys ==
  ASSUME NEW S, NEW l \in Seq(S), IsInjective(l), NEW k \in S, k \notin ToSet(l)
  PROVE  /\ Append(l, k) \in Seq(S)
         /\ ToSet(Append(l, k)) = ToSet(l) \cup {k}
         /\ IsInjective(Append(l, k))
         /\ Len(Append(l, k)) = Len(l) + 1
<1> DEFINE r == Append(l, k)
<1>1. /\ r \in Seq(S)
      /\ Len(r) = Len(l) + 1
      /\ \A i \in 1 .. Len(l) : r[i] = l[i]
      /\ r[Len(l) + 1] = k
  BY AppendProperties
<1>2. DOMAIN r = 1 .. Len(l) + 1 /\ DOMAIN l = 1 .. Len(l)
  BY <1>1
<1> HIDE DEF r
<1>3. ToSet(r) = ToSet(l) \cup {k}
  BY <1>1, <1>2 DEF ToSet
<1>4. IsInjective(r)
  BY <1>1, <1>2 DEF ToSet, IsInjective
<1> QED
  BY <1>1, <1>3, <1>4 DEF r

(* Dropping the least recently used key. *)
LEMMA TailKeys ==
  ASSUME NEW S, NEW l \in Seq(S), IsInjective(l), l # << >>
  PROVE  /\ Head(l) \in S
         /\ Head(l) \in ToSet(l)
         /\ Tail(l) \in Seq(S)
         /\ ToSet(Tail(l)) = ToSet(l) \ {Head(l)}
         /\ IsInjective(Tail(l))
         /\ Len(Tail(l)) = Len(l) - 1
<1> DEFINE r == Tail(l)
<1>1. /\ r \in Seq(S)
      /\ Len(r) = Len(l) - 1
      /\ \A i \in 1 .. Len(l) - 1 : r[i] = l[i + 1]
      /\ Head(l) \in S
      /\ Head(l) = l[1]
      /\ Len(l) \in Nat \ {0}
  BY HeadTailProperties
<1>2. DOMAIN r = 1 .. Len(l) - 1 /\ DOMAIN l = 1 .. Len(l)
  BY <1>1
<1> HIDE DEF r
<1>3. Head(l) \in ToSet(l)
  BY <1>1, <1>2 DEF ToSet
<1>4. ToSet(r) = ToSet(l) \ {Head(l)}
  <2>1. ASSUME NEW i \in 1 .. Len(l) - 1
        PROVE  r[i] \in ToSet(l) /\ r[i] # Head(l)
    <3>1. /\ i + 1 \in 1 .. Len(l) /\ 1 \in 1 .. Len(l) /\ i + 1 # 1
          /\ r[i] = l[i + 1]
      BY <1>1
    <3>2. l[i + 1] \in ToSet(l)
      BY <3>1, <1>2 DEF ToSet
    <3>3. l[i + 1] # l[1]
      BY <3>1, <1>2 DEF IsInjective
    <3> QED
      BY <3>1, <3>2, <3>3, <1>1
  <2>2. ASSUME NEW i \in 1 .. Len(l), l[i] # l[1]
        PROVE  l[i] \in ToSet(r)
    <3>1. i - 1 \in 1 .. Len(l) - 1 /\ r[i - 1] = l[i]
      BY <2>2, <1>1
    <3> QED
      BY <3>1, <1>2 DEF ToSet
  <2>3. ASSUME NEW x \in ToSet(l), x # Head(l)
        PROVE  x \in ToSet(r)
    <3>1. PICK i \in 1 .. Len(l) : x = l[i]
      BY <1>2 DEF ToSet
    <3> QED
      BY <3>1, <2>2, <2>3, <1>1
  <2>4. ASSUME NEW x \in ToSet(r)
        PROVE  x \in ToSet(l) \ {Head(l)}
    <3>1. PICK i \in 1 .. Len(l) - 1 : x = r[i]
      BY <1>2 DEF ToSet
    <3> QED
      BY <3>1, <2>1
  <2> QED
    BY <2>3, <2>4
<1>5. IsInjective(r)
  BY <1>1, <1>2 DEF IsInjective
<1> QED
  BY <1>1, <1>3, <1>4, <1>5 DEF r

(* get changes the order of the keys and nothing else. *)
LEMMA LruGetKeys ==
  ASSUME NEW S, NEW l \in Seq(S), IsInjective(l), NEW k \in S
  PROVE  /\ LruGet(l, k) \in Seq(S)
         /\ ToSet(LruGet(l, k)) = ToSet(l)
         /\ IsInjective(LruGet(l, k))
         /\ Len(LruGet(l, k)) = Len(l)
<1>1. CASE k \notin ToSet(l)
  BY <1>1 DEF LruGet
<1>2. CASE k \in ToSet(l)
  <2>1. /\ LruPop(l, k) \in Seq(S)
        /\ ToSet(LruPop(l, k)) = ToSet(l) \ {k}
        /\ IsInjective(LruPop(l, k))
        /\ Len(LruPop(l, k)) = Len(l) - 1
    BY <1>2, LruPopKeys
  <2>2. LruGet(l, k) = Append(LruPop(l, k), k)
    BY <1>2 DEF LruGet
  <2>3. k \notin ToSet(LruPop(l, k))
    BY <2>1
  <2>4. /\ Append(LruPop(l, k), k) \in Seq(S)
        /\ ToSet(Append(LruPop(l, k), k)) = ToSet(LruPop(l, k)) \cup {k}
        /\ IsInjective(Append(LruPop(l, k), k))
        /\ Len(Append(LruPop(l, k), k)) = Len(LruPop(l, k)) + 1
    BY <2>1, <2>3, AppendKeys
  <2>5. Len(l) \in Nat
    OBVIOUS
  <2> QED
    BY <1>2, <2>1, <2>2, <2>4, <2>5
<1> QED
  BY <1>1, <1>2

(* put of a new key into a list with room drops nothing. *)
LEMMA LruPutNewKey ==
  ASSUME NEW S, NEW l \in Seq(S), IsInjective(l), NEW k \in S, k \notin ToSet(l),
         NEW cap \in Nat, Len(l) < cap
  PROVE  /\ LruPut(l, k, cap) \in Seq(S)
         /\ ToSet(LruPut(l, k, cap)) = ToSet(l) \cup {k}
         /\ IsInjective(LruPut(l, k, cap))
         /\ Len(LruPut(l, k, cap)) = Len(l) + 1
<1>1. LruPop(l, k) = l
  BY DEF LruPop
<1>2. ~(Len(l) >= cap)
  OBVIOUS
<1>3. LruPut(l, k, cap) = Append(l, k)
  BY <1>1, <1>2 DEF LruPut
<1> QED
  BY <1>3, AppendKeys

(* put never exceeds the capacity, and brings in no key but its own. *)
LEMMA LruPutKeys ==
  ASSUME NEW S, NEW l \in Seq(S), IsInjective(l), NEW k \in S,
         NEW cap \in Nat \ {0}, Len(l) <= cap
  PROVE  /\ LruPut(l, k, cap) \in Seq(S)
         /\ ToSet(LruPut(l, k, cap)) \subseteq ToSet(l) \cup {k}
         /\ k \in ToSet(LruPut(l, k, cap))
         /\ IsInjective(LruPut(l, k, cap))
         /\ Len(LruPut(l, k, cap)) <= cap
<1> DEFINE r == LruPop(l, k)
           r2 == IF Len(r) >= cap THEN Tail(r) ELSE r
<1>1. /\ r \in Seq(S)
      /\ ToSet(r) = ToSet(l) \ {k}
      /\ IsInjective(r)
      /\ Len(r) <= cap
  BY LruPopKeys
<1>2. /\ r2 \in Seq(S)
      /\ ToSet(r2) \subseteq ToSet(r)
      /\ IsInjective(r2)
      /\ Len(r2) < cap
  <2>1. CASE Len(r) >= cap
    <3>1. r # << >>
      BY <1>1, <2>1
    <3> QED
      BY <1>1, <2>1, <3>1, TailKeys
  <2>2. CASE ~(Len(r) >= cap)
    BY <1>1, <2>2
  <2> QED
    BY <2>1, <2>2
<1>3. k \notin ToSet(r2)
  BY <1>1, <1>2
<1> HIDE DEF r, r2
<1>4. /\ Append(r2, k) \in Seq(S)
      /\ ToSet(Append(r2, k)) = ToSet(r2) \cup {k}
      /\ IsInjective(Append(r2, k))
      /\ Len(Append(r2, k)) = Len(r2) + 1
  BY <1>2, <1>3, AppendKeys
<1>5. LruPut(l, k, cap) = Append(r2, k)
  BY DEF LruPut, r, r2
<1>6. Len(r2) \in Nat /\ cap \in Nat
  BY <1>2
<1> QED
  BY <1>1, <1>2, <1>4, <1>5, <1>6

(* A list without duplicates has as many keys as it is long. *)
LEMMA LruCardinality ==
  ASSUME NEW S, NEW l \in Seq(S), IsInjective(l)
  PROVE  IsFiniteSet(ToSet(l)) /\ Cardinality(ToSet(l)) = Len(l)
<1>1. DOMAIN l = 1 .. Len(l) /\ Len(l) \in Nat
  OBVIOUS
<1>2. IsFiniteSet(1 .. Len(l)) /\ Cardinality(1 .. Len(l)) = Len(l)
  BY <1>1, FS_Interval
<1>3. l \in Bijection(1 .. Len(l), ToSet(l))
  <2>1. l \in [1 .. Len(l) -> ToSet(l)]
    BY <1>1 DEF ToSet
  <2>2. \A t \in ToSet(l) : \E s \in 1 .. Len(l) : l[s] = t
    BY <1>1 DEF ToSet
  <2> QED
    BY <2>1, <2>2 DEF Bijection, Injection, Surjection, IsInjective
<1>4. ExistsBijection(1 .. Len(l), ToSet(l))
  BY <1>3 DEF ExistsBijection
<1> QED
  BY <1>2, <1>4, FS_Bijection
=============================================================================
