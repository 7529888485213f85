----------------------- MODULE ParentalControlProofs -----------------------
(***************************************************************************)
(* Parental control, for any devices, categories, lists, grants, length of *)
(* the refresh interval and of the wait for a locked database.  The        *)
(* invariant says that the map is what the table said at some moment, and  *)
(* how far back that moment can be.                                        *)
(***************************************************************************)
EXTENDS ParentalControl, SequenceLemmas

\* The row r backs what a map read at moment t says of pair p.
Backs(r, p, expires, t) ==
  /\ r.pair = p /\ r.format # "bad" /\ r.expires = expires
  /\ r.revoked = NotRevoked \/ r.revoked >= t

\* Nothing is in map m but what rows had at moment t.
Sound(rows, m, t) ==
  \A p \in Pairs : m[p] # 0 => \E i \in DOMAIN rows : Backs(rows[i], p, m[p], t)

\* The row r is still good, and was there before moment t.
Standing(r, t, time) ==
  /\ r.revoked = NotRevoked /\ r.format # "bad"
  /\ r.granted < t /\ time < r.expires

\* All that was in the table before moment t is in map m.
Complete(rows, m, t, time) ==
  \A i \in DOMAIN rows : Standing(rows[i], t, time) => m[rows[i].pair] >= rows[i].expires

\* From moment t to the start of the refresh that may replace the map, and on.
Recent(t) ==
  /\ refresh = "idle" =>
       now <= t + Interval + failed * Longer /\ due <= t + Interval + failed * Longer
  /\ refresh # "idle" =>
       since <= t + Interval + failed * Longer /\ due <= t + 2 * Interval + failed * Longer

MapInv ==
  process = "up" =>
    \E t \in 1 .. now :
      /\ Sound(grants, active, t)
      /\ whole /\ refresh # "read" => Complete(grants, active, t, now)
      /\ Recent(t)

FreshInv ==
  refresh = "read" =>
    /\ Sound(grants, fresh, now)
    /\ whole => Complete(grants, fresh, now, now)

TaskInv ==
  /\ process # "up" => active = Closed /\ refresh = "idle"
  /\ refresh # "idle" => since <= now /\ now <= since + BusyTimeout /\ due <= since + Interval
  /\ failed <= faults

ConfigInv ==
  process # "down" /\ intact =>
    /\ known = Devices /\ lists = FullyLoaded
    /\ hard = [d \in Devices |-> {c \in Categories : modes[<<d, c>>] = "hard"}]
    /\ grantable = [d \in Devices |-> {c \in Categories : modes[<<d, c>>] = "grantable"}]

GrantInv == GrantTypeOK /\ TaskInv /\ FreshInv /\ MapInv
ParentalInv == TypeOK /\ GrantInv /\ ConfigInv

-----------------------------------------------------------------------------
(* Rows and maps.                                                          *)

LEMMA ConstantFacts ==
  /\ Interval \in Nat \ {0} /\ BusyTimeout \in Nat /\ MaxNow \in Nat \ {0}
  /\ MaxFaults \in Nat /\ MaxGrants \in Nat /\ DayLength \in Nat \ {0}
  /\ Longer \in Nat /\ Longer >= Interval /\ Longer >= BusyTimeout
  /\ Expiries \subseteq Nat \ {0}
  /\ \A p \in Pairs : Closed[p] = 0
  /\ Closed \in [Pairs -> Expiries \cup {0}]
BY GrantAssumption DEF Longer, Expiries, Closed

LEMMA RowFacts ==
  ASSUME NEW r \in Row
  PROVE  /\ r.pair \in Pairs /\ r.expires \in Expiries /\ r.expires \in Nat \ {0}
         /\ r.format \in Formats /\ r.granted \in Nat /\ r.revoked \in Nat
<1>1. /\ r.pair \in Pairs /\ r.expires \in Expiries /\ r.format \in Formats
      /\ r.granted \in 1 .. MaxNow /\ r.revoked \in 0 .. MaxNow
  BY DEF Row
<1>2. MaxNow \in Nat /\ Expiries \subseteq Nat \ {0}
  BY ConstantFacts
<1>3. r.granted \in Nat /\ r.revoked \in Nat
  BY <1>1, <1>2
<1> QED
  BY <1>1, <1>2, <1>3

LEMMA RevokedRow ==
  ASSUME NEW r \in Row, NEW time \in 1 .. MaxNow
  PROVE  LET s == [r EXCEPT !.revoked = time]
         IN  /\ s \in Row /\ s.revoked = time /\ time # NotRevoked
             /\ s.pair = r.pair /\ s.format = r.format
             /\ s.expires = r.expires /\ s.granted = r.granted
<1>1. time \in 0 .. MaxNow /\ time # NotRevoked
  BY ConstantFacts DEF NotRevoked
<1> QED
  BY <1>1 DEF Row

LEMMA InsertKeeps ==
  ASSUME NEW rows \in Seq(Row), NEW r \in Row, NEW m, NEW t \in Nat, NEW time \in Nat, r.granted >= t
  PROVE  /\ Sound(rows, m, t) => Sound(Append(rows, r), m, t)
         /\ Complete(rows, m, t, time) => Complete(Append(rows, r), m, t, time)
<1>1. /\ DOMAIN Append(rows, r) = 1 .. Len(rows) + 1 /\ DOMAIN rows = 1 .. Len(rows)
      /\ Len(rows) \in Nat
      /\ \A i \in DOMAIN rows : i \in DOMAIN Append(rows, r) /\ Append(rows, r)[i] = rows[i]
      /\ Append(rows, r)[Len(rows) + 1] = r
  OBVIOUS
<1>2. ASSUME Sound(rows, m, t) PROVE Sound(Append(rows, r), m, t)
  <2> SUFFICES ASSUME NEW p \in Pairs, m[p] # 0
               PROVE  \E i \in DOMAIN Append(rows, r) : Backs(Append(rows, r)[i], p, m[p], t)
    BY DEF Sound
  <2>1. PICK i \in DOMAIN rows : Backs(rows[i], p, m[p], t)
    BY <1>2 DEF Sound
  <2> QED
    BY <1>1, <2>1, Zenon
<1>3. ASSUME Complete(rows, m, t, time) PROVE Complete(Append(rows, r), m, t, time)
  <2> SUFFICES ASSUME NEW i \in DOMAIN Append(rows, r), Standing(Append(rows, r)[i], t, time)
               PROVE  m[Append(rows, r)[i].pair] >= Append(rows, r)[i].expires
    BY DEF Complete
  <2>1. ~Standing(r, t, time)
    BY RowFacts DEF Standing
  <2>2. i \in DOMAIN rows
    BY <1>1, <2>1
  <2> QED
    BY <1>1, <1>3, <2>2 DEF Complete
<1> QED
  BY <1>2, <1>3

LEMMA RevokeKeeps ==
  ASSUME NEW rows \in Seq(Row), NEW i \in DOMAIN rows, NEW m, NEW time \in 1 .. MaxNow,
         NEW t \in Nat, t <= time
  PROVE  LET after == [rows EXCEPT ![i].revoked = time]
         IN  /\ after \in Seq(Row) /\ Len(after) = Len(rows)
             /\ Sound(rows, m, t) => Sound(after, m, t)
             /\ Complete(rows, m, t, time) => Complete(after, m, t, time)
<1> DEFINE after == [rows EXCEPT ![i].revoked = time]
<1>1. /\ DOMAIN after = DOMAIN rows /\ DOMAIN rows = 1 .. Len(rows)
      /\ \A j \in DOMAIN rows : j # i => after[j] = rows[j]
      /\ after[i] = [rows[i] EXCEPT !.revoked = time]
  OBVIOUS
<1>2. rows[i] \in Row
  OBVIOUS
<1>3. /\ after[i] \in Row /\ after[i].revoked = time /\ time # NotRevoked
      /\ after[i].pair = rows[i].pair /\ after[i].format = rows[i].format
      /\ after[i].expires = rows[i].expires /\ after[i].granted = rows[i].granted
  BY <1>1, <1>2, RevokedRow, Zenon
<1>4. after \in Seq(Row) /\ Len(after) = Len(rows)
  <2>1. \A j \in DOMAIN rows : after[j] \in Row
    BY <1>1, <1>3
  <2> QED
    BY <1>1, <2>1
<1> HIDE DEF after
<1>5. ASSUME Sound(rows, m, t) PROVE Sound(after, m, t)
  <2> SUFFICES ASSUME NEW p \in Pairs, m[p] # 0
               PROVE  \E j \in DOMAIN after : Backs(after[j], p, m[p], t)
    BY DEF Sound
  <2>1. PICK j \in DOMAIN rows : Backs(rows[j], p, m[p], t)
    BY <1>5 DEF Sound
  <2>2. Backs(after[j], p, m[p], t)
    <3>1. CASE j = i
      BY <1>3, <2>1, <3>1 DEF Backs
    <3>2. CASE j # i
      BY <1>1, <2>1, <3>2
    <3> QED
      BY <3>1, <3>2
  <2> QED
    BY <1>1, <2>2
<1>6. ASSUME Complete(rows, m, t, time) PROVE Complete(after, m, t, time)
  <2> SUFFICES ASSUME NEW j \in DOMAIN after, Standing(after[j], t, time)
               PROVE  m[after[j].pair] >= after[j].expires
    BY DEF Complete
  <2>1. j # i
    BY <1>3 DEF Standing
  <2> QED
    BY <1>1, <1>6, <2>1 DEF Complete
<1> QED
  BY <1>4, <1>5, <1>6 DEF after

LEMMA TickKeeps ==
  ASSUME NEW rows \in Seq(Row), NEW m, NEW t, NEW time \in Nat, Complete(rows, m, t, time)
  PROVE  Complete(rows, m, t, time + 1)
<1>1. \A i \in DOMAIN rows : Standing(rows[i], t, time + 1) => Standing(rows[i], t, time)
  <2> TAKE i \in DOMAIN rows
  <2>1. rows[i] \in Row
    OBVIOUS
  <2> QED
    BY <2>1, RowFacts DEF Standing
<1> QED
  BY <1>1 DEF Complete

(* The map of some rows: for each pair the latest expiry among them.       *)
LEMMA NewMapFacts ==
  ASSUME grants \in Seq(Row), NEW rows \in SUBSET DOMAIN grants, NEW p \in Pairs
  PROVE  LET good == {i \in rows : grants[i].pair = p /\ grants[i].format # "bad"}
         IN  /\ NewMap(rows)[p] \in Expiries \cup {0}
             /\ NewMap(rows)[p] # 0 => \E i \in good : grants[i].expires = NewMap(rows)[p]
             /\ \A i \in good : NewMap(rows)[p] >= grants[i].expires
<1> DEFINE good == {i \in rows : grants[i].pair = p /\ grants[i].format # "bad"}
           times == {0} \cup {grants[i].expires : i \in good}
           f == [i \in good |-> grants[i].expires]
<1>1. NewMap(rows)[p] = Max(times)
  BY DEF NewMap
<1>2. \A i \in good : grants[i].expires \in Expiries /\ grants[i].expires \in Nat
  <2> TAKE i \in good
  <2>1. grants[i] \in Row
    OBVIOUS
  <2> QED
    BY <2>1, RowFacts
<1>3. \E x \in times : \A y \in times : x >= y
  <2>1. CASE good = {}
    BY <2>1
  <2>2. CASE good # {}
    <3>1. good \in SUBSET Nat /\ f \in [good -> Nat]
      BY <1>2
    <3>2. IsFiniteSet(good)
      <4>1. IsFiniteSet(1 .. Len(grants)) /\ good \subseteq 1 .. Len(grants)
        BY FS_Interval
      <4> HIDE DEF good
      <4> QED
        BY <4>1, FS_Subset
    <3>3. \E i \in good : \A j \in good : f[j] <= f[i]
      <4> HIDE DEF good, f
      <4> QED
        BY <2>2, <3>1, <3>2, GreatestExists
    <3>4. PICK i \in good : \A j \in good : grants[j].expires <= grants[i].expires
      BY <3>3
    <3>5. \A y \in times : grants[i].expires >= y
      BY <1>2, <3>4
    <3> QED
      BY <3>5
  <2> QED
    BY <2>1, <2>2
<1>4. Max(times) \in times /\ \A y \in times : Max(times) >= y
  BY <1>3, Zenon DEF Max
<1>5. \A i \in good : grants[i].expires \in times
  OBVIOUS
<1> QED
  BY <1>1, <1>2, <1>4, <1>5

-----------------------------------------------------------------------------
(* One lemma per action of the grants.                                     *)

LEMMA GrantInitInv == GrantInit => GrantInv
<1> SUFFICES ASSUME GrantInit PROVE GrantInv
  OBVIOUS
<1>1. GrantTypeOK
  <2>1. << >> \in Seq(Row) /\ Len(<< >>) = 0
    OBVIOUS
  <2> QED
    BY <2>1, ConstantFacts DEF GrantInit, GrantTypeOK
<1>2. TaskInv /\ FreshInv /\ MapInv
  BY DEF GrantInit, TaskInv, FreshInv, MapInv
<1> QED
  BY <1>1, <1>2 DEF GrantInv

\* A change of the table that leaves every map as good as it was.
LEMMA TableKeeps ==
  ASSUME GrantInv, UNCHANGED <<now, process, active, task, faults>>,
         grants' \in Seq(Row), Len(grants') <= MaxGrants,
         \A m, t : t \in 1 .. now =>
           /\ Sound(grants, m, t) => Sound(grants', m, t)
           /\ Complete(grants, m, t, now) => Complete(grants', m, t, now)
  PROVE  GrantInv'
<1>1. GrantTypeOK'
  BY DEF GrantInv, GrantTypeOK, task
<1>2. TaskInv'
  BY DEF GrantInv, TaskInv, task
<1>3. now \in 1 .. now
  BY ConstantFacts DEF GrantInv, GrantTypeOK
<1>4. FreshInv'
  BY <1>3 DEF GrantInv, FreshInv, task
<1>5. MapInv'
  <2> SUFFICES ASSUME process = "up" PROVE MapInv'
    BY DEF MapInv
  <2>1. PICK t \in 1 .. now :
          /\ Sound(grants, active, t)
          /\ whole /\ refresh # "read" => Complete(grants, active, t, now)
          /\ Recent(t)
    BY DEF GrantInv, MapInv
  <2>2. Recent(t)'
    BY <2>1 DEF Recent, task
  <2>3. Sound(grants', active', t) /\ (whole' /\ refresh' # "read" => Complete(grants', active', t, now'))
    BY <2>1 DEF task
  <2> QED
    BY <2>2, <2>3 DEF MapInv
<1> QED
  BY <1>1, <1>2, <1>4, <1>5 DEF GrantInv

LEMMA InsertGrantKeeps ==
  ASSUME GrantInv, NEW g \in NewGrants, InsertGrant(g)
  PROVE  GrantInv'
<1> DEFINE r == [pair |-> g.pair, expires |-> g.expires, format |-> g.format,
                 granted |-> now, revoked |-> NotRevoked]
<1>1. grants \in Seq(Row) /\ now \in 1 .. MaxNow /\ now \in Nat
  BY ConstantFacts DEF GrantInv, GrantTypeOK
<1>2. r \in Row /\ r.granted = now
  <2>1. g.pair \in Pairs /\ g.expires \in Expiries /\ g.format \in Formats
    BY GrantAssumption DEF Expiries
  <2>2. NotRevoked \in 0 .. MaxNow
    BY ConstantFacts DEF NotRevoked
  <2> QED
    BY <1>1, <2>1, <2>2 DEF Row
<1>3. grants' = Append(grants, r) /\ Len(grants) < MaxGrants
  BY DEF InsertGrant
<1> HIDE DEF r
<1>4. grants' \in Seq(Row) /\ Len(grants') <= MaxGrants
  <2>1. Append(grants, r) \in Seq(Row) /\ Len(Append(grants, r)) = Len(grants) + 1 /\ Len(grants) \in Nat
    BY <1>1, <1>2
  <2> QED
    BY <1>3, <2>1, ConstantFacts
<1>5. ASSUME NEW m, NEW t \in 1 .. now
      PROVE  /\ Sound(grants, m, t) => Sound(grants', m, t)
             /\ Complete(grants, m, t, now) => Complete(grants', m, t, now)
  <2>1. t \in Nat /\ r.granted >= t
    BY <1>1, <1>2
  <2> QED
    BY <1>1, <1>2, <1>3, <2>1, InsertKeeps
<1>6. UNCHANGED <<now, process, active, task, faults>>
  BY DEF InsertGrant
<1> QED
  BY <1>4, <1>5, <1>6, TableKeeps

LEMMA RevokeGrantKeeps ==
  ASSUME GrantInv, NEW i \in DOMAIN grants, RevokeGrant(i)
  PROVE  GrantInv'
<1>1. grants \in Seq(Row) /\ now \in 1 .. MaxNow /\ now \in Nat /\ Len(grants) <= MaxGrants
  BY ConstantFacts DEF GrantInv, GrantTypeOK
<1>2. grants' = [grants EXCEPT ![i].revoked = now]
  BY DEF RevokeGrant
<1>3. ASSUME NEW m, NEW t \in 1 .. now
      PROVE  /\ grants' \in Seq(Row) /\ Len(grants') = Len(grants)
             /\ Sound(grants, m, t) => Sound(grants', m, t)
             /\ Complete(grants, m, t, now) => Complete(grants', m, t, now)
  <2>1. t \in Nat /\ t <= now
    BY <1>1
  <2> QED
    BY <1>1, <1>2, <2>1, RevokeKeeps
<1>4. now \in 1 .. now
  BY <1>1
<1>5. grants' \in Seq(Row) /\ Len(grants') <= MaxGrants
  BY <1>1, <1>3, <1>4
<1>6. UNCHANGED <<now, process, active, task, faults>>
  BY DEF RevokeGrant
<1> QED
  BY <1>3, <1>5, <1>6, TableKeeps

\* What a listing of some rows that are in force gives: a map that is sound,
\* and complete if the listing was.
LEMMA ListingFacts ==
  ASSUME GrantInv, NEW rows \in SUBSET Listed
  PROVE  /\ NewMap(rows) \in [Pairs -> Expiries \cup {0}]
         /\ Sound(grants, NewMap(rows), now)
         /\ rows = Listed => Complete(grants, NewMap(rows), now, now)
<1>1. grants \in Seq(Row) /\ now \in Nat /\ now >= 1
  BY ConstantFacts DEF GrantInv, GrantTypeOK
<1>2. rows \in SUBSET DOMAIN grants
  BY DEF Listed
<1>3. NewMap(rows) \in [Pairs -> Expiries \cup {0}]
  <2>1. \A p \in Pairs : NewMap(rows)[p] \in Expiries \cup {0}
    BY <1>1, <1>2, NewMapFacts
  <2>2. NewMap(rows) = [p \in Pairs |-> NewMap(rows)[p]]
    BY DEF NewMap
  <2> QED
    BY <2>1, <2>2
<1>4. Sound(grants, NewMap(rows), now)
  <2> SUFFICES ASSUME NEW p \in Pairs, NewMap(rows)[p] # 0
               PROVE  \E i \in DOMAIN grants : Backs(grants[i], p, NewMap(rows)[p], now)
    BY DEF Sound
  <2>1. PICK i \in {i \in rows : grants[i].pair = p /\ grants[i].format # "bad"} :
          grants[i].expires = NewMap(rows)[p]
    BY <1>1, <1>2, NewMapFacts
  <2>2. i \in DOMAIN grants /\ grants[i].revoked = NotRevoked
    BY <2>1 DEF Listed
  <2> QED
    BY <2>1, <2>2 DEF Backs
<1>5. ASSUME rows = Listed PROVE Complete(grants, NewMap(rows), now, now)
  <2> SUFFICES ASSUME NEW i \in DOMAIN grants, Standing(grants[i], now, now)
               PROVE  NewMap(rows)[grants[i].pair] >= grants[i].expires
    BY DEF Complete
  <2>1. grants[i] \in Row
    BY <1>1
  <2>2. grants[i].expires \in Nat /\ grants[i].expires > now /\ grants[i].pair \in Pairs
    BY <1>1, <2>1, RowFacts DEF Standing
  <2>3. Day(grants[i].expires) >= Day(now)
    BY <1>1, <2>2, ConstantFacts DEF Day
  <2>4. i \in Listed
    BY <2>2, <2>3 DEF Listed, Standing
  <2>5. i \in {j \in rows : grants[j].pair = grants[i].pair /\ grants[j].format # "bad"}
    BY <1>5, <2>4 DEF Standing
  <2> QED
    BY <1>1, <1>2, <2>2, <2>5, NewMapFacts
<1> QED
  BY <1>3, <1>4, <1>5

LEMMA GrantTypes ==
  ASSUME GrantInv
  PROVE  /\ now \in Nat /\ now >= 1 /\ since \in Nat /\ due \in Nat
         /\ failed \in Nat /\ faults \in Nat /\ failed <= faults /\ faults <= MaxFaults
         /\ failed * Longer \in Nat /\ (failed + 1) * Longer = failed * Longer + Longer
         /\ grants \in Seq(Row)
<1>1. now \in 1 .. MaxNow /\ since \in 0 .. MaxNow /\ due \in Nat /\ failed <= faults
      /\ failed \in 0 .. MaxFaults /\ faults \in 0 .. MaxFaults /\ grants \in Seq(Row)
  BY DEF GrantInv, GrantTypeOK, TaskInv
<1>2. failed \in Nat /\ Longer \in Nat
  BY <1>1, ConstantFacts
<1>3. failed * Longer \in Nat /\ (failed + 1) * Longer = failed * Longer + Longer
  BY <1>2
<1> QED
  BY <1>1, <1>3, ConstantFacts

LEMMA OpenKeeps ==
  ASSUME GrantInv, NEW rows \in SUBSET Listed, Open(rows),
         faults' \in 0 .. MaxFaults, faults' >= faults
  PROVE  GrantInv'
<1>1. GrantTypeOK'
  BY ListingFacts, GrantTypes, ConstantFacts DEF Open, GrantInv, GrantTypeOK, table
<1>2. TaskInv'
  BY GrantTypes, ConstantFacts DEF Open, TaskInv, table
<1>3. FreshInv'
  BY DEF Open, FreshInv
<1>4. MapInv'
  <2>1. now' \in 1 .. now' /\ now' = now /\ grants' = grants /\ active' = NewMap(rows)
    BY GrantTypes DEF Open, table
  <2>2. Sound(grants', active', now') /\ (whole' => Complete(grants', active', now', now'))
    BY <2>1, ListingFacts DEF Open
  <2>3. Recent(now)'
    <3>1. 0 * Longer = 0
      BY ConstantFacts
    <3> QED
      BY <2>1, <3>1, GrantTypes, ConstantFacts DEF Open, Recent
  <2> QED
    BY <2>1, <2>2, <2>3 DEF MapInv
<1> QED
  BY <1>1, <1>2, <1>3, <1>4 DEF GrantInv

LEMMA StartRefreshKeeps ==
  ASSUME GrantInv, StartRefresh
  PROVE  GrantInv'
<1>1. GrantTypeOK'
  BY GrantTypes, ConstantFacts DEF StartRefresh, GrantInv, GrantTypeOK, table
<1>2. TaskInv'
  BY GrantTypes, ConstantFacts DEF StartRefresh, GrantInv, TaskInv, table
<1>3. FreshInv'
  BY DEF StartRefresh, FreshInv
<1>4. MapInv'
  <2>1. PICK t \in 1 .. now :
          /\ Sound(grants, active, t)
          /\ whole /\ refresh # "read" => Complete(grants, active, t, now)
          /\ Recent(t)
    BY DEF StartRefresh, GrantInv, MapInv
  <2>2. Recent(t)'
    BY <2>1, GrantTypes, ConstantFacts DEF StartRefresh, Recent, table
  <2>3. Sound(grants, active, t)' /\ (whole' /\ refresh' # "read" => Complete(grants, active, t, now)')
    BY <2>1 DEF StartRefresh, table
  <2>4. t \in 1 .. now'
    BY <2>1 DEF StartRefresh, table
  <2> QED
    BY <2>2, <2>3, <2>4 DEF MapInv
<1> QED
  BY <1>1, <1>2, <1>3, <1>4 DEF GrantInv

LEMMA FailRefreshKeeps ==
  ASSUME GrantInv, FailRefresh
  PROVE  GrantInv'
<1>1. GrantTypeOK'
  BY GrantTypes, ConstantFacts DEF FailRefresh, GrantInv, GrantTypeOK, table
<1>2. TaskInv'
  BY GrantTypes, ConstantFacts DEF FailRefresh, GrantInv, TaskInv, table
<1>3. FreshInv'
  BY DEF FailRefresh, FreshInv
<1>4. MapInv'
  <2>1. SUFFICES ASSUME process = "up" PROVE MapInv'
    BY DEF FailRefresh, MapInv
  <2>2. PICK t \in 1 .. now :
          /\ Sound(grants, active, t)
          /\ whole /\ refresh # "read" => Complete(grants, active, t, now)
          /\ Recent(t)
    BY <2>1 DEF GrantInv, MapInv
  <2>3. Recent(t)'
    <3>1. since <= t + Interval + failed * Longer /\ due <= t + 2 * Interval + failed * Longer
      BY <2>2 DEF FailRefresh, Recent
    <3>2. now <= since + BusyTimeout
      BY DEF FailRefresh, GrantInv, TaskInv
    <3>3. failed' * Longer = failed * Longer + Longer /\ now' = now /\ due' = due /\ refresh' = "idle"
      BY GrantTypes DEF FailRefresh, table
    <3>4. /\ now <= t + Interval + (failed * Longer + Longer)
          /\ due <= t + Interval + (failed * Longer + Longer)
      <4> DEFINE lost == failed * Longer
      <4>1. lost \in Nat /\ since <= t + Interval + lost /\ due <= t + 2 * Interval + lost
        BY <3>1, GrantTypes
      <4> HIDE DEF lost
      <4>2. now <= t + Interval + (lost + Longer) /\ due <= t + Interval + (lost + Longer)
        BY <3>2, <4>1, GrantTypes, ConstantFacts
      <4> QED
        BY <4>2 DEF lost
    <3> QED
      BY <3>3, <3>4 DEF Recent
  <2>4. Sound(grants, active, t)' /\ (whole' /\ refresh' # "read" => Complete(grants, active, t, now)')
    BY <2>2 DEF FailRefresh, table
  <2>5. t \in 1 .. now'
    BY <2>2 DEF FailRefresh, table
  <2> QED
    BY <2>3, <2>4, <2>5 DEF MapInv
<1> QED
  BY <1>1, <1>2, <1>3, <1>4 DEF GrantInv

LEMMA ReadRowsKeeps ==
  ASSUME GrantInv, NEW rows \in SUBSET Listed, ReadRows(rows),
         faults' \in 0 .. MaxFaults, faults' >= faults
  PROVE  GrantInv'
<1>1. GrantTypeOK'
  BY ListingFacts, GrantTypes, ConstantFacts DEF ReadRows, GrantInv, GrantTypeOK, table
<1>2. TaskInv'
  BY GrantTypes, ConstantFacts DEF ReadRows, GrantInv, TaskInv, table
<1>3. FreshInv'
  <2>1. now' = now /\ grants' = grants /\ fresh' = NewMap(rows) /\ whole' = (rows = Listed)
    BY DEF ReadRows, table
  <2> QED
    BY <2>1, ListingFacts DEF FreshInv
<1>4. MapInv'
  <2>1. SUFFICES ASSUME process = "up" PROVE MapInv'
    BY DEF ReadRows, MapInv
  <2>2. PICK t \in 1 .. now : Sound(grants, active, t) /\ Recent(t)
    BY <2>1 DEF GrantInv, MapInv
  <2>3. Recent(t)'
    BY <2>2 DEF ReadRows, Recent, table
  <2>4. Sound(grants, active, t)' /\ refresh' = "read"
    BY <2>2 DEF ReadRows, table
  <2>5. t \in 1 .. now'
    BY <2>2 DEF ReadRows, table
  <2> QED
    BY <2>3, <2>4, <2>5 DEF MapInv
<1> QED
  BY <1>1, <1>2, <1>3, <1>4 DEF GrantInv

LEMMA PublishKeeps ==
  ASSUME GrantInv, Publish
  PROVE  GrantInv'
<1>1. GrantTypeOK'
  BY GrantTypes, ConstantFacts DEF Publish, GrantInv, GrantTypeOK, table
<1>2. TaskInv'
  BY GrantTypes, ConstantFacts DEF Publish, GrantInv, TaskInv, table
<1>3. FreshInv'
  BY DEF Publish, FreshInv
<1>4. MapInv'
  <2>1. now' \in 1 .. now' /\ now' = now /\ grants' = grants /\ active' = fresh
    BY GrantTypes DEF Publish, table
  <2>2. Sound(grants', active', now') /\ (whole' => Complete(grants', active', now', now'))
    BY <2>1 DEF Publish, GrantInv, FreshInv
  <2>3. Recent(now)'
    <3>1. 0 * Longer = 0
      BY ConstantFacts
    <3>2. due <= since + Interval /\ since <= now
      BY DEF Publish, GrantInv, TaskInv
    <3> QED
      BY <2>1, <3>1, <3>2, GrantTypes, ConstantFacts DEF Publish, Recent
  <2> QED
    BY <2>1, <2>2, <2>3 DEF MapInv
<1> QED
  BY <1>1, <1>2, <1>3, <1>4 DEF GrantInv

LEMMA TickKeepsGrants ==
  ASSUME GrantInv, Tick
  PROVE  GrantInv'
<1>1. GrantTypeOK'
  BY GrantTypes, ConstantFacts DEF Tick, GrantInv, GrantTypeOK, task
<1>2. TaskInv'
  <2>1. refresh \in {"idle", "reading", "read"}
    BY DEF GrantInv, GrantTypeOK
  <2>2. refresh # "idle" => now < since + BusyTimeout
    BY <2>1 DEF Tick, GrantInv, TaskInv
  <2> QED
    BY <2>2, GrantTypes, ConstantFacts DEF Tick, GrantInv, TaskInv, task
<1>3. FreshInv'
  BY DEF Tick, GrantInv, TaskInv, FreshInv, task
<1>4. MapInv'
  <2>1. SUFFICES ASSUME process = "up" PROVE MapInv'
    BY DEF Tick, MapInv
  <2>2. PICK t \in 1 .. now :
          /\ Sound(grants, active, t)
          /\ whole /\ refresh # "read" => Complete(grants, active, t, now)
          /\ Recent(t)
    BY <2>1 DEF GrantInv, MapInv
  <2>3. Recent(t)'
    <3>1. refresh = "idle" => now + 1 <= due
      BY <2>1, GrantTypes DEF Tick
    <3>2. now' = now + 1 /\ UNCHANGED <<due, refresh, since, failed>>
      BY DEF Tick, task
    <3> QED
      BY <2>2, <3>1, <3>2, GrantTypes, ConstantFacts DEF Recent
  <2>4. Sound(grants, active, t)' /\ (whole' /\ refresh' # "read" => Complete(grants, active, t, now)')
    BY <2>2, TickKeeps, GrantTypes DEF Tick, task
  <2>5. t \in 1 .. now'
    BY <2>2, GrantTypes DEF Tick
  <2> QED
    BY <2>3, <2>4, <2>5 DEF MapInv
<1> QED
  BY <1>1, <1>2, <1>3, <1>4 DEF GrantInv

LEMMA CrashKeeps ==
  ASSUME GrantInv, Crash
  PROVE  GrantInv'
<1>1. GrantTypeOK'
  BY GrantTypes, ConstantFacts DEF Crash, GrantInv, GrantTypeOK, table
<1>2. TaskInv'
  BY GrantTypes DEF Crash, TaskInv, table
<1>3. FreshInv' /\ MapInv'
  BY DEF Crash, FreshInv, MapInv
<1> QED
  BY <1>1, <1>2, <1>3 DEF GrantInv

LEMMA GrantStepKeeps ==
  ASSUME GrantInv, GrantStep
  PROVE  GrantInv'
<1>1. Listed \in SUBSET Listed /\ \A rows \in CutShort(Listed) : rows \in SUBSET Listed
  BY DEF CutShort
<1>2. /\ UNCHANGED faults => faults' \in 0 .. MaxFaults /\ faults' >= faults
      /\ faults < MaxFaults /\ faults' = faults + 1 => faults' \in 0 .. MaxFaults /\ faults' >= faults
  BY GrantTypes, ConstantFacts
<1>3. CASE \E g \in NewGrants : InsertGrant(g)
  BY <1>3, InsertGrantKeeps
<1>4. CASE \E i \in DOMAIN grants : RevokeGrant(i)
  BY <1>4, RevokeGrantKeeps
<1>5. CASE OpenWhole
  BY <1>1, <1>2, <1>5, OpenKeeps DEF OpenWhole
<1>6. CASE OpenCutShort
  <2>1. PICK rows \in CutShort(Listed) : Open(rows)
    BY <1>6 DEF OpenCutShort
  <2> QED
    BY <1>1, <1>2, <1>6, <2>1, OpenKeeps DEF OpenCutShort
<1>7. CASE RefreshTask
  <2>1. CASE StartRefresh
    BY <2>1, StartRefreshKeeps
  <2>2. CASE FailRefresh
    BY <2>2, FailRefreshKeeps
  <2>3. CASE ReadWhole
    BY <1>1, <1>2, <2>3, ReadRowsKeeps DEF ReadWhole
  <2>4. CASE ReadCutShort
    <3>1. PICK rows \in CutShort(Listed) : ReadRows(rows)
      BY <2>4 DEF ReadCutShort
    <3> QED
      BY <1>1, <1>2, <2>4, <3>1, ReadRowsKeeps DEF ReadCutShort
  <2>5. CASE Publish
    BY <2>5, PublishKeeps
  <2> QED
    BY <1>7, <2>1, <2>2, <2>3, <2>4, <2>5 DEF RefreshTask
<1>8. CASE Tick
  BY <1>8, TickKeepsGrants
<1> QED
  BY <1>3, <1>4, <1>5, <1>6, <1>7, <1>8 DEF GrantStep

-----------------------------------------------------------------------------
(* The process as a whole.                                                 *)

\* The load at startup leaves the grants alone.
LEMMA LoadKeeps ==
  ASSUME GrantInv, process = "down", process' = "loaded",
         UNCHANGED <<table, active, task>>,
         faults' \in 0 .. MaxFaults, faults' >= faults
  PROVE  GrantInv'
<1>1. GrantTypeOK'
  BY GrantTypes DEF GrantInv, GrantTypeOK, table, task
<1>2. TaskInv'
  BY GrantTypes DEF GrantInv, TaskInv, table, task
<1>3. FreshInv' /\ MapInv'
  BY DEF GrantInv, TaskInv, FreshInv, MapInv, task
<1> QED
  BY <1>1, <1>2, <1>3 DEF GrantInv

LEMMA ListFacts ==
  /\ DOMAIN FullyLoaded = Lists
  /\ \A entries \in PartlyLoaded : DOMAIN entries = Lists
BY DEF FullyLoaded, PartlyLoaded

LEMMA InitParentalInv == ParentalInit => ParentalInv
<1> SUFFICES ASSUME ParentalInit PROVE ParentalInv
  OBVIOUS
<1>1. GrantInv
  BY GrantInitInv DEF ParentalInit
<1>2. TypeOK
  BY <1>1, ParentalAssumption DEF ParentalInit, TypeOK, GrantInv
<1>3. ConfigInv
  BY DEF ParentalInit, GrantInit, ConfigInv
<1> QED
  BY <1>1, <1>2, <1>3 DEF ParentalInv

LEMMA LoadConfigTypes ==
  ASSUME TypeOK, GrantTypeOK', NEW devices \in SUBSET Devices, NEW bindings, NEW entries,
         DOMAIN entries = Lists, LoadConfig(devices, bindings, entries), intact' \in BOOLEAN
  PROVE  TypeOK'
<1>1. \A mode : [d \in Devices |-> {c \in Categories : <<d, c>> \in bindings /\ modes[<<d, c>>] = mode}]
                  \in [Devices -> SUBSET Categories]
  OBVIOUS
<1> QED
  BY <1>1 DEF LoadConfig, TypeOK

LEMMA NextParentalInv == ParentalInv /\ [ParentalNext]_pvars => ParentalInv'
<1> SUFFICES ASSUME ParentalInv, [ParentalNext]_pvars PROVE ParentalInv'
  OBVIOUS
<1>1. CASE GrantStep /\ UNCHANGED <<modes, edits, config, intact>>
  <2>1. GrantInv'
    BY <1>1, GrantStepKeeps DEF ParentalInv
  <2>2. TypeOK'
    BY <1>1, <2>1 DEF ParentalInv, GrantInv, TypeOK, config
  <2>3. process' # "down" => process # "down"
    BY <1>1 DEF GrantStep, InsertGrant, RevokeGrant, OpenWhole, OpenCutShort, Open, RefreshTask,
                StartRefresh, FailRefresh, ReadWhole, ReadCutShort, ReadRows, Publish, Tick
  <2>4. ConfigInv'
    BY <1>1, <2>3 DEF ParentalInv, ConfigInv, config
  <2> QED
    BY <2>1, <2>2, <2>4 DEF ParentalInv
<1>2. CASE \E m \in NewModes : AddDeviceBlocklist(m[1], m[2])
  <2>1. PICK m \in NewModes : AddDeviceBlocklist(m[1], m[2])
    BY <1>2
  <2>2. m[1] \in Pairs /\ m[2] \in {"hard", "grantable"}
    BY ParentalAssumption
  <2>3. GrantInv'
    <3>1. UNCHANGED gvars
      BY <2>1 DEF AddDeviceBlocklist
    <3> QED
      BY <3>1 DEF ParentalInv, GrantInv, GrantTypeOK, TaskInv, FreshInv, MapInv, Recent, gvars, table, task
  <2>4. TypeOK'
    <3>1. edits' \in 0 .. MaxEdits
      BY <2>1, ParentalAssumption DEF AddDeviceBlocklist, ParentalInv, TypeOK
    <3>2. modes' \in [Pairs -> {"hard", "grantable", "none"}]
      BY <2>1, <2>2 DEF AddDeviceBlocklist, ParentalInv, TypeOK
    <3> QED
      BY <2>1, <2>3, <3>1, <3>2 DEF AddDeviceBlocklist, ParentalInv, GrantInv, TypeOK, config
  <2>5. ConfigInv'
    BY <2>1 DEF AddDeviceBlocklist, ConfigInv
  <2> QED
    BY <2>3, <2>4, <2>5 DEF ParentalInv
<1>3. CASE LoadWhole
  <2>1. LoadConfig(Devices, Bindings, FullyLoaded) /\ UNCHANGED faults /\ intact' = TRUE
    BY <1>3 DEF LoadWhole
  <2>2. GrantInv'
    BY <2>1, LoadKeeps, GrantTypes DEF LoadConfig, ParentalInv, GrantInv, GrantTypeOK
  <2>3. TypeOK'
    BY <2>1, <2>2, ListFacts, LoadConfigTypes DEF ParentalInv, GrantInv
  <2>4. ConfigInv'
    <3>1. \A mode \in {"hard", "grantable"}, d \in Devices, c \in Categories :
            (<<d, c>> \in Bindings /\ modes[<<d, c>>] = mode) <=> modes[<<d, c>>] = mode
      BY DEF Bindings, Pairs
    <3>2. modes' = modes
      BY <2>1 DEF LoadConfig
    <3>3. known' = Devices /\ lists' = FullyLoaded
      BY <2>1 DEF LoadConfig
    <3>4. hard' = [d \in Devices |-> {c \in Categories : modes[<<d, c>>] = "hard"}]
      BY <2>1, <3>1 DEF LoadConfig
    <3>5. grantable' = [d \in Devices |-> {c \in Categories : modes[<<d, c>>] = "grantable"}]
      BY <2>1, <3>1 DEF LoadConfig
    <3> QED
      BY <3>2, <3>3, <3>4, <3>5 DEF ConfigInv
  <2> QED
    BY <2>2, <2>3, <2>4 DEF ParentalInv
<1>4. CASE LoadCutShort
  <2>1. \E devices, bindings, entries :
          devices \in SUBSET Devices /\ LoadConfig(devices, bindings, entries)
            /\ DOMAIN entries = Lists
    BY <1>4, ListFacts DEF LoadCutShort, FirstDevices
  <2>2. PICK devices, bindings, entries :
          devices \in SUBSET Devices /\ LoadConfig(devices, bindings, entries)
            /\ DOMAIN entries = Lists
    BY <2>1
  <2>3. faults < MaxFaults /\ faults' = faults + 1 /\ intact' = FALSE
    BY <1>4 DEF LoadCutShort
  <2>4. GrantInv'
    <3>1. faults' \in 0 .. MaxFaults /\ faults' >= faults
      BY <2>3, GrantTypes, ConstantFacts DEF ParentalInv
    <3> QED
      BY <2>2, <3>1, LoadKeeps DEF LoadConfig, ParentalInv
  <2>5. TypeOK'
    BY <2>2, <2>3, <2>4, LoadConfigTypes DEF ParentalInv, GrantInv
  <2>6. ConfigInv'
    BY <2>3 DEF ConfigInv
  <2> QED
    BY <2>4, <2>5, <2>6 DEF ParentalInv
<1>5. CASE /\ Crash
           /\ known' = {}
           /\ hard' = [d \in Devices |-> {}]
           /\ grantable' = [d \in Devices |-> {}]
           /\ lists' = [l \in Lists |-> {}]
           /\ intact' = TRUE
           /\ UNCHANGED <<modes, edits>>
  <2>1. GrantInv'
    BY <1>5, CrashKeeps DEF ParentalInv
  <2>2. TypeOK'
    BY <1>5, <2>1 DEF ParentalInv, GrantInv, TypeOK
  <2>3. ConfigInv'
    BY <1>5 DEF Crash, ConfigInv
  <2> QED
    BY <2>1, <2>2, <2>3 DEF ParentalInv
<1>6. CASE UNCHANGED pvars
  <2>1. GrantInv'
    BY <1>6 DEF ParentalInv, GrantInv, GrantTypeOK, TaskInv, FreshInv, MapInv, Recent, pvars, gvars, table, task
  <2>2. TypeOK' /\ ConfigInv'
    BY <1>6, <2>1 DEF ParentalInv, GrantInv, TypeOK, ConfigInv, pvars, gvars, config
  <2> QED
    BY <2>1, <2>2 DEF ParentalInv
<1> QED
  BY <1>1, <1>2, <1>3, <1>4, <1>5, <1>6 DEF ParentalNext

\* The invariant of parental control: the map is the listing of a moment that
\* is not too far back, and what startup read is what the tables say.
THEOREM ParentalInvariant == ParentalSpec => []ParentalInv
<1> QED
  BY InitParentalInv, NextParentalInv, PTL DEF ParentalSpec

\* TypeOK of ParentalControl: the rows, the map, the task's counters and what
\* was read at startup stay in their types, and the counters in their bounds.
THEOREM TypeCorrect == ParentalSpec => []TypeOK
<1>1. ParentalInv => TypeOK
  BY DEF ParentalInv
<1> QED
  BY <1>1, ParentalInvariant, PTL

-----------------------------------------------------------------------------
(* What follows.                                                           *)

LEMMA RecentWithinLag ==
  ASSUME GrantInv, NEW t \in 1 .. now, Recent(t)
  PROVE  t \in Nat /\ Lag \in Nat /\ now - t <= Lag
<1> DEFINE lost == failed * Longer
<1>1. lost \in Nat /\ now \in Nat /\ since \in Nat /\ t \in Nat
  BY GrantTypes
<1>2. Lag = Interval + Waiting + lost
  BY DEF Lag
<1>3. refresh = "idle" => Waiting = 0 /\ now <= t + Interval + lost
  BY DEF Recent, Waiting
<1>4. refresh # "idle" =>
        Waiting = now - since /\ since <= now /\ since <= t + Interval + lost
  BY DEF Recent, GrantInv, TaskInv, Waiting
<1> HIDE DEF lost
<1> QED
  BY <1>1, <1>2, <1>3, <1>4, ConstantFacts

LEMMA MapBacked ==
  ASSUME ParentalInv, NEW p \in Pairs, HasActive(p)
  PROVE  \E i \in DOMAIN grants :
           /\ Grants(grants[i], p)
           /\ grants[i].revoked = NotRevoked \/ now - grants[i].revoked <= Lag
<1>1. GrantInv /\ now \in Nat /\ now >= 1
  BY GrantTypes DEF ParentalInv
<1>2. active[p] > now /\ active[p] # 0
  <2>1. active[p] > now
    BY DEF HasActive
  <2>2. ~(0 > now)
    BY <1>1
  <2> QED
    BY <2>1, <2>2
<1>3. process = "up"
  BY <1>1, <1>2, ConstantFacts DEF GrantInv, TaskInv
<1>4. PICK t \in 1 .. now : Sound(grants, active, t) /\ Recent(t)
  BY <1>1, <1>3 DEF GrantInv, MapInv
<1>5. now - t <= Lag
  BY <1>1, <1>4, RecentWithinLag
<1>6. PICK i \in DOMAIN grants : Backs(grants[i], p, active[p], t)
  BY <1>2, <1>4 DEF Sound
<1>7. Grants(grants[i], p)
  BY <1>2, <1>6 DEF Backs, Grants
<1>8. grants[i].revoked = NotRevoked \/ now - grants[i].revoked <= Lag
  <2>1. grants[i] \in Row
    BY <1>1, GrantTypes
  <2>2. Lag \in Nat
    BY <1>1, <1>4, RecentWithinLag
  <2>3. grants[i].revoked = NotRevoked \/ grants[i].revoked >= t
    BY <1>6 DEF Backs
  <2> QED
    BY <1>1, <1>4, <1>5, <2>1, <2>2, <2>3, RowFacts
<1> QED
  BY <1>7, <1>8

\* RevokeTakesEffect: what GrantStore::has_active says is backed by a row that
\* has not expired, nor been revoked for longer than the lag of the refresh
\* task, for any interval, any busy timeout and any number of failed reads:
\* one interval, but for a refresh that waits and those that failed.
THEOREM RevokesTakeEffect == ParentalSpec => []RevokeTakesEffect
<1>1. ParentalInv => RevokeTakesEffect
  BY MapBacked DEF RevokeTakesEffect
<1> QED
  BY <1>1, ParentalInvariant, PTL

\* GrantTakesEffect: a grant older than the lag that is neither revoked nor
\* expired is in the map of a process whose last listing was complete.
THEOREM GrantsTakeEffect == ParentalSpec => []GrantTakesEffect
<1>1. ParentalInv => GrantTakesEffect
  <2> SUFFICES ASSUME ParentalInv, process = "up", whole, refresh # "read",
                      NEW i \in DOMAIN grants, grants[i].revoked = NotRevoked,
                      Grants(grants[i], grants[i].pair), now - grants[i].granted > Lag
               PROVE  HasActive(grants[i].pair)
    BY DEF GrantTakesEffect
  <2>1. GrantInv /\ now \in Nat /\ grants[i] \in Row
    BY GrantTypes DEF ParentalInv
  <2>2. PICK t \in 1 .. now : Complete(grants, active, t, now) /\ Recent(t)
    BY <2>1 DEF GrantInv, MapInv
  <2>3. now - t <= Lag
    BY <2>1, <2>2, RecentWithinLag
  <2>4. grants[i].granted \in Nat /\ grants[i].expires \in Nat /\ grants[i].pair \in Pairs
    BY <2>1, RowFacts
  <2>5. Lag \in Nat
    BY <2>1, <2>2, RecentWithinLag
  <2>6. Standing(grants[i], t, now)
    BY <2>1, <2>2, <2>3, <2>4, <2>5 DEF Standing, Grants
  <2>7. active[grants[i].pair] >= grants[i].expires
    BY <2>2, <2>6 DEF Complete
  <2>8. active[grants[i].pair] \in Nat
    <3>1. active \in [Pairs -> Expiries \cup {0}]
      BY <2>1 DEF GrantInv, GrantTypeOK
    <3>2. Expiries \cup {0} \subseteq Nat
      BY ConstantFacts
    <3> QED
      BY <2>4, <3>1, <3>2
  <2> QED
    BY <2>1, <2>4, <2>7, <2>8 DEF HasActive, Grants
<1> QED
  BY <1>1, ParentalInvariant, PTL

\* HardNeverOpens: check_access blocks a domain of a hard category for its
\* device, whatever is granted, as long as startup read what the tables say.
THEOREM HardStaysClosed == ParentalSpec => []HardNeverOpens
<1>1. ParentalInv => HardNeverOpens
  <2> SUFFICES ASSUME ParentalInv, NEW d \in Devices, NEW c \in Categories, NEW dom \in Domains,
                      Controlled(d), intact, modes[<<d, c>>] = "hard", OnList(dom, FullyLoaded[c])
               PROVE  Blocked(d, dom)
    BY DEF HardNeverOpens
  <2>1. known = Devices /\ lists = FullyLoaded
        /\ hard = [e \in Devices |-> {h \in Categories : modes[<<e, h>>] = "hard"}]
    BY DEF ParentalInv, ConfigInv, Controlled
  <2>2. c \in hard[d] /\ InCategory(dom, c)
    BY <2>1 DEF InCategory
  <2> QED
    BY <2>1, <2>2 DEF Blocked, BlockedForDevice, Controlled
<1> QED
  BY <1>1, ParentalInvariant, PTL

\* OnlyGrantsOpen: a domain of a grantable category passes check_access only
\* by a row for this device and a category of the domain, one that is good or
\* was revoked no longer ago than the lag.
THEOREM OnlyGrantsOpenDomains == ParentalSpec => []OnlyGrantsOpen
<1>1. ParentalInv => OnlyGrantsOpen
  <2> DEFINE Hits(d, dom) ==
        {c \in Categories : modes[<<d, c>>] = "grantable" /\ OnList(dom, FullyLoaded[c])}
  <2> SUFFICES ASSUME ParentalInv, NEW d \in Devices, NEW dom \in Domains,
                      Controlled(d), intact, Hits(d, dom) # {}, ~Blocked(d, dom)
               PROVE  \E c \in Hits(d, dom), i \in DOMAIN grants :
                        /\ Grants(grants[i], <<d, c>>)
                        /\ grants[i].revoked = NotRevoked \/ now - grants[i].revoked <= Lag
    BY DEF OnlyGrantsOpen
  <2>1. known = Devices /\ lists = FullyLoaded
        /\ grantable = [e \in Devices |-> {c \in Categories : modes[<<e, c>>] = "grantable"}]
    BY DEF ParentalInv, ConfigInv, Controlled
  <2>2. {c \in grantable[d] : InCategory(dom, c)} = Hits(d, dom)
    BY <2>1 DEF InCategory
  <2>3. HasActive(<<d, Min(Hits(d, dom))>>)
    BY <2>1, <2>2 DEF Blocked, BlockedForDevice, Controlled
  <2>4. Min(Hits(d, dom)) \in Hits(d, dom)
    <3>1. Hits(d, dom) \in SUBSET Nat
      BY GrantAssumption
    <3> HIDE DEF Hits
    <3> QED
      BY <3>1, LeastIn
  <2>5. <<d, Min(Hits(d, dom))>> \in Pairs
    BY <2>4 DEF Pairs
  <2> HIDE DEF Hits
  <2> QED
    BY <2>3, <2>4, <2>5, MapBacked
<1> QED
  BY <1>1, ParentalInvariant, PTL
=============================================================================
