---------------------------- MODULE StorageProofs ----------------------------
(***************************************************************************)
(* The database of HomeGuard: what the migrations leave, what the keys and *)
(* references of the tables keep, and what a seed that ends has written.   *)
(***************************************************************************)
EXTENDS Storage, SequenceLemmas

-----------------------------------------------------------------------------
(***************************************************************************)
(* The migrations.                                                         *)
(***************************************************************************)
LEMMA ConstantFacts ==
  /\ Service \in Instances /\ Nobody \notin Instances
  /\ \A t \in Tomls : DOMAIN t \subseteq Devices /\ t \in [DOMAIN t -> Sections]
  /\ \A t \in Tomls : \A f \in FilesWith(t) : LeftBehind(f)
  /\ NULL \notin Devices /\ NULL \notin Categories /\ NULL \notin Modes /\ NULL \notin Names
  /\ NULL \notin Nat /\ NULL # "granularity" /\ Priorities \subseteq Nat
  /\ MaxCrashes \in Nat /\ MaxFaults \in Nat /\ MaxEdits \in Nat
BY StorageAssumption

Versions == {{}, {1}, {1, 2}}

LEMMA VersionIs ==
  ASSUME NEW f, f.versions \in Versions
  PROVE  /\ f.versions = {} => Version(f) = 0
         /\ f.versions = {1} => Version(f) = 1
         /\ f.versions = {1, 2} => Version(f) = 2
<1>1. f.versions \union {0} \in SUBSET (0 .. 2) /\ f.versions \union {0} # {}
  BY DEF Versions
<1>2. /\ Max(f.versions \union {0}) \in f.versions \union {0}
      /\ \A y \in f.versions \union {0} : y <= Max(f.versions \union {0})
  BY <1>1, MaxIs
<1> QED
  BY <1>2 DEF Version

(* The migrations, statement by statement. *)
LEMMA MigrationFacts ==
  /\ Len(Migrations[1]) = 11 /\ Len(Migrations[2]) = 3
  /\ Migrations[1][1] = Create("devices") /\ Migrations[2][1] = Create("grants")
  /\ \A k \in 1 .. 11 : Migrations[1][k].drops = {}
  /\ \A k \in 1 .. 3 : Migrations[2][k].drops \subseteq {"device_blocklists"}
BY DEF Migrations, Create, Rebuild, Record

Created(v, s) == UNION {Migrations[v][k].creates : k \in 1 .. s - 1}
Recorded(v, s) == {Migrations[v][k].version : k \in 1 .. s - 1} \ {0}

LEMMA WholeMigrations ==
  /\ Created(1, 12) = Tables \ {"grants"} /\ Recorded(1, 12) = {1}
  /\ Created(2, 4) = {"grants", "device_blocklists"} /\ Recorded(2, 4) = {2}
<1>1. /\ UNION {Migrations[1][k].creates : k \in 1 .. 11} = Tables \ {"grants"}
  BY DEF Migrations, Create, Rebuild, Record, Tables, Numbered
<1>2. {Migrations[1][k].version : k \in 1 .. 11} \ {0} = {1}
  BY DEF Migrations, Create, Rebuild, Record
<1>3. UNION {Migrations[2][k].creates : k \in 1 .. 3} = {"grants", "device_blocklists"}
  BY DEF Migrations, Create, Rebuild, Record
<1>4. {Migrations[2][k].version : k \in 1 .. 3} \ {0} = {2}
  BY DEF Migrations, Create, Rebuild, Record
<1> QED
  BY <1>1, <1>2, <1>3, <1>4 DEF Created, Recorded

(* What a file is at any time, as far as the migrations are concerned. *)
FileInv(f) ==
  /\ IsFile(f) /\ f.versions \in Versions
  /\ f.tables = Form(Version(f))
  /\ f.versions # {1, 2} => f.rows["device_blocklists"] = {}

(* What the first s - 1 statements of migration v make of it. *)
Partly(f, v, s) ==
  [tables |-> [t \in DOMAIN f.tables \union Created(v, s) |->
                 IF t \in Created(v, s) THEN v ELSE f.tables[t]],
   versions |-> f.versions \union Recorded(v, s), rows |-> f.rows, last |-> f.last]

LEMMA NothingYet ==
  ASSUME NEW f, FileInv(f), NEW v
  PROVE  Partly(f, v, 1) = f
<1>1. Created(v, 1) = {} /\ Recorded(v, 1) = {}
  BY DEF Created, Recorded
<1>2. f.tables = [t \in DOMAIN f.tables |-> f.tables[t]]
  BY DEF FileInv, Form
<1>3. f = [tables |-> f.tables, versions |-> f.versions, rows |-> f.rows, last |-> f.last]
  BY DEF FileInv, IsFile
<1>4. /\ DOMAIN f.tables \union {} = DOMAIN f.tables /\ f.versions \union {} = f.versions
      /\ [t \in DOMAIN f.tables |-> IF t \in {} THEN v ELSE f.tables[t]]
           = [t \in DOMAIN f.tables |-> f.tables[t]]
  OBVIOUS
<1>5. Partly(f, v, 1) = [tables |-> [t \in DOMAIN f.tables |-> f.tables[t]],
                         versions |-> f.versions, rows |-> f.rows, last |-> f.last]
  BY <1>1, <1>4 DEF Partly
<1> QED
  BY <1>2, <1>3, <1>5

LEMMA OneMore ==
  ASSUME NEW v, NEW s \in Nat \ {0}
  PROVE  /\ Created(v, s + 1) = Created(v, s) \union Migrations[v][s].creates
         /\ Recorded(v, s + 1) = Recorded(v, s) \union ({Migrations[v][s].version} \ {0})
<1>1. 1 .. s + 1 - 1 = (1 .. s - 1) \union {s}
  OBVIOUS
<1> QED
  BY <1>1 DEF Created, Recorded

(* The next statement. *)
LEMMA ExecutedIs ==
  ASSUME NEW f, FileInv(f), NEW v \in {1, 2}, v = Version(f) + 1,
         NEW s \in 1 .. Len(Migrations[v])
  PROVE  Executed(Partly(f, v, s), Migrations[v][s], v) = Partly(f, v, s + 1)
<1> DEFINE p == Partly(f, v, s)
           x == Migrations[v][s]
           more == [t \in DOMAIN p.tables \union x.creates |->
                      IF t \in x.creates THEN v ELSE p.tables[t]]
           then == Partly(f, v, s + 1)
<1>1. s \in Nat \ {0}
  BY MigrationFacts
<1>2. [t \in Tables |-> IF t \in x.drops THEN {} ELSE f.rows[t]] = f.rows
  <2>1. \A t \in Tables : t \in x.drops => f.rows[t] = {}
    <3>1. CASE v = 1
      BY <3>1, MigrationFacts
    <3>2. CASE v = 2
      <4>1. Version(f) = 1
        BY <3>2, VersionIs DEF FileInv, Versions
      <4>2. f.versions # {1, 2}
        BY <4>1, VersionIs DEF FileInv
      <4> QED
        BY <3>2, <4>2, MigrationFacts DEF FileInv
    <3> QED
      BY <3>1, <3>2
  <2>2. f.rows = [t \in Tables |-> f.rows[t]]
    BY DEF FileInv, IsFile
  <2>3. [t \in Tables |-> IF t \in x.drops THEN {} ELSE f.rows[t]] = [t \in Tables |-> f.rows[t]]
    BY <2>1
  <2> QED
    BY <2>2, <2>3
<1>3. /\ Created(v, s + 1) = Created(v, s) \union x.creates
      /\ Recorded(v, s + 1) = Recorded(v, s) \union ({x.version} \ {0})
  BY <1>1, OneMore
<1>4. more = then.tables
  <2>1. p.tables = [t \in DOMAIN f.tables \union Created(v, s) |->
                      IF t \in Created(v, s) THEN v ELSE f.tables[t]]
    BY DEF Partly
  <2>2. then.tables = [t \in DOMAIN f.tables \union Created(v, s + 1) |->
                         IF t \in Created(v, s + 1) THEN v ELSE f.tables[t]]
    BY DEF Partly
  <2>3. DOMAIN p.tables = DOMAIN f.tables \union Created(v, s)
    BY <2>1
  <2>4. DOMAIN f.tables \union Created(v, s + 1) = DOMAIN p.tables \union x.creates
    BY <2>3, <1>3
  <2>5. \A t \in DOMAIN p.tables \union x.creates :
          (IF t \in x.creates THEN v ELSE p.tables[t])
            = IF t \in Created(v, s + 1) THEN v ELSE f.tables[t]
    BY <2>1, <2>3, <1>3
  <2> HIDE DEF p, x, then
  <2> QED
    BY <2>2, <2>4, <2>5
<1>5. p.versions \union ({x.version} \ {0}) = then.versions
  BY <1>3 DEF Partly
<1>6. p.rows = f.rows /\ p.last = f.last /\ then = [tables |-> then.tables,
        versions |-> then.versions, rows |-> f.rows, last |-> f.last]
  BY DEF Partly
<1>7. Executed(p, x, v) =
        [tables |-> more, versions |-> p.versions \union ({x.version} \ {0}),
         rows |-> [t \in Tables |-> IF t \in x.drops THEN {} ELSE p.rows[t]], last |-> p.last]
  BY DEF Executed
<1> HIDE DEF p, x, then, more
<1>8. Executed(p, x, v) = then
  BY <1>2, <1>4, <1>5, <1>6, <1>7
<1> QED
  BY <1>8 DEF p, x, then

(* A migration that comes to its end. *)
LEMMA WholeIs ==
  ASSUME NEW f, FileInv(f), NEW v \in {1, 2}, v = Version(f) + 1,
         NEW g, g = Partly(f, v, Len(Migrations[v]) + 1)
  PROVE  FileInv(g) /\ Version(g) = v /\ g.rows = f.rows
<1>1. g.rows = f.rows /\ g.last = f.last
      /\ g = [tables |-> g.tables, versions |-> g.versions, rows |-> g.rows, last |-> g.last]
  BY DEF Partly
<1>2. IsFile(g)
  BY <1>1 DEF FileInv, IsFile
<1>a. f.versions \in Versions /\ f.tables = Form(Version(f))
  BY DEF FileInv
<1>b. /\ v = 1 => f.versions = {} /\ Version(f) = 0 /\ Len(Migrations[v]) + 1 = 12
      /\ v = 2 => f.versions = {1} /\ Version(f) = 1 /\ Len(Migrations[v]) + 1 = 4
  <2>1. \/ f.versions = {} /\ Version(f) = 0
        \/ f.versions = {1} /\ Version(f) = 1
        \/ f.versions = {1, 2} /\ Version(f) = 2
    <3>1. /\ f.versions = {} => Version(f) = 0
          /\ f.versions = {1} => Version(f) = 1
          /\ f.versions = {1, 2} => Version(f) = 2
      BY <1>a, VersionIs
    <3>2. f.versions = {} \/ f.versions = {1} \/ f.versions = {1, 2}
      BY <1>a DEF Versions
    <3> QED
      BY <3>1, <3>2, Zenon
  <2>2. /\ v = 1 => Version(f) = 0
        /\ v = 2 => Version(f) = 1
        /\ Version(f) = 0 => Version(f) # 1 /\ Version(f) # 2
        /\ Version(f) = 1 => Version(f) # 0 /\ Version(f) # 2
    <3>1. Version(f) \in {0, 1, 2}
      BY <2>1, Zenon
    <3> QED
      BY <3>1
  <2>3. /\ v = 1 => Len(Migrations[v]) + 1 = 12
        /\ v = 2 => Len(Migrations[v]) + 1 = 4
    <3>1. Len(Migrations[1]) + 1 = 12 /\ Len(Migrations[2]) + 1 = 4
      <4>1. Len(Migrations[1]) = 11 /\ Len(Migrations[2]) = 3
        BY MigrationFacts, Zenon
      <4> QED
        BY <4>1
    <3> QED
      BY <3>1, Zenon
  <2> QED
    BY <2>1, <2>2, <2>3, Zenon
<1>c. /\ v = 1 => /\ g.versions = f.versions \union Recorded(1, 12)
                  /\ g.tables = [t \in DOMAIN f.tables \union Created(1, 12) |->
                                   IF t \in Created(1, 12) THEN 1 ELSE f.tables[t]]
      /\ v = 2 => /\ g.versions = f.versions \union Recorded(2, 4)
                  /\ g.tables = [t \in DOMAIN f.tables \union Created(2, 4) |->
                                   IF t \in Created(2, 4) THEN 2 ELSE f.tables[t]]
  <2>1. /\ v = 1 => g = Partly(f, 1, 12)
        /\ v = 2 => g = Partly(f, 2, 4)
    BY <1>b
  <2> QED
    BY <2>1 DEF Partly
<1>3. g.versions \in Versions /\ Version(g) = v
  <2>1. CASE v = 1
    <3>1. g.versions = {1}
      BY <2>1, <1>b, <1>c, WholeMigrations
    <3>2. g.versions \in Versions
      BY <3>1 DEF Versions
    <3> QED
      BY <2>1, <3>1, <3>2, VersionIs
  <2>2. CASE v = 2
    <3>1. g.versions = {1, 2}
      BY <2>2, <1>b, <1>c, WholeMigrations
    <3>2. g.versions \in Versions
      BY <3>1 DEF Versions
    <3> QED
      BY <2>2, <3>1, <3>2, VersionIs
  <2> QED
    BY <2>1, <2>2
<1>4. g.tables = Form(v)
  <2>1. CASE v = 1
    <3>1. f.tables = Form(0)
      BY <2>1, <1>a, <1>b
    <3>2. g.tables = [t \in DOMAIN Form(0) \union (Tables \ {"grants"}) |->
                        IF t \in Tables \ {"grants"} THEN 1 ELSE Form(0)[t]]
      BY <2>1, <3>1, <1>c, WholeMigrations, Zenon
    <3>3. DOMAIN Form(0) = {}
      BY DEF Form
    <3>4. {u \in Tables : 1 >= 1 /\ (u = "grants" => 1 >= 2)} = Tables \ {"grants"}
      OBVIOUS
    <3>5. Form(1) = [t \in Tables \ {"grants"} |-> 1]
      BY <3>4 DEF Form
    <3> QED
      BY <2>1, <3>2, <3>3, <3>5
  <2>2. CASE v = 2
    <3>1. f.tables = Form(1)
      BY <2>2, <1>a, <1>b
    <3>2. g.tables = [t \in DOMAIN Form(1) \union {"grants", "device_blocklists"} |->
                        IF t \in {"grants", "device_blocklists"} THEN 2 ELSE Form(1)[t]]
      BY <2>2, <3>1, <1>c, WholeMigrations, Zenon
    <3>3. DOMAIN Form(1) = Tables \ {"grants"} /\ \A t \in Tables \ {"grants"} : Form(1)[t] = 1
      BY DEF Form
    <3>4. DOMAIN Form(1) \union {"grants", "device_blocklists"} = Tables
      BY <3>3 DEF Tables, Numbered
    <3>5. Form(2) = [t \in Tables |-> IF t \in {"grants", "device_blocklists"} THEN 2 ELSE 1]
      BY DEF Form
    <3> QED
      BY <2>2, <3>2, <3>3, <3>4, <3>5
  <2> QED
    BY <2>1, <2>2
<1>5. g.versions # {1, 2} => g.rows["device_blocklists"] = {}
  <2> SUFFICES ASSUME g.versions # {1, 2} PROVE g.rows["device_blocklists"] = {}
    OBVIOUS
  <2>1. v # 2
    <3> SUFFICES ASSUME v = 2 PROVE FALSE
      OBVIOUS
    <3> QED
      BY <1>b, <1>c, WholeMigrations
  <2>2. f.versions # {1, 2}
    BY <2>1, <1>b
  <2> QED
    BY <2>2, <1>1 DEF FileInv
<1> QED
  BY <1>1, <1>2, <1>3, <1>4, <1>5 DEF FileInv

(* A migration that has been made is refused at its first statement. *)
LEMMA MadeIsRefused ==
  ASSUME NEW f, FileInv(f), NEW v \in {1, 2}, v <= Version(f)
  PROVE  Refused(f, Migrations[v][1])
<1>1. Version(f) \in {1, 2}
  BY VersionIs DEF FileInv, Versions
<1>2. f.tables = Form(Version(f))
  BY DEF FileInv
<1>3. CASE v = 1
  <2>1. "devices" \in DOMAIN f.tables
    BY <1>1, <1>2 DEF Form, Tables
  <2> QED
    BY <1>3, <2>1, MigrationFacts DEF Refused, Create
<1>4. CASE v = 2
  <2>1. "grants" \in DOMAIN f.tables
    BY <1>1, <1>2, <1>4 DEF Form, Tables, Numbered
  <2> QED
    BY <1>4, <2>1, MigrationFacts DEF Refused, Create
<1> QED
  BY <1>3, <1>4

Same(f, g) == g.tables = f.tables /\ g.versions = f.versions

With(f, t, R) == [f EXCEPT !.rows[t] = R]

LEMMA WithRows ==
  ASSUME NEW f, IsFile(f), NEW t \in Tables, NEW R, IsFiniteSet(R),
         NEW g, g = With(f, t, R)
  PROVE  /\ IsFile(g) /\ Same(f, g) /\ g.last = f.last
         /\ g.rows[t] = R /\ \A u \in Tables \ {t} : g.rows[u] = f.rows[u]
<1>1. f = [tables |-> f.tables, versions |-> f.versions, rows |-> f.rows, last |-> f.last]
      /\ f.rows = [u \in Tables |-> f.rows[u]] /\ f.last = [u \in Numbered |-> f.last[u]]
  BY DEF IsFile
<1>2. g = [tables |-> f.tables, versions |-> f.versions, rows |-> [f.rows EXCEPT ![t] = R],
           last |-> f.last]
  BY <1>1 DEF With
<1>3. DOMAIN f.rows = Tables
  BY <1>1
<1>4. /\ g.rows[t] = R /\ \A u \in Tables \ {t} : g.rows[u] = f.rows[u]
      /\ g.rows = [u \in Tables |-> g.rows[u]]
  BY <1>2, <1>3
<1>5. /\ g.tables = f.tables /\ g.versions = f.versions /\ g.last = f.last
      /\ g = [tables |-> g.tables, versions |-> g.versions, rows |-> g.rows, last |-> g.last]
  BY <1>2
<1>6. IsFile(g)
  BY <1>1, <1>4, <1>5 DEF IsFile
<1> QED
  BY <1>4, <1>5, <1>6 DEF Same

LEMMA WithLast ==
  ASSUME NEW f, IsFile(f), NEW t \in Numbered, NEW n \in Nat, NEW g, g = [f EXCEPT !.last[t] = n]
  PROVE  IsFile(g) /\ Same(f, g) /\ g.rows = f.rows
<1>1. f = [tables |-> f.tables, versions |-> f.versions, rows |-> f.rows, last |-> f.last]
      /\ f.rows = [u \in Tables |-> f.rows[u]] /\ f.last = [u \in Numbered |-> f.last[u]]
      /\ \A u \in Numbered : f.last[u] \in Nat
  BY DEF IsFile
<1>2. g = [tables |-> f.tables, versions |-> f.versions, rows |-> f.rows,
           last |-> [f.last EXCEPT ![t] = n]]
  BY <1>1
<1>3. DOMAIN f.last = Numbered
  BY <1>1
<1>4. g.last = [u \in Numbered |-> g.last[u]] /\ \A u \in Numbered : g.last[u] \in Nat
  BY <1>1, <1>2, <1>3
<1>5. /\ g.tables = f.tables /\ g.versions = f.versions /\ g.rows = f.rows
      /\ g = [tables |-> g.tables, versions |-> g.versions, rows |-> g.rows, last |-> g.last]
  BY <1>2
<1> QED
  BY <1>1, <1>4, <1>5 DEF IsFile, Same

-----------------------------------------------------------------------------
Fine(f, L) == IsFile(f) /\ Kept(f, L)

LEMMA AlikeIsSymmetric ==
  ASSUME NEW t, NEW o, NEW r
  PROVE  Alike(t, o, r) => Alike(t, r, o)
BY DEF Alike

(* Other rows of one table. *)
Other(f, g, t, L, M) ==
  /\ Fine(f, L) /\ IsFile(g) /\ t \in Tables /\ L \subseteq M
  /\ \A u \in Tables \ {t} : g.rows[u] = f.rows[u]
  /\ \A r \in g.rows[t] :
       RowOf(t, r) /\ Points(f, t, r, L) /\ \A o \in g.rows[t] : Alike(t, o, r) => o = r
  /\ \A x \in References :
       x.to = t => \A id \in Ids(f.rows[t]) :
                     id \in Ids(g.rows[t]) \/ (t = "devices" /\ id \in M)

LEMMA OneTable ==
  ASSUME NEW f, NEW g, NEW t, NEW L, NEW M, Other(f, g, t, L, M)
  PROVE  Fine(g, M)
<1>1. ASSUME NEW u \in Tables, NEW r \in g.rows[u], Points(f, u, r, L)
      PROVE  Points(g, u, r, M)
  <2> SUFFICES ASSUME NEW x \in References, x.from = u, r[x.column] # NULL
               PROVE  r[x.column] \in Ids(g.rows[x.to])
                        \/ (x.to = "devices" /\ r[x.column] \in M)
    BY DEF Points
  <2>1. r[x.column] \in Ids(f.rows[x.to])
        \/ (x.to = "devices" /\ r[x.column] \in L)
    BY <1>1 DEF Points
  <2>2. x.to \in Tables
    BY DEF References, Tables, Numbered
  <2> QED
    BY <2>1, <2>2 DEF Other, Ids
<1>2. ASSUME NEW u \in Tables, NEW r \in g.rows[u]
      PROVE  /\ RowOf(u, r) /\ Points(g, u, r, M)
             /\ \A o \in g.rows[u] : Alike(u, o, r) => o = r
  <2>1. CASE u = t
    BY <2>1, <1>1 DEF Other
  <2>2. CASE u # t
    BY <2>2, <1>1 DEF Other, Fine, Kept
  <2> QED
    BY <2>1, <2>2
<1> QED
  BY <1>2 DEF Other, Fine, Kept

LEMMA ReferenceFacts ==
  /\ \A x \in References : x.from \in Tables /\ x.to \in Tables
  /\ \A x \in References : x.to \in {"devices", "schedules", "proxy_groups", "proxy_servers"}
  /\ \A x \in References : x.column \in Columns[x.from]
  /\ \A x \in References : x.from \notin {"devices", "schedules", "proxy_groups", "proxy_servers"}
  /\ \A x \in References : ~x.deletes => x.from = "rules" /\ x.column = "schedule"
  /\ \A x \in References : x.from = "rules" => ~x.deletes
  /\ \A key \in Keys : key.of \in Tables => key.columns \subseteq Columns[key.of]
BY DEF References, Tables, Numbered, Columns, Keys, Key

(* INSERT *)
LEMMA InsertFine ==
  ASSUME NEW f, NEW L, Fine(f, L), NEW t \in Tables, NEW r, RowOf(t, r),
         t \in Numbered => r.id \in Nat, NEW g \in Insert(f, t, r)
  PROVE  /\ Fine(g, L) /\ Same(f, g)
         /\ g.rows[t] = f.rows[t] \union {r} /\ \A u \in Tables \ {t} : g.rows[u] = f.rows[u]
<1> DEFINE counted == IF t \in Numbered THEN [f EXCEPT !.last[t] = r.id] ELSE f
<1>1. Accepts(f, t, r) /\ g = [counted EXCEPT !.rows[t] = @ \union {r}]
  BY DEF Insert, Unless, Inserted
<1>2. IsFile(counted) /\ Same(f, counted) /\ counted.rows = f.rows
  <2>1. CASE t \in Numbered
    BY <2>1, WithLast DEF Fine
  <2>2. CASE t \notin Numbered
    BY <2>2 DEF Fine, Same
  <2> QED
    BY <2>1, <2>2
<1> HIDE DEF counted
<1>3. g = With(counted, t, f.rows[t] \union {r})
  BY <1>1, <1>2 DEF With
<1>4. IsFiniteSet(f.rows[t] \union {r})
  BY FS_AddElement DEF Fine, IsFile
<1>5. /\ IsFile(g) /\ Same(counted, g) /\ g.rows[t] = f.rows[t] \union {r}
      /\ \A u \in Tables \ {t} : g.rows[u] = counted.rows[u]
  <2> DEFINE R == f.rows[t] \union {r}
  <2>1. g = With(counted, t, R) /\ IsFiniteSet(R) /\ IsFile(counted)
    BY <1>2, <1>3, <1>4
  <2> HIDE DEF R
  <2>2. /\ IsFile(g) /\ Same(counted, g) /\ g.rows[t] = R
        /\ \A u \in Tables \ {t} : g.rows[u] = counted.rows[u]
    BY <2>1, WithRows
  <2> QED
    BY <2>2 DEF R
<1>6. \A o \in f.rows[t] : ~Alike(t, o, r) /\ ~Alike(t, r, o)
  BY <1>1, AlikeIsSymmetric DEF Accepts, Clashes
<1>7. Points(f, t, r, L)
  BY <1>1 DEF Accepts, Resolved, Points, Ids
<1>8. \A q \in g.rows[t] :
        RowOf(t, q) /\ Points(f, t, q, L) /\ \A o \in g.rows[t] : Alike(t, o, q) => o = q
  BY <1>5, <1>6, <1>7 DEF Fine, Kept
<1>9. Ids(f.rows[t]) \subseteq Ids(g.rows[t])
  BY <1>5 DEF Ids
<1>10. Fine(g, L)
  <2>1. Other(f, g, t, L, L)
    BY <1>2, <1>5, <1>8, <1>9 DEF Other
  <2> QED
    BY <2>1, OneTable
<1> QED
  BY <1>2, <1>5, <1>10 DEF Same

(* INSERT OR REPLACE, of a row that nothing refers to *)
LEMMA ReplacedFine ==
  ASSUME NEW f, NEW L, Fine(f, L), NEW t \in Tables, NEW r, RowOf(t, r), Resolved(f, t, r),
         \A x \in References : x.to # t, NEW g, g = Replaced(f, t, r)
  PROVE  /\ Fine(g, L) /\ Same(f, g)
         /\ g.rows[t] = (f.rows[t] \ Clashes(f, t, r)) \union {r}
         /\ \A u \in Tables \ {t} : g.rows[u] = f.rows[u]
<1> DEFINE R == (f.rows[t] \ Clashes(f, t, r)) \union {r}
<1>1. g = With(f, t, R)
  BY DEF Replaced, With
<1>2. IsFiniteSet(R)
  <2>1. IsFiniteSet(f.rows[t] \ Clashes(f, t, r))
    BY FS_Subset DEF Fine, IsFile
  <2> QED
    BY <2>1, FS_AddElement
<1>3. \A q \in R : RowOf(t, q) /\ Points(f, t, q, L) /\ \A o \in R : Alike(t, o, q) => o = q
  <2>1. Points(f, t, r, L)
    BY DEF Resolved, Points, Ids
  <2>2. \A o \in f.rows[t] \ Clashes(f, t, r) : ~Alike(t, o, r) /\ ~Alike(t, r, o)
    BY AlikeIsSymmetric DEF Clashes
  <2> QED
    BY <2>1, <2>2 DEF Fine, Kept
<1> HIDE DEF R
<1>4. /\ IsFile(g) /\ Same(f, g) /\ g.rows[t] = R /\ \A u \in Tables \ {t} : g.rows[u] = f.rows[u]
  BY <1>1, <1>2, WithRows DEF Fine
<1>5. Fine(g, L)
  <2>1. Other(f, g, t, L, L)
    BY <1>3, <1>4 DEF Other
  <2> QED
    BY <2>1, OneTable
<1> QED
  BY <1>4, <1>5 DEF R

(* DELETE of rows that nothing refers to, or that leaves some loose *)
LEMMA RemovedFine ==
  ASSUME NEW f, NEW L, Fine(f, L), NEW t \in Tables, NEW R \in SUBSET f.rows[t], NEW M,
         L \subseteq M,
         \A x \in References :
           x.to = t => t = "devices" /\ \A r \in f.rows[t] \ R : r.id \in M,
         NEW g, g = With(f, t, R)
  PROVE  /\ Fine(g, M) /\ Same(f, g) /\ g.rows[t] = R
         /\ \A u \in Tables \ {t} : g.rows[u] = f.rows[u]
<1>1. IsFiniteSet(R)
  BY FS_Subset DEF Fine, IsFile
<1>2. /\ IsFile(g) /\ Same(f, g) /\ g.rows[t] = R /\ \A u \in Tables \ {t} : g.rows[u] = f.rows[u]
  BY <1>1, WithRows DEF Fine
<1>3. \A q \in g.rows[t] :
        RowOf(t, q) /\ Points(f, t, q, L) /\ \A o \in g.rows[t] : Alike(t, o, q) => o = q
  BY <1>2 DEF Fine, Kept
<1>4. \A x \in References :
        x.to = t => \A id \in Ids(f.rows[t]) :
                      id \in Ids(g.rows[t]) \/ (t = "devices" /\ id \in M)
  BY <1>2 DEF Ids
<1>5. Fine(g, M)
  <2>1. Other(f, g, t, L, M)
    BY <1>2, <1>3, <1>4 DEF Other
  <2> QED
    BY <2>1, OneTable
<1> QED
  BY <1>2, <1>5

(* A device that is there again is not loose. *)
LEMMA Tightened ==
  ASSUME NEW f, NEW L, NEW d, Fine(f, L \union {d}), d \in Ids(f.rows["devices"])
  PROVE  Fine(f, L)
BY DEF Fine, Kept, Points

-----------------------------------------------------------------------------
(***************************************************************************)
(* DELETE with what hangs on the row.                                      *)
(***************************************************************************)
After(t, id, u, r) == [c \in DOMAIN r |-> IF Forgets(t, id, u, r, c) THEN NULL ELSE r[c]]
Left(f, t, id, u) == {r \in f.rows[u] : ~ Follows(t, id, u, r) /\ (u = t => r.id # id)}
AllAfter(f, t, id, u) == {After(t, id, u, r) : r \in Left(f, t, id, u)}

LEMMA AfterIs ==
  ASSUME NEW t, NEW id, NEW u, NEW r, RowOf(u, r)
  PROVE  /\ RowOf(u, After(t, id, u, r))
         /\ \A c \in Columns[u] : Forgets(t, id, u, r, c) => After(t, id, u, r)[c] = NULL
         /\ \A c \in Columns[u] : After(t, id, u, r)[c] # NULL => After(t, id, u, r)[c] = r[c]
         /\ u \in {"devices", "schedules", "proxy_groups", "proxy_servers"} => After(t, id, u, r) = r
<1> DEFINE a == After(t, id, u, r)
<1>1. DOMAIN r = Columns[u] /\ r = [c \in Columns[u] |-> r[c]]
  BY DEF RowOf
<1>2. a = [c \in Columns[u] |-> IF Forgets(t, id, u, r, c) THEN NULL ELSE r[c]]
  BY <1>1 DEF After
<1> HIDE DEF a
<1>3. \A c : Forgets(t, id, u, r, c) => u = "rules" /\ c = "schedule"
  BY ReferenceFacts DEF Forgets
<1>4. DOMAIN a = Columns[u] /\ a = [c \in DOMAIN a |-> a[c]]
  BY <1>2
<1>5. \A c \in Columns[u] :
        /\ Forgets(t, id, u, r, c) => a[c] = NULL
        /\ ~Forgets(t, id, u, r, c) => a[c] = r[c]
  BY <1>2
<1>6. \A c \in DOMAIN a : a[c] = NULL => <<u, c>> \in Optional
  BY <1>1, <1>3, <1>4, <1>5 DEF RowOf, Optional
<1>7. RowOf(u, a)
  BY <1>4, <1>6 DEF RowOf
<1>8. u \in {"devices", "schedules", "proxy_groups", "proxy_servers"} => a = r
  <2> SUFFICES ASSUME u \in {"devices", "schedules", "proxy_groups", "proxy_servers"}
               PROVE  a = r
    OBVIOUS
  <2>1. \A c \in Columns[u] : a[c] = r[c]
    BY <1>3, <1>5
  <2> QED
    BY <1>1, <1>2, <1>4, <2>1
<1> QED
  BY <1>5, <1>7, <1>8 DEF a

LEMMA AfterAlike ==
  ASSUME NEW t, NEW id, NEW u \in Tables, NEW o, NEW r, RowOf(u, o), RowOf(u, r),
         Alike(u, After(t, id, u, o), After(t, id, u, r))
  PROVE  Alike(u, o, r)
<1>1. PICK key \in Keys :
        /\ key.of = u
        /\ \A c \in key.columns : /\ After(t, id, u, o)[c] # NULL
                                  /\ After(t, id, u, o)[c] = After(t, id, u, r)[c]
  BY DEF Alike
<1>2. key.columns \subseteq Columns[u]
  BY <1>1, ReferenceFacts
<1>3. \A c \in key.columns : o[c] # NULL /\ o[c] = r[c]
  <2> SUFFICES ASSUME NEW c \in key.columns PROVE o[c] # NULL /\ o[c] = r[c]
    OBVIOUS
  <2>1. c \in Columns[u] /\ After(t, id, u, o)[c] # NULL
        /\ After(t, id, u, o)[c] = After(t, id, u, r)[c]
    BY <1>1, <1>2
  <2>2. After(t, id, u, o)[c] = o[c]
    BY <2>1, AfterIs
  <2>3. After(t, id, u, r)[c] = r[c]
    BY <2>1, AfterIs
  <2> QED
    BY <2>1, <2>2, <2>3
<1> QED
  BY <1>1, <1>3 DEF Alike

LEMMA DeletedIs ==
  ASSUME NEW f, IsFile(f), NEW t, NEW id, NEW g, g = Deleted(f, t, id)
  PROVE  /\ IsFile(g) /\ Same(f, g)
         /\ \A u \in Tables : g.rows[u] = AllAfter(f, t, id, u)
<1> DEFINE R == [u \in Tables |-> AllAfter(f, t, id, u)]
<1>1. g = [f EXCEPT !.rows = R]
  BY DEF Deleted, AllAfter, After, Left
<1> HIDE DEF R
<1>2. f = [tables |-> f.tables, versions |-> f.versions, rows |-> f.rows, last |-> f.last]
      /\ f.last = [u \in Numbered |-> f.last[u]] /\ \A u \in Numbered : f.last[u] \in Nat
  BY DEF IsFile
<1>3. g = [tables |-> f.tables, versions |-> f.versions, rows |-> R, last |-> f.last]
  BY <1>1, <1>2
<1>4. \A u \in Tables : IsFiniteSet(AllAfter(f, t, id, u))
  <2> TAKE u \in Tables
  <2>1. IsFiniteSet(f.rows[u])
    BY DEF IsFile
  <2>2. IsFiniteSet(Left(f, t, id, u))
    BY <2>1, FS_Subset DEF Left
  <2>3. [r \in Left(f, t, id, u) |-> After(t, id, u, r)]
          \in Surjection(Left(f, t, id, u), AllAfter(f, t, id, u))
    BY DEF Surjection, AllAfter
  <2> QED
    BY <2>2, <2>3, FS_Surjection DEF ExistsSurjection
<1>5. /\ g.rows = [u \in Tables |-> g.rows[u]]
      /\ \A u \in Tables : g.rows[u] = AllAfter(f, t, id, u)
  BY <1>3 DEF R
<1>6. /\ g.tables = f.tables /\ g.versions = f.versions /\ g.last = f.last
      /\ g = [tables |-> g.tables, versions |-> g.versions, rows |-> g.rows, last |-> g.last]
  BY <1>3
<1>7. IsFile(g)
  BY <1>2, <1>4, <1>5, <1>6 DEF IsFile
<1> QED
  BY <1>5, <1>6, <1>7 DEF Same

LEMMA DeletedFine ==
  ASSUME NEW f, NEW L, Fine(f, L), NEW t \in Tables, NEW id, NEW g, g = Deleted(f, t, id)
  PROVE  Fine(g, L) /\ Same(f, g)
<1>1. /\ IsFile(g) /\ Same(f, g)
      /\ \A u \in Tables : g.rows[u] = AllAfter(f, t, id, u)
  BY DeletedIs DEF Fine
<1>2. \A x \in References : \A n \in Ids(f.rows[x.to]) :
        n \in Ids(g.rows[x.to]) \/ (x.to = t /\ n = id)
  <2> SUFFICES ASSUME NEW x \in References, NEW o \in f.rows[x.to], ~(x.to = t /\ o.id = id)
               PROVE  o.id \in Ids(g.rows[x.to])
    BY DEF Ids
  <2>1. x.to \in Tables /\ x.to \in {"devices", "schedules", "proxy_groups", "proxy_servers"}
    BY ReferenceFacts
  <2>2. ~Follows(t, id, x.to, o)
    BY <2>1, ReferenceFacts DEF Follows
  <2>3. After(t, id, x.to, o) = o
    BY <2>1, AfterIs DEF Fine, Kept
  <2>4. o \in AllAfter(f, t, id, x.to)
    BY <2>2, <2>3 DEF AllAfter, Left
  <2> QED
    BY <1>1, <2>1, <2>4 DEF Ids
<1>3. ASSUME NEW u \in Tables, NEW r \in Left(f, t, id, u)
      PROVE  Points(g, u, After(t, id, u, r), L)
  <2> SUFFICES ASSUME NEW x \in References, x.from = u, After(t, id, u, r)[x.column] # NULL
               PROVE  \/ After(t, id, u, r)[x.column] \in Ids(g.rows[x.to])
                      \/ x.to = "devices" /\ After(t, id, u, r)[x.column] \in L
    BY DEF Points
  <2>1. r \in f.rows[u] /\ RowOf(u, r) /\ Points(f, u, r, L) /\ ~Follows(t, id, u, r)
    BY DEF Left, Fine, Kept
  <2>2. x.column \in Columns[u]
    BY ReferenceFacts
  <2>3. After(t, id, u, r)[x.column] = r[x.column] /\ ~Forgets(t, id, u, r, x.column)
    BY <2>1, <2>2, AfterIs
  <2>4. ~(x.to = t /\ r[x.column] = id)
    BY <2>1, <2>3 DEF Follows, Forgets
  <2>5. r[x.column] \in Ids(f.rows[x.to]) \/ (x.to = "devices" /\ r[x.column] \in L)
    BY <2>1, <2>3 DEF Points
  <2> QED
    BY <1>2, <2>3, <2>4, <2>5
<1>4. ASSUME NEW u \in Tables, NEW q \in g.rows[u]
      PROVE  RowOf(u, q) /\ Points(g, u, q, L) /\ \A o \in g.rows[u] : Alike(u, o, q) => o = q
  <2>1. \A p \in g.rows[u] : \E r \in Left(f, t, id, u) : p = After(t, id, u, r)
    BY <1>1 DEF AllAfter
  <2>2. PICK r \in Left(f, t, id, u) : q = After(t, id, u, r)
    BY <2>1
  <2>3. r \in f.rows[u] /\ RowOf(u, r)
    BY DEF Left, Fine, Kept
  <2>4. ASSUME NEW o \in g.rows[u], Alike(u, o, q)
        PROVE  o = q
    <3>1. PICK p \in Left(f, t, id, u) : o = After(t, id, u, p)
      BY <2>1
    <3>2. p \in f.rows[u] /\ RowOf(u, p)
      BY DEF Left, Fine, Kept
    <3>3. Alike(u, p, r)
      BY <2>2, <2>3, <2>4, <3>1, <3>2, AfterAlike
    <3>4. p = r
      BY <2>3, <3>2, <3>3 DEF Fine, Kept
    <3> QED
      BY <2>2, <3>1, <3>4
  <2> QED
    BY <1>3, <2>2, <2>3, <2>4, AfterIs
<1> QED
  BY <1>1, <1>4 DEF Fine, Kept

-----------------------------------------------------------------------------
(***************************************************************************)
(* The operations of ConfigStore.                                          *)
(***************************************************************************)
LEMMA RowsAre ==
  /\ \A d, ip : d # NULL => RowOf("devices", [id |-> d, ip |-> ip])
  /\ \A t \in {"schedules", "proxy_servers", "proxy_groups"} : \A id, name :
       id # NULL /\ name # NULL => RowOf(t, [id |-> id, name |-> name])
  /\ \A d, s : d # NULL /\ s # NULL => RowOf("device_schedules", [device |-> d, schedule |-> s])
  /\ \A g, p, n : g # NULL /\ p # NULL /\ n # NULL =>
       RowOf("proxy_group_members", [group |-> g, proxy |-> p, priority |-> n])
  /\ \A id, n, s : id # NULL /\ n # NULL =>
       RowOf("rules", [id |-> id, priority |-> n, schedule |-> s])
  /\ \A k, v : k # NULL /\ v # NULL => RowOf("global_config", [key |-> k, value |-> v])
  /\ \A d, c, m : d # NULL /\ c # NULL /\ m # NULL =>
       RowOf("device_blocklists", [device |-> d, category |-> c, mode |-> m])
  /\ \A id, d, c : id # NULL /\ d # NULL /\ c # NULL =>
       RowOf("grants", [id |-> id, device |-> d, category |-> c])
<1>1. \A d, ip : d # NULL => RowOf("devices", [id |-> d, ip |-> ip])
  BY DEF RowOf, Columns, Optional
<1>2. \A t \in {"schedules", "proxy_servers", "proxy_groups"} : \A id, name :
       id # NULL /\ name # NULL => RowOf(t, [id |-> id, name |-> name])
  BY DEF RowOf, Columns, Optional
<1>3. \A d, s : d # NULL /\ s # NULL => RowOf("device_schedules", [device |-> d, schedule |-> s])
  BY DEF RowOf, Columns, Optional
<1>4. \A g, p, n : g # NULL /\ p # NULL /\ n # NULL =>
       RowOf("proxy_group_members", [group |-> g, proxy |-> p, priority |-> n])
  BY DEF RowOf, Columns, Optional
<1>5. \A id, n, s : id # NULL /\ n # NULL =>
       RowOf("rules", [id |-> id, priority |-> n, schedule |-> s])
  BY DEF RowOf, Columns, Optional
<1>6. \A k, v : k # NULL /\ v # NULL => RowOf("global_config", [key |-> k, value |-> v])
  BY DEF RowOf, Columns, Optional
<1>7. \A d, c, m : d # NULL /\ c # NULL /\ m # NULL =>
       RowOf("device_blocklists", [device |-> d, category |-> c, mode |-> m])
  BY DEF RowOf, Columns, Optional
<1>8. \A id, d, c : id # NULL /\ d # NULL /\ c # NULL =>
       RowOf("grants", [id |-> id, device |-> d, category |-> c])
  BY DEF RowOf, Columns, Optional
<1> QED
  BY <1>1, <1>2, <1>3, <1>4, <1>5, <1>6, <1>7, <1>8

LEMMA TableNames ==
  /\ {"devices", "schedules", "device_schedules", "proxy_servers", "proxy_groups",
      "proxy_group_members", "rules", "global_config", "device_blocklists", "grants"} 
       \subseteq Tables
  /\ {"devices", "device_schedules", "proxy_group_members", "global_config",
      "device_blocklists"} \intersect Numbered = {}
  /\ \A x \in References : x.to \notin {"device_schedules", "proxy_group_members",
                                        "global_config", "device_blocklists", "grants", "rules"}
BY DEF Tables, Numbered, References

LEMMA Named ==
  /\ \A x \in Devices \union Categories \union Modes \union Names \union Nat : x # NULL
  /\ "granularity" # NULL /\ Priorities \subseteq Nat
BY ConstantFacts

LEMMA NextIdIs ==
  ASSUME NEW f, IsFile(f), NEW t \in Numbered
  PROVE  NextId(f, t) \in Nat /\ NextId(f, t) # NULL
<1>1. NextId(f, t) \in Nat
  BY DEF NextId, IsFile
<1> QED
  BY <1>1, Named

LEMMA InsertDeviceFine ==
  ASSUME NEW f, NEW L, Fine(f, L), NEW d \in Devices, NEW ip, NEW g \in InsertDevice(f, d, ip)
  PROVE  /\ Fine(g, L) /\ Same(f, g)
         /\ g.rows["devices"] = f.rows["devices"] \union {[id |-> d, ip |-> ip]}
         /\ \A u \in Tables \ {"devices"} : g.rows[u] = f.rows[u]
<1>1. RowOf("devices", [id |-> d, ip |-> ip])
  BY RowsAre, Named
<1>2. "devices" \in Tables /\ "devices" \notin Numbered
  BY TableNames
<1> QED
  BY <1>1, <1>2, InsertFine DEF InsertDevice

LEMMA AddDeviceBlocklistFine ==
  ASSUME NEW f, NEW L, Fine(f, L), NEW d \in Devices, NEW c \in Categories, NEW m \in Modes,
         NEW g \in AddDeviceBlocklist(f, d, c, m)
  PROVE  /\ Fine(g, L) /\ Same(f, g)
         /\ LET row == [device |-> d, category |-> c, mode |-> m]
            IN  g.rows["device_blocklists"] =
                  (f.rows["device_blocklists"] \ Clashes(f, "device_blocklists", row)) \union {row}
         /\ \A u \in Tables \ {"device_blocklists"} : g.rows[u] = f.rows[u]
<1> DEFINE row == [device |-> d, category |-> c, mode |-> m]
<1>1. RowOf("device_blocklists", row)
  BY RowsAre, Named
<1>2. Resolved(f, "device_blocklists", row) /\ g = Replaced(f, "device_blocklists", row)
  BY DEF AddDeviceBlocklist, Unless
<1>3. "device_blocklists" \in Tables /\ \A x \in References : x.to # "device_blocklists"
  BY TableNames
<1> QED
  BY <1>1, <1>2, <1>3, ReplacedFine

(* UPDATE of a device: its row goes, and comes back under the same id. *)
LEMMA UpdateDeviceFine ==
  ASSUME NEW f, NEW L, Fine(f, L), NEW d \in Devices, NEW ip, NEW g \in UpdateDevice(f, d, ip)
  PROVE  Fine(g, L) /\ Same(f, g)
<1>1. CASE GetDevice(f, d) = {}
  BY <1>1 DEF UpdateDevice, Same
<1>2. CASE GetDevice(f, d) # {}
  <2> DEFINE R == f.rows["devices"] \ GetDevice(f, d)
             others == With(f, "devices", R)
  <2>1. g \in InsertDevice(others, d, ip)
    BY <1>2 DEF UpdateDevice, With
  <2>2. /\ R \in SUBSET f.rows["devices"] /\ L \subseteq L \union {d} /\ "devices" \in Tables
        /\ \A r \in f.rows["devices"] \ R : r.id \in L \union {d}
        /\ \A x \in References : x.to = "devices" =>
             "devices" = "devices" /\ \A r \in f.rows["devices"] \ R : r.id \in L \union {d}
    BY TableNames DEF GetDevice, Get
  <2> HIDE DEF R
  <2>3. Fine(others, L \union {d}) /\ Same(f, others)
    BY <2>2, RemovedFine
  <2> HIDE DEF others
  <2>4. /\ Fine(g, L \union {d}) /\ Same(others, g)
        /\ g.rows["devices"] = others.rows["devices"] \union {[id |-> d, ip |-> ip]}
    BY <2>1, <2>3, InsertDeviceFine
  <2>5. d \in Ids(g.rows["devices"])
    BY <2>4 DEF Ids
  <2>6. Fine(g, L)
    BY <2>4, <2>5, Tightened
  <2> QED
    BY <2>3, <2>4, <2>6 DEF Same
<1> QED
  BY <1>1, <1>2

EditsKept == Fine(file', loose) /\ Same(file, file')

LEMMA EditDevicesKeeps ==
  ASSUME Fine(file, loose), EditDevices
  PROVE  EditsKept
<1>1. CASE \E d \in Devices, ip \in Addresses \union {NULL} :
             file' \in InsertDevice(file, d, ip) \union UpdateDevice(file, d, ip)
  BY <1>1, InsertDeviceFine, UpdateDeviceFine DEF EditsKept
<1>2. CASE \E d \in Devices : file' \in DeleteDevice(file, d)
  BY <1>2, DeletedFine, TableNames DEF EditsKept, DeleteDevice
<1>3. CASE \E d \in Devices, c \in Categories, m \in Modes :
             file' \in AddDeviceBlocklist(file, d, c, m)
  BY <1>3, AddDeviceBlocklistFine DEF EditsKept
<1>4. CASE \E d \in Devices, c \in Categories : file' \in InsertGrant(file, d, c)
  <2>1. PICK d \in Devices, c \in Categories : file' \in InsertGrant(file, d, c)
    BY <1>4
  <2> DEFINE row == [id |-> NextId(file, "grants"), device |-> d, category |-> c]
  <2>2. "grants" \in Tables /\ "grants" \in Numbered
    BY DEF Tables, Numbered
  <2>3. row.id \in Nat /\ row.id # NULL
    BY <2>2, NextIdIs DEF Fine
  <2>4. RowOf("grants", row)
    BY <2>3, RowsAre, Named
  <2>5. file' \in Insert(file, "grants", row)
    BY <2>1 DEF InsertGrant
  <2> HIDE DEF row
  <2> QED
    BY <2>2, <2>3, <2>4, <2>5, InsertFine DEF EditsKept
<1> QED
  BY <1>1, <1>2, <1>3, <1>4 DEF EditDevices

LEMMA InsertNamedFine ==
  ASSUME NEW f, NEW L, Fine(f, L), NEW t \in {"schedules", "proxy_servers", "proxy_groups"},
         NEW n \in Names, NEW g \in Insert(f, t, [id |-> NextId(f, t), name |-> n])
  PROVE  Fine(g, L) /\ Same(f, g)
<1> DEFINE row == [id |-> NextId(f, t), name |-> n]
<1>1. t \in Tables /\ t \in Numbered
  BY DEF Tables, Numbered
<1>2. row.id \in Nat /\ row.id # NULL
  BY <1>1, NextIdIs DEF Fine
<1>3. RowOf(t, row)
  BY <1>2, RowsAre, Named
<1> HIDE DEF row
<1>4. g \in Insert(f, t, row)
  BY DEF row
<1> QED
  BY <1>1, <1>2, <1>3, <1>4, InsertFine

LEMMA RemoveFine ==
  ASSUME NEW f, NEW L, Fine(f, L),
         NEW t \in {"device_schedules", "proxy_group_members", "global_config"},
         NEW R \in SUBSET f.rows[t], NEW g, g = [f EXCEPT !.rows[t] = R]
  PROVE  Fine(g, L) /\ Same(f, g)
<1>1. g = With(f, t, R) /\ t \in Tables
  BY TableNames DEF With
<1>2. \A x \in References :
        x.to = t => t = "devices" /\ \A r \in f.rows[t] \ R : r.id \in L
  BY TableNames
<1> QED
  BY <1>1, <1>2, RemovedFine

LEMMA IdsAre ==
  ASSUME NEW f, NEW L, Fine(f, L),
         NEW t \in {"schedules", "proxy_servers", "proxy_groups", "rules"}, NEW id \in Ids(f.rows[t])
  PROVE  id # NULL
<1>1. t \in Tables /\ "id" \in Columns[t] /\ <<t, "id">> \notin Optional
  BY TableNames DEF Columns, Optional
<1>2. PICK r \in f.rows[t] : id = r.id
  BY DEF Ids
<1>3. RowOf(t, r)
  BY <1>1 DEF Fine, Kept
<1>4. r["id"] # NULL
  BY <1>1, <1>3 DEF RowOf
<1> QED
  BY <1>2, <1>4

LEMMA EditSchedulesKeeps ==
  ASSUME Fine(file, loose), EditSchedules
  PROVE  EditsKept
<1>1. CASE \E n \in Names : file' \in InsertSchedule(file, n)
  BY <1>1, InsertNamedFine DEF EditsKept, InsertSchedule
<1>2. CASE \E s \in Ids(ListSchedules(file)) : file' \in DeleteSchedule(file, s)
  BY <1>2, DeletedFine, TableNames DEF EditsKept, DeleteSchedule
<1>3. CASE \E d \in Devices, s \in Ids(ListSchedules(file)) :
             file' \in AddDeviceSchedule(file, d, s) \union RemoveDeviceSchedule(file, d, s)
  <2>1. PICK d \in Devices, s \in Ids(ListSchedules(file)) :
               file' \in AddDeviceSchedule(file, d, s) \union RemoveDeviceSchedule(file, d, s)
    BY <1>3
  <2> DEFINE row == [device |-> d, schedule |-> s]
  <2>2. RowOf("device_schedules", row)
    BY IdsAre, RowsAre, Named DEF ListSchedules
  <2>3. CASE file' \in AddDeviceSchedule(file, d, s)
    <3>1. Resolved(file, "device_schedules", row) /\ file' = Replaced(file, "device_schedules", row)
      BY <2>3 DEF AddDeviceSchedule, Unless
    <3> HIDE DEF row
    <3> QED
      BY <2>2, <3>1, ReplacedFine, TableNames DEF EditsKept
  <2>4. CASE file' \in RemoveDeviceSchedule(file, d, s)
    <3>1. file' = [file EXCEPT !.rows["device_schedules"] =
                                  file.rows["device_schedules"] \ {row}]
      BY <2>4 DEF RemoveDeviceSchedule
    <3> QED
      BY <3>1, RemoveFine DEF EditsKept
  <2> QED
    BY <2>1, <2>3, <2>4
<1>4. CASE \E p \in Priorities, s \in Ids(ListSchedules(file)) \union {NULL} :
             file' \in InsertRule(file, p, s)
  <2>1. PICK p \in Priorities, s \in Ids(ListSchedules(file)) \union {NULL} :
               file' \in InsertRule(file, p, s)
    BY <1>4
  <2> DEFINE row == [id |-> NextId(file, "rules"), priority |-> p, schedule |-> s]
  <2>2. "rules" \in Tables /\ "rules" \in Numbered
    BY DEF Tables, Numbered
  <2>3. row.id \in Nat /\ row.id # NULL /\ p # NULL
    BY <2>2, NextIdIs, Named DEF Fine
  <2>4. RowOf("rules", row)
    BY <2>3, RowsAre
  <2>5. file' \in Insert(file, "rules", row)
    BY <2>1 DEF InsertRule
  <2> HIDE DEF row
  <2> QED
    BY <2>2, <2>3, <2>4, <2>5, InsertFine DEF EditsKept
<1>5. CASE \E r \in Ids(ListRules(file)) : file' \in DeleteRule(file, r)
  BY <1>5, DeletedFine, TableNames DEF EditsKept, DeleteRule
<1> QED
  BY <1>1, <1>2, <1>3, <1>4, <1>5 DEF EditSchedules

LEMMA EditProxiesKeeps ==
  ASSUME Fine(file, loose), EditProxies
  PROVE  EditsKept
<1>1. CASE \E n \in Names : file' \in InsertProxyServer(file, n) \union InsertProxyGroup(file, n)
  BY <1>1, InsertNamedFine DEF EditsKept, InsertProxyServer, InsertProxyGroup
<1>2. CASE \E p \in Ids(ListProxyServers(file)) : file' \in DeleteProxyServer(file, p)
  BY <1>2, DeletedFine, TableNames DEF EditsKept, DeleteProxyServer
<1>3. CASE \E g \in Ids(ListProxyGroups(file)), p \in Ids(ListProxyServers(file)), n \in Priorities :
             file' \in AddGroupMember(file, g, p, n) \union RemoveGroupMember(file, g, p)
  <2>1. PICK g \in Ids(ListProxyGroups(file)), p \in Ids(ListProxyServers(file)), n \in Priorities :
               file' \in AddGroupMember(file, g, p, n) \union RemoveGroupMember(file, g, p)
    BY <1>3
  <2> DEFINE row == [group |-> g, proxy |-> p, priority |-> n]
  <2>2. RowOf("proxy_group_members", row)
    <3>1. g # NULL /\ p # NULL /\ n # NULL
      BY IdsAre, Named DEF ListProxyGroups, ListProxyServers
    <3> QED
      BY <3>1, RowsAre
  <2>3. CASE file' \in AddGroupMember(file, g, p, n)
    <3>1. /\ Resolved(file, "proxy_group_members", row)
          /\ file' = Replaced(file, "proxy_group_members", row)
      BY <2>3 DEF AddGroupMember, Unless
    <3> HIDE DEF row
    <3> QED
      BY <2>2, <3>1, ReplacedFine, TableNames DEF EditsKept
  <2>4. CASE file' \in RemoveGroupMember(file, g, p)
    <3>1. file' = [file EXCEPT !.rows["proxy_group_members"] =
                     {r \in file.rows["proxy_group_members"] : ~(r.group = g /\ r.proxy = p)}]
      BY <2>4 DEF RemoveGroupMember
    <3> QED
      BY <3>1, RemoveFine DEF EditsKept
  <2> QED
    BY <2>1, <2>3, <2>4
<1> QED
  BY <1>1, <1>2, <1>3 DEF EditProxies

LEMMA EditConfigKeeps ==
  ASSUME Fine(file, loose), EditConfig
  PROVE  EditsKept
<1>1. CASE \E v \in Names : file' \in SetConfig(file, "granularity", v)
  <2>1. PICK v \in Names : file' \in SetConfig(file, "granularity", v)
    BY <1>1
  <2> DEFINE row == [key |-> "granularity", value |-> v]
  <2>2. RowOf("global_config", row)
    BY RowsAre, Named
  <2>3. Resolved(file, "global_config", row)
    BY DEF Resolved, References
  <2>4. file' = Replaced(file, "global_config", row)
    BY <2>1 DEF SetConfig
  <2> HIDE DEF row
  <2> QED
    BY <2>2, <2>3, <2>4, ReplacedFine, TableNames DEF EditsKept
<1>2. CASE file' \in DeleteConfig(file, "granularity")
  <2>1. file' = [file EXCEPT !.rows["global_config"] =
                   {r \in file.rows["global_config"] : r.key # "granularity"}]
    BY <1>2 DEF DeleteConfig
  <2> QED
    BY <2>1, RemoveFine DEF EditsKept
<1> QED
  BY <1>1, <1>2 DEF EditConfig

-----------------------------------------------------------------------------
(***************************************************************************)
(* The invariant.  A transaction has made of the file what its statements  *)
(* so far make of the file that is committed, and that file cannot change  *)
(* under it; a process that is past the migrations has seen version 2.     *)
(***************************************************************************)
Places == {"down", "version", "migrate", "list", "seed", "bind", "up"}
BindingRow == [device : Devices, category : Categories, mode : Modes]

Types ==
  /\ toml \in Tomls /\ lock \in Instances \union {Nobody} /\ loose \in SUBSET Devices
  /\ pc \in [Instances -> Places]
  /\ migration \in [Instances -> {1, 2}] /\ step \in [Instances -> Nat]
  /\ todo \in [Instances -> SUBSET DOMAIN toml]
  /\ bindings \in [Instances -> Seq(BindingRow)]

\* Process i at p, in statement s of migration m, while l has the lock and v is
\* the version of the file.
At(i, p, m, s, l, v) ==
  /\ s \in 1 .. Len(Migrations[m]) + 1
  /\ (s > 1) <=> (l = i)
  /\ l = i => p = "migrate" /\ m = v + 1
  /\ p = "migrate" => m <= v + 1
  /\ p \in {"list", "seed", "bind", "up"} => v = 2

ProcessInv ==
  \A i \in Instances :
    /\ At(i, pc[i], migration[i], step[i], lock, Version(file))
    /\ bindings[i] # <<>> => pc[i] = "seed"

DraftInv == lock # Nobody => draft = Partly(file, migration[lock], step[lock])

StorageInv == Types /\ ProcessInv /\ DraftInv /\ FileInv(file) /\ Kept(file, loose)

Elsewhere(i) ==
  \A j \in Instances \ {i} :
    pc'[j] = pc[j] /\ migration'[j] = migration[j] /\ step'[j] = step[j] /\ bindings'[j] = bindings[j]

LEMMA VersionType ==
  ASSUME NEW f, FileInv(f)
  PROVE  Version(f) \in {0, 1, 2}
<1>1. f.versions = {} \/ f.versions = {1} \/ f.versions = {1, 2}
  BY DEF FileInv, Versions
<1>2. f.versions \in Versions
  BY DEF FileInv
<1> QED
  BY <1>1, <1>2, VersionIs

LEMMA ProcessKept ==
  ASSUME StorageInv, NEW i \in Instances, Elsewhere(i), FileInv(file'),
         lock' = lock \/ (lock \in {i, Nobody} /\ lock' \in {i, Nobody}),
         Version(file') = Version(file) \/ (Version(file) < Version(file') /\ lock = i),
         At(i, pc'[i], migration'[i], step'[i], lock', Version(file')),
         bindings'[i] # <<>> => pc'[i] = "seed"
  PROVE  ProcessInv'
<1>1. Version(file) \in {0, 1, 2} /\ Version(file') \in {0, 1, 2}
  BY VersionType DEF StorageInv
<1>2. ASSUME NEW j \in Instances, j # i
      PROVE  /\ At(j, pc'[j], migration'[j], step'[j], lock', Version(file'))
             /\ bindings'[j] # <<>> => pc'[j] = "seed"
  <2>1. /\ At(j, pc[j], migration[j], step[j], lock, Version(file))
        /\ bindings[j] # <<>> => pc[j] = "seed"
    BY DEF StorageInv, ProcessInv
  <2>2. migration[j] \in {1, 2} /\ step[j] \in Nat /\ j # Nobody
    BY ConstantFacts DEF StorageInv, Types
  <2>3. At(j, pc[j], migration[j], step[j], lock', Version(file'))
    <3> DEFINE v == Version(file)
               w == Version(file')
               l == lock'
    <3>1. /\ v \in {0, 1, 2} /\ w \in {0, 1, 2}
          /\ l = lock \/ (lock \in {i, Nobody} /\ l \in {i, Nobody})
          /\ w = v \/ (v < w /\ lock = i)
          /\ At(j, pc[j], migration[j], step[j], lock, v)
      BY <1>1, <2>1
    <3> HIDE DEF v, w, l
    <3>2. At(j, pc[j], migration[j], step[j], l, w)
      BY <1>2, <2>2, <3>1 DEF At
    <3> QED
      BY <3>2 DEF w, l
  <2> QED
    BY <1>2, <2>1, <2>3 DEF Elsewhere
<1> QED
  BY <1>2 DEF ProcessInv

LEMMA EndKeeps ==
  ASSUME StorageInv, NEW i \in Instances, End(i)
  PROVE  StorageInv'
<1>1. /\ pc' = [pc EXCEPT ![i] = "down"] /\ migration' = [migration EXCEPT ![i] = 1]
      /\ step' = [step EXCEPT ![i] = 1] /\ todo' = [todo EXCEPT ![i] = {}]
      /\ bindings' = [bindings EXCEPT ![i] = <<>>]
      /\ lock' = (IF lock = i THEN Nobody ELSE lock)
      /\ toml' = toml /\ file' = file /\ loose' = loose
      /\ draft' = IF lock = i THEN file ELSE draft
  BY DEF End, Goto, Enter
<1>2. Types'
  <2>1. <<>> \in Seq(BindingRow)
    OBVIOUS
  <2> QED
    BY <1>1, <2>1 DEF StorageInv, Types, Places
<1>3. /\ pc'[i] = "down" /\ migration'[i] = 1 /\ step'[i] = 1 /\ bindings'[i] = <<>>
      /\ Elsewhere(i)
  BY <1>1 DEF StorageInv, Types, Elsewhere
<1>4. At(i, pc'[i], migration'[i], step'[i], lock', Version(file'))
  <2>1. lock' # i
    BY <1>1, ConstantFacts
  <2>2. 1 \in 1 .. Len(Migrations[1]) + 1
    BY MigrationFacts
  <2> QED
    BY <1>3, <2>1, <2>2 DEF At
<1>5. ProcessInv'
  <2>1. FileInv(file') /\ Version(file') = Version(file)
    BY <1>1 DEF StorageInv
  <2>2. lock' = lock \/ (lock \in {i, Nobody} /\ lock' \in {i, Nobody})
    BY <1>1
  <2> QED
    BY <1>3, <1>4, <2>1, <2>2, ProcessKept
<1>6. DraftInv'
  <2> SUFFICES ASSUME lock' # Nobody PROVE draft' = Partly(file', migration'[lock'], step'[lock'])
    BY DEF DraftInv
  <2>1. lock' = lock /\ lock # i /\ lock \in Instances \ {i} /\ draft' = draft
    BY <1>1 DEF StorageInv, Types
  <2>2. migration'[lock] = migration[lock] /\ step'[lock] = step[lock]
    BY <1>3, <2>1 DEF Elsewhere
  <2> QED
    BY <1>1, <2>1, <2>2 DEF StorageInv, DraftInv
<1> QED
  BY <1>1, <1>2, <1>5, <1>6 DEF StorageInv

(* A step of a process that is in no transaction and begins none, and that *)
(* leaves the file as it is.                                               *)
LEMMA MoveKeeps ==
  ASSUME StorageInv, NEW i \in Instances, Elsewhere(i), Types',
         file' = file, lock' = lock, draft' = draft, loose' = loose, lock # i,
         At(i, pc'[i], migration'[i], step'[i], lock, Version(file)),
         bindings'[i] # <<>> => pc'[i] = "seed"
  PROVE  StorageInv'
<1>1. ProcessInv'
  <2>1. FileInv(file') /\ Version(file') = Version(file)
    BY DEF StorageInv
  <2> QED
    BY <2>1, ProcessKept
<1>2. DraftInv'
  <2> SUFFICES ASSUME lock # Nobody PROVE draft = Partly(file, migration'[lock], step'[lock])
    BY DEF DraftInv
  <2>1. lock \in Instances \ {i}
    BY DEF StorageInv, Types
  <2>2. migration'[lock] = migration[lock] /\ step'[lock] = step[lock]
    BY <2>1 DEF Elsewhere
  <2> QED
    BY <2>2 DEF StorageInv, DraftInv
<1> QED
  BY <1>1, <1>2 DEF StorageInv

LEMMA StartKeeps ==
  ASSUME StorageInv, NEW i \in Instances, Start(i)
  PROVE  StorageInv'
<1>1. /\ pc[i] = "down" /\ pc' = [pc EXCEPT ![i] = "version"]
      /\ UNCHANGED <<toml, file, lock, draft, migration, step, todo, bindings, loose>>
  BY DEF Start, Goto
<1>2. Types' /\ Elsewhere(i) /\ pc'[i] = "version"
  BY <1>1 DEF StorageInv, Types, Places, Elsewhere
<1>3. /\ At(i, pc[i], migration[i], step[i], lock, Version(file))
      /\ bindings[i] # <<>> => pc[i] = "seed"
  BY DEF StorageInv, ProcessInv
<1>4. lock # i /\ At(i, pc'[i], migration'[i], step'[i], lock, Version(file)) /\ bindings'[i] = <<>>
  BY <1>1, <1>2, <1>3 DEF At
<1> QED
  BY <1>1, <1>2, <1>4, MoveKeeps

LEMMA ReadVersionKeeps ==
  ASSUME StorageInv, NEW i \in Instances, ReadVersion(i)
  PROVE  StorageInv'
<1>1. PICK version \in {Version(file), 0} :
        IF version < SchemaVersion
        THEN Goto(i, "migrate") /\ Enter(i, version + 1)
        ELSE Goto(i, "list") /\ UNCHANGED <<migration, step>>
  BY DEF ReadVersion
<1>2. pc[i] = "version" /\ UNCHANGED <<toml, file, lock, draft, todo, bindings, loose>>
  BY DEF ReadVersion
<1>3. Version(file) \in {0, 1, 2} /\ version \in {0, 1, 2} /\ version <= Version(file)
  BY VersionType DEF StorageInv
<1>4. /\ At(i, pc[i], migration[i], step[i], lock, Version(file))
      /\ bindings[i] # <<>> => pc[i] = "seed"
  BY DEF StorageInv, ProcessInv
<1>5. lock # i /\ bindings'[i] = <<>>
  BY <1>2, <1>4 DEF At
<1>6. CASE version < SchemaVersion
  <2>1. /\ pc' = [pc EXCEPT ![i] = "migrate"] /\ step' = [step EXCEPT ![i] = 1]
        /\ migration' = [migration EXCEPT ![i] = version + 1] /\ version + 1 \in {1, 2}
    BY <1>1, <1>3, <1>6 DEF Goto, Enter, SchemaVersion
  <2>2. Types' /\ Elsewhere(i)
    BY <1>2, <2>1 DEF StorageInv, Types, Places, Elsewhere
  <2>3. pc'[i] = "migrate" /\ step'[i] = 1 /\ migration'[i] = version + 1
    BY <2>1 DEF StorageInv, Types
  <2>4. 1 \in 1 .. Len(Migrations[version + 1]) + 1
    BY <2>1, MigrationFacts
  <2>5. At(i, pc'[i], migration'[i], step'[i], lock, Version(file))
    BY <1>3, <1>5, <2>3, <2>4 DEF At
  <2> QED
    BY <1>2, <1>5, <2>2, <2>5, MoveKeeps
<1>7. CASE ~(version < SchemaVersion)
  <2>1. pc' = [pc EXCEPT ![i] = "list"] /\ UNCHANGED <<migration, step>> /\ Version(file) = 2
    BY <1>1, <1>3, <1>7 DEF Goto, SchemaVersion
  <2>2. Types' /\ Elsewhere(i) /\ pc'[i] = "list"
    BY <1>2, <2>1 DEF StorageInv, Types, Places, Elsewhere
  <2>3. At(i, pc'[i], migration'[i], step'[i], lock, Version(file))
    BY <1>4, <1>5, <2>1, <2>2 DEF At
  <2> QED
    BY <1>2, <1>5, <2>2, <2>3, MoveKeeps
<1> QED
  BY <1>6, <1>7

(* What process i would find as its draft: nothing yet, or what it has done. *)
LEMMA WorkIs ==
  ASSUME StorageInv, NEW i \in Instances, pc[i] = "migrate", lock \in {i, Nobody}
  PROVE  /\ Work(i) = Partly(file, migration[i], step[i])
         /\ lock = Nobody => step[i] = 1 /\ Work(i) = file
         /\ migration[i] <= Version(file) + 1
         /\ lock = i => migration[i] = Version(file) + 1
<1>1. At(i, pc[i], migration[i], step[i], lock, Version(file)) /\ i # Nobody
  BY ConstantFacts DEF StorageInv, ProcessInv
<1>2. CASE lock = i
  BY <1>1, <1>2 DEF StorageInv, DraftInv, Work, At
<1>3. CASE lock = Nobody
  <2>1. step[i] = 1 /\ Work(i) = file
    BY <1>1, <1>3 DEF Work, At, StorageInv, Types
  <2>2. Partly(file, migration[i], 1) = file
    BY NothingYet DEF StorageInv
  <2> QED
    BY <1>1, <1>3, <2>1, <2>2 DEF At
<1> QED
  BY <1>2, <1>3

LEMMA MigrateKeeps ==
  ASSUME StorageInv, NEW i \in Instances, Migrate(i)
  PROVE  StorageInv'
<1> DEFINE m == migration[i]
           s == step[i]
<1>1. /\ pc[i] = "migrate" /\ lock \in {i, Nobody} /\ s <= Len(Migrations[m])
      /\ ~Refused(Work(i), Migrations[m][s])
      /\ lock' = i /\ draft' = Executed(Work(i), Migrations[m][s], m)
      /\ step' = [step EXCEPT ![i] = s + 1]
      /\ UNCHANGED <<toml, file, pc, migration, todo, bindings, loose>>
  BY DEF Migrate, Statements
<1>2. m \in {1, 2} /\ s \in Nat
  BY DEF StorageInv, Types
<1>3. /\ At(i, pc[i], m, s, lock, Version(file)) /\ (bindings[i] # <<>> => pc[i] = "seed")
  BY DEF StorageInv, ProcessInv
<1>4. Version(file) \in {0, 1, 2} /\ FileInv(file)
  BY VersionType DEF StorageInv
<1>5. /\ Work(i) = Partly(file, m, s)
      /\ lock = Nobody => s = 1 /\ Work(i) = file
      /\ m <= Version(file) + 1
      /\ lock = i => m = Version(file) + 1
  BY <1>1, WorkIs
<1>6. m = Version(file) + 1
  <2> SUFFICES ASSUME m <= Version(file), lock = Nobody PROVE FALSE
    BY <1>1, <1>2, <1>4, <1>5
  <2>1. Refused(file, Migrations[m][1])
    BY <1>2, <1>4, MadeIsRefused
  <2> QED
    BY <1>1, <1>5, <2>1
<1>7. s \in 1 .. Len(Migrations[m])
  BY <1>1, <1>2, <1>3 DEF At
<1>8. draft' = Partly(file, m, s + 1)
  BY <1>1, <1>2, <1>4, <1>5, <1>6, <1>7, ExecutedIs
<1>9. /\ step'[i] = s + 1 /\ \A j \in Instances \ {i} : step'[j] = step[j]
      /\ step' \in [Instances -> Nat]
  BY <1>1, <1>2 DEF StorageInv, Types
<1>10. Types' /\ Elsewhere(i)
  BY <1>1, <1>9 DEF StorageInv, Types, Elsewhere
<1>11. At(i, pc'[i], migration'[i], step'[i], lock', Version(file'))
  <2>1. s + 1 \in 1 .. Len(Migrations[m]) + 1 /\ s + 1 > 1
    <3>1. Len(Migrations[m]) \in Nat
      BY <1>2, MigrationFacts
    <3> QED
      BY <1>7, <3>1
  <2>2. /\ pc'[i] = "migrate" /\ migration'[i] = m /\ step'[i] = s + 1 /\ lock' = i
        /\ Version(file') = Version(file)
    BY <1>1, <1>9
  <2>3. At(i, "migrate", m, s + 1, i, Version(file))
    BY <1>4, <1>6, <2>1 DEF At
  <2> QED
    BY <2>2, <2>3
<1>12. ProcessInv'
  BY <1>1, <1>3, <1>4, <1>10, <1>11, ProcessKept
<1>13. DraftInv'
  BY <1>1, <1>8, <1>9 DEF DraftInv
<1> QED
  BY <1>1, <1>10, <1>12, <1>13 DEF StorageInv

LEMMA CommitIs ==
  ASSUME StorageInv, NEW i \in Instances, pc[i] = "migrate", step[i] > Len(Statements(i))
  PROVE  /\ lock = i /\ FileInv(draft) /\ Version(draft) = migration[i]
         /\ migration[i] = Version(file) + 1 /\ draft.rows = file.rows
<1> DEFINE m == migration[i]
           s == step[i]
<1>1. m \in {1, 2} /\ s \in Nat
  BY DEF StorageInv, Types
<1>2. /\ At(i, pc[i], m, s, lock, Version(file)) /\ i # Nobody
  BY ConstantFacts DEF StorageInv, ProcessInv
<1>3. Len(Migrations[m]) \in Nat \ {0}
  BY <1>1, MigrationFacts
<1>4. s = Len(Migrations[m]) + 1 /\ s > 1
  BY <1>1, <1>2, <1>3 DEF At, Statements
<1>5. lock = i /\ m = Version(file) + 1
  BY <1>2, <1>4 DEF At
<1>6. draft = Partly(file, m, Len(Migrations[m]) + 1)
  BY <1>2, <1>4, <1>5 DEF StorageInv, DraftInv
<1>7. FileInv(file)
  BY DEF StorageInv
<1>8. FileInv(draft) /\ Version(draft) = m /\ draft.rows = file.rows
  BY <1>1, <1>5, <1>6, <1>7, WholeIs
<1> QED
  BY <1>5, <1>8

LEMMA CommitKeeps ==
  ASSUME StorageInv, NEW i \in Instances, Commit(i)
  PROVE  StorageInv'
<1>1. /\ pc[i] = "migrate" /\ step[i] > Len(Statements(i))
      /\ file' = draft /\ lock' = Nobody
      /\ UNCHANGED <<toml, todo, bindings, loose>>
      /\ IF migration[i] < SchemaVersion
         THEN Enter(i, migration[i] + 1) /\ UNCHANGED pc
         ELSE Goto(i, "list") /\ Enter(i, 1)
  BY DEF Commit
<1>2. /\ lock = i /\ FileInv(draft) /\ Version(draft) = migration[i]
      /\ migration[i] = Version(file) + 1 /\ draft.rows = file.rows
  BY <1>1, CommitIs
<1>3. migration[i] \in {1, 2} /\ Version(file) \in {0, 1, 2}
  BY VersionType DEF StorageInv, Types
<1>4. Kept(file', loose')
  BY <1>1, <1>2 DEF StorageInv, Kept, Points
<1>5. bindings[i] # <<>> => pc[i] = "seed"
  BY DEF StorageInv, ProcessInv
<1>6. Types' /\ Elsewhere(i) /\ step'[i] = 1
      /\ \/ migration[i] = 1 /\ migration'[i] = 2 /\ pc'[i] = "migrate"
         \/ migration[i] = 2 /\ migration'[i] = 1 /\ pc'[i] = "list"
  <2>1. CASE migration[i] = 1
    <3>1. /\ migration' = [migration EXCEPT ![i] = 2] /\ step' = [step EXCEPT ![i] = 1]
          /\ pc' = pc
      BY <1>1, <2>1 DEF Enter, SchemaVersion
    <3> QED
      BY <1>1, <2>1, <3>1 DEF StorageInv, Types, Elsewhere
  <2>2. CASE migration[i] = 2
    <3>1. /\ migration' = [migration EXCEPT ![i] = 1] /\ step' = [step EXCEPT ![i] = 1]
          /\ pc' = [pc EXCEPT ![i] = "list"]
      BY <1>1, <2>2 DEF Enter, Goto, SchemaVersion
    <3> QED
      BY <1>1, <2>2, <3>1 DEF StorageInv, Types, Places, Elsewhere
  <2> QED
    BY <1>3, <2>1, <2>2
<1>7. At(i, pc'[i], migration'[i], step'[i], lock', Version(file'))
  <2>1. lock' # i /\ Version(file') = migration[i]
    BY <1>1, <1>2, ConstantFacts
  <2>2. 1 \in 1 .. Len(Migrations[1]) + 1 /\ 1 \in 1 .. Len(Migrations[2]) + 1
    BY MigrationFacts
  <2> QED
    BY <1>6, <2>1, <2>2 DEF At
<1>8. ProcessInv'
  <2>1. FileInv(file') /\ Version(file) < Version(file')
    BY <1>1, <1>2, <1>3
  <2>2. bindings'[i] # <<>> => pc'[i] = "seed"
    BY <1>1, <1>5
  <2> QED
    BY <1>1, <1>2, <1>6, <1>7, <2>1, <2>2, ProcessKept
<1> QED
  BY <1>1, <1>2, <1>4, <1>6, <1>8 DEF StorageInv, DraftInv

-----------------------------------------------------------------------------
(***************************************************************************)
(* The seed.                                                               *)
(***************************************************************************)
LEMMA TomlIs ==
  ASSUME StorageInv, NEW d \in DOMAIN toml
  PROVE  /\ d \in Devices /\ toml[d] \in Sections
         /\ DOMAIN toml \subseteq Devices
BY ConstantFacts DEF StorageInv, Types

(* The rows that a list of categories becomes. *)
Tier(d, categories, mode) ==
  [n \in DOMAIN categories |-> [device |-> d, category |-> categories[n], mode |-> mode]]

LEMMA TierIs ==
  ASSUME NEW d \in Devices, NEW categories \in Seq(Categories), NEW mode \in Modes
  PROVE  /\ Tier(d, categories, mode) \in Seq(BindingRow)
         /\ Len(Tier(d, categories, mode)) = Len(categories)
         /\ \A n \in 1 .. Len(categories) :
              Tier(d, categories, mode)[n]
                = [device |-> d, category |-> categories[n], mode |-> mode]
<1>1. DOMAIN categories = 1 .. Len(categories) /\ Len(categories) \in Nat
      /\ \A n \in 1 .. Len(categories) : categories[n] \in Categories
  OBVIOUS
<1>2. \A n \in 1 .. Len(categories) :
        [device |-> d, category |-> categories[n], mode |-> mode] \in BindingRow
  BY <1>1 DEF BindingRow
<1>3. Tier(d, categories, mode) \in [1 .. Len(categories) -> BindingRow]
  BY <1>1, <1>2 DEF Tier
<1> QED
  BY <1>1, <1>3 DEF Tier

BindingsAre(s, d) ==
  Tier(d, s.hard, "hard") \o Tier(d, s.grantable, "grantable") \o Tier(d, s.extra, "grantable")

LEMMA BindingsType ==
  ASSUME StorageInv, NEW d \in DOMAIN toml
  PROVE  BindingsOf(d) = BindingsAre(toml[d], d) /\ BindingsOf(d) \in Seq(BindingRow)
<1>1. BindingsOf(d) = BindingsAre(toml[d], d)
  BY DEF BindingsOf, BindingsAre, Tier
<1>2. d \in Devices /\ toml[d].hard \in Seq(Categories) /\ toml[d].grantable \in Seq(Categories)
      /\ toml[d].extra \in Seq(Categories) /\ "hard" \in Modes /\ "grantable" \in Modes
  BY TomlIs DEF Sections, Modes
<1>3. BindingsAre(toml[d], d) \in Seq(BindingRow)
  <2>1. /\ Tier(d, toml[d].hard, "hard") \in Seq(BindingRow)
        /\ Tier(d, toml[d].grantable, "grantable") \in Seq(BindingRow)
        /\ Tier(d, toml[d].extra, "grantable") \in Seq(BindingRow)
    BY <1>2, TierIs
  <2> QED
    BY <2>1 DEF BindingsAre
<1> QED
  BY <1>1, <1>3

LEMMA SeedIfEmptyKeeps ==
  ASSUME StorageInv, NEW i \in Instances, SeedIfEmpty(i)
  PROVE  StorageInv'
<1>1. /\ pc[i] = "list"
      /\ UNCHANGED <<toml, file, lock, draft, migration, step, bindings, loose>>
      /\ \/ Goto(i, "seed") /\ todo' = [todo EXCEPT ![i] = DOMAIN toml]
         \/ Goto(i, "bind") /\ UNCHANGED todo
  BY DEF SeedIfEmpty
<1>2. /\ At(i, pc[i], migration[i], step[i], lock, Version(file))
      /\ bindings[i] # <<>> => pc[i] = "seed"
  BY DEF StorageInv, ProcessInv
<1>3. Types' /\ Elsewhere(i) /\ pc'[i] \in {"seed", "bind"}
  <2>1. \E p \in {"seed", "bind"} : pc' = [pc EXCEPT ![i] = p]
    BY <1>1 DEF Goto
  <2>2. todo' \in [Instances -> SUBSET DOMAIN toml']
    BY <1>1 DEF StorageInv, Types
  <2>3. /\ pc' \in [Instances -> Places] /\ pc'[i] \in {"seed", "bind"}
        /\ \A j \in Instances \ {i} : pc'[j] = pc[j]
    BY <2>1 DEF StorageInv, Types, Places
  <2> QED
    BY <1>1, <2>2, <2>3 DEF StorageInv, Types, Elsewhere
<1>4. lock # i /\ At(i, pc'[i], migration'[i], step'[i], lock, Version(file)) /\ bindings'[i] = <<>>
  BY <1>1, <1>2, <1>3 DEF At
<1> QED
  BY <1>1, <1>3, <1>4, MoveKeeps

LEMMA SeedEndsKeeps ==
  ASSUME StorageInv, NEW i \in Instances, SeedEnds(i)
  PROVE  StorageInv'
<1>1. /\ pc[i] = "seed" /\ bindings[i] = <<>> /\ pc' = [pc EXCEPT ![i] = "bind"]
      /\ UNCHANGED <<toml, file, lock, draft, migration, step, todo, bindings, loose>>
  BY DEF SeedEnds, Goto
<1>2. At(i, pc[i], migration[i], step[i], lock, Version(file))
  BY DEF StorageInv, ProcessInv
<1>3. Types' /\ Elsewhere(i) /\ pc'[i] = "bind"
  BY <1>1 DEF StorageInv, Types, Places, Elsewhere
<1>4. lock # i /\ At(i, pc'[i], migration'[i], step'[i], lock, Version(file)) /\ bindings'[i] = <<>>
  BY <1>1, <1>2, <1>3 DEF At
<1> QED
  BY <1>1, <1>3, <1>4, MoveKeeps

LEMMA BindKeeps ==
  ASSUME StorageInv, NEW i \in Instances, Bind(i)
  PROVE  StorageInv'
<1>1. /\ pc[i] = "bind" /\ pc' = [pc EXCEPT ![i] = "up"]
      /\ UNCHANGED <<toml, file, lock, draft, migration, step, todo, bindings, loose>>
  BY DEF Bind, Goto
<1>2. /\ At(i, pc[i], migration[i], step[i], lock, Version(file))
      /\ bindings[i] # <<>> => pc[i] = "seed"
  BY DEF StorageInv, ProcessInv
<1>3. Types' /\ Elsewhere(i) /\ pc'[i] = "up"
  BY <1>1 DEF StorageInv, Types, Places, Elsewhere
<1>4. lock # i /\ At(i, pc'[i], migration'[i], step'[i], lock, Version(file)) /\ bindings'[i] = <<>>
  BY <1>1, <1>2, <1>3 DEF At
<1> QED
  BY <1>1, <1>3, <1>4, MoveKeeps

(* A statement outside a transaction, while there is none. *)
LEMMA StatementKeeps ==
  ASSUME StorageInv, lock = Nobody, Version(file) = 2, Types',
         lock' = lock, pc' = pc, migration' = migration, step' = step,
         \A i \in Instances : bindings'[i] # <<>> => pc[i] = "seed",
         Fine(file', loose'), Same(file, file')
  PROVE  StorageInv' /\ Version(file') = Version(file)
<1>1. file.versions = {1, 2} /\ file.tables = Form(2)
  <2>1. /\ file.versions \in Versions /\ file.tables = Form(Version(file))
        /\ file.versions = {} \/ file.versions = {1} \/ file.versions = {1, 2}
    BY DEF StorageInv, FileInv, Versions
  <2> QED
    BY <2>1, VersionIs
<1>2. file'.versions = {1, 2} /\ file'.tables = Form(2) /\ {1, 2} \in Versions
  BY <1>1 DEF Same, Versions
<1>3. Version(file') = 2
  BY <1>2, VersionIs
<1>4. FileInv(file') /\ Kept(file', loose')
  BY <1>2, <1>3 DEF Fine, FileInv
<1>5. ProcessInv'
  BY <1>3 DEF StorageInv, ProcessInv
<1>6. DraftInv'
  BY DEF DraftInv
<1> QED
  BY <1>3, <1>4, <1>5, <1>6 DEF StorageInv

LEMMA PastMigrations ==
  ASSUME StorageInv, NEW i \in Instances, pc[i] \in {"list", "seed", "bind", "up"}
  PROVE  Version(file) = 2
BY DEF StorageInv, ProcessInv, At

LEMMA SeedDeviceKeeps ==
  ASSUME StorageInv, NEW i \in Instances, NEW d \in Devices, SeedDevice(i, d)
  PROVE  StorageInv'
<1>1. /\ pc[i] = "seed" /\ d \in todo[i] /\ lock = Nobody
      /\ file' \in InsertDevice(file, d, toml[d].ip)
      /\ todo' = [todo EXCEPT ![i] = @ \ {d}]
      /\ bindings' = [bindings EXCEPT ![i] = BindingsOf(d)]
      /\ UNCHANGED <<toml, lock, draft, pc, migration, step, loose>>
  BY DEF SeedDevice
<1>2. d \in DOMAIN toml
  BY <1>1 DEF StorageInv, Types
<1>3. Types'
  BY <1>1, <1>2, BindingsType DEF StorageInv, Types
<1>4. \A j \in Instances : bindings'[j] # <<>> => pc[j] = "seed"
  <2> TAKE j \in Instances
  <2>1. bindings[j] # <<>> => pc[j] = "seed"
    BY DEF StorageInv, ProcessInv
  <2>2. CASE j = i
    BY <1>1, <2>2
  <2>3. CASE j # i
    BY <1>1, <2>1, <2>3 DEF StorageInv, Types
  <2> QED
    BY <2>2, <2>3
<1>5. Fine(file, loose) /\ Version(file) = 2
  BY <1>1, PastMigrations DEF StorageInv, FileInv, Fine
<1>6. Fine(file', loose) /\ Same(file, file')
  BY <1>1, <1>5, InsertDeviceFine
<1> QED
  BY <1>1, <1>3, <1>4, <1>5, <1>6, StatementKeeps

LEMMA SeedBindingKeeps ==
  ASSUME StorageInv, NEW i \in Instances, SeedBinding(i)
  PROVE  StorageInv'
<1> DEFINE b == Head(bindings[i])
<1>1. /\ pc[i] = "seed" /\ bindings[i] # <<>> /\ lock = Nobody
      /\ file' \in AddDeviceBlocklist(file, b.device, b.category, b.mode)
      /\ bindings' = [bindings EXCEPT ![i] = Tail(bindings[i])]
      /\ UNCHANGED <<toml, lock, draft, pc, migration, step, todo, loose>>
  BY DEF SeedBinding
<1>2. bindings[i] \in Seq(BindingRow)
  BY DEF StorageInv, Types
<1>3. b \in BindingRow /\ Tail(bindings[i]) \in Seq(BindingRow)
  BY <1>1, <1>2
<1>4. Types'
  BY <1>1, <1>3 DEF StorageInv, Types
<1>5. \A j \in Instances : bindings'[j] # <<>> => pc[j] = "seed"
  <2> TAKE j \in Instances
  <2>1. bindings[j] # <<>> => pc[j] = "seed"
    BY DEF StorageInv, ProcessInv
  <2>2. CASE j = i
    BY <1>1, <2>2
  <2>3. CASE j # i
    BY <1>1, <2>1, <2>3 DEF StorageInv, Types
  <2> QED
    BY <2>2, <2>3
<1>6. Fine(file, loose) /\ Version(file) = 2
  BY <1>1, PastMigrations DEF StorageInv, FileInv, Fine
<1>7. Fine(file', loose) /\ Same(file, file')
  <2>1. b.device \in Devices /\ b.category \in Categories /\ b.mode \in Modes
    BY <1>3 DEF BindingRow
  <2> HIDE DEF b
  <2> QED
    BY <1>1, <1>6, <2>1, AddDeviceBlocklistFine
<1> QED
  BY <1>1, <1>4, <1>5, <1>6, <1>7, StatementKeeps

LEMMA EditKeeps ==
  ASSUME StorageInv, Edit
  PROVE  StorageInv'
<1>1. /\ \E i \in Instances : pc[i] = "up"
      /\ lock = Nobody
      /\ EditDevices \/ EditSchedules \/ EditProxies \/ EditConfig
      /\ UNCHANGED <<toml, lock, draft, pc, migration, step, todo, bindings, loose>>
  BY DEF Edit, run
<1>2. Fine(file, loose) /\ Version(file) = 2
  BY <1>1, PastMigrations DEF StorageInv, FileInv, Fine
<1>3. Fine(file', loose) /\ Same(file, file')
  BY <1>1, <1>2, EditDevicesKeeps, EditSchedulesKeeps, EditProxiesKeeps, EditConfigKeeps
     DEF EditsKept
<1>4. Types' /\ \A i \in Instances : bindings'[i] # <<>> => pc[i] = "seed"
  BY <1>1 DEF StorageInv, Types, ProcessInv
<1> QED
  BY <1>1, <1>2, <1>3, <1>4, StatementKeeps

(* The shell needs no process of HomeGuard: any version may be in the file. *)
LEMMA ShellDeleteKeeps ==
  ASSUME StorageInv, NEW d \in Devices, ShellDelete(d)
  PROVE  StorageInv'
<1> DEFINE R == {r \in file.rows["devices"] : r.id # d}
<1>1. /\ lock = Nobody /\ file' = With(file, "devices", R) /\ loose' = loose \union {d}
      /\ UNCHANGED <<toml, lock, draft, pc, migration, step, todo, bindings>>
  BY DEF ShellDelete, DeletedAlone, With, run
<1>2. Fine(file, loose)
  BY DEF StorageInv, FileInv, Fine
<1>3. /\ R \in SUBSET file.rows["devices"] /\ "devices" \in Tables
      /\ \A x \in References : x.to = "devices" =>
           "devices" = "devices" /\ \A r \in file.rows["devices"] \ R : r.id \in loose \union {d}
  BY TableNames
<1>4. /\ Fine(file', loose \union {d}) /\ Same(file, file')
      /\ \A u \in Tables \ {"devices"} : file'.rows[u] = file.rows[u]
  <2> HIDE DEF R
  <2> QED
    BY <1>1, <1>2, <1>3, RemovedFine
<1>5. Version(file') = Version(file)
  BY <1>4 DEF Same, Version
<1>6. FileInv(file') /\ Kept(file', loose')
  <2>1. file'.rows["device_blocklists"] = file.rows["device_blocklists"]
    BY <1>4, TableNames
  <2> QED
    BY <1>1, <1>4, <1>5, <2>1 DEF StorageInv, FileInv, Fine, Same
<1>7. Types' /\ ProcessInv' /\ DraftInv'
  BY <1>1, <1>5 DEF StorageInv, Types, ProcessInv, DraftInv
<1> QED
  BY <1>6, <1>7 DEF StorageInv

-----------------------------------------------------------------------------
(***************************************************************************)
(* The theorems.                                                           *)
(***************************************************************************)
LEMMA InitKeeps ==
  ASSUME Init
  PROVE  StorageInv
<1>1. toml \in Tomls /\ LeftBehind(file)
  BY ConstantFacts DEF Init
<1>2. /\ lock = Nobody /\ loose = {} /\ pc = [i \in Instances |-> "down"]
      /\ migration = [i \in Instances |-> 1] /\ step = [i \in Instances |-> 1]
      /\ todo = [i \in Instances |-> {}] /\ bindings = [i \in Instances |-> <<>>]
  BY DEF Init
<1>3. Types
  <2>1. <<>> \in Seq(BindingRow)
    OBVIOUS
  <2> QED
    BY <1>1, <1>2, <2>1 DEF Types, Places
<1>4. FileInv(file) /\ Kept(file, loose)
  BY <1>1, <1>2 DEF LeftBehind, FileInv, Versions
<1>5. ProcessInv
  <2>1. 1 \in 1 .. Len(Migrations[1]) + 1
    BY MigrationFacts
  <2> QED
    BY <1>2, <2>1, ConstantFacts DEF ProcessInv, At
<1>6. DraftInv
  BY <1>2 DEF DraftInv
<1> QED
  BY <1>3, <1>4, <1>5, <1>6 DEF StorageInv

LEMMA NextKeeps ==
  ASSUME StorageInv, [Next]_vars
  PROVE  StorageInv'
<1>1. CASE UNCHANGED vars
  BY <1>1 DEF vars, run, StorageInv, Types, ProcessInv, DraftInv
<1>2. ASSUME NEW i \in Instances, Start(i) PROVE StorageInv'
  BY <1>2, StartKeeps
<1>3. ASSUME NEW i \in Instances, Step(i) PROVE StorageInv'
  <2>1. CASE ReadVersion(i)
    BY <2>1, ReadVersionKeeps
  <2>2. CASE Migrate(i)
    BY <2>2, MigrateKeeps
  <2>3. CASE MigrateFails(i)
    BY <2>3, EndKeeps DEF MigrateFails
  <2>4. CASE Commit(i)
    BY <2>4, CommitKeeps
  <2>5. CASE SeedIfEmpty(i)
    BY <2>5, SeedIfEmptyKeeps
  <2>6. CASE \E d \in Devices : SeedDevice(i, d)
    BY <2>6, SeedDeviceKeeps
  <2>7. CASE SeedBinding(i)
    BY <2>7, SeedBindingKeeps
  <2>8. CASE SeedFails(i)
    BY <2>8, EndKeeps DEF SeedFails
  <2>9. CASE SeedEnds(i)
    BY <2>9, SeedEndsKeeps
  <2>10. CASE Bind(i)
    BY <2>10, BindKeeps
  <2>11. CASE BindFails(i)
    BY <2>11, EndKeeps DEF BindFails
  <2> QED
    BY <1>3, <2>1, <2>2, <2>3, <2>4, <2>5, <2>6, <2>7, <2>8, <2>9, <2>10, <2>11 DEF Step
<1>4. ASSUME NEW i \in Instances, Busy(i) PROVE StorageInv'
  BY <1>4, EndKeeps DEF Busy
<1>5. ASSUME NEW i \in Instances, Crash(i) PROVE StorageInv'
  BY <1>5, EndKeeps DEF Crash
<1>6. CASE Edit
  BY <1>6, EditKeeps
<1>7. CASE \E d \in Devices : ShellDelete(d)
  BY <1>7, ShellDeleteKeeps
<1> QED
  BY <1>1, <1>2, <1>3, <1>4, <1>5, <1>6, <1>7 DEF Next

(* The invariant holds throughout, for any number of processes, devices,   *)
(* files and statements: main.rs, sqlite.rs and config_store.rs together.  *)
THEOREM StorageInvariant == FairSpec => []StorageInv
<1>1. Init => StorageInv
  BY InitKeeps
<1>2. StorageInv /\ [Next]_vars => StorageInv'
  BY NextKeeps
<1> QED
  BY <1>1, <1>2, PTL DEF FairSpec

(* The types, who may hold the lock, and that no two rows have one key.    *)
THEOREM TypeCorrect == FairSpec => []TypeOK
<1>1. StorageInv => TypeOK
  <2> SUFFICES ASSUME StorageInv PROVE TypeOK
    OBVIOUS
  <2>1. ASSUME NEW i \in Instances
        PROVE  /\ pc[i] \in {"down", "version", "migrate", "list", "seed", "bind", "up"}
               /\ migration[i] \in 1 .. SchemaVersion
               /\ step[i] \in 1 .. (Len(Statements(i)) + 1)
               /\ step[i] > 1 => lock = i /\ pc[i] = "migrate"
               /\ todo[i] \subseteq DOMAIN toml
               /\ bindings[i] # <<>> => pc[i] = "seed"
    <3>1. /\ At(i, pc[i], migration[i], step[i], lock, Version(file))
          /\ bindings[i] # <<>> => pc[i] = "seed"
      BY DEF StorageInv, ProcessInv
    <3>2. pc[i] \in Places /\ migration[i] \in {1, 2} /\ todo[i] \subseteq DOMAIN toml
      BY DEF StorageInv, Types
    <3>3. migration[i] \in 1 .. SchemaVersion
      BY <3>2 DEF SchemaVersion
    <3>4. step[i] \in 1 .. (Len(Statements(i)) + 1) /\ (step[i] > 1 => lock = i /\ pc[i] = "migrate")
      BY <3>1 DEF At, Statements
    <3> QED
      BY <3>1, <3>2, <3>3, <3>4 DEF Places
  <2>2. file.versions \subseteq 1 .. SchemaVersion
    BY DEF StorageInv, FileInv, Versions, SchemaVersion
  <2>3. ASSUME NEW t \in Tables, NEW r \in file.rows[t]
        PROVE  Clashes(file, t, r) = {r} \/ Clashes(file, t, r) = {}
    BY DEF StorageInv, Kept, Clashes
  <2>4. lock \in Instances \union {Nobody} /\ loose \subseteq Devices
    BY DEF StorageInv, Types
  <2> QED
    BY <2>1, <2>2, <2>3, <2>4 DEF TypeOK
<1> QED
  BY <1>1, StorageInvariant, PTL

(* Whenever a process is killed in a migration, and whatever another one   *)
(* does that has read the version before it: the committed tables are      *)
(* those of the recorded version (run_migrations, migrate_v1, migrate_v2). *)
THEOREM TablesAreOfTheVersion == FairSpec => []TablesFitVersion
<1>1. StorageInv => TablesFitVersion
  BY DEF StorageInv, FileInv, TablesFitVersion
<1> QED
  BY <1>1, StorageInvariant, PTL

(* Nobody but the process that has the lock changes the file while it has  *)
(* it, and a migration that ends has dropped no table that had rows.       *)
THEOREM RowsSurviveMigrations == FairSpec => MigrationsKeepRows
<1> DEFINE Keeps == (\E i \in Instances : pc[i] = "migrate" /\ step[i] > 1 /\ file' # file)
                      => file'.rows = file.rows
<1>1. StorageInv /\ [Next]_vars => [Keeps]_vars
  <2> SUFFICES ASSUME StorageInv, Next,
                      NEW i \in Instances, pc[i] = "migrate", step[i] > 1, file' # file
               PROVE  file'.rows = file.rows
    BY DEF vars, Keeps
  <2>1. lock = i /\ lock # Nobody
    BY ConstantFacts DEF StorageInv, ProcessInv, At
  <2>2. \E j \in Instances : Commit(j)
    <3>1. ASSUME NEW j \in Instances, Start(j) PROVE FALSE
      BY <3>1 DEF Start
    <3>2. ASSUME NEW j \in Instances, End(j) PROVE FALSE
      BY <3>2 DEF End
    <3>3. ASSUME NEW j \in Instances, Step(j) PROVE Commit(j)
      <4>1. ~ReadVersion(j) /\ ~Migrate(j) /\ ~SeedIfEmpty(j) /\ ~SeedEnds(j) /\ ~Bind(j)
        BY DEF ReadVersion, Migrate, SeedIfEmpty, SeedEnds, Bind
      <4>2. ~SeedBinding(j) /\ ~(\E d \in Devices : SeedDevice(j, d))
        BY <2>1 DEF SeedBinding, SeedDevice
      <4>3. ~MigrateFails(j) /\ ~SeedFails(j) /\ ~BindFails(j)
        BY <3>2 DEF MigrateFails, SeedFails, BindFails
      <4> QED
        BY <3>3, <4>1, <4>2, <4>3 DEF Step
    <3>4. ASSUME NEW j \in Instances PROVE ~Busy(j) /\ ~Crash(j)
      BY <3>2 DEF Busy, Crash
    <3>5. ~Edit /\ ~(\E d \in Devices : ShellDelete(d))
      BY <2>1 DEF Edit, ShellDelete
    <3> QED
      BY <3>1, <3>3, <3>4, <3>5 DEF Next
  <2> QED
    BY <2>2, CommitIs DEF Commit
<1> QED
  BY <1>1, StorageInvariant, PTL DEF FairSpec, MigrationsKeepRows, Keeps

-----------------------------------------------------------------------------
(***************************************************************************)
(* What a query finds of the rows that another one refers to.              *)
(***************************************************************************)

(* A column that is NOT NULL. *)
LEMMA NotNull ==
  ASSUME NEW f, NEW L, Kept(f, L), NEW t \in Tables, NEW c \in Columns[t], <<t, c>> \notin Optional,
         NEW r \in f.rows[t]
  PROVE  r[c] # NULL
<1>1. RowOf(t, r)
  BY DEF Kept
<1> QED
  BY <1>1 DEF RowOf

LEMMA OneId ==
  ASSUME NEW f, NEW L, Kept(f, L), NEW t \in {"schedules", "proxy_servers", "proxy_groups"},
         NEW o \in f.rows[t], NEW r \in f.rows[t], o.id = r.id
  PROVE  o = r
<1>1. t \in Tables /\ "id" \in Columns[t] /\ <<t, "id">> \notin Optional
  BY TableNames DEF Columns, Optional
<1>2. o["id"] # NULL
  BY <1>1, NotNull
<1>3. Key(t, {"id"}) \in Keys
  BY DEF Keys, Numbered
<1>4. Key(t, {"id"}).of = t /\ \A c \in Key(t, {"id"}).columns : o[c] # NULL /\ o[c] = r[c]
  BY <1>2 DEF Key
<1>5. Alike(t, o, r)
  BY <1>3, <1>4 DEF Alike
<1> QED
  BY <1>1, <1>5 DEF Kept

LEMMA OneLink ==
  ASSUME NEW f, NEW L, Kept(f, L)
  PROVE  /\ \A o, r \in f.rows["device_schedules"] :
              o.device = r.device /\ o.schedule = r.schedule => o = r
         /\ \A o, r \in f.rows["proxy_group_members"] :
              o.group = r.group /\ o.proxy = r.proxy => o = r
<1>1. ASSUME NEW o \in f.rows["device_schedules"], NEW r \in f.rows["device_schedules"],
             o.device = r.device, o.schedule = r.schedule
      PROVE  o = r
  <2> DEFINE k == Key("device_schedules", {"device", "schedule"})
  <2>1. o["device"] # NULL /\ o["schedule"] # NULL
    <3>1. /\ "device_schedules" \in Tables /\ {"device", "schedule"} = Columns["device_schedules"]
          /\ <<"device_schedules", "device">> \notin Optional
          /\ <<"device_schedules", "schedule">> \notin Optional
      BY TableNames DEF Columns, Optional
    <3> QED
      BY <3>1, NotNull
  <2>2. k \in Keys /\ k.of = "device_schedules" /\ k.columns = {"device", "schedule"}
    BY DEF Keys, Key
  <2>3. \A c \in k.columns : o[c] # NULL /\ o[c] = r[c]
    BY <1>1, <2>1, <2>2
  <2> HIDE DEF k
  <2>4. Alike("device_schedules", o, r)
    BY <2>2, <2>3 DEF Alike
  <2> QED
    BY <2>4, TableNames DEF Kept
<1>2. ASSUME NEW o \in f.rows["proxy_group_members"], NEW r \in f.rows["proxy_group_members"],
             o.group = r.group, o.proxy = r.proxy
      PROVE  o = r
  <2> DEFINE k == Key("proxy_group_members", {"group", "proxy"})
  <2>1. o["group"] # NULL /\ o["proxy"] # NULL
    <3>1. /\ "proxy_group_members" \in Tables
          /\ {"group", "proxy"} \subseteq Columns["proxy_group_members"]
          /\ <<"proxy_group_members", "group">> \notin Optional
          /\ <<"proxy_group_members", "proxy">> \notin Optional
      BY TableNames DEF Columns, Optional
    <3> QED
      BY <3>1, NotNull
  <2>2. k \in Keys /\ k.of = "proxy_group_members" /\ k.columns = {"group", "proxy"}
    BY DEF Keys, Key
  <2>3. \A c \in k.columns : o[c] # NULL /\ o[c] = r[c]
    BY <1>2, <2>1, <2>2
  <2> HIDE DEF k
  <2>4. Alike("proxy_group_members", o, r)
    BY <2>2, <2>3 DEF Alike
  <2> QED
    BY <2>4, TableNames DEF Kept
<1> QED
  BY <1>1, <1>2

(* A reference that is not NULL finds its row. *)
LEMMA Found ==
  ASSUME NEW f, NEW L, Kept(f, L), NEW x \in References, NEW r \in f.rows[x.from],
         r[x.column] # NULL
  PROVE  (\E o \in f.rows[x.to] : o.id = r[x.column]) \/ (x.to = "devices" /\ r[x.column] \in L)
<1>1. x.from \in Tables
  BY ReferenceFacts
<1>2. Points(f, x.from, r, L)
  BY <1>1 DEF Kept
<1> QED
  BY <1>2 DEF Points, Ids

LEMMA LinksFound ==
  ASSUME NEW f, NEW L, Kept(f, L)
  PROVE  /\ \A t \in {"device_blocklists", "device_schedules", "grants"} :
              \A r \in f.rows[t] : r.device \in Ids(f.rows["devices"]) \union L
         /\ \A r \in f.rows["device_schedules"] : \E s \in f.rows["schedules"] : s.id = r.schedule
         /\ \A r \in f.rows["proxy_group_members"] :
              /\ \E s \in f.rows["proxy_servers"] : s.id = r.proxy
              /\ \E s \in f.rows["proxy_groups"] : s.id = r.group
         /\ \A r \in f.rows["rules"] :
              r.schedule # NULL => \E s \in f.rows["schedules"] : s.id = r.schedule
<1>1. ASSUME NEW t \in {"device_blocklists", "device_schedules", "grants"}, NEW r \in f.rows[t]
      PROVE  r.device \in Ids(f.rows["devices"]) \union L
  <2> DEFINE x == [from |-> t, column |-> "device", to |-> "devices", deletes |-> TRUE]
  <2>1. x \in References
    BY DEF References
  <2>2. t \in Tables /\ "device" \in Columns[t] /\ <<t, "device">> \notin Optional
    BY TableNames DEF Columns, Optional
  <2>3. r["device"] # NULL
    BY <2>2, NotNull
  <2>4. x.from = t /\ x.to = "devices" /\ x.column = "device"
    OBVIOUS
  <2> HIDE DEF x
  <2> QED
    BY <2>1, <2>3, <2>4, Found DEF Ids
<1>2. ASSUME NEW r \in f.rows["device_schedules"]
      PROVE  \E s \in f.rows["schedules"] : s.id = r.schedule
  <2> DEFINE x == [from |-> "device_schedules", column |-> "schedule", to |-> "schedules",
                   deletes |-> TRUE]
  <2>1. x \in References
    BY DEF References
  <2>2. /\ "device_schedules" \in Tables /\ "schedule" \in Columns["device_schedules"]
        /\ <<"device_schedules", "schedule">> \notin Optional
    BY TableNames DEF Columns, Optional
  <2>3. r["schedule"] # NULL
    BY <2>2, NotNull
  <2>4. x.from = "device_schedules" /\ x.to = "schedules" /\ x.column = "schedule"
    OBVIOUS
  <2> HIDE DEF x
  <2> QED
    BY <2>1, <2>3, <2>4, Found
<1>3. ASSUME NEW r \in f.rows["proxy_group_members"]
      PROVE  \E s \in f.rows["proxy_servers"] : s.id = r.proxy
  <2> DEFINE x == [from |-> "proxy_group_members", column |-> "proxy", to |-> "proxy_servers",
                   deletes |-> TRUE]
  <2>1. x \in References
    BY DEF References
  <2>2. /\ "proxy_group_members" \in Tables /\ "proxy" \in Columns["proxy_group_members"]
        /\ <<"proxy_group_members", "proxy">> \notin Optional
    BY TableNames DEF Columns, Optional
  <2>3. r["proxy"] # NULL
    BY <2>2, NotNull
  <2>4. x.from = "proxy_group_members" /\ x.to = "proxy_servers" /\ x.column = "proxy"
    OBVIOUS
  <2> HIDE DEF x
  <2> QED
    BY <2>1, <2>3, <2>4, Found
<1>4. ASSUME NEW r \in f.rows["proxy_group_members"]
      PROVE  \E s \in f.rows["proxy_groups"] : s.id = r.group
  <2> DEFINE x == [from |-> "proxy_group_members", column |-> "group", to |-> "proxy_groups",
                   deletes |-> TRUE]
  <2>1. x \in References
    BY DEF References
  <2>2. /\ "proxy_group_members" \in Tables /\ "group" \in Columns["proxy_group_members"]
        /\ <<"proxy_group_members", "group">> \notin Optional
    BY TableNames DEF Columns, Optional
  <2>3. r["group"] # NULL
    BY <2>2, NotNull
  <2>4. x.from = "proxy_group_members" /\ x.to = "proxy_groups" /\ x.column = "group"
    OBVIOUS
  <2> HIDE DEF x
  <2> QED
    BY <2>1, <2>3, <2>4, Found
<1>5. ASSUME NEW r \in f.rows["rules"], r.schedule # NULL
      PROVE  \E s \in f.rows["schedules"] : s.id = r.schedule
  <2> DEFINE x == [from |-> "rules", column |-> "schedule", to |-> "schedules", deletes |-> FALSE]
  <2>1. x \in References
    BY DEF References
  <2>2. x.from = "rules" /\ x.to = "schedules" /\ x.column = "schedule" /\ r["schedule"] # NULL
    BY <1>5
  <2> HIDE DEF x
  <2> QED
    BY <2>1, <2>2, Found
<1> QED
  BY <1>1, <1>2, <1>3, <1>4, <1>5

(* GetDeviceSchedules finds one schedule for each link of the device. *)
LEMMA SchedulesCounted ==
  ASSUME NEW f, NEW L, Fine(f, L), NEW d
  PROVE  Cardinality(GetDeviceSchedules(f, d))
           = Cardinality({r \in f.rows["device_schedules"] : r["device"] = d})
<1> DEFINE D == {r \in f.rows["device_schedules"] : r["device"] = d}
           G == GetDeviceSchedules(f, d)
           h == [l \in D |-> CHOOSE s \in f.rows["schedules"] : s.id = l.schedule]
<1>1. Kept(f, L) /\ IsFiniteSet(f.rows["device_schedules"])
  BY TableNames DEF Fine, IsFile
<1>2. IsFiniteSet(D)
  BY <1>1, FS_Subset
<1>3. \A l \in D : h[l] \in f.rows["schedules"] /\ h[l].id = l.schedule
  BY <1>1, LinksFound
<1>4. \A s : s \in G <=> \E l \in D : s \in f.rows["schedules"] /\ s.id = l.schedule
  BY DEF GetDeviceSchedules, GetSchedule, Get
<1>5. \A s \in G : \E l \in D : s = h[l]
  <2> TAKE s \in G
  <2>1. PICK l \in D : s \in f.rows["schedules"] /\ s.id = l.schedule
    BY <1>4
  <2> QED
    BY <1>1, <1>3, <2>1, OneId
<1>6. \A l, m \in D : h[l] = h[m] => l = m
  <2> SUFFICES ASSUME NEW l \in D, NEW m \in D, h[l] = h[m] PROVE l = m
    OBVIOUS
  <2>1. l.schedule = m.schedule
    <3> HIDE DEF h
    <3> QED
      BY <1>3
  <2>2. l.device = m.device /\ l \in f.rows["device_schedules"] /\ m \in f.rows["device_schedules"]
    OBVIOUS
  <2> HIDE DEF h, D
  <2> QED
    BY <1>1, <2>1, <2>2, OneLink
<1>7. h \in [D -> G]
  BY <1>3, <1>4
<1> HIDE DEF D, G, h
<1>8. h \in Bijection(D, G)
  BY <1>5, <1>6, <1>7 DEF Bijection, Injection, Surjection, IsInjective
<1>9. Cardinality(G) = Cardinality(D)
  BY <1>2, <1>8, FS_Bijection DEF ExistsBijection
<1> QED
  BY <1>9 DEF D, G

(* GetGroupMembers finds one server for each member of the group. *)
LEMMA MembersCounted ==
  ASSUME NEW f, NEW L, Fine(f, L), NEW g
  PROVE  Cardinality(GetGroupMembers(f, g))
           = Cardinality({r \in f.rows["proxy_group_members"] : r["group"] = g})
<1> DEFINE D == {r \in f.rows["proxy_group_members"] : r["group"] = g}
           G == GetGroupMembers(f, g)
           k == [m \in D |-> CHOOSE s \in f.rows["proxy_servers"] : s.id = m.proxy]
           h == [m \in D |-> <<m.priority, k[m]>>]
<1>1. Kept(f, L) /\ IsFiniteSet(f.rows["proxy_group_members"])
  BY TableNames DEF Fine, IsFile
<1>2. IsFiniteSet(D)
  BY <1>1, FS_Subset
<1>3. \A m \in D : k[m] \in f.rows["proxy_servers"] /\ k[m].id = m.proxy
  BY <1>1, LinksFound
<1>4. \A q : q \in G <=> \E m \in D, s \in f.rows["proxy_servers"] :
                             s.id = m.proxy /\ q = <<m.priority, s>>
  BY DEF GetGroupMembers, GetProxyServer, Get
<1>5. \A q \in G : \E m \in D : q = h[m]
  <2> TAKE q \in G
  <2>1. PICK m \in D, s \in f.rows["proxy_servers"] : s.id = m.proxy /\ q = <<m.priority, s>>
    BY <1>4
  <2>2. s = k[m]
    BY <1>1, <1>3, <2>1, OneId
  <2> QED
    BY <2>1, <2>2
<1>6. \A m, n \in D : h[m] = h[n] => m = n
  <2> SUFFICES ASSUME NEW m \in D, NEW n \in D, h[m] = h[n] PROVE m = n
    OBVIOUS
  <2>1. k[m] = k[n]
    <3> HIDE DEF k, D
    <3>1. h[m] = <<m.priority, k[m]>> /\ h[n] = <<n.priority, k[n]>>
      OBVIOUS
    <3> QED
      BY <3>1
  <2>2. m.proxy = n.proxy
    <3> HIDE DEF k, D
    <3> QED
      BY <1>3, <2>1
  <2> QED
    BY <1>1, <2>2, OneLink
<1>7. h \in [D -> G]
  BY <1>3, <1>4
<1> HIDE DEF D, G, h, k
<1>8. h \in Bijection(D, G)
  BY <1>5, <1>6, <1>7 DEF Bijection, Injection, Surjection, IsInjective
<1>9. Cardinality(G) = Cardinality(D)
  BY <1>2, <1>8, FS_Bijection DEF ExistsBijection
<1> QED
  BY <1>9 DEF D, G

(* Whatever is deleted, by HomeGuard or by a shell: the queries find every *)
(* row that another one refers to, except devices that a shell deleted     *)
(* (ON DELETE CASCADE and SET NULL, and the PRAGMA of open()).             *)
THEOREM ReferencesAreKept == FairSpec => []ReferencesHold
<1>1. StorageInv => ReferencesHold
  <2> SUFFICES ASSUME StorageInv PROVE ReferencesHold
    OBVIOUS
  <2>1. Fine(file, loose) /\ Kept(file, loose)
    BY DEF StorageInv, FileInv, Fine
  <2>2. \A t \in {"device_blocklists", "device_schedules", "grants"} :
          \A r \in file.rows[t] : r.device \in Ids(ListDevices(file)) \union loose
    BY <2>1, LinksFound DEF ListDevices
  <2>3. ASSUME NEW d \in Devices
        PROVE  Cardinality(GetDeviceSchedules(file, d))
                 = Cardinality(RowsOf("device_schedules", "device", d))
    BY <2>1, SchedulesCounted DEF RowsOf
  <2>4. ASSUME NEW g \in Ids(ListProxyGroups(file))
        PROVE  Cardinality(GetGroupMembers(file, g))
                 = Cardinality(RowsOf("proxy_group_members", "group", g))
    BY <2>1, MembersCounted DEF RowsOf
  <2>5. \A m \in file.rows["proxy_group_members"] : GetProxyGroup(file, m.group) # {}
    BY <2>1, LinksFound DEF GetProxyGroup, Get
  <2>6. \A r \in file.rows["rules"] : r.schedule # NULL => GetSchedule(file, r.schedule) # {}
    BY <2>1, LinksFound DEF GetSchedule, Get
  <2> QED
    BY <2>2, <2>3, <2>4, <2>5, <2>6 DEF ReferencesHold
<1> QED
  BY <1>1, StorageInvariant, PTL

-----------------------------------------------------------------------------
(***************************************************************************)
(* What a seed has written.  As long as no statement of another kind has   *)
(* been made, a device that a running seed has visited has its row, no     *)
(* other running seed has visited it, and its categories are those that    *)
(* the statements so far leave: the last one of a category decides.        *)
(***************************************************************************)
Shown(B, n) ==
  {B[k] : k \in {l \in 1 .. n : \A m \in l + 1 .. n : B[m].category # B[l].category}}

RowsFor(f, d) == {r \in f.rows["device_blocklists"] : r.device = d}

\* b is what is left of the rows B of device d behind the first n.
Rest(B, n, d, b) ==
  IF b # <<>> /\ Head(b).device = d
  THEN Len(b) + n = Len(B) /\ \A k \in 1 .. Len(b) : b[k] = B[n + k]
  ELSE n = Len(B)

Seeded(f, s, d, b) ==
  /\ [id |-> d, ip |-> s.ip] \in f.rows["devices"]
  /\ \E n \in 0 .. Len(BindingsAre(s, d)) :
       RowsFor(f, d) = Shown(BindingsAre(s, d), n) /\ Rest(BindingsAre(s, d), n, d, b)

Visited(i) == DOMAIN toml \ todo[i]

SeedInv ==
  /\ edits \in Nat
  /\ edits = 0 =>
       /\ loose = {}
       /\ \A i \in Instances : pc[i] = "seed" =>
            /\ \A d \in Visited(i) : Seeded(file, toml[d], d, bindings[i])
            /\ bindings[i] # <<>> => Head(bindings[i]).device \in Visited(i)
            /\ \A j \in Instances : j # i /\ pc[j] = "seed" => Visited(i) \intersect Visited(j) = {}

LEMMA ShownNext ==
  ASSUME NEW B, NEW n \in Nat
  PROVE  Shown(B, n + 1)
           = {r \in Shown(B, n) : r.category # B[n + 1].category} \union {B[n + 1]}
<1> DEFINE Final(l, m) == \A k \in l + 1 .. m : B[k].category # B[l].category
<1>1. \A r : r \in Shown(B, n + 1) <=> \E l \in 1 .. n + 1 : Final(l, n + 1) /\ r = B[l]
  BY DEF Shown
<1>2. \A r : r \in Shown(B, n) <=> \E l \in 1 .. n : Final(l, n) /\ r = B[l]
  BY DEF Shown
<1>3. \A l \in 1 .. n : Final(l, n + 1) <=> Final(l, n) /\ B[l].category # B[n + 1].category
  <2> TAKE l \in 1 .. n
  <2>1. l + 1 .. n + 1 = (l + 1 .. n) \union {n + 1}
    OBVIOUS
  <2> QED
    BY <2>1
<1>4. Final(n + 1, n + 1)
  OBVIOUS
<1>5. 1 .. n + 1 = (1 .. n) \union {n + 1}
  OBVIOUS
<1> HIDE DEF Final
<1> QED
  BY <1>1, <1>2, <1>3, <1>4, <1>5

LEMMA SeededStays ==
  ASSUME NEW f, NEW g, NEW s, NEW d, NEW b, Seeded(f, s, d, b),
         f.rows["devices"] \subseteq g.rows["devices"], RowsFor(g, d) = RowsFor(f, d)
  PROVE  Seeded(g, s, d, b)
BY DEF Seeded

(* A step that changes no row: a process begins its seed, goes on, or ends. *)
LEMMA SeedStays ==
  ASSUME SeedInv, file'.rows = file.rows, toml' = toml, loose' = loose, edits' = edits,
         \A i \in Instances : pc'[i] = "seed" =>
           \/ pc[i] = "seed" /\ todo'[i] = todo[i] /\ bindings'[i] = bindings[i]
           \/ todo'[i] = DOMAIN toml /\ bindings'[i] = <<>>
  PROVE  SeedInv'
<1> SUFFICES ASSUME edits = 0
             PROVE  /\ loose' = {}
                    /\ \A i \in Instances : pc'[i] = "seed" =>
                         /\ \A d \in Visited(i)' : Seeded(file', toml'[d], d, bindings'[i])
                         /\ bindings'[i] # <<>> => Head(bindings'[i]).device \in Visited(i)'
                         /\ \A j \in Instances : j # i /\ pc'[j] = "seed" =>
                              Visited(i)' \intersect Visited(j)' = {}
  BY DEF SeedInv
<1>1. ASSUME NEW i \in Instances, pc'[i] = "seed"
      PROVE  \/ Visited(i)' = {} /\ bindings'[i] = <<>>
             \/ /\ pc[i] = "seed" /\ Visited(i)' = Visited(i) /\ bindings'[i] = bindings[i]
  BY <1>1 DEF Visited
<1>2. ASSUME NEW i \in Instances, pc'[i] = "seed", NEW d \in Visited(i)'
      PROVE  Seeded(file', toml'[d], d, bindings'[i])
  <2>1. Seeded(file, toml[d], d, bindings[i]) /\ bindings'[i] = bindings[i]
    BY <1>1, <1>2 DEF SeedInv
  <2> QED
    BY <2>1 DEF Seeded, RowsFor
<1>3. ASSUME NEW i \in Instances, pc'[i] = "seed", bindings'[i] # <<>>
      PROVE  Head(bindings'[i]).device \in Visited(i)'
  BY <1>1, <1>3 DEF SeedInv
<1>4. ASSUME NEW i \in Instances, pc'[i] = "seed", NEW j \in Instances, j # i, pc'[j] = "seed"
      PROVE  Visited(i)' \intersect Visited(j)' = {}
  BY <1>1, <1>4 DEF SeedInv
<1> QED
  BY <1>2, <1>3, <1>4 DEF SeedInv

LEMMA BindingsFacts ==
  ASSUME NEW s \in Sections, NEW d \in Devices
  PROVE  LET B == BindingsAre(s, d)
             h == Len(s.hard)
             g == Len(s.grantable)
             e == Len(s.extra)
         IN  /\ B \in Seq(BindingRow) /\ Len(B) = h + g + e
             /\ \A k \in 1 .. h : B[k] = [device |-> d, category |-> s.hard[k], mode |-> "hard"]
             /\ \A k \in 1 .. g :
                  B[h + k] = [device |-> d, category |-> s.grantable[k], mode |-> "grantable"]
             /\ \A k \in 1 .. e :
                  B[h + g + k] = [device |-> d, category |-> s.extra[k], mode |-> "grantable"]
             /\ \A k \in 1 .. Len(B) : B[k].device = d /\ (k > h => B[k].mode = "grantable")
<1> DEFINE H == Tier(d, s.hard, "hard")
           G == Tier(d, s.grantable, "grantable")
           E == Tier(d, s.extra, "grantable")
           h == Len(s.hard)
           g == Len(s.grantable)
           e == Len(s.extra)
           B == BindingsAre(s, d)
<1>1. /\ s.hard \in Seq(Categories) /\ s.grantable \in Seq(Categories) /\ s.extra \in Seq(Categories)
      /\ "hard" \in Modes /\ "grantable" \in Modes
  BY DEF Sections, Modes
<1>2. /\ H \in Seq(BindingRow) /\ Len(H) = h
      /\ \A k \in 1 .. h : H[k] = [device |-> d, category |-> s.hard[k], mode |-> "hard"]
  BY <1>1, TierIs
<1>3. /\ G \in Seq(BindingRow) /\ Len(G) = g
      /\ \A k \in 1 .. g : G[k] = [device |-> d, category |-> s.grantable[k], mode |-> "grantable"]
  BY <1>1, TierIs
<1>4. /\ E \in Seq(BindingRow) /\ Len(E) = e
      /\ \A k \in 1 .. e : E[k] = [device |-> d, category |-> s.extra[k], mode |-> "grantable"]
  BY <1>1, TierIs
<1>5. h \in Nat /\ g \in Nat /\ e \in Nat
  BY <1>1
<1>6. B = (H \o G) \o E
  BY DEF BindingsAre
<1> HIDE DEF H, G, E, B, h, g, e
<1>7. /\ H \o G \in Seq(BindingRow) /\ Len(H \o G) = h + g
      /\ \A k \in 1 .. h + g : (H \o G)[k] = IF k <= h THEN H[k] ELSE G[k - h]
  BY <1>2, <1>3, ConcatProperties
<1>8. /\ B \in Seq(BindingRow) /\ Len(B) = h + g + e
      /\ \A k \in 1 .. h + g + e : B[k] = IF k <= h + g THEN (H \o G)[k] ELSE E[k - (h + g)]
  BY <1>4, <1>6, <1>7, ConcatProperties
<1>9. \A k \in 1 .. h : B[k] = [device |-> d, category |-> s.hard[k], mode |-> "hard"]
  <2> TAKE k \in 1 .. h
  <2>1. k \in 1 .. h + g /\ k \in 1 .. h + g + e /\ k <= h /\ k <= h + g
    BY <1>5
  <2>2. B[k] = (H \o G)[k]
    BY <1>8, <2>1
  <2>3. (H \o G)[k] = H[k]
    BY <1>7, <2>1
  <2> QED
    BY <1>2, <2>2, <2>3
<1>10. \A k \in 1 .. g :
         B[h + k] = [device |-> d, category |-> s.grantable[k], mode |-> "grantable"]
  <2> TAKE k \in 1 .. g
  <2> DEFINE j == h + k
  <2>1. j \in 1 .. h + g /\ j \in 1 .. h + g + e /\ ~(j <= h) /\ j <= h + g /\ j - h = k
    BY <1>5
  <2> HIDE DEF j
  <2>2. B[j] = (H \o G)[j]
    BY <1>8, <2>1
  <2>3. (H \o G)[j] = G[k]
    BY <1>7, <2>1
  <2>4. B[j] = [device |-> d, category |-> s.grantable[k], mode |-> "grantable"]
    BY <1>3, <2>2, <2>3
  <2> QED
    BY <2>4 DEF j
<1>11. \A k \in 1 .. e :
         B[h + g + k] = [device |-> d, category |-> s.extra[k], mode |-> "grantable"]
  <2> TAKE k \in 1 .. e
  <2> DEFINE j == h + g + k
  <2>1. j \in 1 .. h + g + e /\ ~(j <= h + g) /\ j - (h + g) = k
    BY <1>5
  <2> HIDE DEF j
  <2>2. B[j] = E[k]
    BY <1>8, <2>1
  <2>3. B[j] = [device |-> d, category |-> s.extra[k], mode |-> "grantable"]
    BY <1>4, <2>2
  <2> QED
    BY <2>3 DEF j
<1>12. \A k \in 1 .. Len(B) : B[k].device = d /\ (k > h => B[k].mode = "grantable")
  <2> TAKE k \in 1 .. Len(B)
  <2>1. \/ k \in 1 .. h
        \/ k - h \in 1 .. g /\ h + (k - h) = k
        \/ k - (h + g) \in 1 .. e /\ h + g + (k - (h + g)) = k
    BY <1>5, <1>8
  <2>2. CASE k \in 1 .. h
    <3>1. ~(k > h)
      BY <1>5, <2>2
    <3>2. B[k] = [device |-> d, category |-> s.hard[k], mode |-> "hard"]
      BY <1>9, <2>2
    <3> QED
      BY <3>1, <3>2
  <2>3. CASE k - h \in 1 .. g /\ h + (k - h) = k
    <3>1. B[k] = [device |-> d, category |-> s.grantable[k - h], mode |-> "grantable"]
      BY <1>10, <2>3
    <3> QED
      BY <3>1
  <2>4. CASE k - (h + g) \in 1 .. e /\ h + g + (k - (h + g)) = k
    <3>1. B[k] = [device |-> d, category |-> s.extra[k - (h + g)], mode |-> "grantable"]
      BY <1>11, <2>4
    <3> QED
      BY <3>1
  <2> QED
    BY <2>1, <2>2, <2>3, <2>4
<1> QED
  BY <1>8, <1>9, <1>10, <1>11, <1>12 DEF B, h, g, e

(* The device that is inserted was in nobody's hands, and has no category. *)
LEMMA NewDevice ==
  ASSUME NEW f, Kept(f, {}), NEW d \in Devices, NEW ip, InsertDevice(f, d, ip) # {}
  PROVE  (\A o \in f.rows["devices"] : o.id # d) /\ RowsFor(f, d) = {}
<1>1. Clashes(f, "devices", [id |-> d, ip |-> ip]) = {}
  BY DEF InsertDevice, Insert, Unless, Accepts
<1>2. Key("devices", {"id"}) \in Keys
  BY DEF Keys
<1>3. ASSUME NEW o \in f.rows["devices"], o.id = d PROVE FALSE
  <2>1. o["id"] # NULL /\ o["id"] = d
    BY <1>3, Named
  <2>2. /\ Key("devices", {"id"}).of = "devices"
        /\ \A c \in Key("devices", {"id"}).columns :
             o[c] # NULL /\ o[c] = [id |-> d, ip |-> ip][c]
    BY <2>1 DEF Key
  <2>3. Alike("devices", o, [id |-> d, ip |-> ip])
    BY <1>2, <2>2 DEF Alike
  <2> QED
    BY <1>1, <2>3 DEF Clashes
<1>4. \A r \in f.rows["device_blocklists"] : r.device \in Ids(f.rows["devices"])
  BY LinksFound
<1> QED
  BY <1>3, <1>4 DEF RowsFor, Ids

LEMMA SeedDeviceWrites ==
  ASSUME StorageInv, SeedInv, NEW i \in Instances, NEW d \in Devices, SeedDevice(i, d)
  PROVE  SeedInv'
<1> DEFINE B == BindingsOf(d)
           row == [id |-> d, ip |-> toml[d].ip]
<1>1. /\ pc[i] = "seed" /\ d \in todo[i] /\ bindings[i] = <<>>
      /\ file' \in InsertDevice(file, d, toml[d].ip)
      /\ todo' = [todo EXCEPT ![i] = todo[i] \ {d}]
      /\ bindings' = [bindings EXCEPT ![i] = B]
      /\ toml' = toml /\ pc' = pc /\ loose' = loose /\ edits' = edits
  BY DEF SeedDevice, bounds
<1> SUFFICES ASSUME edits = 0
             PROVE  /\ loose' = {}
                    /\ \A j \in Instances : pc'[j] = "seed" =>
                         /\ \A e \in Visited(j)' : Seeded(file', toml'[e], e, bindings'[j])
                         /\ bindings'[j] # <<>> => Head(bindings'[j]).device \in Visited(j)'
                         /\ \A k \in Instances : k # j /\ pc'[k] = "seed" =>
                              Visited(j)' \intersect Visited(k)' = {}
  BY <1>1 DEF SeedInv
<1>2. /\ d \in DOMAIN toml /\ todo \in [Instances -> SUBSET DOMAIN toml]
      /\ bindings \in [Instances -> Seq(BindingRow)] /\ d \in Devices /\ toml[d] \in Sections
  BY <1>1, TomlIs DEF StorageInv, Types
<1>3. loose = {} /\ Fine(file, {}) /\ Kept(file, {})
  BY DEF SeedInv, StorageInv, FileInv, Fine
<1>4. (\A o \in file.rows["devices"] : o.id # d) /\ RowsFor(file, d) = {}
  BY <1>1, <1>3, NewDevice
<1>5. /\ file'.rows["devices"] = file.rows["devices"] \union {row}
      /\ file'.rows["device_blocklists"] = file.rows["device_blocklists"]
  BY <1>1, <1>3, InsertDeviceFine, TableNames
<1>6. \A j \in Instances : pc[j] = "seed" => d \notin Visited(j)
  <2> SUFFICES ASSUME NEW j \in Instances, pc[j] = "seed", d \in Visited(j) PROVE FALSE
    OBVIOUS
  <2>1. Seeded(file, toml[d], d, bindings[j])
    BY DEF SeedInv
  <2>2. row \in file.rows["devices"] /\ row.id = d
    BY <2>1 DEF Seeded
  <2> HIDE DEF row
  <2> QED
    BY <1>4, <2>2
<1>7. /\ Visited(i)' = Visited(i) \union {d} /\ bindings'[i] = B
      /\ \A j \in Instances \ {i} : Visited(j)' = Visited(j) /\ bindings'[j] = bindings[j]
  BY <1>1, <1>2 DEF Visited
<1>8. B = BindingsAre(toml[d], d) /\ B \in Seq(BindingRow) /\ \A k \in 1 .. Len(B) : B[k].device = d
  <2> DEFINE s == toml[d]
             A == BindingsAre(s, d)
  <2>1. B = A /\ s \in Sections /\ d \in Devices
    BY <1>2, BindingsType
  <2> HIDE DEF s
  <2>2. A \in Seq(BindingRow) /\ \A k \in 1 .. Len(A) : A[k].device = d
    BY <2>1, BindingsFacts
  <2> QED
    BY <2>1, <2>2 DEF s
<1>9. Seeded(file', toml[d], d, B)
  <2>1. Shown(B, 0) = {} /\ RowsFor(file', d) = {}
    BY <1>4, <1>5 DEF Shown, RowsFor
  <2>2. Rest(B, 0, d, B)
    BY <1>8 DEF Rest
  <2>3. 0 \in 0 .. Len(B) /\ row \in file'.rows["devices"]
    BY <1>5, <1>8
  <2> HIDE DEF B
  <2> QED
    BY <1>8, <2>1, <2>2, <2>3 DEF Seeded
<1> HIDE DEF B, row
<1>10. ASSUME NEW j \in Instances, pc[j] = "seed", NEW e \in Visited(j)
       PROVE  Seeded(file', toml[e], e, bindings'[j])
  <2>1. Seeded(file, toml[e], e, bindings[j])
    BY <1>10 DEF SeedInv
  <2>2. Seeded(file', toml[e], e, bindings[j])
    <3>1. RowsFor(file', e) = RowsFor(file, e) /\ file.rows["devices"] \subseteq file'.rows["devices"]
      BY <1>5 DEF RowsFor
    <3> QED
      BY <2>1, <3>1, SeededStays
  <2>3. CASE j # i
    BY <1>7, <2>2, <2>3
  <2>4. CASE j = i
    <3>1. e # d
      BY <1>1, <1>6, <1>10, <2>4
    <3>2. B # <<>> => Head(B).device = d
      BY <1>8
    <3>3. \A n : Rest(BindingsAre(toml[e], e), n, e, bindings[i])
                   => Rest(BindingsAre(toml[e], e), n, e, B)
      BY <1>1, <3>1, <3>2 DEF Rest
    <3> QED
      BY <1>7, <2>2, <2>4, <3>3 DEF Seeded
  <2> QED
    BY <2>3, <2>4
<1>11. ASSUME NEW j \in Instances, pc[j] = "seed"
       PROVE  /\ \A e \in Visited(j)' : Seeded(file', toml[e], e, bindings'[j])
              /\ bindings'[j] # <<>> => Head(bindings'[j]).device \in Visited(j)'
  <2>1. CASE j = i
    <3>1. B # <<>> => Head(B).device = d
      BY <1>8
    <3> QED
      BY <1>7, <1>9, <1>10, <1>11, <2>1, <3>1
  <2>2. CASE j # i
    BY <1>7, <1>10, <1>11, <2>2 DEF SeedInv
  <2> QED
    BY <2>1, <2>2
<1>12. ASSUME NEW j \in Instances, pc[j] = "seed", NEW k \in Instances, k # j, pc[k] = "seed"
       PROVE  Visited(j)' \intersect Visited(k)' = {}
  <2>1. Visited(j) \intersect Visited(k) = {} /\ d \notin Visited(j) /\ d \notin Visited(k)
    BY <1>6, <1>12 DEF SeedInv
  <2> QED
    BY <1>7, <1>12, <2>1
<1> QED
  BY <1>1, <1>3, <1>11, <1>12

(* The category of a device has one binding, which another one replaces. *)
LEMMA BindingClashes ==
  ASSUME NEW f, Kept(f, {}), NEW d \in Devices, NEW c \in Categories, NEW m
  PROVE  Clashes(f, "device_blocklists", [device |-> d, category |-> c, mode |-> m])
           = {o \in f.rows["device_blocklists"] : o.device = d /\ o.category = c}
<1> DEFINE key == Key("device_blocklists", {"device", "category"})
           row == [device |-> d, category |-> c, mode |-> m]
<1>1. /\ key \in Keys /\ key.of = "device_blocklists" /\ key.columns = {"device", "category"}
      /\ \A k \in Keys : k.of = "device_blocklists" => k = key
  BY DEF Keys, Key, Numbered
<1>2. d # NULL /\ c # NULL /\ row["device"] = d /\ row["category"] = c
  BY Named
<1> HIDE DEF key, row
<1>3. ASSUME NEW o
      PROVE  Alike("device_blocklists", o, row) <=> o["device"] = d /\ o["category"] = c
  <2>1. Alike("device_blocklists", o, row)
          <=> \A x \in {"device", "category"} : o[x] # NULL /\ o[x] = row[x]
    BY <1>1 DEF Alike
  <2> QED
    BY <1>2, <2>1
<1>4. Clashes(f, "device_blocklists", row)
        = {o \in f.rows["device_blocklists"] : o.device = d /\ o.category = c}
  BY <1>3 DEF Clashes
<1> QED
  BY <1>4 DEF row

LEMMA RestNext ==
  ASSUME NEW b \in Seq(BindingRow), b # <<>>, NEW B \in Seq(BindingRow), NEW n \in 0 .. Len(B),
         NEW d, Head(b).device = d, \A k \in 1 .. Len(B) : B[k].device = d, Rest(B, n, d, b)
  PROVE  /\ n + 1 \in 0 .. Len(B) /\ Head(b) = B[n + 1] /\ Rest(B, n + 1, d, Tail(b))
         /\ Tail(b) # <<>> => Head(Tail(b)).device = d
<1>1. /\ Len(b) \in Nat /\ Len(b) > 0 /\ Len(B) \in Nat /\ Head(b) = b[1]
      /\ Tail(b) \in Seq(BindingRow) /\ Len(Tail(b)) = Len(b) - 1
      /\ \A k \in 1 .. Len(Tail(b)) : Tail(b)[k] = b[k + 1]
  BY HeadTailProperties
<1>2. Len(b) + n = Len(B) /\ \A k \in 1 .. Len(b) : b[k] = B[n + k]
  BY DEF Rest
<1>3. n + 1 \in 1 .. Len(B) /\ n + 1 \in 0 .. Len(B) /\ Len(Tail(b)) + (n + 1) = Len(B)
      /\ 1 \in 1 .. Len(b)
  BY <1>1, <1>2
<1>4. Head(b) = B[n + 1]
  BY <1>1, <1>2, <1>3
<1>5. \A k \in 1 .. Len(Tail(b)) : Tail(b)[k] = B[(n + 1) + k]
  <2> TAKE k \in 1 .. Len(Tail(b))
  <2> DEFINE j == k + 1
  <2>1. j \in 1 .. Len(b) /\ n + j = (n + 1) + k /\ Tail(b)[k] = b[j]
    BY <1>1, <1>3
  <2> HIDE DEF j
  <2>2. b[j] = B[n + j]
    BY <1>2, <2>1
  <2>3. B[n + j] = B[(n + 1) + k]
    BY <2>1
  <2> QED
    BY <2>1, <2>2, <2>3
<1>6. ASSUME Tail(b) # <<>> PROVE Head(Tail(b)).device = d
  <2>1. 1 \in 1 .. Len(Tail(b)) /\ Head(Tail(b)) = Tail(b)[1]
    BY <1>1, <1>6, EmptySeq
  <2>2. Head(Tail(b)) = B[(n + 1) + 1]
    BY <1>5, <2>1
  <2>3. (n + 1) + 1 \in 1 .. Len(B)
    BY <1>1, <1>3, <2>1
  <2> QED
    BY <2>2, <2>3
<1>7. Rest(B, n + 1, d, Tail(b))
  <2>1. CASE Tail(b) # <<>>
    BY <1>3, <1>5, <1>6, <2>1 DEF Rest
  <2>2. CASE Tail(b) = <<>>
    <3> DEFINE t == Tail(b)
    <3>1. Len(t) + (n + 1) = Len(B) /\ t = <<>> /\ n \in Nat /\ Len(B) \in Nat
      BY <1>1, <1>3, <2>2
    <3> HIDE DEF t
    <3>2. Len(t) = 0
      BY <3>1
    <3>3. n + 1 = Len(B)
      BY <3>1, <3>2
    <3>4. Rest(B, n + 1, d, t)
      BY <3>1, <3>3 DEF Rest
    <3> QED
      BY <3>4 DEF t
  <2> QED
    BY <2>1, <2>2
<1> QED
  BY <1>3, <1>4, <1>6, <1>7

(* One binding more: what is shown of its device, and of the others. *)
Adds(f, g, s, d, b) ==
  /\ Fine(f, {}) /\ s \in Sections /\ d \in Devices
  /\ b \in Seq(BindingRow) /\ b # <<>> /\ Head(b).device = d /\ Seeded(f, s, d, b)
  /\ g \in AddDeviceBlocklist(f, Head(b).device, Head(b).category, Head(b).mode)

LEMMA BindingShown ==
  ASSUME NEW f, NEW g, NEW s, NEW d, NEW b, Adds(f, g, s, d, b)
  PROVE  /\ g.rows["devices"] = f.rows["devices"]
         /\ \A e : e # d => RowsFor(g, e) = RowsFor(f, e)
         /\ Seeded(g, s, d, Tail(b)) /\ (Tail(b) # <<>> => Head(Tail(b)).device = d)
<1> DEFINE B == BindingsAre(s, d)
           c == Head(b).category
           m == Head(b).mode
           row == [device |-> d, category |-> c, mode |-> m]
<1> USE DEF Adds
<1>1. c \in Categories /\ m \in Modes /\ Head(b) = row
  <2>1. Head(b) \in BindingRow
    BY HeadTailProperties
  <2> QED
    BY <2>1 DEF BindingRow
<1>2. B \in Seq(BindingRow) /\ \A k \in 1 .. Len(B) : B[k].device = d
  BY BindingsFacts
<1>3. /\ g.rows["device_blocklists"] = (f.rows["device_blocklists"]
               \ {o \in f.rows["device_blocklists"] : o.device = d /\ o.category = c}) \union {row}
      /\ g.rows["devices"] = f.rows["devices"]
  <2>1. g \in AddDeviceBlocklist(f, d, c, m)
    OBVIOUS
  <2> HIDE DEF c, m
  <2>2. /\ g.rows["device_blocklists"] = (f.rows["device_blocklists"]
               \ Clashes(f, "device_blocklists", row)) \union {row}
        /\ \A u \in Tables \ {"device_blocklists"} : g.rows[u] = f.rows[u]
    BY <1>1, <2>1, AddDeviceBlocklistFine
  <2>3. Clashes(f, "device_blocklists", row)
          = {o \in f.rows["device_blocklists"] : o.device = d /\ o.category = c}
    BY <1>1, BindingClashes DEF Fine
  <2> QED
    BY <2>2, <2>3, TableNames
<1>4. PICK n \in 0 .. Len(B) : RowsFor(f, d) = Shown(B, n) /\ Rest(B, n, d, b)
  BY DEF Seeded
<1>5. /\ n + 1 \in 0 .. Len(B) /\ Head(b) = B[n + 1] /\ Rest(B, n + 1, d, Tail(b))
      /\ Tail(b) # <<>> => Head(Tail(b)).device = d
  <2> HIDE DEF B
  <2> QED
    BY <1>2, <1>4, RestNext
<1> HIDE DEF B, c, m
<1>6. RowsFor(g, d) = {r \in RowsFor(f, d) : r.category # c} \union {row}
  BY <1>3 DEF RowsFor
<1>7. Shown(B, n + 1) = {r \in Shown(B, n) : r.category # c} \union {row}
  <2>1. B[n + 1] = row /\ B[n + 1].category = c /\ n \in Nat
    BY <1>1, <1>2, <1>4, <1>5
  <2>2. Shown(B, n + 1) = {r \in Shown(B, n) : r.category # B[n + 1].category} \union {B[n + 1]}
    BY <2>1, ShownNext
  <2> HIDE DEF row
  <2> QED
    BY <2>1, <2>2
<1>8. RowsFor(g, d) = Shown(B, n + 1)
  BY <1>4, <1>6, <1>7
<1>9. Seeded(g, s, d, Tail(b))
  <2>1. [id |-> d, ip |-> s.ip] \in g.rows["devices"]
    BY <1>3 DEF Seeded
  <2> QED
    BY <1>5, <1>8, <2>1 DEF Seeded, B
<1>10. ASSUME NEW e, e # d PROVE RowsFor(g, e) = RowsFor(f, e)
  BY <1>3, <1>10 DEF RowsFor
<1> QED
  BY <1>3, <1>5, <1>9, <1>10

LEMMA SeedBindingWrites ==
  ASSUME StorageInv, SeedInv, NEW i \in Instances, SeedBinding(i)
  PROVE  SeedInv'
<1> DEFINE b == bindings[i]
           d == Head(b).device
<1>1. /\ pc[i] = "seed" /\ b # <<>>
      /\ file' \in AddDeviceBlocklist(file, Head(b).device, Head(b).category, Head(b).mode)
      /\ bindings' = [bindings EXCEPT ![i] = Tail(b)]
      /\ toml' = toml /\ pc' = pc /\ loose' = loose /\ edits' = edits /\ todo' = todo
  BY DEF SeedBinding, bounds
<1> SUFFICES ASSUME edits = 0
             PROVE  /\ loose' = {}
                    /\ \A j \in Instances : pc'[j] = "seed" =>
                         /\ \A e \in Visited(j)' : Seeded(file', toml'[e], e, bindings'[j])
                         /\ bindings'[j] # <<>> => Head(bindings'[j]).device \in Visited(j)'
                         /\ \A k \in Instances : k # j /\ pc'[k] = "seed" =>
                              Visited(j)' \intersect Visited(k)' = {}
  BY <1>1 DEF SeedInv
<1>2. d \in Visited(i) /\ Seeded(file, toml[d], d, b) /\ b \in Seq(BindingRow) /\ d \in DOMAIN toml
  BY <1>1 DEF SeedInv, StorageInv, Types, Visited
<1>3. loose = {} /\ Fine(file, {})
  BY DEF SeedInv, StorageInv, FileInv, Fine
<1>4. /\ file'.rows["devices"] = file.rows["devices"]
      /\ \A e : e # d => RowsFor(file', e) = RowsFor(file, e)
      /\ Seeded(file', toml[d], d, Tail(b)) /\ (Tail(b) # <<>> => Head(Tail(b)).device = d)
  <2> DEFINE s == toml[d]
             x == b
             y == d
             f == file
             g == file'
  <2>1. Adds(f, g, s, y, x)
    BY <1>1, <1>2, <1>3, TomlIs DEF Adds
  <2> HIDE DEF s, x, y, f, g
  <2>2. /\ g.rows["devices"] = f.rows["devices"]
        /\ \A e : e # y => RowsFor(g, e) = RowsFor(f, e)
        /\ Seeded(g, s, y, Tail(x)) /\ (Tail(x) # <<>> => Head(Tail(x)).device = y)
    BY <2>1, BindingShown
  <2> QED
    BY <2>2 DEF s, x, y, f, g
<1>5. /\ bindings'[i] = Tail(b)
      /\ \A j \in Instances \ {i} : bindings'[j] = bindings[j]
      /\ \A j \in Instances : Visited(j)' = Visited(j)
  BY <1>1 DEF Visited, StorageInv, Types
<1>6. \A j \in Instances : pc[j] = "seed" /\ j # i => d \notin Visited(j)
  BY <1>1, <1>2 DEF SeedInv
<1>7. ASSUME NEW j \in Instances, pc[j] = "seed", NEW e \in Visited(j), e # d
      PROVE  Seeded(file', toml[e], e, bindings'[j])
  <2>1. Seeded(file, toml[e], e, bindings[j])
    BY <1>7 DEF SeedInv
  <2>2. Seeded(file', toml[e], e, bindings[j])
    <3>1. RowsFor(file', e) = RowsFor(file, e) /\ file.rows["devices"] \subseteq file'.rows["devices"]
      BY <1>4, <1>7
    <3> QED
      BY <2>1, <3>1, SeededStays
  <2>3. CASE j # i
    BY <1>5, <2>2, <2>3
  <2>4. CASE j = i
    <3>1. \A n : Rest(BindingsAre(toml[e], e), n, e, b)
                   => Rest(BindingsAre(toml[e], e), n, e, Tail(b))
      BY <1>1, <1>4, <1>7 DEF Rest
    <3> QED
      BY <1>5, <2>2, <2>4, <3>1 DEF Seeded
  <2> QED
    BY <2>3, <2>4
<1>8. ASSUME NEW j \in Instances, pc[j] = "seed", NEW e \in Visited(j)
      PROVE  Seeded(file', toml[e], e, bindings'[j])
  <2>1. CASE e # d
    BY <1>7, <1>8, <2>1
  <2>2. CASE e = d
    BY <1>4, <1>5, <1>6, <1>8, <2>2
  <2> QED
    BY <2>1, <2>2
<1>9. ASSUME NEW j \in Instances, pc[j] = "seed", bindings'[j] # <<>>
      PROVE  Head(bindings'[j]).device \in Visited(j)
  <2>1. CASE j = i
    BY <1>2, <1>4, <1>5, <1>9, <2>1
  <2>2. CASE j # i
    BY <1>5, <1>9, <2>2 DEF SeedInv
  <2> QED
    BY <2>1, <2>2
<1>10. ASSUME NEW j \in Instances, pc[j] = "seed", NEW k \in Instances, k # j, pc[k] = "seed"
       PROVE  Visited(j) \intersect Visited(k) = {}
  BY <1>10 DEF SeedInv
<1> QED
  BY <1>1, <1>3, <1>5, <1>8, <1>9, <1>10

(* A process that ends, or goes on elsewhere than into its seed. *)
LEMMA SeedLeft ==
  ASSUME StorageInv, SeedInv, NEW i \in Instances, NEW p \in Places \ {"seed"},
         pc' = [pc EXCEPT ![i] = p], file'.rows = file.rows,
         \A j \in Instances \ {i} : todo'[j] = todo[j] /\ bindings'[j] = bindings[j],
         toml' = toml, loose' = loose, edits' = edits
  PROVE  SeedInv'
<1>1. ASSUME NEW j \in Instances, pc'[j] = "seed"
      PROVE  pc[j] = "seed" /\ todo'[j] = todo[j] /\ bindings'[j] = bindings[j]
  BY <1>1 DEF StorageInv, Types
<1> QED
  BY <1>1, SeedStays

LEMMA EndLeft ==
  ASSUME StorageInv, SeedInv, NEW i \in Instances, End(i), edits' = edits
  PROVE  SeedInv'
<1>1. /\ pc' = [pc EXCEPT ![i] = "down"] /\ file' = file /\ toml' = toml /\ loose' = loose
      /\ todo' = [todo EXCEPT ![i] = {}] /\ bindings' = [bindings EXCEPT ![i] = <<>>]
  BY DEF End, Goto
<1>2. /\ "down" \in Places \ {"seed"} /\ file'.rows = file.rows
      /\ \A j \in Instances \ {i} : todo'[j] = todo[j] /\ bindings'[j] = bindings[j]
  BY <1>1 DEF Places, StorageInv, Types
<1> QED
  BY <1>1, <1>2, SeedLeft

LEMMA SeedIfEmptyBegins ==
  ASSUME StorageInv, SeedInv, NEW i \in Instances, SeedIfEmpty(i)
  PROVE  SeedInv'
<1>1. /\ pc[i] = "list" /\ file' = file /\ bindings' = bindings /\ toml' = toml /\ loose' = loose
      /\ edits' = edits
      /\ \/ pc' = [pc EXCEPT ![i] = "seed"] /\ todo' = [todo EXCEPT ![i] = DOMAIN toml]
         \/ pc' = [pc EXCEPT ![i] = "bind"] /\ todo' = todo
  BY DEF SeedIfEmpty, Goto
<1>2. bindings[i] = <<>>
  BY <1>1 DEF StorageInv, ProcessInv
<1>3. CASE pc' = [pc EXCEPT ![i] = "seed"] /\ todo' = [todo EXCEPT ![i] = DOMAIN toml]
  <2>1. ASSUME NEW j \in Instances, pc'[j] = "seed"
        PROVE  \/ pc[j] = "seed" /\ todo'[j] = todo[j] /\ bindings'[j] = bindings[j]
               \/ todo'[j] = DOMAIN toml /\ bindings'[j] = <<>>
    BY <1>1, <1>2, <1>3, <2>1 DEF StorageInv, Types
  <2> QED
    BY <1>1, <2>1, SeedStays
<1>4. CASE pc' = [pc EXCEPT ![i] = "bind"] /\ todo' = todo
  <2>1. "bind" \in Places \ {"seed"}
    BY DEF Places
  <2> QED
    BY <1>1, <1>4, <2>1, SeedLeft
<1> QED
  BY <1>1, <1>3, <1>4

LEMMA StepSeeds ==
  ASSUME StorageInv, SeedInv, NEW i \in Instances, Step(i)
  PROVE  SeedInv'
<1>1. CASE ReadVersion(i)
  <2>1. /\ file' = file /\ toml' = toml /\ loose' = loose /\ edits' = edits
        /\ todo' = todo /\ bindings' = bindings
        /\ \E p \in {"migrate", "list"} : pc' = [pc EXCEPT ![i] = p]
    BY <1>1 DEF ReadVersion, Goto
  <2>2. {"migrate", "list"} \subseteq Places \ {"seed"}
    BY DEF Places
  <2> QED
    BY <2>1, <2>2, SeedLeft
<1>2. CASE Migrate(i)
  <2>1. /\ file' = file /\ toml' = toml /\ loose' = loose /\ edits' = edits
        /\ pc' = pc /\ todo' = todo /\ bindings' = bindings
    BY <1>2 DEF Migrate, bounds
  <2> QED
    BY <2>1, SeedStays
<1>3. CASE Commit(i)
  <2>1. /\ pc[i] = "migrate" /\ step[i] > Len(Statements(i)) /\ file' = draft
        /\ toml' = toml /\ loose' = loose /\ edits' = edits /\ todo' = todo /\ bindings' = bindings
        /\ pc' = pc \/ pc' = [pc EXCEPT ![i] = "list"]
    BY <1>3 DEF Commit, Goto, bounds
  <2>2. file'.rows = file.rows
    BY <2>1, CommitIs
  <2>3. CASE pc' = pc
    BY <2>1, <2>2, <2>3, SeedStays
  <2>4. CASE pc' = [pc EXCEPT ![i] = "list"]
    <3>1. "list" \in Places \ {"seed"}
      BY DEF Places
    <3> QED
      BY <2>1, <2>2, <2>4, <3>1, SeedLeft
  <2> QED
    BY <2>1, <2>3, <2>4
<1>4. CASE SeedEnds(i) \/ Bind(i)
  <2>1. /\ file' = file /\ toml' = toml /\ loose' = loose /\ edits' = edits
        /\ todo' = todo /\ bindings' = bindings
        /\ \E p \in {"bind", "up"} : pc' = [pc EXCEPT ![i] = p]
    BY <1>4 DEF SeedEnds, Bind, Goto, bounds
  <2>2. {"bind", "up"} \subseteq Places \ {"seed"}
    BY DEF Places
  <2> QED
    BY <2>1, <2>2, SeedLeft
<1>5. CASE MigrateFails(i) \/ SeedFails(i) \/ BindFails(i)
  <2>1. End(i) /\ edits' = edits
    BY <1>5 DEF MigrateFails, SeedFails, BindFails, bounds
  <2> QED
    BY <2>1, EndLeft
<1>6. CASE SeedIfEmpty(i)
  BY <1>6, SeedIfEmptyBegins
<1>7. CASE \E d \in Devices : SeedDevice(i, d)
  BY <1>7, SeedDeviceWrites
<1>8. CASE SeedBinding(i)
  BY <1>8, SeedBindingWrites
<1> QED
  BY <1>1, <1>2, <1>3, <1>4, <1>5, <1>6, <1>7, <1>8 DEF Step

LEMMA NextSeeds ==
  ASSUME StorageInv, SeedInv, [Next]_vars
  PROVE  SeedInv'
<1>1. CASE UNCHANGED vars
  <2>1. /\ file' = file /\ toml' = toml /\ loose' = loose /\ edits' = edits
        /\ pc' = pc /\ todo' = todo /\ bindings' = bindings
    BY <1>1 DEF vars, run, bounds
  <2> QED
    BY <2>1, SeedStays
<1>2. ASSUME NEW i \in Instances, Start(i) PROVE SeedInv'
  <2>1. /\ file' = file /\ toml' = toml /\ loose' = loose /\ edits' = edits
        /\ todo' = todo /\ bindings' = bindings /\ pc' = [pc EXCEPT ![i] = "version"]
    BY <1>2 DEF Start, Goto, bounds
  <2>2. "version" \in Places \ {"seed"}
    BY DEF Places
  <2> QED
    BY <2>1, <2>2, SeedLeft
<1>3. ASSUME NEW i \in Instances, Busy(i) \/ Crash(i) PROVE SeedInv'
  <2>1. End(i) /\ edits' = edits
    BY <1>3 DEF Busy, Crash, bounds
  <2> QED
    BY <2>1, EndLeft
<1>4. CASE Edit \/ \E d \in Devices : ShellDelete(d)
  <2>1. edits' = edits + 1 /\ edits \in Nat
    BY <1>4 DEF Edit, ShellDelete, SeedInv
  <2> QED
    BY <2>1 DEF SeedInv
<1> QED
  BY <1>1, <1>2, <1>3, <1>4, StepSeeds DEF Next

LEMMA SeedInvariant == FairSpec => []SeedInv
<1>1. Init => SeedInv
  BY DEF Init, SeedInv
<1>2. StorageInv /\ SeedInv /\ [Next]_vars => SeedInv'
  BY NextSeeds
<1> QED
  BY <1>1, <1>2, StorageInvariant, PTL DEF FairSpec

(* The last row of a category is shown. *)
LEMMA ShownLast ==
  ASSUME NEW B, NEW n \in Nat, NEW k \in 1 .. n
  PROVE  \E l \in k .. n : B[l] \in Shown(B, n) /\ B[l].category = B[k].category
<1> DEFINE S == {l \in 1 .. n : B[l].category = B[k].category}
           l == Max(S)
<1>1. S \in SUBSET (0 .. n) /\ S # {} /\ k \in S
  OBVIOUS
<1>2. l \in S /\ \A y \in S : y <= l
  <2> HIDE DEF S
  <2> QED
    BY <1>1, MaxIs
<1> HIDE DEF l
<1>3. l \in k .. n /\ l \in 1 .. n /\ B[l].category = B[k].category
  BY <1>1, <1>2
<1>4. \A m \in l + 1 .. n : B[m].category # B[l].category
  <2> SUFFICES ASSUME NEW m \in l + 1 .. n, B[m].category = B[l].category PROVE FALSE
    OBVIOUS
  <2>1. m \in 1 .. n /\ ~(m <= l)
    BY <1>3
  <2>2. m \in S
    BY <1>3, <2>1
  <2> QED
    BY <1>2, <2>1, <2>2
<1> QED
  BY <1>3, <1>4 DEF Shown

(* The rows of a device, tier by tier. *)
Tiered(B, h, H, G) ==
  /\ Len(B) \in Nat /\ h \in Nat
  /\ \A k \in 1 .. Len(B) :
       IF k > h THEN B[k].mode = "grantable" /\ B[k].category \in G
                ELSE B[k].mode = "hard" /\ B[k].category \in H
  /\ \A c \in H : \E k \in 1 .. Len(B) : k <= h /\ B[k].category = c
  /\ \A c \in G : \E k \in 1 .. Len(B) : k > h /\ B[k].category = c

LEMMA TiersOf ==
  ASSUME NEW s \in Sections, NEW d \in Devices
  PROVE  Tiered(BindingsAre(s, d), Len(s.hard), Range(s.hard),
                Range(s.grantable) \union Range(s.extra))
<1> DEFINE B == BindingsAre(s, d)
           G == Range(s.grantable) \union Range(s.extra)
           h == Len(s.hard)
           g == Len(s.grantable)
           e == Len(s.extra)
<1>1. /\ Len(B) = h + g + e
      /\ \A k \in 1 .. h : B[k] = [device |-> d, category |-> s.hard[k], mode |-> "hard"]
      /\ \A k \in 1 .. g :
           B[h + k] = [device |-> d, category |-> s.grantable[k], mode |-> "grantable"]
      /\ \A k \in 1 .. e :
           B[h + g + k] = [device |-> d, category |-> s.extra[k], mode |-> "grantable"]
  BY BindingsFacts
<1>2. h \in Nat /\ g \in Nat /\ e \in Nat
  BY DEF Sections
<1>3. /\ Range(s.hard) = {s.hard[k] : k \in 1 .. h}
      /\ Range(s.grantable) = {s.grantable[k] : k \in 1 .. g}
      /\ Range(s.extra) = {s.extra[k] : k \in 1 .. e}
  BY DEF Sections, Range
<1> HIDE DEF B, h, g, e
<1>4. ASSUME NEW k \in 1 .. h
      PROVE  B[k].mode = "hard" /\ B[k].category = s.hard[k]
  <2>1. B[k] = [device |-> d, category |-> s.hard[k], mode |-> "hard"]
    BY <1>1
  <2> QED
    BY <2>1
<1>5. ASSUME NEW k \in 1 .. g
      PROVE  B[h + k].mode = "grantable" /\ B[h + k].category = s.grantable[k]
  <2>1. B[h + k] = [device |-> d, category |-> s.grantable[k], mode |-> "grantable"]
    BY <1>1
  <2> QED
    BY <2>1
<1>6. ASSUME NEW k \in 1 .. e
      PROVE  B[h + g + k].mode = "grantable" /\ B[h + g + k].category = s.extra[k]
  <2>1. B[h + g + k] = [device |-> d, category |-> s.extra[k], mode |-> "grantable"]
    BY <1>1
  <2> QED
    BY <2>1
<1>7. ASSUME NEW k \in 1 .. Len(B)
      PROVE  IF k > h THEN B[k].mode = "grantable" /\ B[k].category \in G
                      ELSE B[k].mode = "hard" /\ B[k].category \in Range(s.hard)
  <2>1. \/ k \in 1 .. h /\ ~(k > h)
        \/ k - h \in 1 .. g /\ h + (k - h) = k /\ k > h
        \/ k - (h + g) \in 1 .. e /\ h + g + (k - (h + g)) = k /\ k > h
    BY <1>1, <1>2
  <2>2. CASE k \in 1 .. h /\ ~(k > h)
    BY <1>3, <1>4, <2>2
  <2>3. CASE k - h \in 1 .. g /\ h + (k - h) = k /\ k > h
    <3> DEFINE j == k - h
    <3>1. j \in 1 .. g /\ h + j = k
      BY <2>3
    <3> HIDE DEF j
    <3>2. B[k].mode = "grantable" /\ B[k].category = s.grantable[j]
      BY <1>5, <3>1
    <3> QED
      BY <1>3, <2>3, <3>1, <3>2
  <2>4. CASE k - (h + g) \in 1 .. e /\ h + g + (k - (h + g)) = k /\ k > h
    <3> DEFINE j == k - (h + g)
    <3>1. j \in 1 .. e /\ h + g + j = k
      BY <2>4
    <3> HIDE DEF j
    <3>2. B[k].mode = "grantable" /\ B[k].category = s.extra[j]
      BY <1>6, <3>1
    <3> QED
      BY <1>3, <2>4, <3>1, <3>2
  <2> QED
    BY <2>1, <2>2, <2>3, <2>4
<1>8. ASSUME NEW c \in Range(s.hard)
      PROVE  \E k \in 1 .. Len(B) : k <= h /\ B[k].category = c
  <2>1. PICK k \in 1 .. h : c = s.hard[k]
    BY <1>3
  <2>2. k \in 1 .. Len(B) /\ k <= h
    BY <1>1, <1>2
  <2> QED
    BY <1>4, <2>1, <2>2
<1>9. ASSUME NEW c \in G
      PROVE  \E k \in 1 .. Len(B) : k > h /\ B[k].category = c
  <2>1. CASE c \in Range(s.grantable)
    <3>1. PICK k \in 1 .. g : c = s.grantable[k]
      BY <1>3, <2>1
    <3> DEFINE j == h + k
    <3>2. j \in 1 .. Len(B) /\ j > h
      BY <1>1, <1>2
    <3>3. B[j].category = c
      BY <1>5, <3>1
    <3> HIDE DEF j
    <3> QED
      BY <3>2, <3>3
  <2>2. CASE c \in Range(s.extra)
    <3>1. PICK k \in 1 .. e : c = s.extra[k]
      BY <1>3, <2>2
    <3> DEFINE j == h + g + k
    <3>2. j \in 1 .. Len(B) /\ j > h
      BY <1>1, <1>2
    <3>3. B[j].category = c
      BY <1>6, <3>1
    <3> HIDE DEF j
    <3> QED
      BY <3>2, <3>3
  <2> QED
    BY <2>1, <2>2
<1>10. Len(B) \in Nat
  BY <1>1, <1>2
<1> QED
  BY <1>2, <1>7, <1>8, <1>9, <1>10 DEF B, h, Tiered

(* A category of both tiers is left grantable: its last row decides. *)
LEMMA TiersShown ==
  ASSUME NEW s \in Sections, NEW d \in Devices
  PROVE  LET R == Shown(BindingsAre(s, d), Len(BindingsAre(s, d)))
             G == Range(s.grantable) \union Range(s.extra)
         IN  /\ {r.category : r \in {b \in R : b.mode = "grantable"}} = G
             /\ {r.category : r \in {b \in R : b.mode = "hard"}} = Range(s.hard) \ G
<1> DEFINE B == BindingsAre(s, d)
           N == Len(B)
           R == Shown(B, N)
           G == Range(s.grantable) \union Range(s.extra)
           h == Len(s.hard)
           H == Range(s.hard)
<1>0. Tiered(B, h, H, G)
  BY TiersOf
<1> HIDE DEF B, G, h, H
<1>1. /\ N \in Nat /\ h \in Nat
      /\ \A k \in 1 .. N : IF k > h THEN B[k].mode = "grantable" /\ B[k].category \in G
                                    ELSE B[k].mode = "hard" /\ B[k].category \in H
      /\ \A c \in H : \E k \in 1 .. N : k <= h /\ B[k].category = c
      /\ \A c \in G : \E k \in 1 .. N : k > h /\ B[k].category = c
  BY <1>0 DEF Tiered
<1> HIDE DEF N
<1>2. ASSUME NEW k \in 1 .. N
      PROVE  \E l \in k .. N : B[l] \in R /\ B[l].category = B[k].category
  BY <1>1, ShownLast
<1>3. \A r \in R : \E l \in 1 .. N :
        r = B[l] /\ \A m \in l + 1 .. N : B[m].category # B[l].category
  BY DEF Shown
<1> HIDE DEF R
<1>4. ASSUME NEW r \in R, r.mode = "grantable"
      PROVE  r.category \in G
  BY <1>1, <1>3, <1>4
<1>5. ASSUME NEW c \in G
      PROVE  \E r \in R : r.mode = "grantable" /\ r.category = c
  <2>1. PICK k \in 1 .. N : k > h /\ B[k].category = c
    BY <1>1
  <2>2. PICK l \in k .. N : B[l] \in R /\ B[l].category = c
    BY <1>2, <2>1
  <2>3. l \in 1 .. N /\ l > h
    BY <1>1, <2>1
  <2> QED
    BY <1>1, <2>2, <2>3
<1>6. ASSUME NEW r \in R, r.mode = "hard"
      PROVE  r.category \in H \ G
  <2>1. PICK l \in 1 .. N : r = B[l] /\ \A m \in l + 1 .. N : B[m].category # B[l].category
    BY <1>3
  <2>2. ~(l > h) /\ r.category \in H
    BY <1>1, <1>6, <2>1
  <2>3. ASSUME r.category \in G PROVE FALSE
    <3>1. PICK k \in 1 .. N : k > h /\ B[k].category = r.category
      BY <1>1, <2>3
    <3>2. k \in l + 1 .. N
      BY <1>1, <2>2, <3>1
    <3> QED
      BY <2>1, <3>1, <3>2
  <2> QED
    BY <2>2, <2>3
<1>7. ASSUME NEW c \in H \ G
      PROVE  \E r \in R : r.mode = "hard" /\ r.category = c
  <2>1. PICK k \in 1 .. N : k <= h /\ B[k].category = c
    BY <1>1
  <2>2. PICK l \in k .. N : B[l] \in R /\ B[l].category = c
    BY <1>2, <2>1
  <2>3. l \in 1 .. N /\ ~(l > h)
    BY <1>1, <2>1, <2>2
  <2> QED
    BY <1>1, <2>2, <2>3
<1>8. /\ {r.category : r \in {b \in R : b.mode = "grantable"}} = G
      /\ {r.category : r \in {b \in R : b.mode = "hard"}} = H \ G
  BY <1>4, <1>5, <1>6, <1>7
<1> QED
  BY <1>8 DEF R, N, B, G, H

(* A device has one row, and an address one device. *)
LEMMA OneDevice ==
  ASSUME NEW f, Kept(f, {}), NEW d \in Devices, NEW ip, [id |-> d, ip |-> ip] \in f.rows["devices"]
  PROVE  /\ GetDevice(f, d) = {[id |-> d, ip |-> ip]}
         /\ ip # NULL => GetDeviceByIp(f, ip) = GetDevice(f, d)
<1> DEFINE row == [id |-> d, ip |-> ip]
<1>1. /\ Key("devices", {"id"}) \in Keys /\ Key("devices", {"ip"}) \in Keys /\ "devices" \in Tables
      /\ Key("devices", {"id"}).of = "devices" /\ Key("devices", {"id"}).columns = {"id"}
      /\ Key("devices", {"ip"}).of = "devices" /\ Key("devices", {"ip"}).columns = {"ip"}
  BY TableNames DEF Keys, Key
<1>2. row["id"] = d /\ row["ip"] = ip /\ d # NULL /\ row \in f.rows["devices"]
  BY Named
<1> HIDE DEF row
<1>3. \A o \in f.rows["devices"] : Alike("devices", o, row) => o = row
  BY <1>1, <1>2 DEF Kept
<1>4. ASSUME NEW o \in f.rows["devices"], o["id"] = d PROVE o = row
  <2>1. Alike("devices", o, row)
    BY <1>1, <1>2, <1>4 DEF Alike
  <2> QED
    BY <1>3, <2>1
<1>5. ASSUME NEW o \in f.rows["devices"], o["ip"] = ip, ip # NULL PROVE o = row
  <2>1. Alike("devices", o, row)
    BY <1>1, <1>2, <1>5 DEF Alike
  <2> QED
    BY <1>3, <2>1
<1>6. GetDevice(f, d) = {row}
  BY <1>2, <1>4 DEF GetDevice, Get
<1>7. ip # NULL => GetDeviceByIp(f, ip) = {row}
  BY <1>2, <1>5 DEF GetDeviceByIp
<1> QED
  BY <1>6, <1>7 DEF row

LEMMA SeededWhole ==
  ASSUME NEW f, Kept(f, {}), NEW s \in Sections, NEW d \in Devices, Seeded(f, s, d, <<>>)
  PROVE  LET grantable == Range(s.grantable) \union Range(s.extra)
         IN  /\ GetDevice(f, d) = {[id |-> d, ip |-> s.ip]}
             /\ s.ip # NULL => GetDeviceByIp(f, s.ip) = GetDevice(f, d)
             /\ ListDeviceBlocklistsGrouped(f, d, "grantable") = grantable
             /\ ListDeviceBlocklistsGrouped(f, d, "hard") = Range(s.hard) \ grantable
<1> DEFINE B == BindingsAre(s, d)
           G == Range(s.grantable) \union Range(s.extra)
           R == Shown(B, Len(B))
<1>1. RowsFor(f, d) = R
  BY DEF Seeded, Rest
<1>2. \A mode : ListDeviceBlocklistsGrouped(f, d, mode)
                  = {r.category : r \in {b \in RowsFor(f, d) : b.mode = mode}}
  BY DEF ListDeviceBlocklistsGrouped, RowsFor
<1>3. /\ {r.category : r \in {b \in R : b.mode = "grantable"}} = G
      /\ {r.category : r \in {b \in R : b.mode = "hard"}} = Range(s.hard) \ G
  BY TiersShown
<1>4. [id |-> d, ip |-> s.ip] \in f.rows["devices"]
  BY DEF Seeded
<1>5. /\ GetDevice(f, d) = {[id |-> d, ip |-> s.ip]}
      /\ s.ip # NULL => GetDeviceByIp(f, s.ip) = GetDevice(f, d)
  BY <1>4, OneDevice
<1> HIDE DEF R, G
<1>6. /\ ListDeviceBlocklistsGrouped(f, d, "grantable") = G
      /\ ListDeviceBlocklistsGrouped(f, d, "hard") = Range(s.hard) \ G
  BY <1>1, <1>2, <1>3
<1> QED
  BY <1>5, <1>6 DEF G

(* A process leaves its seed for the port in one way only. *)
LEMMA OnlySeedEnds ==
  ASSUME Types, Next, NEW i \in Instances, pc[i] = "seed", pc'[i] = "bind"
  PROVE  SeedEnds(i)
<1>1. pc \in [Instances -> Places]
  BY DEF Types
<1>2. ASSUME NEW j \in Instances, NEW p, p # "bind", pc' = [pc EXCEPT ![j] = p] PROVE FALSE
  BY <1>1, <1>2
<1>3. ASSUME NEW j \in Instances, End(j) PROVE FALSE
  BY <1>2, <1>3 DEF End, Goto
<1>4. ASSUME pc' = pc PROVE FALSE
  BY <1>4
<1>5. ASSUME NEW j \in Instances, NEW p, pc[j] # "seed", pc' = [pc EXCEPT ![j] = p] PROVE FALSE
  BY <1>1, <1>5
<1>6. ASSUME NEW j \in Instances, Start(j) \/ Busy(j) \/ Crash(j) PROVE FALSE
  BY <1>2, <1>3, <1>6 DEF Start, Busy, Crash, Goto
<1>7. ASSUME NEW j \in Instances, Step(j) PROVE SeedEnds(j)
  <2>1. ~ReadVersion(j)
    BY <1>5 DEF ReadVersion, Goto
  <2>2. ~Migrate(j) /\ ~SeedBinding(j) /\ ~(\E d \in Devices : SeedDevice(j, d))
    BY <1>4 DEF Migrate, SeedBinding, SeedDevice
  <2>3. ~MigrateFails(j) /\ ~SeedFails(j) /\ ~BindFails(j)
    BY <1>3 DEF MigrateFails, SeedFails, BindFails
  <2>4. ~Commit(j)
    BY <1>4, <1>5 DEF Commit, Goto
  <2>5. ~SeedIfEmpty(j)
    BY <1>5 DEF SeedIfEmpty, Goto
  <2>6. ~Bind(j)
    BY <1>5 DEF Bind, Goto
  <2> QED
    BY <1>7, <2>1, <2>2, <2>3, <2>4, <2>5, <2>6 DEF Step
<1>8. ~Edit /\ ~(\E d \in Devices : ShellDelete(d))
  BY <1>4 DEF Edit, ShellDelete, run
<1>9. PICK j \in Instances : SeedEnds(j)
  BY <1>6, <1>7, <1>8 DEF Next
<1>10. j = i
  BY <1>1, <1>9 DEF SeedEnds, Goto
<1> QED
  BY <1>9, <1>10

(* A seed that ends without an error has left every device of              *)
(* homeguard.toml with its address and all of its categories, whatever     *)
(* other processes were doing at the time (maybe_seed_devices_from_toml).  *)
THEOREM SeedsAreWhole == FairSpec => SeedEndsWhole
<1> DEFINE Whole(f, s, d) ==
             LET grantable == Range(s.grantable) \union Range(s.extra)
             IN  /\ GetDevice(f, d) = {[id |-> d, ip |-> s.ip]}
                 /\ s.ip # NULL => GetDeviceByIp(f, s.ip) = GetDevice(f, d)
                 /\ ListDeviceBlocklistsGrouped(f, d, "grantable") = grantable
                 /\ ListDeviceBlocklistsGrouped(f, d, "hard") = Range(s.hard) \ grantable
           Ends == \A i \in Instances :
                     pc[i] = "seed" /\ pc'[i] = "bind" /\ edits = 0 =>
                       \A d \in DOMAIN toml : Whole(file, toml[d], d)
<1>1. StorageInv /\ SeedInv /\ [Next]_vars => [Ends]_vars
  <2> SUFFICES ASSUME StorageInv, SeedInv, Next, NEW i \in Instances,
                      pc[i] = "seed", pc'[i] = "bind", edits = 0, NEW d \in DOMAIN toml
               PROVE  Whole(file, toml[d], d)
    BY DEF vars
  <2>1. todo[i] = {} /\ bindings[i] = <<>>
    BY OnlySeedEnds DEF StorageInv, SeedEnds
  <2>2. Seeded(file, toml[d], d, bindings[i]) /\ loose = {}
    <3>1. d \in Visited(i)
      BY <2>1 DEF Visited
    <3> QED
      BY <3>1 DEF SeedInv
  <2> DEFINE f == file
             s == toml[d]
  <2>3. Kept(f, {}) /\ s \in Sections /\ d \in Devices /\ Seeded(f, s, d, <<>>)
    BY <2>1, <2>2, TomlIs DEF StorageInv
  <2> HIDE DEF f, s
  <2>4. Whole(f, s, d)
    BY <2>3, SeededWhole
  <2> QED
    BY <2>4 DEF f, s
<1> QED
  BY <1>1, StorageInvariant, SeedInvariant, PTL DEF FairSpec, SeedEndsWhole, Ends, Whole
=============================================================================
