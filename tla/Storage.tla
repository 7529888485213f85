------------------------------ MODULE Storage ------------------------------
(***************************************************************************)
(* The start of HomeGuard as far as its database is concerned (main.rs     *)
(* with storage/sqlite.rs): Database::open() with its migrations, the seed *)
(* of the devices from homeguard.toml, and the port that lets one instance *)
(* at a time come up; then the statements that change the tables.          *)
(*                                                                         *)
(* launchd starts the service again whenever it has stopped; a second      *)
(* instance may be started by hand at any time.  A transaction is deferred *)
(* and its first statement writes, so it holds the write lock from then to *)
(* the commit; every other statement is a transaction of its own.  What a  *)
(* transaction has not committed is gone when its process is.              *)
(***************************************************************************)
EXTENDS ConfigStore, Functions, TLC

CONSTANTS
  Instances,    \* processes that open the database,
  Service,      \*   of which launchd runs this one
  Nobody,
  Devices,
  Addresses,
  Categories,
  Names,        \* what the parent may call a schedule, a server or a group,
  Priorities,   \*   and how a rule or a member of a group may be ranked
  Tomls,        \* [devices.*]: device |-> [ip, hard, grantable, extra]
  FilesWith(_), \* what the database may be like at first beside such a file
  MaxCrashes,   \* bounds: processes killed,
  MaxFaults,    \*   reads that fail,
  MaxEdits      \*   statements after the start

VARIABLES
  toml,         \* the devices in homeguard.toml
  file,         \* the committed database
  lock,         \* who has the write lock,
  draft,        \*   and what its transaction has made of the file
  pc,           \* pc[i]: "down", "version", "migrate", "list", "seed", "bind", "up"
  migration,    \* migration[i]: the migration that i is in,
  step,         \*   and the statement it is at
  todo,         \* todo[i]: devices that the loop of the seed has still to visit,
  bindings,     \*   and categories of the one it is at
  loose,        \* devices whose rows a shell has left without them
  crashes, faults, edits

run == <<pc, migration, step, todo, bindings>>
bounds == <<crashes, faults, edits>>
vars == <<toml, file, lock, draft, run, loose, bounds>>

Modes == {"hard", "grantable"}

Sections ==
  [ip : Addresses \union {NULL}, hard : Seq(Categories), grantable : Seq(Categories),
   extra : Seq(Categories)]

ASSUME StorageAssumption ==
  /\ Service \in Instances /\ Nobody \notin Instances
  /\ \A t \in Tomls : DOMAIN t \subseteq Devices /\ t \in [DOMAIN t -> Sections]
  /\ \A t \in Tomls : \A f \in FilesWith(t) : LeftBehind(f)
  /\ Priorities \subseteq Nat
  /\ NULL \notin UNION {Devices, Categories, Modes, Names, {"granularity"}} /\ NULL \notin Nat
  /\ MaxCrashes \in Nat /\ MaxFaults \in Nat /\ MaxEdits \in Nat

Init ==
  /\ toml \in Tomls
  /\ file \in FilesWith(toml)
  /\ lock = Nobody
  /\ draft = file
  /\ pc = [i \in Instances |-> "down"]
  /\ migration = [i \in Instances |-> 1]
  /\ step = [i \in Instances |-> 1]
  /\ todo = [i \in Instances |-> {}]
  /\ bindings = [i \in Instances |-> <<>>]
  /\ loose = {}
  /\ crashes = 0 /\ faults = 0 /\ edits = 0

-----------------------------------------------------------------------------
Goto(i, where) == pc' = [pc EXCEPT ![i] = where]

Enter(i, v) ==
  /\ migration' = [migration EXCEPT ![i] = v]
  /\ step' = [step EXCEPT ![i] = 1]

\* Mutant: without a transaction, what a process has done stays done.
EndHalfWay(i) ==
  /\ Goto(i, "down")
  /\ file' = IF lock = i THEN draft ELSE file
  /\ lock' = IF lock = i THEN Nobody ELSE lock
  /\ Enter(i, 1)
  /\ todo' = [todo EXCEPT ![i] = {}]
  /\ bindings' = [bindings EXCEPT ![i] = <<>>]
  /\ UNCHANGED <<toml, draft, loose>>

\* The process ends; its transaction, if it has one, is rolled back.
End(i) ==
  /\ Goto(i, "down")
  /\ lock' = IF lock = i THEN Nobody ELSE lock
  /\ draft' = IF lock = i THEN file ELSE draft
  /\ Enter(i, 1)
  /\ todo' = [todo EXCEPT ![i] = {}]
  /\ bindings' = [bindings EXCEPT ![i] = <<>>]
  /\ UNCHANGED <<toml, file, loose>>

Start(i) ==
  /\ pc[i] = "down"
  /\ Goto(i, "version")
  /\ UNCHANGED <<toml, file, lock, draft, migration, step, todo, bindings, loose, bounds>>

\* A query that fails counts as version 0: unwrap_or(0).
ReadVersion(i) ==
  /\ pc[i] = "version"
  /\ \E version \in {Version(file), 0} :
       /\ version # Version(file) => faults < MaxFaults
       /\ faults' = faults + IF version # Version(file) THEN 1 ELSE 0
       /\ IF version < SchemaVersion
          THEN Goto(i, "migrate") /\ Enter(i, version + 1)
          ELSE Goto(i, "list") /\ UNCHANGED <<migration, step>>
  /\ UNCHANGED <<toml, file, lock, draft, todo, bindings, loose, crashes, edits>>

Statements(i) == Migrations[migration[i]]

Work(i) == IF lock = i THEN draft ELSE file

\* One statement of a migration; the first takes the lock.
Migrate(i) ==
  /\ pc[i] = "migrate"
  /\ lock \in {i, Nobody}
  /\ step[i] <= Len(Statements(i))
  /\ ~ Refused(Work(i), Statements(i)[step[i]])
  /\ lock' = i
  /\ draft' = Executed(Work(i), Statements(i)[step[i]], migration[i])
  /\ step' = [step EXCEPT ![i] = @ + 1]
  /\ UNCHANGED <<toml, file, pc, migration, todo, bindings, loose, bounds>>

\* open() returns the error and main ends.
MigrateFails(i) ==
  /\ pc[i] = "migrate"
  /\ lock \in {i, Nobody}
  /\ step[i] <= Len(Statements(i))
  /\ Refused(Work(i), Statements(i)[step[i]])
  /\ End(i)
  /\ UNCHANGED bounds

Commit(i) ==
  /\ pc[i] = "migrate"
  /\ step[i] > Len(Statements(i))
  /\ file' = draft
  /\ lock' = Nobody
  /\ IF migration[i] < SchemaVersion
     THEN Enter(i, migration[i] + 1) /\ UNCHANGED pc
     ELSE Goto(i, "list") /\ Enter(i, 1)
  /\ UNCHANGED <<toml, draft, todo, bindings, loose, bounds>>

-----------------------------------------------------------------------------
(***************************************************************************)
(* maybe_seed_devices_from_toml().                                         *)
(***************************************************************************)

\* The rows of a query that cannot be read are left out: filter_map(|r| r.ok()).
SeedIfEmpty(i) ==
  /\ pc[i] = "list"
  /\ \E listed \in {ListDevices(file), {}} :
       /\ listed # ListDevices(file) => faults < MaxFaults
       /\ faults' = faults + IF listed # ListDevices(file) THEN 1 ELSE 0
       /\ IF DOMAIN toml # {} /\ listed = {}
          THEN Goto(i, "seed") /\ todo' = [todo EXCEPT ![i] = DOMAIN toml]
          ELSE Goto(i, "bind") /\ UNCHANGED todo
  /\ UNCHANGED <<toml, file, lock, draft, migration, step, bindings, loose, crashes, edits>>

\* Mutant: extra_blocklists takes the place of grantable_blocklists.
BindingsOfOneTier(d) ==
  LET Rows(categories, mode) ==
        [n \in DOMAIN categories |-> [device |-> d, category |-> categories[n], mode |-> mode]]
  IN  Rows(toml[d].hard, "hard")
        \o Rows(IF toml[d].extra = <<>> THEN toml[d].grantable ELSE toml[d].extra, "grantable")

\* The categories of a device in the order in which they are written.
BindingsOf(d) ==
  LET Rows(categories, mode) ==
        [n \in DOMAIN categories |-> [device |-> d, category |-> categories[n], mode |-> mode]]
  IN  Rows(toml[d].hard, "hard") \o Rows(toml[d].grantable, "grantable")
        \o Rows(toml[d].extra, "grantable")

\* A HashMap is visited in any order.
SeedDevice(i, d) ==
  /\ pc[i] = "seed" /\ d \in todo[i] /\ bindings[i] = <<>>
  /\ lock = Nobody
  /\ file' \in InsertDevice(file, d, toml[d].ip)
  /\ todo' = [todo EXCEPT ![i] = @ \ {d}]
  /\ bindings' = [bindings EXCEPT ![i] = BindingsOf(d)]
  /\ UNCHANGED <<toml, lock, draft, pc, migration, step, loose, bounds>>

SeedBinding(i) ==
  /\ pc[i] = "seed" /\ bindings[i] # <<>>
  /\ lock = Nobody
  /\ LET b == Head(bindings[i])
     IN  file' \in AddDeviceBlocklist(file, b.device, b.category, b.mode)
  /\ bindings' = [bindings EXCEPT ![i] = Tail(@)]
  /\ UNCHANGED <<toml, lock, draft, pc, migration, step, todo, loose, bounds>>

\* The statement that comes next is refused, and main ends.
SeedFails(i) ==
  /\ pc[i] = "seed"
  /\ lock = Nobody
  /\ IF bindings[i] = <<>>
     THEN \E d \in todo[i] : InsertDevice(file, d, toml[d].ip) = {}
     ELSE LET b == Head(bindings[i])
          IN  AddDeviceBlocklist(file, b.device, b.category, b.mode) = {}
  /\ End(i)
  /\ UNCHANGED bounds

SeedEnds(i) ==
  /\ pc[i] = "seed" /\ todo[i] = {} /\ bindings[i] = <<>>
  /\ Goto(i, "bind")
  /\ UNCHANGED <<toml, file, lock, draft, migration, step, todo, bindings, loose, bounds>>

\* The write lock is not free within the busy timeout.
Busy(i) ==
  /\ lock \notin {i, Nobody}
  /\ pc[i] \in {"migrate", "seed"}
  /\ End(i)
  /\ UNCHANGED bounds

-----------------------------------------------------------------------------
(***************************************************************************)
(* Coming up and going down.                                               *)
(***************************************************************************)

\* DnsServer::new(): the port belongs to one process.
Bind(i) ==
  /\ pc[i] = "bind"
  /\ \A j \in Instances : pc[j] # "up"
  /\ Goto(i, "up")
  /\ UNCHANGED <<toml, file, lock, draft, migration, step, todo, bindings, loose, bounds>>

BindFails(i) ==
  /\ pc[i] = "bind"
  /\ \E j \in Instances : pc[j] = "up"
  /\ End(i)
  /\ UNCHANGED bounds

Crash(i) ==
  /\ pc[i] # "down" /\ crashes < MaxCrashes
  /\ crashes' = crashes + 1
  /\ End(i)
  /\ UNCHANGED <<faults, edits>>

-----------------------------------------------------------------------------
(***************************************************************************)
(* Statements after the start, each a transaction of its own: those of     *)
(* ConfigStore, which is how foreign keys are enforced, and those of the   *)
(* parent's sqlite3 shell, where they are not unless asked for.            *)
(***************************************************************************)
EditDevices ==
  \/ \E d \in Devices, ip \in Addresses \union {NULL} :
       file' \in InsertDevice(file, d, ip) \union UpdateDevice(file, d, ip)
  \/ \E d \in Devices : file' \in DeleteDevice(file, d)
  \/ \E d \in Devices, c \in Categories, m \in Modes : file' \in AddDeviceBlocklist(file, d, c, m)
  \/ \E d \in Devices, c \in Categories : file' \in InsertGrant(file, d, c)

EditSchedules ==
  \/ \E n \in Names : file' \in InsertSchedule(file, n)
  \/ \E s \in Ids(ListSchedules(file)) : file' \in DeleteSchedule(file, s)
  \/ \E d \in Devices, s \in Ids(ListSchedules(file)) :
       file' \in AddDeviceSchedule(file, d, s) \union RemoveDeviceSchedule(file, d, s)
  \/ \E p \in Priorities, s \in Ids(ListSchedules(file)) \union {NULL} : file' \in InsertRule(file, p, s)
  \/ \E r \in Ids(ListRules(file)) : file' \in DeleteRule(file, r)

EditProxies ==
  \/ \E n \in Names : file' \in InsertProxyServer(file, n) \union InsertProxyGroup(file, n)
  \/ \E p \in Ids(ListProxyServers(file)) : file' \in DeleteProxyServer(file, p)
  \/ \E g \in Ids(ListProxyGroups(file)), p \in Ids(ListProxyServers(file)), n \in Priorities :
       file' \in AddGroupMember(file, g, p, n) \union RemoveGroupMember(file, g, p)

EditConfig ==
  \/ \E v \in Names : file' \in SetConfig(file, "granularity", v)
  \/ file' \in DeleteConfig(file, "granularity")

Edit ==
  /\ \E i \in Instances : pc[i] = "up"
  /\ lock = Nobody /\ edits < MaxEdits
  /\ edits' = edits + 1
  /\ \/ EditDevices
     \/ EditSchedules
     \/ EditProxies
     \/ EditConfig
  /\ UNCHANGED <<toml, lock, draft, run, loose, crashes, faults>>

\* DELETE FROM devices in the shell leaves what refers to the device.
ShellDelete(d) ==
  /\ d \in Ids(ListDevices(file))
  /\ lock = Nobody /\ edits < MaxEdits
  /\ edits' = edits + 1
  /\ file' = DeletedAlone(file, "devices", d)
  /\ loose' = loose \union {d}
  /\ UNCHANGED <<toml, lock, draft, run, crashes, faults>>

Step(i) ==
  \/ ReadVersion(i) \/ Migrate(i) \/ MigrateFails(i) \/ Commit(i)
  \/ SeedIfEmpty(i) \/ (\E d \in Devices : SeedDevice(i, d)) \/ SeedBinding(i)
  \/ SeedFails(i) \/ SeedEnds(i)
  \/ Bind(i) \/ BindFails(i)

Next ==
  \/ \E i \in Instances : Start(i) \/ Step(i) \/ Busy(i) \/ Crash(i)
  \/ Edit
  \/ \E d \in Devices : ShellDelete(d)

\* launchd starts the service again; a process that is running goes on.
FairSpec ==
  /\ Init /\ [][Next]_vars
  /\ WF_vars(Start(Service))
  /\ \A i \in Instances : WF_vars(Step(i))

-----------------------------------------------------------------------------
(***************************************************************************)
(* Properties.                                                             *)
(***************************************************************************)
RowsOf(t, c, x) == {r \in file.rows[t] : r[c] = x}

\* Types; a transaction belongs to the process that holds the lock, and no
\* table lets two of its rows have the same key.
TypeOK ==
  /\ lock \in Instances \union {Nobody}
  /\ \A i \in Instances :
       /\ pc[i] \in {"down", "version", "migrate", "list", "seed", "bind", "up"}
       /\ migration[i] \in 1..SchemaVersion
       /\ step[i] \in 1..(Len(Statements(i)) + 1)
       /\ step[i] > 1 => lock = i /\ pc[i] = "migrate"
       /\ todo[i] \subseteq DOMAIN toml
       /\ bindings[i] # <<>> => pc[i] = "seed"
  /\ file.versions \subseteq 1..SchemaVersion
  /\ \A t \in Tables : \A r \in file.rows[t] : Clashes(file, t, r) = {r} \/ Clashes(file, t, r) = {}
  /\ loose \subseteq Devices

\* The committed tables are those of the recorded version, each in the form
\* that version has, whenever a process is killed in a migration and whatever
\* another one that read the version before does (run_migrations, migrate_v1,
\* migrate_v2).
TablesFitVersion == file.tables = Form(Version(file))

\* A migration loses no row, although v2 drops a table and a process may run it
\* for the second time: the version is read outside its transaction.
MigrationsKeepRows ==
  [][(\E i \in Instances : pc[i] = "migrate" /\ step[i] > 1 /\ file' # file)
       => file'.rows = file.rows]_vars

\* Whatever is deleted, the queries of ConfigStore find every row that another
\* one refers to; only a device that a shell has deleted may be missing.
ReferencesHold ==
  /\ \A t \in {"device_blocklists", "device_schedules", "grants"} :
       \A r \in file.rows[t] : r.device \in Ids(ListDevices(file)) \union loose
  /\ \A d \in Devices :
       Cardinality(GetDeviceSchedules(file, d)) = Cardinality(RowsOf("device_schedules", "device", d))
  /\ \A g \in Ids(ListProxyGroups(file)) :
       Cardinality(GetGroupMembers(file, g)) = Cardinality(RowsOf("proxy_group_members", "group", g))
  /\ \A m \in file.rows["proxy_group_members"] : GetProxyGroup(file, m.group) # {}
  /\ \A r \in file.rows["rules"] : r.schedule # NULL => GetSchedule(file, r.schedule) # {}

\* A seed that ends without an error has left every device of homeguard.toml
\* with its address and all of its categories, also when another process was
\* seeding at the same time; a category of both tiers is left grantable.
SeedEndsWhole ==
  [][\A i \in Instances :
       pc[i] = "seed" /\ pc'[i] = "bind" /\ edits = 0 =>
         \A d \in DOMAIN toml :
           LET grantable == Range(toml[d].grantable) \union Range(toml[d].extra)
           IN  /\ GetDevice(file, d) = {[id |-> d, ip |-> toml[d].ip]}
               /\ toml[d].ip # NULL => GetDeviceByIp(file, toml[d].ip) = GetDevice(file, d)
               /\ ListDeviceBlocklistsGrouped(file, d, "grantable") = grantable
               /\ ListDeviceBlocklistsGrouped(file, d, "hard") = Range(toml[d].hard) \ grantable]_vars

\* Two processes that open, migrate and seed the same file, reads that fail and
\* processes that are killed only delay the service: in the end one of them is up.
ServiceComesUp == <>[](\E i \in Instances : pc[i] = "up")
=============================================================================
