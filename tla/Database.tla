------------------------------ MODULE Database ------------------------------
(***************************************************************************)
(* The SQLite file of HomeGuard (src/src/storage/sqlite.rs): its tables,   *)
(* the statements of the two migrations, and what SQLite makes of an       *)
(* INSERT or a DELETE under the keys and references that they declare.     *)
(*                                                                         *)
(* A file is a record: tables[t] is the migration that created table t in  *)
(* its present form, versions the rows of schema_version, rows[t] the rows *)
(* of t, and last[t] the last id that AUTOINCREMENT gave out.  A row has   *)
(* the columns that something refers to or is told apart by; ip stands for *)
(* the two addresses of a device, each of which is unique where not NULL.  *)
(***************************************************************************)
EXTENDS FiniteSetsExt, Integers, Sequences

CONSTANT NULL

Numbered == {"schedules", "blocklists", "proxy_servers", "proxy_groups", "rules", "grants"}
Tables == Numbered \union {"devices", "device_schedules", "device_blocklists",
                           "proxy_group_members", "global_config"}

NewFile ==
  [tables |-> <<>>, versions |-> {}, rows |-> [t \in Tables |-> {}],
   last |-> [t \in Numbered |-> 0]]

Columns ==
  [devices |-> {"id", "ip"}, schedules |-> {"id", "name"},
   device_schedules |-> {"device", "schedule"}, blocklists |-> {"id"},
   device_blocklists |-> {"device", "category", "mode"},
   proxy_servers |-> {"id", "name"}, proxy_groups |-> {"id", "name"},
   proxy_group_members |-> {"group", "proxy", "priority"},
   rules |-> {"id", "priority", "schedule"}, global_config |-> {"key", "value"},
   grants |-> {"id", "device", "category"}]

\* Every other column is NOT NULL, or a key that the code never leaves NULL.
Optional == {<<"devices", "ip">>, <<"rules", "schedule">>}

RowOf(t, r) ==
  /\ DOMAIN r = Columns[t] /\ r = [c \in DOMAIN r |-> r[c]]
  /\ \A c \in DOMAIN r : r[c] = NULL => <<t, c>> \in Optional

-----------------------------------------------------------------------------
(***************************************************************************)
(* Migrations: sequences of statements, each sequence one transaction.     *)
(***************************************************************************)
Create(t) == [creates |-> {t}, drops |-> {}, version |-> 0]
Rebuild(t) == [creates |-> {t}, drops |-> {t}, version |-> 0]
Record(v) == [creates |-> {}, drops |-> {}, version |-> v]

Migrations ==
  << << Create("devices"), Create("schedules"), Create("device_schedules"),
        Create("blocklists"), Create("device_blocklists"), Create("proxy_servers"),
        Create("proxy_groups"), Create("proxy_group_members"), Create("rules"),
        Create("global_config"), Record(1) >>,
     << Create("grants"), Rebuild("device_blocklists"), Record(2) >> >>

SchemaVersion == 2

\* The tables of version v, each with the migration that gave it its form.
Form(v) ==
  [t \in {u \in Tables : v >= 1 /\ (u = "grants" => v >= 2)} |->
     IF v >= 2 /\ t \in {"grants", "device_blocklists"} THEN 2 ELSE 1]

\* SELECT COALESCE(MAX(version), 0)
Version(file) == Max(file.versions \union {0})

\* Mutant: CREATE TABLE IF NOT EXISTS and INSERT OR IGNORE, "so that it can be repeated".
RefusedNever(file, s) == FALSE

\* A table cannot be created twice, nor a version be recorded twice.
Refused(file, s) ==
  \/ s.creates \intersect (DOMAIN file.tables \ s.drops) # {}
  \/ ~ s.drops \subseteq DOMAIN file.tables
  \/ s.version \in file.versions

\* Statement s of migration v.
Executed(file, s, v) ==
  [tables |-> [t \in DOMAIN file.tables \union s.creates |->
                 IF t \in s.creates THEN v ELSE file.tables[t]],
   versions |-> file.versions \union ({s.version} \ {0}),
   rows |-> [t \in Tables |-> IF t \in s.drops THEN {} ELSE file.rows[t]],
   last |-> file.last]

-----------------------------------------------------------------------------
(***************************************************************************)
(* Keys and references.                                                    *)
(***************************************************************************)
Key(t, columns) == [of |-> t, columns |-> columns]

Keys ==
  {Key(t, {"id"}) : t \in Numbered \union {"devices"}}
    \union {Key(t, {"name"}) : t \in {"schedules", "proxy_servers", "proxy_groups"}}
    \union {Key("devices", {"ip"}), Key("device_schedules", {"device", "schedule"}),
            Key("device_blocklists", {"device", "category"}),
            Key("proxy_group_members", {"group", "proxy"}), Key("global_config", {"key"})}

References ==
  {[from |-> "device_schedules", column |-> "device", to |-> "devices", deletes |-> TRUE],
   [from |-> "device_schedules", column |-> "schedule", to |-> "schedules", deletes |-> TRUE],
   [from |-> "device_blocklists", column |-> "device", to |-> "devices", deletes |-> TRUE],
   [from |-> "grants", column |-> "device", to |-> "devices", deletes |-> TRUE],
   [from |-> "proxy_group_members", column |-> "group", to |-> "proxy_groups", deletes |-> TRUE],
   [from |-> "proxy_group_members", column |-> "proxy", to |-> "proxy_servers", deletes |-> TRUE],
   [from |-> "rules", column |-> "schedule", to |-> "schedules", deletes |-> FALSE]}

\* Two rows of t have the same key.
Alike(t, o, r) ==
  \E key \in Keys : key.of = t /\ \A c \in key.columns : o[c] # NULL /\ o[c] = r[c]

\* The rows that stand in the way of r.
Clashes(file, t, r) == {o \in file.rows[t] : Alike(t, o, r)}

\* Every row that r refers to is there.
Resolved(file, t, r) ==
  \A f \in References :
    f.from = t /\ r[f.column] # NULL => \E o \in file.rows[f.to] : o.id = r[f.column]

Accepts(file, t, r) == Clashes(file, t, r) = {} /\ Resolved(file, t, r)

\* PRIMARY KEY AUTOINCREMENT: an id is never given out twice.
NextId(file, t) == file.last[t] + 1

Inserted(file, t, r) ==
  LET counted == IF t \in Numbered THEN [file EXCEPT !.last[t] = r.id] ELSE file
  IN  [counted EXCEPT !.rows[t] = @ \union {r}]

\* Mutant: the row is added beside those in its way.
ReplacedBeside(file, t, r) == [file EXCEPT !.rows[t] = @ \union {r}]

\* INSERT OR REPLACE, ON CONFLICT DO UPDATE: r instead of the rows in its way.
Replaced(file, t, r) == [file EXCEPT !.rows[t] = (@ \ Clashes(file, t, r)) \union {r}]

\* DELETE with foreign_keys = OFF, as in the sqlite3 shell.
DeletedAlone(file, t, id) == [file EXCEPT !.rows[t] = {r \in @ : r.id # id}]

\* Mutant: open() forgets the PRAGMA.
DeletedWithoutPragma(file, t, id) == DeletedAlone(file, t, id)

\* ON DELETE CASCADE, ON DELETE SET NULL
Follows(t, id, u, r) ==
  \E f \in References : f.from = u /\ f.to = t /\ f.deletes /\ r[f.column] = id
Forgets(t, id, u, r, c) ==
  \E f \in References : f.from = u /\ f.to = t /\ ~f.deletes /\ f.column = c /\ r[c] = id

\* DELETE with foreign_keys = ON: rows that refer to the deleted one go with
\* it, or forget it.  No table that is referred to refers to another.
Deleted(file, t, id) ==
  LET Left(u) == {r \in file.rows[u] : ~ Follows(t, id, u, r) /\ (u = t => r.id # id)}
      After(u, r) == [c \in DOMAIN r |-> IF Forgets(t, id, u, r, c) THEN NULL ELSE r[c]]
  IN  [file EXCEPT !.rows = [u \in Tables |-> {After(u, r) : r \in Left(u)}]]

-----------------------------------------------------------------------------
(***************************************************************************)
(* What the declarations promise of the rows, except that the devices in   *)
(* loose may be missing; and a file that HomeGuard has left at some time.  *)
(***************************************************************************)
Ids(records) == {r.id : r \in records}

Points(file, t, r, loose) ==
  \A f \in References :
    f.from = t /\ r[f.column] # NULL =>
      \/ r[f.column] \in Ids(file.rows[f.to])
      \/ f.to = "devices" /\ r[f.column] \in loose

Kept(file, loose) ==
  \A t \in Tables : \A r \in file.rows[t] :
    RowOf(t, r) /\ Points(file, t, r, loose) /\ \A o \in file.rows[t] : Alike(t, o, r) => o = r

IsFile(file) ==
  /\ file = [tables |-> file.tables, versions |-> file.versions,
             rows |-> [t \in Tables |-> file.rows[t]], last |-> [t \in Numbered |-> file.last[t]]]
  /\ \A t \in Tables : IsFiniteSet(file.rows[t])
  /\ \A t \in Numbered : file.last[t] \in Nat

\* Version 1 has no row in a table that nothing filled yet.
LeftBehind(file) ==
  /\ IsFile(file) /\ Kept(file, {})
  /\ file.versions \in {{}, {1}, {1, 2}}
  /\ file.tables = Form(Version(file))
  /\ file.versions # {1, 2} => file.rows["device_blocklists"] = {}
=============================================================================
