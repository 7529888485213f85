---------------------------- MODULE ConfigStore ----------------------------
(***************************************************************************)
(* ConfigStore (src/src/storage/config_store.rs) over the tables of        *)
(* Database: an operation is the set of files that it may leave, which is  *)
(* empty when it returns an error.  The grants' own operations are in      *)
(* GrantStore; here a grant is a row that refers to its device.            *)
(***************************************************************************)
EXTENDS Database

\* SELECT ... WHERE id = ?
Get(file, t, id) == {r \in file.rows[t] : r.id = id}

GetDevice(file, d) == Get(file, "devices", d)
GetSchedule(file, id) == Get(file, "schedules", id)
GetProxyServer(file, id) == Get(file, "proxy_servers", id)
GetProxyGroup(file, id) == Get(file, "proxy_groups", id)

\* WHERE ip = ? finds no row whose ip is NULL.
GetDeviceByIp(file, ip) == {r \in file.rows["devices"] : r.ip = ip /\ ip # NULL}

\* The file that the statement leaves, unless it is refused.
Unless(refused, left) == IF refused THEN {} ELSE {left}

Insert(file, t, r) == Unless(~ Accepts(file, t, r), Inserted(file, t, r))

InsertDevice(file, d, ip) == Insert(file, "devices", [id |-> d, ip |-> ip])

UpdateDevice(file, d, ip) ==
  LET others == [file EXCEPT !.rows["devices"] = @ \ GetDevice(file, d)]
  IN  IF GetDevice(file, d) = {} THEN {file} ELSE InsertDevice(others, d, ip)

DeleteDevice(file, d) == {Deleted(file, "devices", d)}

InsertSchedule(file, name) ==
  Insert(file, "schedules", [id |-> NextId(file, "schedules"), name |-> name])
DeleteSchedule(file, id) == {Deleted(file, "schedules", id)}

\* INSERT OR IGNORE forgives a row that is there, not a reference to none.
AddDeviceSchedule(file, d, id) ==
  LET row == [device |-> d, schedule |-> id]
  IN  Unless(~ Resolved(file, "device_schedules", row), Replaced(file, "device_schedules", row))
RemoveDeviceSchedule(file, d, id) ==
  {[file EXCEPT !.rows["device_schedules"] = @ \ {[device |-> d, schedule |-> id]}]}

InsertProxyServer(file, name) ==
  Insert(file, "proxy_servers", [id |-> NextId(file, "proxy_servers"), name |-> name])
DeleteProxyServer(file, id) == {Deleted(file, "proxy_servers", id)}
InsertProxyGroup(file, name) ==
  Insert(file, "proxy_groups", [id |-> NextId(file, "proxy_groups"), name |-> name])

\* INSERT OR REPLACE
AddGroupMember(file, g, p, priority) ==
  LET row == [group |-> g, proxy |-> p, priority |-> priority]
  IN  Unless(~ Resolved(file, "proxy_group_members", row),
             Replaced(file, "proxy_group_members", row))
RemoveGroupMember(file, g, p) ==
  {[file EXCEPT !.rows["proxy_group_members"] = {r \in @ : ~(r.group = g /\ r.proxy = p)}]}

InsertRule(file, priority, schedule) ==
  Insert(file, "rules", [id |-> NextId(file, "rules"), priority |-> priority,
                         schedule |-> schedule])
DeleteRule(file, id) == {Deleted(file, "rules", id)}

SetConfig(file, key, value) == {Replaced(file, "global_config", [key |-> key, value |-> value])}
DeleteConfig(file, key) == {[file EXCEPT !.rows["global_config"] = {r \in @ : r.key # key}]}

\* ON CONFLICT(device_id, category) DO UPDATE SET mode = excluded.mode
AddDeviceBlocklist(file, d, category, mode) ==
  LET row == [device |-> d, category |-> category, mode |-> mode]
  IN  Unless(~ Resolved(file, "device_blocklists", row), Replaced(file, "device_blocklists", row))

InsertGrant(file, d, category) ==
  Insert(file, "grants", [id |-> NextId(file, "grants"), device |-> d, category |-> category])

-----------------------------------------------------------------------------
(***************************************************************************)
(* Queries.                                                                *)
(***************************************************************************)
ListDevices(file) == file.rows["devices"]
ListSchedules(file) == file.rows["schedules"]
ListProxyServers(file) == file.rows["proxy_servers"]
ListProxyGroups(file) == file.rows["proxy_groups"]
ListRules(file) == file.rows["rules"]

GetDeviceSchedules(file, d) ==
  UNION {GetSchedule(file, r.schedule) :
           r \in {l \in file.rows["device_schedules"] : l.device = d}}

\* The members with their servers; ORDER BY priority says nothing of equal ones.
GetGroupMembers(file, g) ==
  UNION {{<<r.priority, s>> : s \in GetProxyServer(file, r.proxy)} :
           r \in {m \in file.rows["proxy_group_members"] : m.group = g}}

ListDeviceBlocklistsGrouped(file, d, mode) ==
  {r.category : r \in {b \in file.rows["device_blocklists"] : b.device = d /\ b.mode = mode}}
=============================================================================
