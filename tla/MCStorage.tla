----------------------------- MODULE MCStorage -----------------------------
(* Two devices and two categories; a new file, one that version 1 of the   *)
(* schema has left, and one that is in use.                                *)
EXTENDS Storage

CONSTANTS d1, d2, ip1, ip2, c1, c2

Section(ip, hard, grantable, extra) ==
  [ip |-> ip, hard |-> hard, grantable |-> grantable, extra |-> extra]

TwoTiers ==
  (d1 :> Section(ip1, <<c1>>, <<c2>>, <<>>)) @@ (d2 :> Section(NULL, <<>>, <<c1>>, <<c2>>))
OneAddress ==
  (d1 :> Section(ip1, <<c1>>, <<c1>>, <<>>)) @@ (d2 :> Section(ip1, <<c1>>, <<>>, <<>>))
MCTomls == {<<>>, TwoTiers, OneAddress}

Filled(tables, versions) ==
  [NewFile EXCEPT
     !.tables = tables, !.versions = versions,
     !.rows["devices"] = {[id |-> d1, ip |-> ip1]},
     !.rows["schedules"] = {[id |-> 1, name |-> "first"]},
     !.rows["device_schedules"] = {[device |-> d1, schedule |-> 1]},
     !.rows["proxy_servers"] = {[id |-> 1, name |-> "first"]},
     !.rows["proxy_groups"] = {[id |-> 1, name |-> "first"]},
     !.rows["proxy_group_members"] = {[group |-> 1, proxy |-> 1, priority |-> 1]},
     !.rows["rules"] = {[id |-> 1, priority |-> 1, schedule |-> 1]},
     !.last = [t \in Numbered |-> IF t \in {"grants", "blocklists"} THEN 0 ELSE 1]]

Version1 == Filled(Form(1), {1})
InUse ==
  [Filled(Form(2), {1, 2}) EXCEPT
            !.rows["device_blocklists"] = {[device |-> d1, category |-> c1, mode |-> "grantable"]},
            !.rows["grants"] = {[id |-> 1, device |-> d1, category |-> c1]},
            !.last["grants"] = 1]

MCFilesWith(toml_) ==
  CASE toml_ = <<>> -> {Version1}
    [] toml_ = TwoTiers -> {NewFile, InUse}
    [] OTHER -> {NewFile}
=============================================================================
