-------------------------- MODULE ParentalControl --------------------------
(***************************************************************************)
(* ParentalController (src/src/control/controller.rs) as main.rs builds it *)
(* at startup from the tables of devices, from the blocklist files and     *)
(* from the GrantStore.  Devices and lists are read once; only grants      *)
(* reach a process that is up.                                             *)
(***************************************************************************)
EXTENDS GrantStore, Blocklist

CONSTANTS
  Strangers,         \* sources that are no device
  DeviceType,        \* DeviceType[d]: "child", "adult", "iot", "unknown"
  Global,            \* the name of the global list
  GlobalCategories,  \* [parental].global_categories
  DefaultPolicy,     \* [parental].default_policy
  Setup,             \* device_blocklists as it is before the first start
  NewModes,          \* the changes <<pair, mode>> that a parent may make to it
  MaxEdits           \* bound: the changes of the tables of devices

VARIABLES
  modes,       \* device_blocklists: modes[p] is "hard", "grantable", "none"
  edits,       \* changes made to it
  known,       \* the devices the process has read
  hard,        \* hard[d], grantable[d]: the categories of a device, as read
  grantable,
  lists,       \* the lines of each list, as read
  intact       \* what was read is still what the tables and the files say

config == <<known, hard, grantable, lists>>
pvars == <<gvars, modes, edits, config, intact>>

ASSUME ParentalAssumption ==
  /\ Lists = Categories \cup {Global} /\ Global \notin Categories
  /\ GlobalCategories \subseteq Categories
  /\ DefaultPolicy \in {"allow", "block_if_listed", "block_all"}
  /\ Setup \in [Pairs -> {"hard", "grantable", "none"}]
  /\ NewModes \subseteq Pairs \X {"hard", "grantable"} /\ MaxEdits \in Nat

Sources == Devices \cup Strangers

ParentalInit ==
  /\ GrantInit
  /\ modes = Setup
  /\ edits = 0
  /\ known = {}
  /\ hard = [d \in Devices |-> {}]
  /\ grantable = [d \in Devices |-> {}]
  /\ lists = [l \in Lists |-> {}]
  /\ intact = TRUE

-----------------------------------------------------------------------------
\* add_device_blocklist, or the parent's INSERT ... ON CONFLICT DO UPDATE.
AddDeviceBlocklist(p, mode) ==
  /\ edits < MaxEdits
  /\ edits' = edits + 1
  /\ modes' = [modes EXCEPT ![p] = mode]
  /\ intact' = FALSE
  /\ UNCHANGED <<gvars, config>>

(***************************************************************************)
(* Startup: list_devices, list_device_blocklists_grouped, load_directory.  *)
(***************************************************************************)
LoadConfig(devices, bindings, entries) ==
  /\ process = "down"
  /\ process' = "loaded"
  /\ known' = devices
  /\ hard' = [d \in Devices |-> {c \in Categories : <<d, c>> \in bindings /\ modes[<<d, c>>] = "hard"}]
  /\ grantable' = [d \in Devices |-> {c \in Categories : <<d, c>> \in bindings /\ modes[<<d, c>>] = "grantable"}]
  /\ lists' = entries
  /\ UNCHANGED <<table, active, task, modes, edits>>

Bindings == {p \in Pairs : modes[p] # "none"}

LoadWhole ==
  /\ LoadConfig(Devices, Bindings, FullyLoaded)
  /\ intact' = TRUE
  /\ UNCHANGED faults

\* ORDER BY name, and ORDER BY device_id, category: the first rows.
FirstDevices == {{d \in Devices : d < n} : n \in Devices}
FirstBindings ==
  {{p \in Bindings : p[1] < q[1] \/ (p[1] = q[1] /\ p[2] < q[2])} : q \in Bindings}

\* One of the reads fails and is cut short, which nothing reports but a file.
LoadCutShort ==
  /\ faults < MaxFaults
  /\ faults' = faults + 1
  /\ intact' = FALSE
  /\ \/ \E devices \in FirstDevices : LoadConfig(devices, Bindings, FullyLoaded)
     \/ \E bindings \in FirstBindings : LoadConfig(Devices, bindings, FullyLoaded)
     \/ \E entries \in PartlyLoaded : LoadConfig(Devices, Bindings, entries)

-----------------------------------------------------------------------------
(***************************************************************************)
(* check_access(source_ip, domain).                                        *)
(***************************************************************************)
InCategory(dom, c) == OnList(dom, lists[c])

BlockedForAll(dom) ==
  \/ OnList(dom, lists[Global])
  \/ \E c \in GlobalCategories : InCategory(dom, c)

\* Mutant: the grants are consulted before the hard categories.
BlockedForDeviceGrantFirst(d, dom) ==
  LET hits == {c \in hard[d] \cup grantable[d] : InCategory(dom, c)}
  IN  hits # {} /\ ~ \E c \in hits : HasActive(<<d, c>>)

\* A hard category that the domain is in, or the first grantable one, in the
\* order of their names, without a grant.
BlockedForDevice(d, dom) ==
  LET hits == {c \in grantable[d] : InCategory(dom, c)}
  IN  \/ \E c \in hard[d] : InCategory(dom, c)
      \/ hits # {} /\ ~ HasActive(<<d, Min(hits)>>)

Blocked(s, dom) ==
  \/ BlockedForAll(dom)
  \/ s \notin known /\ DefaultPolicy = "block_all"
  \/ s \in known /\ DeviceType[s] # "adult" /\ BlockedForDevice(s, dom)

-----------------------------------------------------------------------------
GrantStep ==
  \/ \E g \in NewGrants : InsertGrant(g)
  \/ \E i \in DOMAIN grants : RevokeGrant(i)
  \/ OpenWhole \/ OpenCutShort
  \/ RefreshTask
  \/ Tick

ParentalNext ==
  \/ GrantStep /\ UNCHANGED <<modes, edits, config, intact>>
  \/ \E m \in NewModes : AddDeviceBlocklist(m[1], m[2])
  \/ LoadWhole \/ LoadCutShort
  \/ /\ Crash
     /\ known' = {}
     /\ hard' = [d \in Devices |-> {}]
     /\ grantable' = [d \in Devices |-> {}]
     /\ lists' = [l \in Lists |-> {}]
     /\ intact' = TRUE
     /\ UNCHANGED <<modes, edits>>

ParentalSpec == ParentalInit /\ [][ParentalNext]_pvars

-----------------------------------------------------------------------------
TypeOK ==
  /\ GrantTypeOK
  /\ modes \in [Pairs -> {"hard", "grantable", "none"}]
  /\ edits \in 0 .. MaxEdits
  /\ known \subseteq Devices
  /\ hard \in [Devices -> SUBSET Categories]
  /\ grantable \in [Devices -> SUBSET Categories]
  /\ DOMAIN lists = Lists
  /\ intact \in BOOLEAN

Controlled(d) == process = "up" /\ DeviceType[d] # "adult"

(***************************************************************************)
(* A domain of a hard category is blocked at every moment, whatever is     *)
(* granted, also for that very category, by whoever and whenever.          *)
(***************************************************************************)
HardNeverOpens ==
  \A d \in Devices, c \in Categories, dom \in Domains :
    /\ Controlled(d) /\ intact
    /\ modes[<<d, c>>] = "hard"
    /\ OnList(dom, FullyLoaded[c])
    => Blocked(d, dom)

(***************************************************************************)
(* A domain of a grantable category passes only by a row of the table for  *)
(* this very device and one of the categories the domain is in, a row that *)
(* has not expired, nor been revoked for longer than the map may lag.      *)
(***************************************************************************)
OnlyGrantsOpen ==
  \A d \in Devices, dom \in Domains :
    LET hits == {c \in Categories : modes[<<d, c>>] = "grantable" /\ OnList(dom, FullyLoaded[c])}
    IN  Controlled(d) /\ intact /\ hits # {} /\ ~Blocked(d, dom) =>
          \E c \in hits, i \in DOMAIN grants :
            /\ Grants(grants[i], <<d, c>>)
            /\ grants[i].revoked = NotRevoked \/ now - grants[i].revoked <= Lag

-----------------------------------------------------------------------------
\* "Any grantable_blocklists category matches: active grant for (device,
\* category) -> allow": a grant for a category opens the domains in it.
GrantOpensCategory ==
  \A d \in Devices, c \in Categories, dom \in Domains :
    /\ process = "up"
    /\ d \in known
    /\ c \in grantable[d] /\ InCategory(dom, c) /\ HasActive(<<d, c>>)
    /\ ~BlockedForAll(dom)
    /\ ~ \E h \in hard[d] : InCategory(dom, h)
    => ~Blocked(d, dom)
=============================================================================
