----------------------------- MODULE GrantStore -----------------------------
(***************************************************************************)
(* GrantStore (src/src/control/grant.rs): the grants of the SQLite table,  *)
(* which a parent inserts and revokes from a shell of their own, and the   *)
(* map in memory that answers for them, rebuilt every refresh_interval by  *)
(* a background task.                                                      *)
(*                                                                         *)
(* Time is counted in ticks.  A refresh starts when its ticker is due and  *)
(* its steps take no time, but for the wait for a database that another    *)
(* process has locked, which SQLite gives up after BusyTimeout.            *)
(***************************************************************************)
EXTENDS Integers, Sequences, FiniteSetsExt

CONSTANTS
  Devices,      \* numbered in the order of their ids
  Categories,   \* numbered in the order of their names
  Interval,     \* GRANT_REFRESH_INTERVAL (main.rs 26)
  BusyTimeout,  \* the busy timeout of a connection
  DayLength,    \* ticks of a day
  Formats,      \* forms of expires_at: "sql", "iso", "bad" (does not parse)
  NewGrants,    \* the rows a parent may insert: [pair, expires, format]
  MaxNow,       \* bounds: the last tick,
  MaxGrants,    \*   the rows of the table,
  MaxFaults     \*   the reads that fail in a behaviour

VARIABLES
  now,          \* the clock that the process and SQLite share
  grants,       \* the rows of the table, in the order of their ids
  process,      \* "down", "loaded" (devices are read), "up"
  active,       \* active[p]: when p = <<device, category>> closes; 0: absent
  due,          \* when the ticker of the refresh task fires next
  refresh,      \* the refresh task: "idle", "reading", "read"
  since,        \* when the refresh under way was started
  fresh,        \* the map that the refresh under way has built
  failed,       \* refreshes that have failed since the last one that did not
  whole,        \* the last listing of the table was not cut short
  faults        \* failed reads so far

table == <<now, grants>>
task == <<due, refresh, since, fresh, failed, whole>>
gvars == <<table, process, active, task, faults>>

Pairs == Devices \X Categories

ASSUME GrantAssumption ==
  /\ Devices \subseteq Nat /\ Categories \subseteq Nat
  /\ Interval \in Nat \ {0} /\ BusyTimeout \in Nat /\ DayLength \in Nat \ {0}
  /\ Formats \subseteq {"sql", "iso", "bad"}
  /\ NewGrants \subseteq [pair : Pairs, expires : Nat \ {0}, format : Formats]
  /\ MaxNow \in Nat \ {0} /\ MaxGrants \in Nat /\ MaxFaults \in Nat

Expiries == {g.expires : g \in NewGrants}
NotRevoked == 0
Closed == [p \in Pairs |-> 0]

Row == [pair : Pairs, expires : Expiries, format : Formats,
        granted : 1 .. MaxNow, revoked : 0 .. MaxNow]

GrantInit ==
  /\ now = 1
  /\ grants = << >>
  /\ process = "down"
  /\ active = Closed
  /\ due = 0
  /\ refresh = "idle"
  /\ since = 0
  /\ fresh = Closed
  /\ failed = 0
  /\ whole = TRUE
  /\ faults = 0

-----------------------------------------------------------------------------
(***************************************************************************)
(* The table.  expires_at is text and list_active_grants compares text: in *)
(* the ISO form the letter T sorts behind the space that datetime('now')   *)
(* has in its place, so a row of today is listed until the day is over.    *)
(***************************************************************************)
Day(time) == time \div DayLength

Listed ==
  {i \in DOMAIN grants :
     /\ grants[i].revoked = NotRevoked
     /\ IF grants[i].format = "iso" THEN Day(grants[i].expires) >= Day(now)
                                    ELSE grants[i].expires > now}

\* ORDER BY device_id, category, expires_at DESC
Before(i, j) ==
  LET p == grants[i].pair
      q == grants[j].pair
  IN  \/ p[1] < q[1]
      \/ p[1] = q[1] /\ p[2] < q[2]
      \/ p = q /\ grants[i].expires > grants[j].expires

\* A read that fails ends the list and reports nothing: filter_map(|r| r.ok()).
CutShort(rows) ==
  {part \in SUBSET rows :
     part # rows /\ \A i \in part, j \in rows : Before(j, i) => j \in part}

\* insert_grant, or the parent's INSERT: any text is accepted.
InsertGrant(g) ==
  /\ Len(grants) < MaxGrants
  /\ grants' = Append(grants, [pair |-> g.pair, expires |-> g.expires, format |-> g.format,
                               granted |-> now, revoked |-> NotRevoked])
  /\ UNCHANGED <<now, process, active, task, faults>>

\* revoke_grant, or the parent's UPDATE.
RevokeGrant(i) ==
  /\ grants[i].revoked = NotRevoked
  /\ grants' = [grants EXCEPT ![i].revoked = now]
  /\ UNCHANGED <<now, process, active, task, faults>>

-----------------------------------------------------------------------------
(***************************************************************************)
(* The map.                                                                *)
(***************************************************************************)

\* Mutant: of several grants the one listed last, the shortest, wins.
NewMapLast(rows) ==
  [p \in Pairs |->
     LET times == {grants[i].expires : i \in {r \in rows : grants[r].pair = p /\ grants[r].format # "bad"}}
     IN  IF times = {} THEN 0 ELSE Min(times)]

\* Mutant: a time that does not parse is taken for a very late one.
NewMapBadIsLate(rows) ==
  [p \in Pairs |->
     Max({0} \cup {IF grants[i].format = "bad" THEN MaxNow + 9 ELSE grants[i].expires :
                     i \in {r \in rows : grants[r].pair = p}})]

\* The latest expiry of each pair; a row whose time does not parse is skipped.
NewMap(rows) ==
  [p \in Pairs |->
     Max({0} \cup {grants[i].expires :
                     i \in {r \in rows : grants[r].pair = p /\ grants[r].format # "bad"}})]

\* Mutant: the map is trusted until the next refresh.
HasActiveAsRead(p) == active[p] # 0

HasActive(p) == active[p] > now

\* open(): the map is primed, and the ticker's first tick is thrown away.
Open(rows) ==
  /\ process = "loaded"
  /\ process' = "up"
  /\ active' = NewMap(rows)
  /\ due' = now + Interval
  /\ refresh' = "idle"
  /\ failed' = 0
  /\ whole' = (rows = Listed)
  /\ UNCHANGED <<table, since, fresh>>

OpenWhole == Open(Listed) /\ UNCHANGED faults

OpenCutShort ==
  /\ faults < MaxFaults
  /\ faults' = faults + 1
  /\ \E rows \in CutShort(Listed) : Open(rows)

\* The ticker fires, late or not; a tick that was missed fires at once.
StartRefresh ==
  /\ process = "up"
  /\ refresh = "idle"
  /\ now >= due
  /\ refresh' = "reading"
  /\ since' = now
  /\ due' = due + Interval
  /\ UNCHANGED <<table, process, active, fresh, failed, whole, faults>>

\* The query cannot be prepared: a warning, and the old map stays.
FailRefresh ==
  /\ refresh = "reading"
  /\ faults < MaxFaults
  /\ faults' = faults + 1
  /\ refresh' = "idle"
  /\ since' = 0
  /\ failed' = failed + 1
  /\ UNCHANGED <<table, process, active, due, fresh, whole>>

\* list_active_grants under the mutex of the store, and the map built from it.
ReadRows(rows) ==
  /\ refresh = "reading"
  /\ refresh' = "read"
  /\ fresh' = NewMap(rows)
  /\ whole' = (rows = Listed)
  /\ UNCHANGED <<table, process, active, due, since, failed>>

ReadWhole == ReadRows(Listed) /\ UNCHANGED faults

ReadCutShort ==
  /\ now = since + BusyTimeout
  /\ faults < MaxFaults
  /\ faults' = faults + 1
  /\ \E rows \in CutShort(Listed) : ReadRows(rows)

\* Mutant: what was listed is merged into the old map.
PublishMerged ==
  /\ refresh = "read"
  /\ refresh' = "idle"
  /\ active' = [p \in Pairs |-> Max({active[p], fresh[p]})]
  /\ since' = 0
  /\ fresh' = Closed
  /\ failed' = 0
  /\ UNCHANGED <<table, process, due, whole, faults>>

\* The map is replaced as a whole.
Publish ==
  /\ refresh = "read"
  /\ refresh' = "idle"
  /\ active' = fresh
  /\ since' = 0
  /\ fresh' = Closed
  /\ failed' = 0
  /\ UNCHANGED <<table, process, due, whole, faults>>

RefreshTask ==
  \/ StartRefresh \/ FailRefresh \/ ReadWhole \/ ReadCutShort \/ Publish

\* A refresh neither starts late nor dawdles, but for a database it waits for.
Tick ==
  /\ now < MaxNow
  /\ process = "up" =>
       /\ refresh = "idle" => now < due
       /\ refresh = "reading" => now < since + BusyTimeout
       /\ refresh # "read"
  /\ now' = now + 1
  /\ UNCHANGED <<grants, process, active, task, faults>>

\* The process ends, by a signal or a crash, and its memory with it.
Crash ==
  /\ process # "down"
  /\ process' = "down"
  /\ active' = Closed
  /\ fresh' = Closed
  /\ due' = 0
  /\ refresh' = "idle"
  /\ since' = 0
  /\ failed' = 0
  /\ whole' = TRUE
  /\ UNCHANGED <<table, faults>>

-----------------------------------------------------------------------------
GrantTypeOK ==
  /\ now \in 1 .. MaxNow
  /\ grants \in Seq(Row) /\ Len(grants) <= MaxGrants
  /\ process \in {"down", "loaded", "up"}
  /\ active \in [Pairs -> Expiries \cup {0}]
  /\ due \in Nat
  /\ refresh \in {"idle", "reading", "read"}
  /\ since \in 0 .. MaxNow
  /\ fresh \in [Pairs -> Expiries \cup {0}]
  /\ failed \in 0 .. MaxFaults
  /\ whole \in BOOLEAN
  /\ faults \in 0 .. MaxFaults

(***************************************************************************)
(* How long the map can be behind the table.  grant.rs:16-18 and           *)
(* docs/parental-control.md:142 promise an interval, and that is all while *)
(* the refreshes succeed and none is waiting.  The code is later than they *)
(* say in two cases: a refresh that waits for a locked database adds its   *)
(* wait, up to BusyTimeout, and each that failed since the last success    *)
(* adds an interval, or its wait if that is longer.                        *)
(***************************************************************************)
Waiting == IF refresh = "idle" THEN 0 ELSE now - since
Longer == IF BusyTimeout > Interval THEN BusyTimeout ELSE Interval
Lag == Interval + Waiting + failed * Longer

\* A row gives access to its pair, for all the text says.
Grants(r, p) == r.pair = p /\ r.format # "bad" /\ r.expires > now

(***************************************************************************)
(* What is open is open by a grant that has not expired, and that has not  *)
(* been revoked, or not for longer than the map may be behind the table:   *)
(* the promised interval, unless a refresh is waiting or has just failed.  *)
(***************************************************************************)
RevokeTakesEffect ==
  \A p \in Pairs :
    HasActive(p) =>
      \E i \in DOMAIN grants :
        /\ Grants(grants[i], p)
        /\ grants[i].revoked = NotRevoked \/ now - grants[i].revoked <= Lag

(***************************************************************************)
(* A grant that is neither expired nor revoked is in force once the map    *)
(* has had the time to catch up (Lag: an interval, and what a waiting or a *)
(* failed refresh adds), however often the process was restarted meanwhile;*)
(* a shorter grant of the same pair does not shorten it.                   *)
(***************************************************************************)
GrantTakesEffect ==
  process = "up" /\ whole /\ refresh # "read" =>
    \A i \in DOMAIN grants :
      /\ grants[i].revoked = NotRevoked
      /\ Grants(grants[i], grants[i].pair)
      /\ now - grants[i].granted > Lag
      => HasActive(grants[i].pair)
=============================================================================
