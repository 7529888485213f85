# HomeGuard in TLA+

HomeGuard is a DNS server and transparent proxy for a home network: it answers
the names of proxied domains with addresses of a reserved pool (FakeDNS), maps
a redirected connection back to its name, applies parental control and a rule
list to it, and dials it directly or through a group of Shadowsocks servers.
The modules here model its parts from the Rust source under `src/src/`. TLC
checks them on small instances; TLAPS proves what is said under "Proofs" for
every instance.

To check a run: `tlc -config FakeDns.cfg MCFakeDns`; every cfg `X.cfg` belongs to
the module `MCX`, the ones that expect a violation to `MCFakeDns`
(`FakeDnsOneIp`, `FakeDnsReuse`, `FakeDnsDeadlock`), `MCParentalControl`
(`ParentalOverlap`) and `MCRuleEngine` (`RuleFirstMatch`). To check the proofs:
`tlapm M.tla` for each of the modules whose names end in `Proofs`, and for
`SequenceLemmas`.

## The system

| Component | State it keeps | Operations | Hard part | What makes it correct |
| --- | --- | --- | --- | --- |
| FakeDns (`dns/fake_dns.rs`) | `ip_to_domain`, `domain_to_ip` (sharded maps), LRU list (mutex), round-robin counter (atomic) | `allocate` by DNS queries, `lookup` by connections | three structures under different locks, eviction, reuse of addresses | answers lead back to their domain; tables and list agree; capacity; calls return |
| GrantStore (`control/grant.rs`) | map (device, category) -> expiry, over the SQLite table `grants` | `open`, `refresh` every 5 s, `has_active` | a parent writes the table from another process; failed and partial reads; clock; restarts | a revoke and a grant take effect in bounded time; nothing else opens |
| ParentalController (`control/controller.rs`, `device.rs`, `blocklist.rs`) | devices, their categories, the lists, read once | `check_access` per query and per connection | order of the lists, overlapping categories, stale configuration | hard categories never open; only a grant of the device opens |
| ConfigStore, Database (`storage/`), startup (`main.rs`) | SQLite tables, schema version | CRUD, migrations, first-boot seed | crashes between commits, two processes on one file, errors dropped row by row | tables fit the version; no row is lost; a seed that ends is whole; the service comes up |
| Rule engine (`rule/`) | tries, automata, address and country tables | `match_request` | several matchers, one order | the first rule of the file wins |
| DNS handler, cache, resolver, server (`dns/`) | answers with TTL; upstream sockets | `handle_query` | await between check and insert, late answers, upstreams that fail in turn | a denial reaches answers under way, no copy outlives the first record of its answer, answers fit their question, every query ends |
| Proxy handler, server, relay (`proxy/`) | connections | `handle`: lookup, check, match, dial | address rebound between answer and connection, a timeout that cuts a dial off | a connection goes where the policy of its name says; none hangs |
| Outbound groups (`outbound/group/`) | availability, latencies, best index | health checks, `connect` | checks of the task and of connections overlap, a check is cut off | one steady member is enough; the group settles on what the servers are |
| Shadowsocks (`outbound/shadowsocks/`) | nonce counters, receive buffer | chunk read and write | partial reads | bytes come out once and in order, no nonce twice |
| Logger (`storage/logger.rs`) | current file, buffer | write, rotate, clean up | rotation at midnight and at the size | not modelled: `main` never creates one |
| Configuration, NAT lookup, scripts | none | parsing, system calls | none that a state model reaches | not modelled |

A DNS query goes handler -> controller (GrantStore) -> filter -> cache -> FakeDns
or resolver; a connection goes proxy -> FakeDns -> controller -> rule engine ->
group -> Shadowsocks. FakeDns, the cache and the controller are shared by all
tasks of a multi-threaded runtime; the groups are shared by connections and
their health-check tasks; SQLite is shared with the parent's shell.

`PROJECT.json` lists the hazards, line by line, with the properties that cover
them.

## Modules

| Module | Models | State and actions |
| --- | --- | --- |
| `LruList` | the `lru` crate's cache, as a list of keys (external) | `LruPop`, `LruGet`, `LruPut` |
| `FakeIpMap` | what FakeDns promises: an abstract specification | a table from addresses to domains; calls, releases, bindings, answers |
| `FakeDns` | `dns/fake_dns.rs` | one variable per field; one action per stretch of code between two locks; `pc` per task |
| `MCFakeDns` | instance of FakeDns | |
| `FakeDnsProofs` | proofs | |
| `GrantStore` | `control/grant.rs` and the `grants` rows of `storage/config_store.rs` | table, clock, map, refresh task |
| `Blocklist` | `control/blocklist.rs` | operators on the lines of the list files |
| `ParentalControl` | `control/controller.rs`, the startup load of `main.rs` | extends the two: devices, categories, `check_access` as `Blocked` |
| `MCParentalControl`, `ParentalControlProofs` | instance, proofs | |
| `RuleEngine` | `rule/`: parser, engine, matchers | lines read one by one, then `New`; the matchers' answers as operators |
| `MCRuleEngine`, `RuleEngineProofs` | instance, proofs | |
| `DnsCache` | `dns/cache.rs` | the LRU list and the entries with the time they have left; one action per method |
| `DnsHandler` | `dns/server.rs`, `handler.rs`, `resolver.rs` | extends DnsCache: a record per task (`pc`, client, name, type, upstream, timer, answer), what is denied, the clock |
| `MCDnsHandler`, `DnsHandlerProofs` | instance, proofs | |
| `OutboundGroup` | `outbound/manager.rs`, `outbound/group/` | members, their links, the vectors of each type of group; the tests and dials of every executor |
| `ConnectionHandler` | `proxy/server.rs`, `handler.rs`, `relay.rs` | extends OutboundGroup: a record per connection, from `Accept` to `RelayEnds` |
| `MCConnectionHandler`, `ConnectionHandlerProofs` | instance, proofs | |
| `ByteStream` | what a connection promises in one direction: an abstract specification | bytes in, bytes out |
| `Address` | `outbound/shadowsocks/address.rs` | operators: an address as bytes, and back |
| `ShadowsocksStream` | `outbound/shadowsocks/mod.rs`, the nonces of `cipher.rs` | extends Address: both directions, unit by unit; TCP delivers a unit in pieces |
| `MCShadowsocksStream`, `ShadowsocksProofs` | instance, proofs | |
| `Database` | `storage/sqlite.rs`, and SQLite as the code uses it | a file as a value: tables, versions, rows, last ids; migrations as sequences of statements |
| `ConfigStore` | `storage/config_store.rs` | each operation as the set of files it may leave |
| `Storage` | `Database::open`, the seed and the port in `main.rs`, callers of ConfigStore | extends both: one file, its write lock, a `pc` per process |
| `MCStorage`, `StorageProofs` | instance, proofs | |
| `SequenceLemmas` | lemmas about sequences, and about the lists of `LruList`, that several proofs cite | |

### FakeDns

A DashMap is a table of shards, each under a readers-writer lock; the LRU list
is under a mutex. `allocate` that finds its domain keeps the shard's read guard
while it locks the list (`pc = "touch_domain"`), and `lookup` likewise
(`"touch_ip"`). A write to a shard is a step that waits for its readers
(`DomainWritable`, `IpWritable`). `allocate_new_ip` holds the mutex from `New` to
`InsertDomain`; `lru_owner` is that mutex. The `pc` values between are the
single calls: remove the evicted address, then its reverse entry, take the next
address of the round robin, reclaim it if it is in use, insert both entries.
The counter's compare-and-swap loop is one step, since only the holder of the
mutex moves it. Addresses are numbers; a pool whose network has one or two
addresses gives out one, as in the code, and a capacity of 0 becomes
`ZeroCapacity` (1000 in the code). The counter's 32 bits are not modelled: pools
lie inside the address space, so the additions do not overflow.
Lower-casing and the trailing dot are left out: domains are compared after both.
`clear` has no caller but a unit test and runs alone.

`FakeIpMap` is what the DNS handler and the proxy rely on: an address in use is
given up before it is bound again, and an answer was true when it was given. It
does not promise that the answer stays true while a client holds it, and the
code does not keep that either.

### Parental control

Time is discrete. A tick stands for the refresh interval or a part of it; the
refresh task starts when its ticker is due and takes no time, except that a
locked database makes it wait for `BusyTimeout` (rusqlite's default is five
seconds, as long as the interval, so both are one tick in the instance). A read
can fail in two ways: the query cannot be prepared (`FailRefresh`: a warning, the
old map stays), or a row cannot be read, which `filter_map(|r| r.ok())` turns
into a shorter list that is published as if it were whole (`ReadCutShort`). The
same happens to devices and bindings at startup (`LoadCutShort`), where list
files can also be cut short (`PartlyLoaded`).

The expiry of a row is text. In the ISO form a row is listed until the end of
its day; a time that does not parse is skipped. Devices and categories are
numbered in the order of their names, which is the order of the queries, so
"the first category" is the smallest number. `check_access` reads the map at
most once, so it is one operator, `Blocked`, and the invariants ask it of every
device and domain in every state. `known`, `hard`, `grantable` and `lists` are
what the process read at startup; `modes` is the table, which the parent may
change at any time without effect until a restart, as the documentation says.

The ghost variables are `failed` (refreshes failed in a row), `whole` (the last
listing was complete), `intact` (nothing was cut short or changed since the
start) and the counters that carry the bounds. `Lag` is how long the map may be
behind the table. While refreshes succeed and none waits it is the interval, as
grant.rs:16-18 and docs/parental-control.md:142-143 promise. A refresh that is
waiting for the database adds what it has waited, and each that failed since the
last success adds an interval, or its wait if that is longer (a longer wait pushes
the refreshes behind their ticker): there the code is later than promised, which the
observations below name.

Left out: removal of devices and the cascade, one address per device (the table
has a unique index on it), the clock being set back.

### Rule list

`LoadLine` is one turn of the loop of `load_rules`: a line becomes a rule, or a
RULE-SET line becomes the rules of its file with the line's policy. A line that
does not parse, a missing file and an unreadable GeoIP database end the program
(`LoadBadLine`, `FailNew`), with nothing served. `New` fills the matchers at
once: `exact` and `suffix_trie` are maps, so a repeated pattern keeps its last
rule; the other matchers are lists. Indices count from 1. `lines` is a ghost:
the file as it is written, which the reference `CoveringLines` reads without any
matcher.

Names are sequences of labels (`Labels`), so a keyword begins and ends at labels;
what matters is kept, that the scan finds the first keyword at the leftmost place
and goes on behind it. `Visited` are the places where the scan looks: the least set
that holds the first place and with each place the next. Networks are sets of
addresses. `LineAssumption` says what the parser leaves of a line: a pattern is of
the kind of its rule (`IsRule`), and an IP-CIDR rule holds no IPv6 address. A FINAL line covers nothing
in the reference: the code takes the last one wherever it stands, and DIRECT if
there is none, although the documentation asks for exactly one in the last line.

`FirstLineWinsByAddress` says that the documented order holds for connections
without a name. For names it does not (`FirstMatchWins`), and
`PassedOverOnlyIfHidden` says how far it may fail: only a rule of the same
matcher that covers the same name, as a repetition, a longer suffix or another
keyword, can hide an earlier rule. `match_ip`, which only tests call, is
`MatchIp`; for a connection without a name it and `match_request` are the same. `FilterAgreesWithProxy` relates the two
functions that the program asks about one name.

### DNS queries

A task per packet, as `DnsServer::run` spawns them. What `handle_query` does up to
its first await is two steps: `Check` asks the controller and the filter,
`LookupHit` and `LookupMiss` the cache and FakeDNS. Between them another task may
run, or the permission may change (`Deny`, `Allow`); no time passes. In `"ask"` a
task waits for its upstream until the answer comes, the exchange fails or the
timer is out; then it asks the next one, and after the last it has a SERVFAIL.
`Tick` moves all timers and all cache entries, and happens only while every task is
idle or waits for an upstream. An upstream's reply is `data`, with the TTL of each
of its records (`ttls`), `empty` (no records), `failed` (SERVFAIL, REFUSED) or
garbled. Whatever it is, `resolve` takes it and asks no other upstream. What parses
is cached as a whole for the TTL of its first record, or for `cache_ttl` without
one, also a `failed` reply (`UpstreamFails`); what does not parse is passed on and
not cached. Each exchange has a socket of its own, so an answer is one to its query;
that the code does not compare sender and question is left out. `life` is a ghost: what is left of
the time for which the clamp lets an answer live. `denied`, and `deniedFor` with
the seconds since a denial, stand for the parental controller, which
`ParentalControl` models; an answer of FakeDNS stands for what `FakeIpMap`
promises. The cache's bytes are left out except for the TTLs.

`NoAnswerOutlivesItsFirstRecord` is what holds of TTLs: no copy is servable, and none
goes out with any record of more, than what is left of the clamped TTL of the first
record. The TTLs of the other records are not respected. The reply that filled the
cache goes out with the TTLs of its upstream, also above the clamp.
`SilentUpstreamsArePassedOver` is what holds of upstreams: one that is silent or
cannot be reached is passed over. One that replies, with whatever it may be, is not.

### Connections and groups

`work[e]` is where an executor stands in the group's code: the callers, inside
`handle_proxy`, and the background task. A test fixes what it will find for each
member at some moment of the test (`Measure`), then `WriteResults`, `WriteBest`,
`WriteStamp` are the writes, one lock each; a fallback test has no best. Ages and
durations are not counted: `due` says that the last test is too old, and comes
true at any moment (`Elapse`). `ProxyTimeout` cuts off whatever the group was
doing for a connection, between any two locks, as `tokio::time::timeout` drops its
future. `steady` names a member that never goes down, or none; more of them would
only make `OneSteadyMemberSuffices` weaker. A group none of whose members can be
created does not exist (`GroupInit`).

`Resolve` takes any name that FakeDNS may give for a fake address, also none, and
any decision of the controller; `Route` is the rest of `handle` up to the dial.
`Policy` is the upper-casing of `Policy::from_str`; `get` looks it up among all
outbounds and does not upper-case. It finds the group (`GroupOf`) or one of the
Shadowsocks clients that could be created (`ServerOf`), as in the rule
`DOMAIN-SUFFIX,google.com,SS-HK` of README.md:167: then the connection is dialled
through that server (`ServerConnects`, `ServerFails`), under the same timeout, and no
group chooses or marks anything. If it finds neither, the connection is closed. `via`
keeps the server that carries the connection. In the model every server is a member
of the one group; a group is put into the map after the clients, so it hides a
server of its name.

### The Shadowsocks stream

A unit is what is sealed under one nonce; it is cut into two pieces, and TCP
delivers pieces and closes between any two. A sealed unit opens whole, under its
salt and nonce, and not otherwise. The client's end is modelled with its
variables: the encryptor's and decryptor's counters, `read_buffer`, and a
`read()` that takes piece after piece (`Take`) through the stages salt, length and
payload. The server's end is what the protocol asks of it (external): its chunks have
at least one byte and no more than fit. So the two paths of the client for other
chunks are left out, an empty one that reads as an end (mod.rs:359) and one that is
too large and is an error (mod.rs:238). `read()`
returns 0 for an end of the stream anywhere. `poll_read` takes bytes that it then
refuses, and `poll_write` refuses all, so the stream is dropped, as
`copy_bidirectional` drops it. A `read()` that is cancelled is never called
again; it would lose what it took.

The first unit holds the bytes of the target (`Address`), sealed under nonces 0 and
1 by `new`; the server finds it with `Decode`, which is `Address::decode`. A name has
from 1 to 255 bytes, as those of DNS have: `encode` would cut a longer length to
eight bits. That the bytes of a name are UTF-8 is left out.

The stream implements `ByteStream` twice, with different mappings: `srvSent` to
`returned`, and `accepted` to `srvRead` without the target.

### Storage

`Database` gives SQLite's part as the code uses it: primary keys, unique columns,
references with ON DELETE CASCADE or SET NULL, which hold because `open` sets
`foreign_keys` (a parent's shell does not: `ShellDelete`). A migration is a sequence of
statements in one transaction: the first takes the write lock, all work on
`draft`, `Commit` makes it the file. The version is read before the transaction,
so two processes can run the same migration, and the second one is refused: its
first statement creates a table that is there (`Refused`). `Storage` runs two processes through it: open,
read the version, migrate, list the devices, seed (each device and binding its own
commit), bind the port, serve. Any of them can be killed (`Crash`), lose a read, or
find the database busy. `ShellDelete` and the `Edit` actions follow, each operation
of `ConfigStore` one statement, refused or not.

`SeedEndsWhole` speaks of seeds that end. One that is cut off leaves some devices,
is not begun again, and nothing notices.

## Runs

| Run | Checks | Bounds |
| --- | --- | --- |
| `fake_dns` | types, `AnswersLeadBack`, `LruTracksMappings`, `CapacityBound`, refinement of `FakeIpMap` | 3 tasks (symmetric), 3 domains, pool of 3, capacity 2, 2 shards each |
| `fake_dns_one_ip` | violation of `OneIpPerDomain` | 2 tasks |
| `fake_dns_reuse` | violation of `NextIpIsFree` | 1 task |
| `fake_dns_deadlock` | violation of `AllocateReturns` | 2 tasks, strong fairness |
| `parental_control` | types, `RevokeTakesEffect`, `GrantTakesEffect`, `HardNeverOpens`, `OnlyGrantsOpen` | 2 devices, 2 categories sharing a domain, 2 rows out of 5 kinds, 1 failed read, 1 edit, 5 ticks |
| `parental_overlap` | violation of `GrantOpensCategory` | the same, with another edit |
| `rule_engine` | types, `FirstLineWinsByAddress`, `FinalIsLast`, `PassedOverOnlyIfHidden`, `FilterAgreesWithProxy` | files of up to 4 lines out of 16, a rule set of 3 rules, 3 names, 3 addresses of two families |
| `rule_first_match` | violation of `FirstMatchWins` | 1 name, 2 lines |
| `dns_handler` | types, `CacheIsLru`, `NoAnswerOutlivesItsFirstRecord`, `RepliesFitTheirQuestion`, `DenialReachesAnswers`, `SilentUpstreamsArePassedOver`, `EveryQueryIsAnswered` | 2 tasks, 5 questions, 2 upstreams with a timeout of 1 s, answers of two records with TTLs 0 and 3 or 3 and 1, the first clamped to 1..2, a cache of 1 entry (325,000 states) |
| `connection_handler` | types, `OneSteadyMemberSuffices`, `RelayFollowsPolicy`, `NoConnectionHangs`, `GroupSettles` | 1 connection and the background task, groups of each type with up to 2 members, 4 names, one with a rule for the server `SS-HK`; the group's name in either case, or that server's (444,000 states) |
| `shadowsocks` | types, `NoNonceTwice`, `NothingIsSkipped`, `TargetArrives`, `ByteStream` both ways, `ReadReturns` | 3 bytes each way, chunks of up to 2, buffers of 1 and 2, units in 2 pieces (242,000 states) |
| `storage` | types, `TablesFitVersion`, `MigrationsKeepRows`, `ReferencesHold`, `SeedEndsWhole`, `ServiceComesUp` | 2 processes, 1 kill, 1 failed read, 2 edits; a new file, one of version 1, one in use; 3 TOML files of up to 2 devices (895,000 states) |

Why the bounds are enough. In `fake_dns` one task can be inside
`allocate_new_ip`, one can hold a read guard and one can race with both; a
domain more than the capacity forces evictions, an address more than the
capacity lets the round robin and the LRU order drift apart, and two keys in a
shard make unrelated keys block each other. The behaviours are unbounded in
length and the state space is finite without any further bound. In
`parental_control` two rows are the fewest that overlap or belong to different
devices; five ticks let a revoke be followed by a failed refresh, a wait and a
good one, with a restart anywhere. In `rule_engine` four lines hold any two
rules that hide each other with one before and one behind them, and a rule set
in any place.

In `dns_handler` one entry makes every second insertion an eviction; a TTL below
and one above the clamp meet both of its ends; two upstreams are the fewest with a
next one, and one second is as good as any where only the order of timeout, expiry
and denial counts; two tasks can ask the same question of two clients. The
connection of `connection_handler` and the background task are two executors, so
tests overlap and a cut-off meets a write; with two members one can be passed over
for the other, and the faster one is not the first. In `shadowsocks` three bytes
make a write of two chunks, and a chunk of two does not fit a buffer of one; a unit
in two pieces can be cut short. The 64 bits of the nonce
counters are not modelled. In `storage` two processes are the fewest that migrate or seed
together; one kill comes between any two statements, and the TOML files have both
tiers, a category in both, and two devices of one address, which the unique column
refuses. Two edits let one make what the other refers to, or remove it.

Deadlock is checked in `dns_handler`, `connection_handler` and `storage`. It is not
in the others: two FakeDns tasks can block each other (that is the finding of
`fake_dns_deadlock`), the bounds end the behaviours of parental control, those of
the rule list end when the matchers are built, and both ends of a Shadowsocks
connection may be done.

Fairness, in each `FairSpec`:

- FakeDns: strong fairness for every task's step, that is, every task is scheduled
  and a lock that is free again and again is obtained. This is more than the
  runtime and parking_lot promise, so the counterexample to `AllocateReturns` is not
  one of unfair scheduling.
- DnsHandler: weak fairness for a task's own steps and for the answer of an
  upstream that is in `prompt`, the assumption `SilentUpstreamsArePassedOver` is about;
  strong fairness for `Tick`, which new queries can disable for a moment: the
  clock does not stop. No other upstream need ever answer.
- ConnectionHandler: weak fairness for the group's and the handler's steps, and
  for the three timers (`ProxyTimeout`, `Elapse`, `Wake`); none for a dial or a
  measurement of a server that hangs, for relays, or for anything outside.
- ShadowsocksStream: weak fairness for the steps of a `read()`, of a
  `write_all()`, and for the delivery of bytes while the connection is open.
- Storage: weak fairness for the steps of a running process, and for the start of
  the service, because launchd keeps it alive (`KeepAlive` in the plist). The other
  instance need not start, nor start again.

`GroupSettles` assumes in its own statement that the servers stop changing, and
`DenialReachesAnswers` says what delay it allows.

## Findings

1. Two addresses for one domain (`fake_dns_one_ip`): the lookup before the mutex
   is not repeated under it.
2. An address in use is handed out (`fake_dns_reuse`): the comment says it should
   not happen; after any use that is not in allocation order it does, and the
   binding that is lost may be the most recently used one.
3. FakeDns can deadlock (`fake_dns_deadlock`): guard then mutex in one path, mutex
   then shard in the other.
4. A grant does not open a domain that is also in a category of an earlier name
   (`parental_overlap`).
5. The first match does not win among suffix rules, and the last one among
   repeated patterns does (`rule_first_match`).

### Other observations

What the modelling showed of the code and no run is kept for:

- A group whose name is not in upper case is never found: `Policy::from_str`
  upper-cases the rule's policy, `OutboundManager::get` compares it with the name
  as configured. The documents use `Proxy` (README.md:275). In the model such a
  connection is closed.
- A DIRECT rule for a name that FakeDNS answered dials the fake address.
- A relay through Shadowsocks carries nothing: `copy_bidirectional` uses
  `poll_read` and `poll_write`, which always fail. `health_check` uses `read`, and
  takes an end of the stream for an answer, so a server that closes is healthy.
- There is no idle timeout although docs/phase4 names one of 300 s
  (phase4-transparent-proxy.md:330): `relay_with_timeout` has no caller.
- The configuration's validator accepts `aes-256-cfb`; `CipherMethod` does not, so
  that member is left out of its groups.
- `UrlTestGroup::test_all` writes latencies, best index and time under three locks;
  between them, and with two tests at once, they can disagree for a while.
- A revoke or a grant can take effect later than the 5 seconds of grant.rs:16-18,
  docs/parental-control.md:142-143 and README.md:261. A refresh that finds the
  database locked waits for it, up to rusqlite's busy timeout of 5 seconds: about 10
  seconds with no failed read. Each refresh that fails adds at least another
  interval, without end. `RevokeTakesEffect` and `GrantTakesEffect` allow just that.
- An answer is cached for the TTL of its first record (handler.rs:160-164), and
  `update_response_ttl` writes the rest of it into every record, authority and
  additional ones too, where it overwrites the flags of an OPT record. A CNAME of an
  hour before an address of 20 seconds is served for up to an hour, although
  docs/phase2-dns-service.md:178 says "Respect original TTL from upstream".
- A reply of SERVFAIL or REFUSED is returned as it came and cached for `cache_ttl`
  (resolver.rs:80-83), and the next upstream, which may be a good one, is not asked,
  although the comment says "until one succeeds" (resolver.rs:74). A reply that
  does not parse is returned too. A later upstream helps only against silence
  ("Upstream timeout: Try next upstream", docs/phase2-dns-service.md:323).
- An answer of type AAAA does not pass through FakeDNS.
- A first-boot seed that a kill, a failed statement or two devices of one address
  end is never completed: the table is no longer empty. If the parent deletes the
  last device, the next start seeds again, and a slow second instance can put back
  a device that was deleted meanwhile.
- A category in `hard` and in `grantable` of one device ends grantable.
- A device deleted with the `sqlite3` shell leaves its bindings and grants behind,
  for its shell has `foreign_keys` off, although docs/parental-control.md:177
  promises the cascade; a later device of that name has them.

## Proofs

`FakeDnsProofs` proves, for any tasks, domains, pool, capacity and sharding,
from `PoolAssumption` (the pool is given by natural numbers) and
`SentinelAssumption` (the "absent" values are not values):

- `TypeCorrect`, `AnswersAlwaysLeadBack`, `LruAlwaysTracksMappings`,
  `CapacityIsNeverExceeded`: the four invariants of the run;
- `ImplementsPromise`: FakeDns implements `FakeIpMap`.

None of them is inductive, because each speaks of the moments between
allocations. `IInv` adds what holds inside one: exactly one task is inside and it
holds the mutex (`LockInv`); its registers are defined where they are used
(`RegistersInv`); what a task read under a guard is still there (`GuardInv`, which
is where `DomainWritable` and `IpWritable` are needed); which address it is about
to free or has just bound (`AllocationInv`); the one reverse entry it still has to
remove (`ReverseInv`); the one address by which list and table differ (`LruInv`);
and the room it has made (`RoomInv`). There is one lemma per action. A step of a
task that is not inside changes neither side of `ReverseInv` and `LruInv`
(`ReverseStable`, `LruStable`). `CapacityIsNeverExceeded` bounds the table by the
list and one address more. The refinement maps the last step of a call to
`Answer`, a removal to `Release`, `InsertIp` to `Bind` and the rest to stutters.

`SequenceLemmas` holds the lemmas that several of the proofs cite: what the list
operators do to keys, length and duplicates, so that no other proof opens such a
list, and facts about finite sets and sequences.

`DnsHandlerProofs` proves, for any tasks, clients, names, upstreams, timeout, TTLs,
clamp and capacity, from `CacheAssumption`, `HandlerAssumption` and
`NoEntryAssumption`, all six invariants of its run: `TypeCorrect`, `CacheIsAlwaysLru`,
`AnswersNeverOutliveTheirFirstRecord`, `RepliesAlwaysFit`, `DenialsReachAnswers`,
`SilentUpstreamsAreAlwaysPassedOver`. What the last two say is about answers, and a step
that gives an answer needs to know what its task did before: `TaskInv` bounds the
age of a denial by the seconds the task has waited since it was checked
(`Waited`: the timeouts of the upstreams it has been through, and what its timer has
run), and says that a task has not got past a prompt upstream with its timer still
running. `CacheInv` keeps the answer of each entry with its key, so that a hit fits
its question.

`ConnectionHandlerProofs` proves, for any callers, members and latencies, from
`GroupAssumption` and `HandlerAssumption`: `TypeCorrect`,
`OneSteadyMemberAlwaysSuffices` and `RelaysFollowPolicy`. A connection fails when it
has been through all members, so `WorkInv` says that the members behind it
(passed over or refused), those it is about to mark, and those that a test has
found dead are not steady, and `SteadyInv` that no steady member is marked
unavailable; it says too that an executor that is connected knows by which member.
`ConnInv` keeps the target and the server with the policy from `Route` on. That
`Fastest` and the choice of the next member give an index needs a least element
(`LeastExists` in `SequenceLemmas`, by well-founded induction over finite sets).

`ShadowsocksProofs` proves all six safety properties of its run, for any target and
any sizes of chunks, writes and buffers, from `StreamAssumption`: `TypeCorrect`,
`NonceIsNeverReused`, `TargetIsFound`, `NothingIsLost`, and that the stream implements
`ByteStream` in both directions (`ReadsReturnInOrder`, `WritesArriveInOrder`). The
bounds of the run on the bytes (`MaxBytes`) play no part. There are four invariants,
each checked with TLC on the run's instance before it was proved.

- `NonceInv` adds to `NoNonceTwice` that the units under way are in the order of their
  nonces.
- `TargetInv` says where the target is until the server has it: its unit is whole on
  the way, or cut into the pieces that have come and those that follow, or it is the
  beginning of what the server has read. With `DecodeFindsWhatWasEncoded`, which is
  about the encoding alone (for each of the three types, the bytes of an address
  followed by any others decode to it), the server finds it.
- `ServerInv` lays what the server has read, the units under way and what is not
  encrypted yet next to one another in one line, the bytes of the target and all that
  has been written: there are offsets (`ends`) at which unit i stops (`Cut`, `Part`). A
  unit that is sent or lost with the connection changes the offsets at one end only.
- `ClientInv` does the same for the units that the server has sent, and says where the
  reader is among them (`ReaderInv`): it has taken w units whole and the first pieces
  of the next one, the decryptor has opened all of them but the salt (`InStep`), and
  what has been returned and what `read_buffer` keeps are in front of the w-th offset
  (`HandedOut`). When the stream ends inside a unit the reader is past the unit's first
  piece and stays out of step: `Ended` is the one case in which it may be.

A step of the abstract stream is a longer prefix, and each of the two invariants
gives it. `NothingIsSkipped` is about pieces put end to end (`FlattenSeq`), a recursive
function: no induction is needed because a first place at which it is not the prefix
would have one before it at which it is (`FlattenIs`).

`RuleEngineProofs` proves all five invariants of its run, for any lines, rule files,
names and addresses, from the four assumptions of `RuleEngine`: `TypeCorrect`,
`FinalDecidesOnlyTheRest`, `OnlyHiddenRulesArePassedOver`,
`FirstLineDecidesAddresses`, `FilterAndProxyAgree`. `RuleInv` keeps the provenance of
the rules, a line for each rule, in order, with every rule of a rule set and its
line's policy; and, when the engine is ready, that the matchers are what `New`
builds of these rules. The rest is about operators: which rules each matcher
answers with, and that a rule it does not answer with is hidden (`Hides`). For the
trie that needs a longest suffix, for the scan a last place before the one that was
jumped over (`MinIs` and `MaxIs` in `SequenceLemmas`).

`ParentalControlProofs` proves all five invariants of its run, for any devices,
categories, lists, grants, interval and busy timeout, from `GrantAssumption`,
`ParentalAssumption` and `FilesAssumption`: `TypeCorrect`, `RevokesTakeEffect`,
`GrantsTakeEffect`, `HardStaysClosed`, `OnlyGrantsOpenDomains`. The map says nothing
of when it was read, so `MapInv` claims a moment: everything in the map was backed
by a row at that moment (`Sound`), everything good that the table had before it is
in the map if the listing was whole (`Complete`), and the start of the refresh that
will replace the map is no further from it than the schedule allows (`Recent`, by
`TaskInv`: a refresh under way has waited no longer than the busy timeout). From the
lag (the interval, and what a waiting or failed refresh adds) follow both that a
revoke and that a grant takes effect. `ConfigInv` says that
what startup read whole is what the tables still say; with it a hard category is
decided before any grant is looked at.

`StorageProofs` proves all five safety properties of its run, for any processes,
devices, categories, TOML files, databases and numbers of kills, failed reads and
statements, from `StorageAssumption`: `TypeCorrect`, `TablesAreOfTheVersion`,
`RowsSurviveMigrations`, `ReferencesAreKept`, `SeedsAreWhole`. `StorageInv` says what a
process may assume of the version of the file at each place (`At`): it has read a
version that was committed or 0, so its migration is the next one or one that has
been made, and a migration that has been made is refused at its first statement
(`MadeIsRefused`). While a process holds the lock, `draft` is the committed file after
the statements so far (`Partly`), so that a commit makes whole versions only. `Kept`
is what the declarations promise: every column that may not be NULL is not, rows with
one key are one row, and every reference finds its row or a device that a shell has
deleted. It is proved once for each kind of statement (`InsertFine`, `ReplacedFine`,
`RemovedFine`, `DeletedFine` with its cascades) and applied to each operation of
ConfigStore. `ReferencesHold` counts what joins find; a join and its links are as many
because they are in bijection.

`SeedsAreWhole` needs an invariant of its own, `SeedInv`, which speaks of the time
before any other statement. A device that a running seed has visited has its row;
no other running seed has visited it, for the row would have refused the second one;
and the bindings of that device are those that the statements so far leave, of which
the last one of a category decides (`Shown`).

`StorageAssumption` asks of the file that a start finds what `LeftBehind` says: it
has one of the three versions with the tables of that version, and its keys and
references hold. An id is never NULL (SQLite would allow it for the TEXT keys; no
code writes one). A file of version 1 has no row in `device_blocklists`, which is
what the comment in `migrate_v2` says (sqlite.rs:263); without it the DROP would lose
them.

Every invariant and action property of the passing runs is a theorem. Model-checked
only: the liveness properties (`EveryQueryIsAnswered`, `NoConnectionHangs`,
`GroupSettles`, `ReadReturns`, `ServiceComesUp`), and the five violations. Liveness
under fairness and ENABLED are beyond the prover.

## Not modelled

- `storage/logger.rs`: `main` never creates an `AccessLogger`; only its tests do.
- Configuration parsing (`config/`), errors and logging: no state.
- NAT lookup (`proxy/nat.rs`): a system call. Its answer is an input of `Resolve`.
- Scripts and deployment, except that launchd restarts the service.
- Ciphers and key derivation: a sealed unit opens under
  its own nonce and salt. `parse_http_url` is plain parsing.
- Groups as members of groups, and DIRECT or REJECT as members.
- In parental control: several addresses of one device, removal of devices while
  the program runs (it reads them once), and the clock set back.
- Queries of `ConfigStore` that relate nothing (`get_rule`, `list_config`, ...).

## Left for later

Groups of groups, and instances with two connections.
