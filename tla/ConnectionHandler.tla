-------------------------- MODULE ConnectionHandler --------------------------
(***************************************************************************)
(* The transparent proxy (src/src/proxy): a task for each connection finds *)
(* the original destination, the domain behind a fake address, the         *)
(* decision of the parental controller and the policy of the rules, and    *)
(* dials the destination itself, a proxy group or one Shadowsocks server,  *)
(* with a timeout; then it relays until an end closes.  What FakeDns, the  *)
(* controller and the rules answer is theirs to specify: here any answer   *)
(* they may give.  Every server is a member of the group.                  *)
(***************************************************************************)
EXTENDS OutboundGroup

CONSTANTS
  Names,        \* domains
  NoName,       \* None
  Denied,       \* domains the controller may deny to a device
  PolicyOf,     \* PolicyOf[n]: what the rules say for a domain, or for none
  GroupNames,   \* names the group may have in the configuration
  Upper,        \* Upper[s]: to_uppercase()
  Nowhere

VARIABLES
  conn,         \* conn[t]: [pc, dst, name, target, via] of connection t
  groupName     \* the group's name in the configuration

vars == <<gvars, conn, groupName>>

\* target is what is asked for, via the server that is asked for it.
Closed == [pc |-> "closed", dst |-> Nowhere, name |-> NoName, target |-> Nowhere, via |-> Nowhere]

Init ==
  /\ GroupInit
  /\ conn = [t \in Callers |-> Closed]
  /\ groupName \in GroupNames

Set(t, c) ==
  /\ conn' = [conn EXCEPT ![t] = c]
  /\ UNCHANGED groupName

\* A connection is accepted, and the kernel is asked where it was going: to a
\* fake address, to another one, or it cannot say and the task ends.
Accept(t) ==
  /\ conn[t].pc = "closed" /\ At(t, "rest")
  /\ \E dst \in {"fake", "real"} : Set(t, [Closed EXCEPT !.pc = "accepted", !.dst = dst])
  /\ UNCHANGED gvars

\* resolve_domain(): the table may have given the fake address up.  The
\* controller is asked about connections that have a name.
Resolve(t) ==
  LET c == conn[t]
  IN  /\ c.pc = "accepted"
      /\ \E n \in IF c.dst = "fake" THEN Names \union {NoName} ELSE {NoName} :
           \/ n \in Denied /\ Set(t, Closed)
           \/ Set(t, [c EXCEPT !.pc = "resolved", !.name = n])
      /\ UNCHANGED gvars

\* Mutant: the group is dialled with the address the client used.
TargetAddress(c) == c.dst

\* Through a proxy the name is preferred to the address.
Target(c) == IF c.name # NoName THEN c.name ELSE c.dst

\* Policy::from_str() puts the name of every policy in upper case.
Policy(n) == Upper[PolicyOf[n]]

\* OutboundManager::get() compares exact names with policies in upper case.  A
\* group hides a server of the same name; a server is there if its client
\* could be created.
GroupOf(policy) == members # <<>> /\ policy = groupName
ServerOf(policy) == policy \in ToSet(members) /\ policy # groupName

\* match_request() and the three ways to go on.
Route(t) ==
  LET c == conn[t]
      policy == Policy(c.name)
  IN  /\ c.pc = "resolved"
      /\ \/ /\ policy = "REJECT"
            /\ Set(t, Closed)
            /\ UNCHANGED gvars
         \/ /\ policy = "DIRECT"
            /\ Set(t, [c EXCEPT !.pc = "direct", !.target = c.dst])
            /\ UNCHANGED gvars
         \/ /\ policy \notin {"DIRECT", "REJECT"}
            /\ \/ /\ GroupOf(policy)
                  /\ Set(t, [c EXCEPT !.pc = "proxy", !.target = Target(c)])
                  /\ Connect(t)
               \/ /\ ServerOf(policy)
                  /\ Set(t, [c EXCEPT !.pc = "server", !.target = Target(c), !.via = policy])
                  /\ UNCHANGED gvars
               \/ /\ ~GroupOf(policy) /\ ~ServerOf(policy)
                  /\ Set(t, Closed)
                  /\ UNCHANGED gvars

\* connect_and_relay(): connected, failed, or timed out.
DirectConnects(t) ==
  /\ conn[t].pc = "direct"
  /\ Set(t, [conn[t] EXCEPT !.pc = "relay"])
  /\ UNCHANGED gvars

DirectFails(t) ==
  /\ conn[t].pc = "direct"
  /\ Set(t, Closed)
  /\ UNCHANGED gvars

\* The group connected the task through one of its members, or could not.
ProxyConnects(t) ==
  /\ conn[t].pc = "proxy" /\ At(t, "connected")
  /\ Set(t, [conn[t] EXCEPT !.pc = "relay", !.via = members[work[t].i]])
  /\ Release(t)

ProxyFails(t) ==
  /\ conn[t].pc = "proxy" /\ work[t].pc \in {"failed", "cancelled"}
  /\ Set(t, Closed)
  /\ Release(t)

\* The server that the policy names takes the connection, or refuses it.
ServerConnects(t) ==
  /\ conn[t].pc = "server" /\ link[conn[t].via] = "up"
  /\ Set(t, [conn[t] EXCEPT !.pc = "relay"])
  /\ UNCHANGED gvars

ServerFails(t) ==
  /\ conn[t].pc = "server" /\ link[conn[t].via] = "refuses"
  /\ Set(t, Closed)
  /\ UNCHANGED gvars

\* Mutant: the outbound's connect() is awaited without a timeout.
ProxyTimeoutNever(t) == FALSE

\* tokio::time::timeout around connect() of the group or of the server.
ProxyTimeout(t) ==
  \/ conn[t].pc = "proxy" /\ Cancel(t) /\ UNCHANGED <<conn, groupName>>
  \/ conn[t].pc = "server" /\ Set(t, Closed) /\ UNCHANGED gvars

\* Either end closes, or the relay fails.  No timeout limits a relay.
RelayEnds(t) ==
  /\ conn[t].pc = "relay"
  /\ Set(t, Closed)
  /\ UNCHANGED gvars

GroupStep(e) == (TestStep(e) \/ (e # Background /\ ConnectStep(e)))
                  /\ UNCHANGED <<conn, groupName>>
HandlerStep(t) ==
  \/ Resolve(t) \/ Route(t)
  \/ ProxyConnects(t) \/ ProxyFails(t) \/ ServerConnects(t) \/ ServerFails(t) \/ DirectFails(t)
Environment ==
  /\ \/ \E m \in ToSet(Configured), s \in {"up", "refuses", "hangs"} : LinkChanges(m, s)
     \/ \E i \in 1..(Len(Configured) + 1) : SelectProxy(i)
     \/ Elapse
     \/ Wake
  /\ UNCHANGED <<conn, groupName>>

Next ==
  \/ \E e \in Executors : GroupStep(e)
  \/ \E t \in Callers : Accept(t) \/ HandlerStep(t) \/ DirectConnects(t)
                          \/ ProxyTimeout(t) \/ RelayEnds(t)
  \/ Environment

Spec == Init /\ [][Next]_vars

\* Tasks are scheduled, timers ring; nothing makes a client connect, a relay
\* end or a server change.
Fairness ==
  /\ \A e \in Executors : WF_vars(GroupStep(e))
  /\ \A t \in Callers : WF_vars(HandlerStep(t)) /\ WF_vars(ProxyTimeout(t))
  /\ WF_vars(Elapse /\ UNCHANGED <<conn, groupName>>)
  /\ WF_vars(Wake /\ UNCHANGED <<conn, groupName>>)

FairSpec == Spec /\ Fairness

-----------------------------------------------------------------------------
(* Properties *)

\* Type invariant: every index points into the list of members.
TypeOK ==
  /\ link \in [ToSet(Configured) -> {"up", "refuses", "hangs"}]
  /\ available \in [Indices -> BOOLEAN] /\ latencies \in [Indices -> 0..(Infinity - 1)]
  /\ members # <<>> => best \in Indices /\ selected \in Indices
  /\ due \in BOOLEAN
  /\ \A t \in Callers :
       /\ conn[t].pc \in {"closed", "accepted", "resolved", "direct", "proxy", "server", "relay"}
       /\ conn[t].pc # "proxy" => At(t, "rest")
  /\ \A e \in Executors : work[e].pc = "dial" => work[e].i \in Indices

\* A fallback group with a member that is never down does not fail a
\* connection: no test, late or cut off, and no mark of another connection
\* hides that member (fallback.rs: connect, mark_unavailable, check_all).
OneSteadyMemberSuffices ==
  kind = "fallback" /\ steady \cap ToSet(members) # {}
    => \A t \in Callers : ~At(t, "failed")

\* What is relayed went where its policy says: to the original address by no
\* server, or by the domain if it is known, through a member of the group that
\* the policy names, or else through the very server that it names.
RelayFollowsPolicy ==
  \A t \in Callers :
    LET c == conn[t]
        policy == Policy(c.name)
    IN  c.pc = "relay" =>
          /\ policy # "REJECT"
          /\ IF policy = "DIRECT" THEN c.via = Nowhere /\ c.target = c.dst
             ELSE /\ c.via \in ToSet(members)
                  /\ c.via = policy \/ policy = groupName
                  /\ c.target = IF c.name = NoName THEN c.dst ELSE c.name

\* Every connection is relayed or closed in the end, with servers that accept
\* and never answer, and with tests that every connection waits for.
NoConnectionHangs ==
  \A t \in Callers :
    conn[t].pc \notin {"closed", "relay"} ~> conn[t].pc \in {"closed", "relay"}

\* The group knows which members answer, and has chosen the fastest.
Fits ==
  LET now == [i \in Indices |-> IF link[members[i]] = "up" THEN Latency[members[i]] ELSE Infinity]
  IN  Tested =>
        IF kind = "fallback" THEN available = [i \in Indices |-> now[i] # Infinity]
        ELSE best = Fastest(now)

\* Once the servers stop changing, the group comes to know them as they are
\* and keeps doing so: a member that was marked comes back, one that hangs is
\* passed over, and tests that overlap do not leave the wrong member chosen.
GroupSettles == (<>[][UNCHANGED link]_vars) => <>[]Fits

-----------------------------------------------------------------------------
(***************************************************************************)
(* The inductive invariant behind the safety properties: what a task has   *)
(* found out about the members of the group that are never down, and what  *)
(* a connection still knows of the policy it was routed by.                *)
(***************************************************************************)
GroupInv ==
  /\ kind \in {"select", "url-test", "fallback"}
  /\ members \in Seq(ToSet(Configured))
  /\ link \in [ToSet(Configured) -> {"up", "refuses", "hangs"}]
  /\ available \in [Indices -> BOOLEAN] /\ latencies \in [Indices -> 0..(Infinity - 1)]
  /\ members # <<>> => best \in Indices /\ selected \in Indices
  /\ due \in BOOLEAN
  /\ \A m \in steady : m \in ToSet(Configured) => link[m] = "up"

\* Places of members that are never down.
Steady == {j \in Indices : members[j] \in steady}

SteadyInv == \A j \in Steady : available[j]

Work == [pc : {"rest", "test", "best", "stamp", "choose", "dial", "mark",
               "connected", "failed", "cancelled"},
         i : 0..Len(members), results : [Indices -> 0..Infinity] \union {<<>>}]

WorkInv(e, w) ==
  /\ w \in Work
  /\ w.pc \in {"test", "best"} => Tested /\ w.results \in [Indices -> 0..Infinity]
  /\ w.pc \in {"choose", "dial"} => members # <<>>
  /\ w.pc \in {"dial", "mark", "connected"} => w.i # 0
  /\ w.pc = "mark" => kind = "fallback"
  /\ e = Background => w.pc \in {"rest", "test", "best", "stamp"}
  /\ w.pc = "stamp" => Tested
  /\ \A j \in Steady :
       /\ w.pc \in {"test", "best"} => w.results[j] # Infinity
       /\ kind = "fallback" =>
            /\ w.pc \in {"choose", "mark"} => j > w.i
            /\ w.pc = "dial" => j >= w.i
            /\ w.pc # "failed"

Conn == [pc : {"closed", "accepted", "resolved", "direct", "proxy", "server", "relay"},
         dst : {"fake", "real", Nowhere}, name : Names \union {NoName},
         target : Names \union {"fake", "real", Nowhere},
         via : ToSet(Configured) \union {Nowhere}]

ConnInv(c) ==
  /\ c \in Conn
  /\ c.pc = "direct" => Policy(c.name) = "DIRECT"
  /\ c.pc = "proxy" => Policy(c.name) \notin {"DIRECT", "REJECT"} /\ GroupOf(Policy(c.name))
  /\ c.pc = "server" => Policy(c.name) \notin {"DIRECT", "REJECT"}
  /\ c.pc = "relay" => Policy(c.name) # "REJECT"
  /\ c.pc = "server" \/ (c.pc = "relay" /\ Policy(c.name) # "DIRECT") =>
       c.via \in ToSet(members) /\ (c.via = Policy(c.name) \/ Policy(c.name) = groupName)
  /\ c.pc \in {"accepted", "resolved", "direct"} \/ (c.pc = "relay" /\ Policy(c.name) = "DIRECT") =>
       c.via = Nowhere
  /\ c.pc \in {"direct", "proxy", "server", "relay"} =>
       c.target = IF Policy(c.name) = "DIRECT" THEN c.dst ELSE Target(c)

IInv ==
  /\ GroupInv /\ SteadyInv
  /\ work \in [Executors -> Work] /\ \A e \in Executors : WorkInv(e, work[e])
  /\ conn \in [Callers -> Conn] /\ \A t \in Callers : ConnInv(conn[t])
  /\ \A t \in Callers : conn[t].pc # "proxy" => At(t, "rest")
====================
