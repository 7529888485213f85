---------------------------- MODULE OutboundGroup ----------------------------
(***************************************************************************)
(* A proxy group of the outbound manager (src/src/outbound/manager.rs and  *)
(* outbound/group): select, url-test or fallback over a list of members.   *)
(* A background task tests the members of a url-test or fallback group     *)
(* when the last test is too old; a connection that finds it too old tests *)
(* them as well, at the same time, before it dials.                        *)
(*                                                                         *)
(* Tests measure all members at once and write what they found at the end, *)
(* one lock after the other.  Durations are not counted: a result, a       *)
(* failure or the age of a test comes when it comes.                       *)
(***************************************************************************)
EXTENDS SequencesExt

CONSTANTS
  Callers,      \* tasks that connect through the group
  Background,   \* the task of start_health_checks()
  Configured,   \* the members of the group in the configuration, in order
  Latency,      \* how long each takes to answer a test
  Infinity      \* Duration::MAX, above every latency

VARIABLES
  kind,         \* the group's type
  members,      \* its members: the configured ones that could be created
  steady,       \* members that are never down
  link,         \* link[m]: m answers ("up"), "refuses" or "hangs"
  available,    \* fallback: by index of the member
  latencies,    \* url-test: what the last test measured, 0 for None
  best,         \* url-test: index of the member to use
  selected,     \* select: index of the member to use
  due,          \* the last test is older than the interval, or there is none
  work          \* work[e]: what task e is doing for the group

gvars == <<kind, members, steady, link, available, latencies, best, selected, due, work>>

ASSUME GroupAssumption ==
  /\ Background \notin Callers
  /\ Configured \in Seq(ToSet(Configured))
  /\ Infinity \in Nat \ {0}
  /\ \A m \in ToSet(Configured) : Latency[m] \in 1..(Infinity - 1)

Executors == Callers \union {Background}
Indices == 1..Len(members)
Tested == kind \in {"url-test", "fallback"} /\ members # <<>>

\* Results of a test by index: 0 while it is out, Infinity if it failed.
Pending == 0
NoResults == [i \in Indices |-> Pending]
Rest == [pc |-> "rest", i |-> 0, results |-> <<>>]

\* from_config() and create_group(): a member whose client cannot be created
\* is left out, and a group without members does not come into being.
Members(usable) ==
  LET places == {k \in DOMAIN Configured : Configured[k] \in usable}
  IN  {[i \in DOMAIN f |-> Configured[f[i]]] :
         f \in {f \in SetToSeqs(places) : \A i, j \in DOMAIN f : i < j => f[i] < f[j]}}

GroupInit ==
  /\ kind \in {"select", "url-test", "fallback"}
  /\ \E usable \in SUBSET ToSet(Configured) : members \in Members(usable)
  /\ steady \in {S \in SUBSET ToSet(Configured) : Cardinality(S) <= 1}
  /\ link = [m \in ToSet(Configured) |-> "up"]
  /\ available = [i \in Indices |-> TRUE]
  /\ latencies = [i \in Indices |-> 0]
  /\ best = 1
  /\ selected = 1
  /\ due = TRUE
  /\ work = [e \in Executors |-> Rest]

Keep == UNCHANGED <<kind, members, steady, link, available, latencies, best, selected, due>>
Goto(e, w) == work' = [work EXCEPT ![e] = w]
At(e, pc) == work[e].pc = pc
Move(e, pc) == Goto(e, [work[e] EXCEPT !.pc = pc])
Outcome(e, pc) == Goto(e, [Rest EXCEPT !.pc = pc])

-----------------------------------------------------------------------------
(* A test of all members: check_all() and test_all(). *)

StartTest(e) == Goto(e, [pc |-> "test", i |-> 0, results |-> NoResults])

\* The loop of the background task finds the last test too old.
Wake ==
  /\ Tested /\ due /\ At(Background, "rest")
  /\ StartTest(Background)
  /\ Keep

\* The health check of one member ends: a member that refuses, or does not
\* answer in time, has failed.
Measure(e, i) ==
  /\ At(e, "test") /\ work[e].results[i] = Pending
  /\ Goto(e, [work[e] EXCEPT !.results[i] =
                IF link[members[i]] = "up" THEN Latency[members[i]] ELSE Infinity])
  /\ Keep

Measured(e) == At(e, "test") /\ \A i \in Indices : work[e].results[i] # Pending

\* Mutant: a member that was found or marked down stays down.
WriteResultsMerged(e) ==
  /\ Measured(e)
  /\ IF kind = "fallback"
       THEN /\ available' = [i \in Indices |-> available[i] /\ work[e].results[i] # Infinity]
            /\ Move(e, "stamp")
       ELSE UNCHANGED available /\ Move(e, "best")
  /\ UNCHANGED <<kind, members, steady, link, latencies, best, selected, due>>

\* The results replace what was known of all members.
WriteResults(e) ==
  LET results == work[e].results
  IN  /\ Measured(e)
      /\ IF kind = "fallback"
           THEN /\ available' = [i \in Indices |-> results[i] # Infinity]
                /\ UNCHANGED latencies
                /\ Move(e, "stamp")
           ELSE /\ latencies' = [i \in Indices |-> IF results[i] = Infinity THEN 0 ELSE results[i]]
                /\ UNCHANGED available
                /\ Move(e, "best")
      /\ UNCHANGED <<kind, members, steady, link, best, selected, due>>

\* The first of the fastest members; the first of all if every one failed.
Fastest(results) ==
  CHOOSE i \in DOMAIN results :
    \A j \in DOMAIN results :
      results[i] <= results[j] /\ (results[i] = results[j] => i <= j)

WriteBest(e) ==
  /\ At(e, "best")
  /\ best' = Fastest(work[e].results)
  /\ Move(e, "stamp")
  /\ UNCHANGED <<kind, members, steady, link, available, latencies, selected, due>>

\* last_check, last_test: the test counts from the moment it is written.  The
\* background task sleeps, a connection goes on to the members.
WriteStamp(e) ==
  /\ At(e, "stamp")
  /\ due' = FALSE
  /\ IF e = Background THEN Goto(e, Rest) ELSE Outcome(e, "choose")
  /\ UNCHANGED <<kind, members, steady, link, available, latencies, best, selected>>

\* The interval has passed since the last test.
Elapse ==
  /\ Tested /\ ~due
  /\ due' = TRUE
  /\ UNCHANGED <<kind, members, steady, link, available, latencies, best, selected, work>>

-----------------------------------------------------------------------------
(* connect() of the group. *)

\* needs_check(), needs_test().
Connect(t) ==
  /\ At(t, "rest")
  /\ IF Tested /\ due THEN StartTest(t) ELSE Outcome(t, "choose")
  /\ Keep

Dial(t, i) == Goto(t, [pc |-> "dial", i |-> i, results |-> <<>>])

\* select and url-test use one member, whatever state it is in.
ChooseOne(t) ==
  /\ At(t, "choose") /\ kind # "fallback"
  /\ Dial(t, IF kind = "select" THEN selected ELSE best)
  /\ Keep

\* fallback goes through the list once, and looks at each member's
\* availability when it comes to it.
ChooseNext(t) ==
  LET i == work[t].i + 1
  IN  /\ At(t, "choose") /\ kind = "fallback"
      /\ IF i > Len(members) THEN Outcome(t, "failed")
         ELSE IF available[i] THEN Dial(t, i)
         ELSE Goto(t, [work[t] EXCEPT !.i = i])
      /\ Keep

\* The member takes the connection.
Accepted(t) ==
  /\ At(t, "dial") /\ link[members[work[t].i]] = "up"
  /\ Move(t, "connected")
  /\ Keep

\* It refuses: the end of it for a select or url-test group.
Refused(t) ==
  /\ At(t, "dial") /\ link[members[work[t].i]] = "refuses"
  /\ IF kind = "fallback" THEN Move(t, "mark") ELSE Outcome(t, "failed")
  /\ Keep

\* mark_unavailable(), whatever a test has found in the meantime.
Mark(t) ==
  /\ At(t, "mark")
  /\ available' = [available EXCEPT ![work[t].i] = FALSE]
  /\ Move(t, "choose")
  /\ UNCHANGED <<kind, members, steady, link, latencies, best, selected, due>>

\* Mutant: a test that is cut off is written as far as it came.
CancelWritten(t) ==
  /\ work[t].pc \in {"test", "dial"}
  /\ Outcome(t, "cancelled")
  /\ available' = IF At(t, "test") THEN [i \in Indices |-> work[t].results[i] \in 1..(Infinity - 1)]
                  ELSE available
  /\ UNCHANGED <<kind, members, steady, link, latencies, best, selected, due>>

\* The caller drops the future: what it has not written is lost.
Cancel(t) ==
  /\ work[t].pc \in {"test", "dial"}
  /\ Outcome(t, "cancelled")
  /\ Keep

Release(t) ==
  /\ work[t].pc \in {"connected", "failed", "cancelled"}
  /\ Goto(t, Rest)
  /\ Keep

-----------------------------------------------------------------------------
\* Mutant: an index one past the end is accepted.
SelectProxyLate(i) ==
  /\ kind = "select" /\ members # <<>> /\ i \in Indices \union {Len(members) + 1}
  /\ selected' = i
  /\ UNCHANGED <<kind, members, steady, link, available, latencies, best, due, work>>

\* select_proxy(): an index or a name that the group does not have is refused.
SelectProxy(i) ==
  /\ kind = "select" /\ i \in Indices
  /\ selected' = i
  /\ UNCHANGED <<kind, members, steady, link, available, latencies, best, due, work>>

\* A server goes down, stops answering or comes back.
LinkChanges(m, s) ==
  /\ link[m] # s /\ m \notin steady
  /\ link' = [link EXCEPT ![m] = s]
  /\ UNCHANGED <<kind, members, steady, available, latencies, best, selected, due, work>>

TestStep(e) == (\E i \in Indices : Measure(e, i)) \/ WriteResults(e) \/ WriteBest(e) \/ WriteStamp(e)
ConnectStep(t) == ChooseOne(t) \/ ChooseNext(t) \/ Accepted(t) \/ Refused(t) \/ Mark(t)
=============================================================================
