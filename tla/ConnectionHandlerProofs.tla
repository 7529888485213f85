----------------------- MODULE ConnectionHandlerProofs -----------------------
(***************************************************************************)
(* Proofs about OutboundGroup and ConnectionHandler, for any number of     *)
(* connections and of members, any latencies and any rules: the inductive  *)
(* invariant, and the safety properties of the run that follow from it.    *)
(***************************************************************************)
EXTENDS ConnectionHandler, SequenceLemmas

LEMMA ConstantFacts ==
  /\ Background \notin Callers
  /\ Infinity \in Nat \ {0}
  /\ \A m \in ToSet(Configured) : Latency[m] \in 1..(Infinity - 1)
BY GroupAssumption

(* Parts of GroupInv in the form the steps use. *)
LEMMA GroupFacts ==
  ASSUME GroupInv
  PROVE  /\ Len(members) \in Nat /\ Indices = 1..Len(members)
         /\ \A i \in Indices : members[i] \in ToSet(Configured)
         /\ members # <<>> => Len(members) > 0
         /\ \A j \in Steady : j \in Indices /\ link[members[j]] = "up"
<1>1. members \in Seq(ToSet(Configured))
  BY DEF GroupInv
<1>2. Len(members) \in Nat /\ \A i \in 1..Len(members) : members[i] \in ToSet(Configured)
  BY <1>1
<1>3. members # <<>> => Len(members) > 0
  BY <1>1
<1> QED
  BY <1>2, <1>3 DEF GroupInv, Indices, Steady

(* A step of a task that leaves what all share alone need only be right    *)
(* for the task.                                                           *)
WorkPart ==
  /\ GroupInv /\ SteadyInv
  /\ work \in [Executors -> Work] /\ \A e \in Executors : WorkInv(e, work[e])

ConnPart ==
  /\ conn \in [Callers -> Conn] /\ \A t \in Callers : ConnInv(conn[t])

LEMMA WorkStep ==
  ASSUME IInv, NEW e \in Executors, NEW w, Goto(e, w), WorkInv(e, w),
         UNCHANGED <<kind, members, steady>>, GroupInv', SteadyInv'
  PROVE  WorkPart'
<1>1. work' = [work EXCEPT ![e] = w] /\ kind' = kind /\ members' = members /\ steady' = steady
  BY DEF Goto
<1>2. work' \in [Executors -> Work]
  BY <1>1 DEF IInv, WorkInv
<1>3. \A d \in Executors : WorkInv(d, work'[d])
  BY <1>1 DEF IInv
<1>4. /\ Indices' = Indices /\ Steady' = Steady /\ Work' = Work /\ Tested' = Tested
      /\ \A d \in Executors : WorkInv(d, work[d])' <=> WorkInv(d, work'[d])
  BY <1>1 DEF WorkInv, Work, Steady, Indices, Tested
<1> QED
  BY <1>2, <1>3, <1>4 DEF WorkPart

LEMMA KeepFacts ==
  ASSUME IInv, Keep
  PROVE  UNCHANGED <<kind, members, steady>> /\ GroupInv' /\ SteadyInv'
BY DEF Keep, IInv, GroupInv, SteadyInv, Indices, Steady

LEMMA ConnUnchanged ==
  ASSUME IInv, UNCHANGED <<conn, groupName, members>>
  PROVE  ConnPart'
BY DEF IInv, ConnPart, ConnInv, GroupOf, Policy, Target

LEMMA ConnStep ==
  ASSUME IInv, NEW t \in Callers, NEW c, Set(t, c), ConnInv(c), UNCHANGED members
  PROVE  ConnPart'
<1>1. conn' = [conn EXCEPT ![t] = c] /\ groupName' = groupName /\ members' = members
  BY DEF Set
<1>2. conn' \in [Callers -> Conn] /\ \A u \in Callers : ConnInv(conn'[u])
  BY <1>1 DEF IInv, ConnInv
<1>3. \A u \in Callers : ConnInv(conn[u])' <=> ConnInv(conn'[u])
  BY <1>1 DEF ConnInv, GroupOf, Policy, Target
<1> QED
  BY <1>2, <1>3 DEF ConnPart

LEMMA GotoKeeps ==
  ASSUME IInv, NEW e \in Executors, NEW w, Goto(e, w), WorkInv(e, w),
         UNCHANGED <<kind, members, steady>>, GroupInv', SteadyInv',
         UNCHANGED <<conn, groupName>>,
         e \in Callers => conn[e].pc = "proxy" \/ w.pc = "rest"
  PROVE  IInv'
<1>1. WorkPart' /\ ConnPart'
  BY WorkStep, ConnUnchanged
<1>2. \A t \in Callers : conn'[t].pc # "proxy" => work'[t].pc = "rest"
  BY DEF IInv, At, Goto, Executors
<1> QED
  BY <1>1, <1>2 DEF IInv, At, WorkPart, ConnPart

LEMMA IInvFacts ==
  ASSUME IInv, NEW e \in Executors
  PROVE  /\ GroupInv /\ SteadyInv
         /\ work[e] \in Work /\ WorkInv(e, work[e])
         /\ e \in Callers /\ work[e].pc # "rest" => conn[e].pc = "proxy"
BY DEF IInv, At

(* A task at rest, and one that has come to an end of some kind. *)
LEMMA OutcomeFits ==
  ASSUME IInv, NEW e \in Executors,
         NEW pc \in {"rest", "choose", "failed", "cancelled"},
         pc # "rest" => e \in Callers,
         pc = "choose" => members # <<>>,
         pc = "failed" /\ kind = "fallback" => Steady = {}
  PROVE  WorkInv(e, [Rest EXCEPT !.pc = pc])
<1> DEFINE w == [Rest EXCEPT !.pc = pc]
<1>1. w = [pc |-> pc, i |-> 0, results |-> <<>>]
  BY DEF Rest
<1>2. w \in Work
  BY <1>1, IInvFacts, GroupFacts DEF Work
<1>3. w.pc = pc /\ w.i = 0
  BY <1>1
<1>4. \A j \in Steady : j > 0
  BY IInvFacts, GroupFacts
<1> HIDE DEF w
<1>5. WorkInv(e, w)
  BY <1>2, <1>3, <1>4, ConstantFacts DEF WorkInv
<1> QED
  BY <1>5 DEF w

(* A test begins: no result is a failure yet. *)
LEMMA StartTestFits ==
  ASSUME IInv, NEW e \in Executors, Tested
  PROVE  WorkInv(e, [pc |-> "test", i |-> 0, results |-> NoResults])
<1> DEFINE w == [pc |-> "test", i |-> 0, results |-> NoResults]
<1>1. NoResults \in [Indices -> 0..Infinity]
  BY ConstantFacts DEF NoResults, Pending
<1>2. \A j \in Steady : NoResults[j] # Infinity
  BY IInvFacts, GroupFacts, ConstantFacts DEF NoResults, Pending
<1>3. w \in Work
  BY <1>1, IInvFacts, GroupFacts DEF Work
<1>4. w.pc = "test" /\ w.results = NoResults
  OBVIOUS
<1> HIDE DEF w
<1>5. WorkInv(e, w)
  BY <1>1, <1>2, <1>3, <1>4 DEF WorkInv, Tested
<1> QED
  BY <1>5 DEF w

LEMMA DialFits ==
  ASSUME IInv, NEW t \in Callers, NEW i \in Indices, members # <<>>,
         kind = "fallback" => \A j \in Steady : j >= i
  PROVE  WorkInv(t, [pc |-> "dial", i |-> i, results |-> <<>>])
<1> DEFINE w == [pc |-> "dial", i |-> i, results |-> <<>>]
<1>1. w \in Work
  BY IInvFacts, GroupFacts DEF Work, Executors
<1>2. w.pc = "dial" /\ w.i = i /\ i # 0
  BY IInvFacts, GroupFacts DEF Executors
<1> HIDE DEF w
<1>3. WorkInv(t, w)
  BY <1>1, <1>2, ConstantFacts DEF WorkInv
<1> QED
  BY <1>3 DEF w

-----------------------------------------------------------------------------
(***************************************************************************)
(* Tests.                                                                  *)
(***************************************************************************)
LEMMA MeasureKeeps ==
  ASSUME IInv, NEW e \in Executors, NEW i \in Indices, Measure(e, i),
         UNCHANGED <<conn, groupName>>
  PROVE  IInv'
<1> DEFINE result == IF link[members[i]] = "up" THEN Latency[members[i]] ELSE Infinity
           w == [work[e] EXCEPT !.results[i] = result]
<1>1. At(e, "test") /\ Goto(e, w) /\ Keep
  BY DEF Measure
<1>2. /\ work[e].pc = "test" /\ Tested /\ work[e] \in Work
      /\ work[e].results \in [Indices -> 0..Infinity]
      /\ \A j \in Steady : work[e].results[j] # Infinity
  BY <1>1, IInvFacts DEF WorkInv, At
<1>3. result \in 0..Infinity /\ (i \in Steady => result # Infinity)
  BY IInvFacts, GroupFacts, ConstantFacts
<1> HIDE DEF result
<1>4. /\ w.pc = "test" /\ w.i = work[e].i
      /\ w.results = [work[e].results EXCEPT ![i] = result]
      /\ w = [work[e] EXCEPT !.results = w.results]
  BY <1>2 DEF Work
<1> HIDE DEF w
<1>5. /\ w.results \in [Indices -> 0..Infinity]
      /\ \A j \in Steady : w.results[j] # Infinity
  BY <1>2, <1>3, <1>4 DEF Steady
<1>6. w \in Work
  BY <1>2, <1>4, <1>5 DEF Work
<1>7. WorkInv(e, w)
  BY <1>2, <1>4, <1>5, <1>6 DEF WorkInv, Tested
<1> QED
  BY <1>1, <1>2, <1>7, IInvFacts, KeepFacts, GotoKeeps

(* The task that writes its results still has them. *)
LEMMA MoveFits ==
  ASSUME IInv, NEW e \in Executors, work[e].pc \in {"test", "best"}, NEW pc \in {"best", "stamp"}
  PROVE  WorkInv(e, [work[e] EXCEPT !.pc = pc])
<1> DEFINE w == [work[e] EXCEPT !.pc = pc]
<1>1. /\ Tested /\ work[e] \in Work
      /\ work[e].results \in [Indices -> 0..Infinity]
      /\ \A j \in Steady : work[e].results[j] # Infinity
  BY IInvFacts DEF WorkInv
<1>2. w \in Work /\ w.pc = pc /\ w.results = work[e].results
  BY <1>1 DEF Work
<1> HIDE DEF w
<1>3. WorkInv(e, w)
  BY <1>1, <1>2 DEF WorkInv
<1> QED
  BY <1>3 DEF w

(* A steady member never fails a test, so no test marks it as unavailable. *)
LEMMA WriteResultsKeeps ==
  ASSUME IInv, NEW e \in Executors, WriteResults(e), UNCHANGED <<conn, groupName>>
  PROVE  IInv'
<1> DEFINE results == work[e].results
<1>1. /\ work[e].pc = "test" /\ UNCHANGED <<kind, members, steady, link, best, selected, due>>
      /\ \A i \in Indices : results[i] # 0
  BY DEF WriteResults, Measured, At, Pending
<1>2. /\ results \in [Indices -> 0..Infinity]
      /\ \A j \in Steady : results[j] # Infinity
  BY <1>1, IInvFacts DEF WorkInv
<1>3. CASE kind = "fallback"
  <2>1. /\ available' = [i \in Indices |-> results[i] # Infinity] /\ latencies' = latencies
        /\ Goto(e, [work[e] EXCEPT !.pc = "stamp"])
    BY <1>3 DEF WriteResults, Move
  <2>2. GroupInv' /\ SteadyInv'
    BY <1>1, <1>2, <2>1, IInvFacts DEF GroupInv, SteadyInv, Indices, Steady
  <2>3. WorkInv(e, [work[e] EXCEPT !.pc = "stamp"])
    BY <1>1, MoveFits
  <2> QED
    BY <1>1, <2>1, <2>2, <2>3, IInvFacts, GotoKeeps
<1>4. CASE kind # "fallback"
  <2>1. /\ latencies' = [i \in Indices |-> IF results[i] = Infinity THEN 0 ELSE results[i]]
        /\ available' = available
        /\ Goto(e, [work[e] EXCEPT !.pc = "best"])
    BY <1>4 DEF WriteResults, Move
  <2>2. latencies' \in [Indices -> 0..(Infinity - 1)]
    BY <1>2, <2>1, ConstantFacts
  <2>3. GroupInv' /\ SteadyInv'
    BY <1>1, <2>1, <2>2, IInvFacts DEF GroupInv, SteadyInv, Indices, Steady
  <2>4. WorkInv(e, [work[e] EXCEPT !.pc = "best"])
    BY <1>1, MoveFits
  <2> QED
    BY <1>1, <2>1, <2>3, <2>4, IInvFacts, GotoKeeps
<1> QED
  BY <1>3, <1>4

(* min_by_key finds a member, whatever the results. *)
LEMMA FastestIsAnIndex ==
  ASSUME GroupInv, members # <<>>, NEW results \in [Indices -> 0..Infinity]
  PROVE  Fastest(results) \in Indices
<1>1. DOMAIN results = Indices /\ results \in [Indices -> Nat]
  BY ConstantFacts
<1>2. Indices \subseteq Nat /\ Indices # {} /\ IsFiniteSet(Indices)
  <2>1. Indices = 1..Len(members) /\ Len(members) \in Nat /\ Len(members) > 0
    BY GroupFacts
  <2>2. Indices \subseteq Nat /\ 1 \in Indices
    BY <2>1
  <2>3. IsFiniteSet(1..Len(members))
    BY <2>1, FS_Interval
  <2> QED
    BY <2>1, <2>2, <2>3
<1>3. \E x \in Indices : \A y \in Indices :
        results[x] <= results[y] /\ (results[x] = results[y] => x <= y)
  <2>1. \A D : D \subseteq Nat /\ D # {} /\ IsFiniteSet(D) =>
          \A f \in [D -> Nat] :
            \E x \in D : \A y \in D : f[x] <= f[y] /\ (f[x] = f[y] => x <= y)
    BY LeastExists
  <2>2. \A f \in [Indices -> Nat] :
          \E x \in Indices : \A y \in Indices : f[x] <= f[y] /\ (f[x] = f[y] => x <= y)
    BY <1>2, <2>1
  <2> QED
    BY <1>1, <2>2, Zenon
<1> QED
  BY <1>1, <1>3 DEF Fastest

LEMMA WriteBestKeeps ==
  ASSUME IInv, NEW e \in Executors, WriteBest(e), UNCHANGED <<conn, groupName>>
  PROVE  IInv'
<1>1. /\ work[e].pc = "best" /\ best' = Fastest(work[e].results)
      /\ Goto(e, [work[e] EXCEPT !.pc = "stamp"])
      /\ UNCHANGED <<kind, members, steady, link, available, latencies, selected, due>>
  BY DEF WriteBest, At, Move
<1>2. best' \in Indices
  BY <1>1, IInvFacts, FastestIsAnIndex DEF WorkInv, Tested
<1>3. GroupInv' /\ SteadyInv'
  BY <1>1, <1>2, IInvFacts DEF GroupInv, SteadyInv, Indices, Steady
<1>4. WorkInv(e, [work[e] EXCEPT !.pc = "stamp"])
  BY <1>1, MoveFits
<1> QED
  BY <1>1, <1>3, <1>4, IInvFacts, GotoKeeps

LEMMA WriteStampKeeps ==
  ASSUME IInv, NEW e \in Executors, WriteStamp(e), UNCHANGED <<conn, groupName>>
  PROVE  IInv'
<1>1. /\ work[e].pc = "stamp" /\ due' = FALSE
      /\ UNCHANGED <<kind, members, steady, link, available, latencies, best, selected>>
  BY DEF WriteStamp, At
<1>2. GroupInv' /\ SteadyInv'
  BY <1>1, IInvFacts DEF GroupInv, SteadyInv, Indices, Steady
<1>3. members # <<>>
  BY <1>1, IInvFacts DEF WorkInv, Tested
<1>4. CASE e = Background
  <2>1. Goto(e, Rest) /\ Rest = [Rest EXCEPT !.pc = "rest"]
    BY <1>4 DEF WriteStamp, Rest
  <2>2. WorkInv(e, Rest) /\ Rest.pc = "rest"
    BY <2>1, OutcomeFits DEF Rest
  <2> QED
    BY <1>1, <1>2, <2>1, <2>2, GotoKeeps
<1>5. CASE e # Background
  <2>1. e \in Callers /\ Goto(e, [Rest EXCEPT !.pc = "choose"])
    BY <1>5 DEF WriteStamp, Outcome, Executors
  <2>2. WorkInv(e, [Rest EXCEPT !.pc = "choose"])
    BY <1>3, <2>1, OutcomeFits
  <2> QED
    BY <1>1, <1>2, <2>1, <2>2, IInvFacts, GotoKeeps
<1> QED
  BY <1>4, <1>5

LEMMA WakeKeeps ==
  ASSUME IInv, Wake, UNCHANGED <<conn, groupName>>
  PROVE  IInv'
<1>1. /\ Background \in Executors /\ Background \notin Callers /\ Tested /\ Keep
      /\ Goto(Background, [pc |-> "test", i |-> 0, results |-> NoResults])
  BY ConstantFacts DEF Wake, StartTest, Executors
<1> QED
  BY <1>1, StartTestFits, KeepFacts, GotoKeeps

LEMMA ElapseKeeps ==
  ASSUME IInv, Elapse, UNCHANGED <<conn, groupName>>
  PROVE  IInv'
<1>1. /\ due' = TRUE
      /\ UNCHANGED <<kind, members, steady, link, available, latencies, best, selected, work>>
  BY DEF Elapse
<1>2. GroupInv' /\ SteadyInv'
  BY <1>1 DEF IInv, GroupInv, SteadyInv, Indices, Steady
<1>3. ConnPart'
  BY <1>1, ConnUnchanged
<1>4. work' \in [Executors -> Work'] /\ \A e \in Executors : WorkInv(e, work[e])'
  BY <1>1 DEF IInv, WorkInv, Work, Steady, Indices, Tested
<1> QED
  BY <1>1, <1>2, <1>3, <1>4 DEF IInv, ConnPart, At

-----------------------------------------------------------------------------
(***************************************************************************)
(* connect() of the group.                                                 *)
(***************************************************************************)
LEMMA ChooseOneKeeps ==
  ASSUME IInv, NEW t \in Callers, ChooseOne(t), UNCHANGED <<conn, groupName>>
  PROVE  IInv'
<1> DEFINE i == IF kind = "select" THEN selected ELSE best
<1>1. /\ work[t].pc = "choose" /\ kind # "fallback" /\ Keep
      /\ Goto(t, [pc |-> "dial", i |-> i, results |-> <<>>])
  BY DEF ChooseOne, At, Dial
<1>2. t \in Executors
  BY DEF Executors
<1>3. members # <<>> /\ conn[t].pc = "proxy"
  BY <1>1, <1>2, IInvFacts DEF WorkInv
<1>4. i \in Indices
  BY <1>2, <1>3, IInvFacts DEF GroupInv
<1> HIDE DEF i
<1>5. WorkInv(t, [pc |-> "dial", i |-> i, results |-> <<>>])
  BY <1>1, <1>3, <1>4, DialFits
<1> QED
  BY <1>1, <1>2, <1>3, <1>5, KeepFacts, GotoKeeps

(* A member that is passed over is not a steady one, so a list that is at  *)
(* its end held none.                                                      *)
LEMMA ChooseNextKeeps ==
  ASSUME IInv, NEW t \in Callers, ChooseNext(t), UNCHANGED <<conn, groupName>>
  PROVE  IInv'
<1> DEFINE i == work[t].i + 1
<1>1. t \in Executors
  BY DEF Executors
<1>2. work[t].pc = "choose" /\ kind = "fallback" /\ Keep
  BY DEF ChooseNext, At
<1>3. /\ work[t] \in Work /\ conn[t].pc = "proxy" /\ members # <<>>
      /\ \A j \in Steady : j > work[t].i
  BY <1>1, <1>2, IInvFacts DEF WorkInv
<1>4. work[t].i \in 0..Len(members) /\ Len(members) \in Nat /\ Indices = 1..Len(members)
      /\ Steady \subseteq Indices
  BY <1>1, <1>3, IInvFacts, GroupFacts DEF Work, Steady
<1>5. \A j \in Steady : j >= i
  BY <1>3, <1>4
<1>6. CASE i > Len(members)
  <2>1. Goto(t, [Rest EXCEPT !.pc = "failed"])
    BY <1>2, <1>6 DEF ChooseNext, Outcome
  <2>2. Steady = {}
    BY <1>4, <1>5, <1>6
  <2>3. WorkInv(t, [Rest EXCEPT !.pc = "failed"])
    BY <1>1, <2>2, OutcomeFits
  <2> QED
    BY <1>1, <1>2, <1>3, <2>1, <2>3, KeepFacts, GotoKeeps
<1>7. CASE ~(i > Len(members)) /\ available[i]
  <2>1. Goto(t, [pc |-> "dial", i |-> i, results |-> <<>>])
    BY <1>7 DEF ChooseNext, Dial
  <2>2. i \in Indices
    BY <1>4, <1>7
  <2> HIDE DEF i
  <2>3. WorkInv(t, [pc |-> "dial", i |-> i, results |-> <<>>])
    BY <1>3, <1>5, <2>2, DialFits
  <2> QED
    BY <1>1, <1>2, <1>3, <2>1, <2>3, KeepFacts, GotoKeeps
<1>8. CASE ~(i > Len(members)) /\ ~available[i]
  <2> DEFINE w == [work[t] EXCEPT !.i = i]
  <2>1. Goto(t, w)
    BY <1>8 DEF ChooseNext
  <2>2. i \in Indices /\ i \notin Steady
    BY <1>1, <1>4, <1>8, IInvFacts DEF SteadyInv
  <2>3. i \in 0..Len(members) /\ \A j \in Steady : j > i
    BY <1>4, <1>5, <2>2
  <2> HIDE DEF i
  <2>4. w \in Work /\ w.pc = "choose" /\ w.i = i
    BY <1>2, <1>3, <2>3 DEF Work
  <2> HIDE DEF w
  <2>5. WorkInv(t, w)
    BY <1>3, <2>3, <2>4, ConstantFacts DEF WorkInv
  <2> QED
    BY <1>1, <1>2, <1>3, <2>1, <2>5, KeepFacts, GotoKeeps
<1> QED
  BY <1>6, <1>7, <1>8

LEMMA DialFacts ==
  ASSUME IInv, NEW t \in Callers, work[t].pc \in {"dial", "mark"}
  PROVE  /\ t \in Executors /\ conn[t].pc = "proxy" /\ work[t] \in Work
         /\ work[t].i \in Indices
         /\ work[t].pc = "mark" => kind = "fallback"
         /\ kind = "fallback" => \A j \in Steady : j >= work[t].i
         /\ kind = "fallback" /\ work[t].pc = "mark" => \A j \in Steady : j > work[t].i
<1>1. t \in Executors
  BY DEF Executors
<1>2. /\ conn[t].pc = "proxy" /\ work[t] \in Work /\ work[t].i # 0
      /\ work[t].pc = "mark" => kind = "fallback"
      /\ kind = "fallback" /\ work[t].pc = "dial" => \A j \in Steady : j >= work[t].i
      /\ kind = "fallback" /\ work[t].pc = "mark" => \A j \in Steady : j > work[t].i
  BY <1>1, IInvFacts DEF WorkInv
<1>3. work[t].i \in 0..Len(members) /\ Len(members) \in Nat /\ Indices = 1..Len(members)
  BY <1>1, IInvFacts, GroupFacts DEF Work
<1>4. \A j \in Steady : j \in Indices
  BY DEF Steady
<1> QED
  BY <1>1, <1>2, <1>3, <1>4

LEMMA AcceptedKeeps ==
  ASSUME IInv, NEW t \in Callers, Accepted(t), UNCHANGED <<conn, groupName>>
  PROVE  IInv'
<1> DEFINE w == [work[t] EXCEPT !.pc = "connected"]
<1>1. work[t].pc = "dial" /\ Goto(t, w) /\ Keep
  BY DEF Accepted, At, Move
<1>2. w \in Work /\ w.pc = "connected" /\ w.i = work[t].i
  BY <1>1, DialFacts DEF Work
<1>3. w.i # 0 /\ t # Background
  BY <1>1, <1>2, DialFacts, IInvFacts, ConstantFacts DEF WorkInv
<1> HIDE DEF w
<1>4. WorkInv(t, w)
  BY <1>2, <1>3 DEF WorkInv
<1> QED
  BY <1>1, <1>4, DialFacts, KeepFacts, GotoKeeps

(* Only a member that is not steady refuses, and is marked. *)
LEMMA RefusedKeeps ==
  ASSUME IInv, NEW t \in Callers, Refused(t), UNCHANGED <<conn, groupName>>
  PROVE  IInv'
<1>1. work[t].pc = "dial" /\ link[members[work[t].i]] = "refuses" /\ Keep
  BY DEF Refused, At
<1>2. t \in Executors
  BY DEF Executors
<1>3. CASE kind = "fallback"
  <2> DEFINE w == [work[t] EXCEPT !.pc = "mark"]
  <2>1. Goto(t, w)
    BY <1>3 DEF Refused, Move
  <2>2. w \in Work /\ w.pc = "mark" /\ w.i = work[t].i
    BY <1>1, DialFacts DEF Work
  <2> HIDE DEF w
  <2>3. work[t].i \notin Steady /\ work[t].i # 0
    BY <1>1, <1>2, IInvFacts, GroupFacts, DialFacts
  <2>4. work[t].i \in Nat /\ \A j \in Steady : j \in Nat /\ j > work[t].i
    <3>1. Indices = 1..Len(members) /\ Len(members) \in Nat
      BY <1>2, IInvFacts, GroupFacts
    <3>2. work[t].i \in Indices /\ \A j \in Steady : j \in Indices /\ j >= work[t].i
      BY <1>1, <1>3, DialFacts DEF Steady
    <3> QED
      BY <2>3, <3>1, <3>2
  <2>5. WorkInv(t, w)
    BY <1>3, <2>2, <2>3, <2>4, ConstantFacts DEF WorkInv
  <2> QED
    BY <1>1, <2>1, <2>5, DialFacts, KeepFacts, GotoKeeps
<1>4. CASE kind # "fallback"
  <2>1. Goto(t, [Rest EXCEPT !.pc = "failed"])
    BY <1>4 DEF Refused, Outcome
  <2>2. WorkInv(t, [Rest EXCEPT !.pc = "failed"])
    BY <1>2, <1>4, OutcomeFits
  <2> QED
    BY <1>1, <2>1, <2>2, DialFacts, KeepFacts, GotoKeeps
<1> QED
  BY <1>3, <1>4

LEMMA MarkKeeps ==
  ASSUME IInv, NEW t \in Callers, Mark(t), UNCHANGED <<conn, groupName>>
  PROVE  IInv'
<1> DEFINE w == [work[t] EXCEPT !.pc = "choose"]
<1>1. /\ work[t].pc = "mark" /\ Goto(t, w)
      /\ available' = [available EXCEPT ![work[t].i] = FALSE]
      /\ UNCHANGED <<kind, members, steady, link, latencies, best, selected, due>>
  BY DEF Mark, At, Move
<1>2. w \in Work /\ w.pc = "choose" /\ w.i = work[t].i
  BY <1>1, DialFacts DEF Work
<1> HIDE DEF w
<1>3. /\ work[t].i \in Indices /\ work[t].i \notin Steady
      /\ \A j \in Steady : j > work[t].i
  <2>1. Indices = 1..Len(members) /\ Len(members) \in Nat
    BY <1>1, DialFacts, IInvFacts, GroupFacts
  <2>2. work[t].i \in Indices /\ \A j \in Steady : j \in Indices /\ j > work[t].i
    BY <1>1, DialFacts DEF Steady
  <2> QED
    BY <2>1, <2>2
<1>4. GroupInv' /\ SteadyInv'
  BY <1>1, <1>3 DEF IInv, GroupInv, SteadyInv, Indices, Steady
<1>5. members # <<>>
  BY <1>1, <1>3, DialFacts, IInvFacts, GroupFacts
<1>6. WorkInv(t, w)
  BY <1>2, <1>3, <1>5, ConstantFacts DEF WorkInv
<1> QED
  BY <1>1, <1>4, <1>6, DialFacts, GotoKeeps

LEMMA CancelKeeps ==
  ASSUME IInv, NEW t \in Callers, conn[t].pc = "proxy", Cancel(t), UNCHANGED <<conn, groupName>>
  PROVE  IInv'
<1>1. t \in Executors /\ Goto(t, [Rest EXCEPT !.pc = "cancelled"]) /\ Keep
  BY DEF Cancel, Outcome, Executors
<1>2. WorkInv(t, [Rest EXCEPT !.pc = "cancelled"])
  BY <1>1, OutcomeFits
<1> QED
  BY <1>1, <1>2, KeepFacts, GotoKeeps

-----------------------------------------------------------------------------
(***************************************************************************)
(* Connections.                                                            *)
(***************************************************************************)

(* A step of a connection that has no business with the group. *)
LEMMA SetKeeps ==
  ASSUME IInv, NEW t \in Callers, NEW c, Set(t, c), ConnInv(c), UNCHANGED gvars,
         c.pc # "proxy" => work[t].pc = "rest"
  PROVE  IInv'
<1>1. /\ work' = work /\ UNCHANGED <<kind, members, steady, link, available, latencies,
                                     best, selected, due>>
  BY DEF gvars
<1>2. ConnPart'
  BY <1>1, ConnStep
<1>3. GroupInv' /\ SteadyInv'
  BY <1>1 DEF IInv, GroupInv, SteadyInv, Indices, Steady
<1>4. work' \in [Executors -> Work'] /\ \A e \in Executors : WorkInv(e, work[e])'
  BY <1>1 DEF IInv, WorkInv, Work, Steady, Indices, Tested
<1>5. \A u \in Callers : conn'[u].pc # "proxy" => work'[u].pc = "rest"
  BY <1>1 DEF IInv, At, Set
<1> QED
  BY <1>2, <1>3, <1>4, <1>5 DEF IInv, ConnPart, At

(* A step of a connection together with one of its task in the group. *)
LEMMA SetGotoKeeps ==
  ASSUME IInv, NEW t \in Callers, NEW c, Set(t, c), ConnInv(c),
         NEW w, Goto(t, w), WorkInv(t, w), Keep,
         c.pc # "proxy" => w.pc = "rest"
  PROVE  IInv'
<1>1. t \in Executors
  BY DEF Executors
<1>2. WorkPart' /\ ConnPart'
  BY <1>1, KeepFacts, WorkStep, ConnStep
<1>3. \A u \in Callers : conn'[u].pc # "proxy" => work'[u].pc = "rest"
  BY <1>1 DEF IInv, At, Set, Goto, Executors
<1> QED
  BY <1>2, <1>3 DEF IInv, WorkPart, ConnPart, At

LEMMA ClosedFits == ConnInv(Closed)
BY DEF ConnInv, Closed, Conn

LEMMA ConnFacts ==
  ASSUME IInv, NEW t \in Callers
  PROVE  /\ conn[t] \in Conn /\ ConnInv(conn[t])
         /\ conn[t].pc # "proxy" => work[t].pc = "rest"
BY DEF IInv, At

LEMMA AcceptKeeps ==
  ASSUME IInv, NEW t \in Callers, Accept(t)
  PROVE  IInv'
<1>1. PICK dst \in {"fake", "real"} : Set(t, [Closed EXCEPT !.pc = "accepted", !.dst = dst])
  BY DEF Accept
<1> DEFINE c == [Closed EXCEPT !.pc = "accepted", !.dst = dst]
<1>2. Closed \in Conn
  BY DEF Closed, Conn
<1>3. c \in Conn /\ c.pc = "accepted" /\ c.via = Nowhere
  BY <1>2 DEF Closed, Conn
<1> HIDE DEF c
<1>4. ConnInv(c)
  BY <1>3 DEF ConnInv
<1> QED
  BY <1>1, <1>3, <1>4, ConnFacts, SetKeeps DEF c, Accept, At

LEMMA ResolveKeeps ==
  ASSUME IInv, NEW t \in Callers, Resolve(t)
  PROVE  IInv'
<1>1. PICK n \in Names \union {NoName} :
        Set(t, Closed) \/ Set(t, [conn[t] EXCEPT !.pc = "resolved", !.name = n])
  BY DEF Resolve
<1>2. conn[t].via = Nowhere /\ conn[t] \in Conn
  BY ConnFacts DEF ConnInv, Resolve
<1>3. work[t].pc = "rest" /\ UNCHANGED gvars
  BY ConnFacts DEF Resolve
<1> DEFINE c == [conn[t] EXCEPT !.pc = "resolved", !.name = n]
<1>4. c \in Conn /\ c.pc = "resolved" /\ c.via = Nowhere
  BY <1>2 DEF Conn
<1> HIDE DEF c
<1>5. ConnInv(c)
  BY <1>4 DEF ConnInv
<1>6. CASE Set(t, Closed)
  BY <1>3, <1>6, ClosedFits, SetKeeps
<1>7. CASE Set(t, c)
  BY <1>3, <1>5, <1>7, SetKeeps
<1> QED
  BY <1>1, <1>6, <1>7 DEF c

LEMMA MembersAreOutbounds ==
  ASSUME IInv
  PROVE  /\ ToSet(members) \subseteq ToSet(Configured)
         /\ \A i \in Indices : members[i] \in ToSet(members)
<1>1. members \in Seq(ToSet(Configured)) /\ DOMAIN members = Indices
  BY DEF IInv, GroupInv, Indices
<1>2. \A i \in Indices : members[i] \in ToSet(Configured)
  BY <1>1
<1> QED
  BY <1>1, <1>2 DEF ToSet

LEMMA RouteKeeps ==
  ASSUME IInv, NEW t \in Callers, Route(t)
  PROVE  IInv'
<1> DEFINE p == Policy(conn[t].name)
           direct == [conn[t] EXCEPT !.pc = "direct", !.target = conn[t].dst]
           proxy == [conn[t] EXCEPT !.pc = "proxy", !.target = Target(conn[t])]
           server == [conn[t] EXCEPT !.pc = "server", !.target = Target(conn[t]), !.via = p]
<1>1. conn[t].pc = "resolved" /\ conn[t] \in Conn /\ work[t].pc = "rest" /\ conn[t].via = Nowhere
  BY ConnFacts DEF Route, ConnInv
<1>2. CASE Set(t, Closed) /\ UNCHANGED gvars
  BY <1>1, <1>2, ClosedFits, SetKeeps
<1>3. CASE p = "DIRECT" /\ Set(t, direct) /\ UNCHANGED gvars
  <2>1. /\ direct \in Conn /\ direct.pc = "direct" /\ direct.name = conn[t].name
        /\ direct.target = conn[t].dst /\ direct.dst = conn[t].dst /\ direct.via = Nowhere
    BY <1>1 DEF Conn
  <2> HIDE DEF direct
  <2>2. ConnInv(direct)
    BY <1>3, <2>1 DEF ConnInv
  <2> QED
    BY <1>1, <1>3, <2>2, SetKeeps
<1>4. CASE p \notin {"DIRECT", "REJECT"} /\ GroupOf(p) /\ Set(t, proxy) /\ Connect(t)
  <2>1. Target(conn[t]) \in Names \union {"fake", "real", Nowhere}
    BY <1>1 DEF Conn, Target
  <2>2. /\ proxy \in Conn /\ proxy.pc = "proxy" /\ proxy.name = conn[t].name
        /\ proxy.target = Target(conn[t]) /\ proxy.dst = conn[t].dst
    BY <1>1, <2>1 DEF Conn
  <2> HIDE DEF proxy
  <2>3. ConnInv(proxy)
    <3>1. Policy(proxy.name) = p /\ Target(proxy) = Target(conn[t])
      BY <2>2 DEF Target
    <3> HIDE DEF p
    <3> QED
      BY <1>4, <2>2, <3>1 DEF ConnInv
  <2>4. t \in Executors /\ Keep /\ members # <<>>
    BY <1>4 DEF Executors, Connect, GroupOf
  <2>5. CASE Tested /\ due
    <3>1. Goto(t, [pc |-> "test", i |-> 0, results |-> NoResults])
      BY <1>4, <2>5 DEF Connect, StartTest
    <3>2. WorkInv(t, [pc |-> "test", i |-> 0, results |-> NoResults])
      BY <2>4, <2>5, StartTestFits
    <3> QED
      BY <1>4, <2>2, <2>3, <2>4, <3>1, <3>2, SetGotoKeeps
  <2>6. CASE ~(Tested /\ due)
    <3>1. Goto(t, [Rest EXCEPT !.pc = "choose"])
      BY <1>4, <2>6 DEF Connect, Outcome
    <3>2. WorkInv(t, [Rest EXCEPT !.pc = "choose"])
      BY <2>4, OutcomeFits
    <3> QED
      BY <1>4, <2>2, <2>3, <2>4, <3>1, <3>2, SetGotoKeeps
  <2> QED
    BY <2>5, <2>6
<1>5. CASE p \notin {"DIRECT", "REJECT"} /\ ServerOf(p) /\ Set(t, server) /\ UNCHANGED gvars
  <2>1. Target(conn[t]) \in Names \union {"fake", "real", Nowhere}
    BY <1>1 DEF Conn, Target
  <2>2. p \in ToSet(members) /\ p \in ToSet(Configured)
    <3>1. p \in ToSet(members)
      BY <1>5 DEF ServerOf
    <3> QED
      BY <3>1, MembersAreOutbounds
  <2> HIDE DEF p
  <2>3. /\ server \in Conn /\ server.pc = "server" /\ server.name = conn[t].name
        /\ server.target = Target(conn[t]) /\ server.dst = conn[t].dst /\ server.via = p
    BY <1>1, <2>1, <2>2 DEF Conn
  <2> HIDE DEF server
  <2>4. Policy(server.name) = p /\ Target(server) = Target(conn[t])
    BY <2>3 DEF Target, p
  <2>5. ConnInv(server)
    BY <1>5, <2>2, <2>3, <2>4 DEF ConnInv
  <2> QED
    BY <1>1, <1>5, <2>3, <2>5, SetKeeps
<1> QED
  BY <1>2, <1>3, <1>4, <1>5 DEF Route

(* From dialling to relaying nothing that the policy decided changes. *)
LEMMA RelayFits ==
  ASSUME IInv, NEW t \in Callers, conn[t].pc \in {"direct", "server"}
  PROVE  ConnInv([conn[t] EXCEPT !.pc = "relay"])
<1> DEFINE c == [conn[t] EXCEPT !.pc = "relay"]
<1>1. conn[t] \in Conn /\ ConnInv(conn[t])
  BY ConnFacts
<1>2. /\ c \in Conn /\ c.pc = "relay" /\ c.name = conn[t].name /\ c.dst = conn[t].dst
      /\ c.target = conn[t].target /\ c.via = conn[t].via
  BY <1>1 DEF Conn
<1> HIDE DEF c
<1>3. Policy(c.name) = Policy(conn[t].name) /\ Target(c) = Target(conn[t])
  BY <1>2 DEF Target
<1>4. ConnInv(c)
  BY <1>1, <1>2, <1>3 DEF ConnInv
<1> QED
  BY <1>4 DEF c

(* The group adds which of its members took the connection. *)
LEMMA GroupRelayFits ==
  ASSUME IInv, NEW t \in Callers, conn[t].pc = "proxy", NEW m \in ToSet(members)
  PROVE  ConnInv([conn[t] EXCEPT !.pc = "relay", !.via = m])
<1> DEFINE c == [conn[t] EXCEPT !.pc = "relay", !.via = m]
<1>1. conn[t] \in Conn /\ ConnInv(conn[t]) /\ m \in ToSet(Configured)
  BY ConnFacts, MembersAreOutbounds
<1>2. /\ c \in Conn /\ c.pc = "relay" /\ c.name = conn[t].name /\ c.dst = conn[t].dst
      /\ c.target = conn[t].target /\ c.via = m
  BY <1>1 DEF Conn
<1> HIDE DEF c
<1>3. Policy(c.name) = Policy(conn[t].name) /\ Target(c) = Target(conn[t])
  BY <1>2 DEF Target
<1>4. ConnInv(c)
  BY <1>1, <1>2, <1>3 DEF ConnInv, GroupOf
<1> QED
  BY <1>4 DEF c

LEMMA DirectConnectsKeeps ==
  ASSUME IInv, NEW t \in Callers, DirectConnects(t)
  PROVE  IInv'
BY RelayFits, ConnFacts, SetKeeps DEF DirectConnects

LEMMA DirectFailsKeeps ==
  ASSUME IInv, NEW t \in Callers, DirectFails(t)
  PROVE  IInv'
BY ClosedFits, ConnFacts, SetKeeps DEF DirectFails

LEMMA ReleaseFacts ==
  ASSUME IInv, NEW t \in Callers, Release(t)
  PROVE  Goto(t, Rest) /\ WorkInv(t, Rest) /\ Rest.pc = "rest" /\ Keep
<1>1. t \in Executors /\ Rest = [Rest EXCEPT !.pc = "rest"] /\ Rest.pc = "rest"
  BY DEF Executors, Rest
<1>2. WorkInv(t, Rest)
  BY <1>1, OutcomeFits
<1> QED
  BY <1>1, <1>2 DEF Release

LEMMA ProxyConnectsKeeps ==
  ASSUME IInv, NEW t \in Callers, ProxyConnects(t)
  PROVE  IInv'
<1> DEFINE m == members[work[t].i]
           c == [conn[t] EXCEPT !.pc = "relay", !.via = m]
<1>1. Set(t, c) /\ Release(t) /\ conn[t].pc = "proxy" /\ work[t].pc = "connected"
  BY DEF ProxyConnects, At
<1>2. work[t].i \in Indices
  <2>1. t \in Executors
    BY DEF Executors
  <2>2. work[t].i # 0 /\ work[t].i \in 0..Len(members)
    BY <1>1, <2>1, IInvFacts DEF WorkInv, Work
  <2>3. Len(members) \in Nat /\ Indices = 1..Len(members)
    BY <2>1, IInvFacts, GroupFacts
  <2> QED
    BY <2>2, <2>3
<1>3. m \in ToSet(members)
  BY <1>2, MembersAreOutbounds
<1> HIDE DEF m
<1>4. ConnInv(c)
  BY <1>1, <1>3, GroupRelayFits
<1>5. /\ Goto(t, Rest) /\ WorkInv(t, Rest) /\ Rest.pc = "rest" /\ Keep
  BY <1>1, ReleaseFacts
<1> QED
  BY <1>1, <1>4, <1>5, SetGotoKeeps

LEMMA ProxyFailsKeeps ==
  ASSUME IInv, NEW t \in Callers, ProxyFails(t)
  PROVE  IInv'
BY ClosedFits, ReleaseFacts, SetGotoKeeps DEF ProxyFails

LEMMA ServerConnectsKeeps ==
  ASSUME IInv, NEW t \in Callers, ServerConnects(t)
  PROVE  IInv'
BY RelayFits, ConnFacts, SetKeeps DEF ServerConnects

LEMMA ServerFailsKeeps ==
  ASSUME IInv, NEW t \in Callers, ServerFails(t)
  PROVE  IInv'
BY ClosedFits, ConnFacts, SetKeeps DEF ServerFails

LEMMA ProxyTimeoutKeeps ==
  ASSUME IInv, NEW t \in Callers, ProxyTimeout(t)
  PROVE  IInv'
<1>1. CASE conn[t].pc = "proxy" /\ Cancel(t) /\ UNCHANGED <<conn, groupName>>
  BY <1>1, CancelKeeps
<1>2. CASE conn[t].pc = "server" /\ Set(t, Closed) /\ UNCHANGED gvars
  BY <1>2, ClosedFits, ConnFacts, SetKeeps
<1> QED
  BY <1>1, <1>2 DEF ProxyTimeout

LEMMA RelayEndsKeeps ==
  ASSUME IInv, NEW t \in Callers, RelayEnds(t)
  PROVE  IInv'
BY ClosedFits, ConnFacts, SetKeeps DEF RelayEnds

-----------------------------------------------------------------------------
(***************************************************************************)
(* The environment, the invariant, and what follows from it.               *)
(***************************************************************************)
LEMMA LinkChangesKeeps ==
  ASSUME IInv, NEW m \in ToSet(Configured), NEW s \in {"up", "refuses", "hangs"},
         LinkChanges(m, s), UNCHANGED <<conn, groupName>>
  PROVE  IInv'
<1>1. /\ m \notin steady /\ link' = [link EXCEPT ![m] = s]
      /\ UNCHANGED <<kind, members, steady, available, latencies, best, selected, due, work>>
  BY DEF LinkChanges
<1>2. GroupInv' /\ SteadyInv'
  BY <1>1 DEF IInv, GroupInv, SteadyInv, Indices, Steady
<1>3. ConnPart'
  BY <1>1, ConnUnchanged
<1>4. work' \in [Executors -> Work'] /\ \A e \in Executors : WorkInv(e, work[e])'
  BY <1>1 DEF IInv, WorkInv, Work, Steady, Indices, Tested
<1> QED
  BY <1>1, <1>2, <1>3, <1>4 DEF IInv, ConnPart, At

LEMMA SelectProxyKeeps ==
  ASSUME IInv, NEW i, SelectProxy(i), UNCHANGED <<conn, groupName>>
  PROVE  IInv'
<1>1. /\ i \in Indices /\ selected' = i
      /\ UNCHANGED <<kind, members, steady, link, available, latencies, best, due, work>>
  BY DEF SelectProxy
<1>2. GroupInv' /\ SteadyInv'
  BY <1>1 DEF IInv, GroupInv, SteadyInv, Indices, Steady
<1>3. ConnPart'
  BY <1>1, ConnUnchanged
<1>4. work' \in [Executors -> Work'] /\ \A e \in Executors : WorkInv(e, work[e])'
  BY <1>1 DEF IInv, WorkInv, Work, Steady, Indices, Tested
<1> QED
  BY <1>1, <1>2, <1>3, <1>4 DEF IInv, ConnPart, At

(* The members are members of the configuration. *)
LEMMA MembersAreConfigured ==
  ASSUME NEW usable, NEW s \in Members(usable)
  PROVE  s \in Seq(ToSet(Configured))
<1> DEFINE places == {k \in DOMAIN Configured : Configured[k] \in usable}
<1>1. DOMAIN Configured = 1..Len(Configured) /\ Len(Configured) \in Nat
  BY GroupAssumption
<1>2. IsFiniteSet(places)
  <2>1. IsFiniteSet(1..Len(Configured))
    BY <1>1, FS_Interval
  <2>2. places \subseteq 1..Len(Configured)
    BY <1>1
  <2> HIDE DEF places
  <2> QED
    BY <2>1, <2>2, FS_Subset
<1>3. PICK f \in SetToSeqs(places) : s = [i \in DOMAIN f |-> Configured[f[i]]]
  BY DEF Members
<1> HIDE DEF places
<1>4. f \in Seq(places)
  BY <1>2, SetToSeqsKeys
<1>5. \A k \in places : Configured[k] \in ToSet(Configured)
  BY DEF places, ToSet
<1>6. /\ DOMAIN f = 1..Len(f) /\ Len(f) \in Nat
      /\ \A i \in 1..Len(f) : Configured[f[i]] \in ToSet(Configured)
  BY <1>4, <1>5
<1> QED
  BY <1>3, <1>6

LEMMA InitIInv == Init => IInv
<1> SUFFICES ASSUME Init PROVE IInv
  OBVIOUS
<1>1. PICK usable \in SUBSET ToSet(Configured) : members \in Members(usable)
  BY DEF Init, GroupInit
<1>2. members \in Seq(ToSet(Configured))
  BY <1>1, MembersAreConfigured
<1>3. Len(members) \in Nat /\ (members # <<>> => Len(members) > 0)
  BY <1>2
<1>4. GroupInv
  BY <1>2, <1>3, ConstantFacts DEF Init, GroupInit, GroupInv, Indices
<1>5. SteadyInv
  BY DEF Init, GroupInit, SteadyInv, Steady
<1>6. Rest \in Work /\ \A e \in Executors : WorkInv(e, Rest)
  <2>1. Rest \in Work /\ Rest.pc = "rest"
    BY <1>3 DEF Rest, Work
  <2> QED
    BY <2>1 DEF WorkInv
<1>7. Closed \in Conn /\ Closed.pc = "closed"
  BY DEF Closed, Conn
<1>8. \A t \in Callers : ConnInv(conn[t]) /\ conn[t] = Closed
  BY ClosedFits DEF Init
<1>9. \A t \in Callers : At(t, "rest")
  BY DEF Init, GroupInit, At, Executors, Rest
<1> QED
  BY <1>4, <1>5, <1>6, <1>7, <1>8, <1>9 DEF IInv, Init, GroupInit

LEMMA NextIInv == IInv /\ [Next]_vars => IInv'
<1> SUFFICES ASSUME IInv, [Next]_vars PROVE IInv'
  OBVIOUS
<1>1. ASSUME NEW e \in Executors, GroupStep(e) PROVE IInv'
  <2>1. UNCHANGED <<conn, groupName>>
    BY <1>1 DEF GroupStep
  <2>2. CASE TestStep(e)
    BY <2>1, <2>2, MeasureKeeps, WriteResultsKeeps, WriteBestKeeps, WriteStampKeeps DEF TestStep
  <2>3. CASE e # Background /\ ConnectStep(e)
    <3>1. e \in Callers
      BY <2>3 DEF Executors
    <3> QED
      BY <2>1, <2>3, <3>1, ChooseOneKeeps, ChooseNextKeeps, AcceptedKeeps, RefusedKeeps,
         MarkKeeps DEF ConnectStep
  <2> QED
    BY <1>1, <2>2, <2>3 DEF GroupStep
<1>2. ASSUME NEW t \in Callers, Accept(t) \/ DirectConnects(t) \/ ProxyTimeout(t) \/ RelayEnds(t)
      PROVE  IInv'
  BY <1>2, AcceptKeeps, DirectConnectsKeeps, ProxyTimeoutKeeps, RelayEndsKeeps
<1>3. ASSUME NEW t \in Callers, HandlerStep(t) PROVE IInv'
  BY <1>3, ResolveKeeps, RouteKeeps, ProxyConnectsKeeps, ProxyFailsKeeps, ServerConnectsKeeps,
     ServerFailsKeeps, DirectFailsKeeps DEF HandlerStep
<1>4. CASE Environment
  <2>1. UNCHANGED <<conn, groupName>>
    BY <1>4 DEF Environment
  <2> QED
    BY <1>4, <2>1, LinkChangesKeeps, SelectProxyKeeps, ElapseKeeps, WakeKeeps DEF Environment
<1>5. CASE UNCHANGED vars
  BY <1>5 DEF vars, gvars, IInv, GroupInv, SteadyInv, WorkInv, Work, ConnInv, Indices, Steady,
              Tested, GroupOf, Policy, Target, At
<1> QED
  BY <1>1, <1>2, <1>3, <1>4, <1>5 DEF Next

(* What tests, marks and connections know of each other at every step.     *)
THEOREM Invariance == Spec => []IInv
<1> QED
  BY InitIInv, NextIInv, PTL DEF Spec

(* Every index that a connection uses points into the list of members,     *)
(* whatever a test measured: best_index, selected and the loop of fallback.*)
THEOREM TypeCorrect == Spec => []TypeOK
<1>1. IInv => TypeOK
  <2> SUFFICES ASSUME IInv PROVE TypeOK
    OBVIOUS
  <2>1. \A e \in Executors : work[e].pc = "dial" => work[e].i \in Indices
    <3> SUFFICES ASSUME NEW e \in Executors, work[e].pc = "dial" PROVE work[e].i \in Indices
      OBVIOUS
    <3>1. e \in Callers
      BY IInvFacts DEF WorkInv, Executors
    <3> QED
      BY <3>1, DialFacts
  <2>2. \A t \in Callers :
          /\ conn[t].pc \in {"closed", "accepted", "resolved", "direct", "proxy", "server", "relay"}
          /\ conn[t].pc # "proxy" => At(t, "rest")
    BY DEF IInv, Conn
  <2> QED
    BY <2>1, <2>2 DEF IInv, GroupInv, TypeOK
<1> QED
  BY <1>1, Invariance, PTL

(* A fallback group with one member that is always up never fails a        *)
(* connection, with any number of connections and tests under way          *)
(* (fallback.rs: connect, check_all, mark_unavailable).                    *)
THEOREM OneSteadyMemberAlwaysSuffices == Spec => []OneSteadyMemberSuffices
<1>1. IInv => OneSteadyMemberSuffices
  <2> SUFFICES ASSUME IInv, kind = "fallback", NEW m \in steady, m \in ToSet(members),
                      NEW t \in Callers
               PROVE  work[t].pc # "failed"
    BY DEF OneSteadyMemberSuffices, At
  <2>1. t \in Executors
    BY DEF Executors
  <2>2. PICK j \in DOMAIN members : members[j] = m
    BY DEF ToSet
  <2>3. DOMAIN members = Indices
    BY DEF IInv, GroupInv, Indices
  <2>4. j \in Steady
    BY <2>2, <2>3 DEF Steady
  <2> QED
    BY <2>1, <2>4, IInvFacts DEF WorkInv
<1> QED
  BY <1>1, Invariance, PTL

(* What is relayed was dialled as its policy says (handler.rs: handle,     *)
(* handle_direct, handle_proxy; manager.rs: get), for any rules, any       *)
(* servers and any name of the group: directly, through a member of the    *)
(* group that is named, or through the server that is named.               *)
THEOREM RelaysFollowPolicy == Spec => []RelayFollowsPolicy
<1>1. IInv => RelayFollowsPolicy
  BY DEF IInv, ConnInv, RelayFollowsPolicy, Target
<1> QED
  BY <1>1, Invariance, PTL
=============================================================================
