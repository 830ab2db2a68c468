------------------------- MODULE LeaderElectionProofs -------------------------
(***************************************************************************)
(* Theorems about LeaderElection, for any set of nodes, any loads and any  *)
(* bounds on the messages in flight.                                       *)
(***************************************************************************)
EXTENDS LeaderElection, NumberProofs, FiniteSetTheorems, SequenceTheorems,
        TLAPS

Bag(b) == b \in [DOMAIN b -> Nat \ {0}]

(* What one more copy of some messages, or one less of one, makes of a bag. *)
LEMMA AddIsBag ==
  ASSUME NEW b, NEW M, Bag(b)
  PROVE  Bag(Add(b, M)) /\ DOMAIN Add(b, M) = DOMAIN b \cup M
  BY DEF Bag, Add

LEMMA RemoveIsBag ==
  ASSUME NEW b, NEW m, Bag(b)
  PROVE  Bag(Remove(b, m)) /\ DOMAIN Remove(b, m) \subseteq DOMAIN b
  BY DEF Bag, Remove

(* A broadcast adds some of its messages to those in flight.                *)
LEMMA BroadcastIsBag ==
  ASSUME NEW b, NEW M, Bag(b), Broadcast(b, M)
  PROVE  Bag(net') /\ DOMAIN net' \subseteq DOMAIN b \cup M
  <1>1. PICK sent \in SUBSET M : net' = Add(b, sent)
    BY DEF Broadcast
  <1>2. QED
    BY <1>1, AddIsBag

(* update_candidate yields a list of candidates whose ids are the old ones  *)
(* and possibly the updated one...                                          *)
LEMMA UpdateCandidateType ==
  ASSUME NEW c \in Seq(Candidate), NEW id \in Node, NEW m \in Metrics
  PROVE  /\ UpdateCandidate(c, id, m) \in Seq(Candidate)
         /\ CandidateIds(UpdateCandidate(c, id, m))
              \subseteq CandidateIds(c) \cup {id}
  <1> DEFINE new == [id |-> id, metrics |-> m]
  <1>1. new \in Candidate /\ new.id = id
    BY DEF Candidate
  <1>2. CASE id \in CandidateIds(c)
    <2> DEFINE first == CHOOSE i \in DOMAIN c :
                      c[i].id = id /\ \A j \in 1 .. i - 1 : c[j].id # id
    <2> DEFINE d == [c EXCEPT ![first] = new]
    <2>1. UpdateCandidate(c, id, m) = d
      BY <1>2 DEF UpdateCandidate
    <2> HIDE DEF first
    <2>2. d \in Seq(Candidate) /\ DOMAIN d = DOMAIN c
      <3>1. DOMAIN d = 1 .. Len(c) /\ Len(c) \in Nat
        OBVIOUS
      <3>2. \A i \in 1 .. Len(c) : d[i] \in Candidate
        BY <1>1
      <3>3. d \in [1 .. Len(c) -> Candidate]
        BY <3>1, <3>2
      <3> QED
        BY <3>1, <3>3, SeqDef
    <2>3. \A i \in DOMAIN d : d[i] = new \/ d[i] = c[i]
      BY <1>1
    <2>4. CandidateIds(d) \subseteq CandidateIds(c) \cup {id}
      BY <2>2, <2>3, <1>1 DEF CandidateIds
    <2> QED
      BY <2>1, <2>2, <2>4
  <1>3. CASE id \notin CandidateIds(c)
    <2>1. UpdateCandidate(c, id, m) = Append(c, new)
      BY <1>3 DEF UpdateCandidate
    <2>2. Append(c, new) \in Seq(Candidate)
      BY <1>1
    <2>3. \A i \in DOMAIN Append(c, new) :
             Append(c, new)[i] = new \/ (i \in DOMAIN c /\ Append(c, new)[i] = c[i])
      BY <1>1
    <2>4. CandidateIds(Append(c, new)) \subseteq CandidateIds(c) \cup {id}
      BY <2>3, <1>1 DEF CandidateIds
    <2> QED
      BY <2>1, <2>2, <2>4
  <1> QED
    BY <1>2, <1>3

(* elect_leader names one of the candidates it is given.                    *)
LEMMA ElectableType ==
  ASSUME NEW c PROVE Electable(c) \subseteq CandidateIds(c)
  BY DEF Electable, CandidateIds, MaxBy

LEMMA CandidateIdsType ==
  ASSUME NEW c \in Seq(Candidate) PROVE CandidateIds(c) \subseteq Node
  <1>1. \A i \in DOMAIN c : c[i] \in Candidate
    <2>1. DOMAIN c = 1 .. Len(c)
      OBVIOUS
    <2> QED
      BY <2>1, ElementOfSeq
  <1>2. \A x \in Candidate : x.id \in Node
    BY DEF Candidate
  <1> QED
    BY <1>1, <1>2 DEF CandidateIds
(* Every broadcast consists of messages of the protocol.                    *)
LEMMA BroadcastType ==
  ASSUME NEW n \in Node, NEW m \in Metrics, NEW w \in Node,
         NEW c \in Seq(Candidate)
  PROVE  /\ HeartbeatsOf(n, m, c) \subseteq NodeMessage
         /\ VotesOf(n, m) \subseteq NodeMessage
         /\ ResultsOf(n, w) \subseteq NodeMessage
  BY DEF HeartbeatsOf, VotesOf, ResultsOf, NodeMessage, Heartbeat,
         NegativeVote, ElectionResult, Peers

(* What is known of a message by its type.                                  *)
LEMMA MessageType ==
  ASSUME NEW msg \in NodeMessage
  PROVE  /\ msg.from \in Node /\ msg.to \in Node
         /\ msg.type = "Heartbeat" => msg.candidates \in Seq(Candidate)
         /\ msg.type = "NegativeVote" => msg.metrics \in Metrics
         /\ msg.type = "ElectionResult" => msg.new_leader_id \in Node
         /\ msg.type \in {"Heartbeat", "NegativeVote", "ElectionResult"}
  BY DEF NodeMessage, Heartbeat, NegativeVote, ElectionResult

(* The steps of the system, one at a time.  Each case of a proof about Next *)
(* is one of these.                                                         *)
LEMMA NextCases ==
  ASSUME TypeOK, [Next]_vars
  PROVE  \/ \E n \in Node : \/ LeaderHeartbeat(n) \/ LeaderHearsNothing(n)
                            \/ FollowerTimeout(n) \/ HandleElection(n)
                            \/ Crash(n) \/ Restart(n)
         \/ \E n \in Node, msg \in InFlight :
               \/ LeaderCountsVote(n, msg) \/ LeaderIgnores(n, msg)
               \/ FollowerHeartbeat(n, msg) \/ FollowerResult(n, msg)
               \/ FollowerIgnores(n, msg)
         \/ \E msg \in InFlight : Lose(msg)
         \/ UNCHANGED vars
  <1>1. \A msg \in InFlight : msg.to \in Node
    BY MessageType DEF TypeOK, InFlight
  <1>2. CASE Next
    BY <1>1, <1>2 DEF Next
  <1> QED
    BY <1>2

LEMMA ReportsAreMetrics ==
  ASSUME NEW n \in Node PROVE Reports[n] \subseteq Metrics
  BY DEF Metrics

(* The specification keeps its types: in particular no bag of messages ever *)
(* counts a message zero times, and a list of candidates stays a list.      *)
LEMMA TypeStep == TypeOK /\ [Next]_vars => TypeOK'
  <1> SUFFICES ASSUME TypeOK, [Next]_vars PROVE TypeOK'
    OBVIOUS
  <1> USE DEF TypeOK, State, InFlight
  <1>0. Bag(net)
    BY DEF Bag
  <1>1. ASSUME NEW n \in Node, LeaderHeartbeat(n) PROVE TypeOK'
    <2>1. PICK m \in Reports[n] :
             /\ metrics' = [metrics EXCEPT ![n] = m]
             /\ Broadcast(net, HeartbeatsOf(n, m, candidates[n]))
      BY <1>1 DEF LeaderHeartbeat
    <2>2. m \in Metrics
      BY ReportsAreMetrics
    <2>3. HeartbeatsOf(n, m, candidates[n]) \subseteq NodeMessage
      BY <2>2, BroadcastType
    <2>4. Bag(net') /\ DOMAIN net' \subseteq NodeMessage
      BY <1>0, <2>1, <2>3, BroadcastIsBag
    <2> QED
      BY <1>1, <2>1, <2>2, <2>4 DEF LeaderHeartbeat, history, Bag
  <1>2. ASSUME NEW n \in Node, LeaderHearsNothing(n) PROVE TypeOK'
    BY <1>2 DEF LeaderHearsNothing, history
  <1>3. ASSUME NEW n \in Node, FollowerTimeout(n) PROVE TypeOK'
    BY <1>3 DEF FollowerTimeout, history
  <1>4. ASSUME NEW n \in Node, HandleElection(n) PROVE TypeOK'
    <2>0. PICK m \in Reports[n] :
            \E w \in Electable(UpdateCandidate(candidates[n], n, m)) :
             /\ Broadcast(net, ResultsOf(n, w))
             /\ elected' = elected \cup {w}
             /\ named' = named \cup ({w} \ {n})
             /\ state' = [state EXCEPT ![n] =
                            IF w = n THEN "Leader" ELSE "Follower"]
             /\ leaderView' = [leaderView EXCEPT ![n] = ViewOnElection(n, w)]
      BY <1>4 DEF HandleElection
    <2>1. PICK w \in Electable(UpdateCandidate(candidates[n], n, m)) :
             /\ Broadcast(net, ResultsOf(n, w))
             /\ elected' = elected \cup {w}
             /\ named' = named \cup ({w} \ {n})
             /\ state' = [state EXCEPT ![n] =
                            IF w = n THEN "Leader" ELSE "Follower"]
             /\ leaderView' = [leaderView EXCEPT ![n] = ViewOnElection(n, w)]
      BY <2>0
    <2>2. m \in Metrics
      BY ReportsAreMetrics
    <2>3. w \in Node
      BY <2>2, UpdateCandidateType, ElectableType, CandidateIdsType
    <2>4. ResultsOf(n, w) \subseteq NodeMessage
      BY <2>2, <2>3, BroadcastType
    <2>5. Bag(net') /\ DOMAIN net' \subseteq NodeMessage
      BY <1>0, <2>1, <2>4, BroadcastIsBag
    <2>6. /\ candidates' = [candidates EXCEPT ![n] = <<>>]
          /\ votes' = [votes EXCEPT ![n] = {}]
          /\ UNCHANGED <<running, metrics, listening, crashes, voted>>
      BY <1>4 DEF HandleElection, EndTerm
    <2>7. leaderView' \in [Node -> Node \cup {InitialLeaderId}]
      BY <2>1, <2>3 DEF ViewOnElection
    <2>8. candidates' \in [Node -> Seq(Candidate)]
      BY <2>6
    <2> QED
      BY <2>1, <2>3, <2>5, <2>6, <2>7, <2>8 DEF Bag
  <1>5. ASSUME NEW n \in Node, Crash(n) PROVE TypeOK'
    <2>1. Bag(net') /\ DOMAIN net' \subseteq NodeMessage
      BY <1>0, <1>5 DEF Crash
    <2>2. crashes' \in 0 .. MaxCrashes
      BY <1>5, ElectionAssumption DEF Crash
    <2>3. candidates' \in [Node -> Seq(Candidate)]
      BY <1>5 DEF Crash
    <2> QED
      BY <1>5, <2>1, <2>2, <2>3 DEF Crash, ViewAfterCrash, history, Bag
  <1>6. ASSUME NEW n \in Node, Restart(n) PROVE TypeOK'
    BY <1>6, ReportsAreMetrics DEF Restart, history
  <1>7. ASSUME NEW n \in Node, NEW msg \in InFlight, LeaderCountsVote(n, msg)
        PROVE TypeOK'
    <2>1. Bag(net') /\ DOMAIN net' \subseteq NodeMessage
      BY <1>0, <1>7, RemoveIsBag DEF LeaderCountsVote
    <2>2. msg.from \in Node /\ msg.metrics \in Metrics
      BY <1>7, MessageType DEF LeaderCountsVote
    <2>3. UpdateCandidate(candidates[n], msg.from, msg.metrics) \in Seq(Candidate)
      BY <2>2, UpdateCandidateType
    <2> QED
      BY <1>7, <2>1, <2>2, <2>3 DEF LeaderCountsVote, history, Bag
  <1>8. ASSUME NEW n \in Node, NEW msg \in InFlight, LeaderIgnores(n, msg)
        PROVE TypeOK'
    <2>1. Bag(net') /\ DOMAIN net' \subseteq NodeMessage
      BY <1>0, <1>8, RemoveIsBag DEF LeaderIgnores
    <2> QED
      BY <1>8, <2>1 DEF LeaderIgnores, history, Bag
  <1>9. ASSUME NEW n \in Node, NEW msg \in InFlight, FollowerHeartbeat(n, msg)
        PROVE TypeOK'
    <2>1. msg.from \in Node /\ msg.candidates \in Seq(Candidate)
      BY <1>9, MessageType DEF FollowerHeartbeat
    <2>2. Bag(Remove(net, msg)) /\ DOMAIN Remove(net, msg) \subseteq NodeMessage
      BY <1>0, RemoveIsBag
    <2>3. /\ Bag(net') /\ DOMAIN net' \subseteq NodeMessage
          /\ voted' \subseteq Node
      <3>1. CASE ShouldCastNegativeVote(metrics[n], msg.metrics)
        <4>1. PICK m \in Reports[n] : Broadcast(Remove(net, msg), VotesOf(n, m))
          BY <1>9, <3>1 DEF FollowerHeartbeat
        <4>2. m \in Metrics
          BY ReportsAreMetrics
        <4>3. VotesOf(n, m) \subseteq NodeMessage
          BY <2>1, <4>2, BroadcastType
        <4>4. voted' = voted \cup {n}
          BY <1>9, <3>1 DEF FollowerHeartbeat
        <4> QED
          BY <2>2, <4>1, <4>3, <4>4, BroadcastIsBag
      <3>2. CASE ~ ShouldCastNegativeVote(metrics[n], msg.metrics)
        BY <1>9, <2>2, <3>2 DEF FollowerHeartbeat
      <3> QED
        BY <3>1, <3>2
    <2> QED
      BY <1>9, <2>1, <2>3 DEF FollowerHeartbeat, Bag
  <1>10. ASSUME NEW n \in Node, NEW msg \in InFlight, FollowerResult(n, msg)
         PROVE TypeOK'
    <2>1. Bag(net') /\ DOMAIN net' \subseteq NodeMessage
      BY <1>0, <1>10, RemoveIsBag DEF FollowerResult
    <2>2. msg.new_leader_id \in Node
      BY <1>10, MessageType DEF FollowerResult
    <2>3. StateOnResult(n, msg.new_leader_id) \in State
      BY DEF StateOnResult
    <2> QED
      BY <1>10, <2>1, <2>2, <2>3 DEF FollowerResult, history, Bag
  <1>11. ASSUME NEW n \in Node, NEW msg \in InFlight, FollowerIgnores(n, msg)
         PROVE TypeOK'
    <2>1. Bag(net') /\ DOMAIN net' \subseteq NodeMessage
      BY <1>0, <1>11, RemoveIsBag DEF FollowerIgnores
    <2> QED
      BY <1>11, <2>1 DEF FollowerIgnores, node, history, Bag
  <1>12. ASSUME NEW msg \in InFlight, Lose(msg) PROVE TypeOK'
    <2>1. Bag(net') /\ DOMAIN net' \subseteq NodeMessage
      BY <1>0, <1>12, RemoveIsBag DEF Lose
    <2> QED
      BY <1>12, <2>1 DEF Lose, node, history, Bag
  <1>13. CASE UNCHANGED vars
    BY <1>13 DEF vars, node, history
  <1> QED
    BY <1>1, <1>2, <1>3, <1>4, <1>5, <1>6, <1>7, <1>8, <1>9, <1>10, <1>11,
       <1>12, <1>13, NextCases

LEMMA TypeInit == Init => TypeOK
  <1> SUFFICES ASSUME Init PROVE TypeOK
    OBVIOUS
  <1>1. net \in [DOMAIN net -> Nat \ {0}] /\ DOMAIN net = {}
    BY DEF Init
  <1>2. candidates \in [Node -> Seq(Candidate)]
    BY DEF Init
  <1> QED
    BY <1>1, <1>2, ElectionAssumption DEF Init, TypeOK, State

(* Types, for every set of nodes and every load.                            *)
THEOREM TypeCorrect == Spec => []TypeOK
  BY TypeInit, TypeStep, PTL DEF Spec
-------------------------------------------------------------------------------
(* What each action that sends does to the messages in flight.              *)

LEMMA HeartbeatEffect ==
  ASSUME TypeOK, NEW n \in Node, LeaderHeartbeat(n)
  PROVE  \A x \in InFlight' :
           \/ x \in InFlight
           \/ /\ x.type = "Heartbeat" /\ x.from = n /\ x.to # n
              /\ x.candidates = candidates[n]
  <1>1. PICK m \in Reports[n] : Broadcast(net, HeartbeatsOf(n, m, candidates[n]))
    BY DEF LeaderHeartbeat
  <1>2. InFlight' \subseteq InFlight \cup HeartbeatsOf(n, m, candidates[n])
    BY <1>1, BroadcastIsBag DEF InFlight, TypeOK, Bag
  <1> QED
    BY <1>2 DEF HeartbeatsOf, Peers

LEMMA VoteEffect ==
  ASSUME TypeOK, NEW n \in Node, NEW msg \in InFlight, FollowerHeartbeat(n, msg)
  PROVE  /\ \A x \in InFlight' :
              \/ x \in InFlight
              \/ /\ x.type = "NegativeVote" /\ x.from = n /\ x.to # n
                 /\ n \in voted'
         /\ voted \subseteq voted'
  <1>0. Bag(net)
    BY DEF TypeOK, Bag
  <1>1. Bag(Remove(net, msg)) /\ DOMAIN Remove(net, msg) \subseteq InFlight
    BY <1>0, RemoveIsBag DEF InFlight
  <1>2. CASE ShouldCastNegativeVote(metrics[n], msg.metrics)
    <2>1. PICK m \in Reports[n] : Broadcast(Remove(net, msg), VotesOf(n, m))
      BY <1>2 DEF FollowerHeartbeat
    <2>2. InFlight' \subseteq InFlight \cup VotesOf(n, m)
      BY <1>1, <2>1, BroadcastIsBag DEF InFlight
    <2>3. voted' = voted \cup {n}
      BY <1>2 DEF FollowerHeartbeat
    <2> QED
      BY <2>2, <2>3 DEF VotesOf, Peers
  <1>3. CASE ~ ShouldCastNegativeVote(metrics[n], msg.metrics)
    BY <1>1, <1>3 DEF FollowerHeartbeat, InFlight
  <1> QED
    BY <1>2, <1>3

LEMMA ElectionEffect ==
  ASSUME TypeOK, NEW n \in Node, HandleElection(n)
  PROVE  \E w \in CandidateIds(candidates[n]) \cup {n} :
           /\ w \in Node
           /\ elected' = elected \cup {w}
           /\ named' = named \cup ({w} \ {n})
           /\ state' = [state EXCEPT ![n] =
                          IF w = n THEN "Leader" ELSE "Follower"]
           /\ leaderView' = [leaderView EXCEPT ![n] =
                               IF w = n THEN w ELSE leaderView[n]]
           /\ \A x \in InFlight' :
                \/ x \in InFlight
                \/ /\ x.type = "ElectionResult" /\ x.from = n /\ x.to # n
                   /\ x.new_leader_id = w
  <1>1. PICK m \in Reports[n] :
          \E w \in Electable(UpdateCandidate(candidates[n], n, m)) :
             /\ Broadcast(net, ResultsOf(n, w))
             /\ elected' = elected \cup {w}
             /\ named' = named \cup ({w} \ {n})
             /\ state' = [state EXCEPT ![n] =
                            IF w = n THEN "Leader" ELSE "Follower"]
             /\ leaderView' = [leaderView EXCEPT ![n] = ViewOnElection(n, w)]
    BY DEF HandleElection
  <1>2. PICK w \in Electable(UpdateCandidate(candidates[n], n, m)) :
             /\ Broadcast(net, ResultsOf(n, w))
             /\ elected' = elected \cup {w}
             /\ named' = named \cup ({w} \ {n})
             /\ state' = [state EXCEPT ![n] =
                            IF w = n THEN "Leader" ELSE "Follower"]
             /\ leaderView' = [leaderView EXCEPT ![n] = ViewOnElection(n, w)]
    BY <1>1
  <1>3. /\ m \in Metrics
        /\ candidates[n] \in Seq(Candidate)
    BY ReportsAreMetrics DEF TypeOK
  <1>4. w \in CandidateIds(candidates[n]) \cup {n}
    BY <1>3, UpdateCandidateType, ElectableType
  <1>5. w \in Node
    BY <1>3, <1>4, CandidateIdsType
  <1>6. InFlight' \subseteq InFlight \cup ResultsOf(n, w)
    BY <1>2, BroadcastIsBag DEF InFlight, TypeOK, Bag
  <1>7. \A x \in ResultsOf(n, w) :
          /\ x.type = "ElectionResult" /\ x.from = n /\ x.to # n
          /\ x.new_leader_id = w
    BY DEF ResultsOf, Peers
  <1> QED
    BY <1>2, <1>4, <1>5, <1>6, <1>7 DEF ViewOnElection

(* The other actions send nothing.                                          *)
LEMMA SilentEffect ==
  ASSUME TypeOK,
         \/ \E n \in Node : \/ LeaderHearsNothing(n) \/ FollowerTimeout(n)
                            \/ Crash(n) \/ Restart(n)
         \/ \E n \in Node, msg \in InFlight :
               \/ LeaderCountsVote(n, msg) \/ LeaderIgnores(n, msg)
               \/ FollowerResult(n, msg) \/ FollowerIgnores(n, msg)
         \/ \E msg \in InFlight : Lose(msg)
         \/ UNCHANGED vars
  PROVE  InFlight' \subseteq InFlight
  <1> USE RemoveIsBag DEF InFlight, TypeOK, Bag
  <1>1. ASSUME NEW n \in Node,
               \/ LeaderHearsNothing(n) \/ FollowerTimeout(n)
               \/ Crash(n) \/ Restart(n)
        PROVE InFlight' \subseteq InFlight
    BY <1>1 DEF LeaderHearsNothing, FollowerTimeout, Crash, Restart
  <1>2. ASSUME NEW n \in Node, NEW msg \in InFlight,
               \/ LeaderCountsVote(n, msg) \/ LeaderIgnores(n, msg)
               \/ FollowerResult(n, msg) \/ FollowerIgnores(n, msg)
        PROVE InFlight' \subseteq InFlight
    BY <1>2 DEF LeaderCountsVote, LeaderIgnores, FollowerResult, FollowerIgnores
  <1>3. ASSUME NEW msg \in InFlight, Lose(msg)
        PROVE InFlight' \subseteq InFlight
    BY <1>3 DEF Lose
  <1> QED
    BY <1>1, <1>2, <1>3 DEF vars

-------------------------------------------------------------------------------
(* Authority comes from elections only.  OnlyElectedLead needs no           *)
(* strengthening: each way to gain authority is a message or an election.   *)
LEMMA OnlyElectedLeadStep ==
  ASSUME TypeOK, OnlyElectedLead, [Next]_vars PROVE OnlyElectedLead'
  <1> USE DEF OnlyElectedLead
  <1>1. ASSUME NEW n \in Node, LeaderHeartbeat(n) PROVE OnlyElectedLead'
    <2>1. UNCHANGED <<state, leaderView, elected>> /\ n \in elected
      BY <1>1 DEF LeaderHeartbeat, history
    <2>2. \A x \in InFlight' :
            x \in InFlight \/ (x.type = "Heartbeat" /\ x.from = n)
      BY <1>1, HeartbeatEffect
    <2> QED
      BY <2>1, <2>2
  <1>2. ASSUME NEW n \in Node, HandleElection(n) PROVE OnlyElectedLead'
    <2>1. PICK w \in Node :
            /\ elected' = elected \cup {w}
            /\ state' = [state EXCEPT ![n] =
                           IF w = n THEN "Leader" ELSE "Follower"]
            /\ leaderView' = [leaderView EXCEPT ![n] =
                                IF w = n THEN w ELSE leaderView[n]]
            /\ \A x \in InFlight' :
                 x \in InFlight \/ (x.type = "ElectionResult" /\ x.new_leader_id = w)
      BY <1>2, ElectionEffect
    <2>2. \A i \in Node : state'[i] = "Leader" => i \in elected'
      BY <2>1 DEF TypeOK
    <2>3. \A i \in Node : leaderView'[i] \in elected' \cup {InitialLeaderId}
      BY <2>1 DEF TypeOK
    <2>4. \A x \in InFlight' :
            /\ x.type = "Heartbeat" => x.from \in elected'
            /\ x.type = "ElectionResult" => x.new_leader_id \in elected'
      BY <2>1
    <2> QED
      BY <2>2, <2>3, <2>4
  <1>3. ASSUME NEW n \in Node, NEW msg \in InFlight, FollowerHeartbeat(n, msg)
        PROVE OnlyElectedLead'
    BY <1>3, VoteEffect DEF FollowerHeartbeat, TypeOK
  <1>4. ASSUME NEW n \in Node, NEW msg \in InFlight, FollowerResult(n, msg)
        PROVE OnlyElectedLead'
    BY <1>4, SilentEffect DEF FollowerResult, StateOnResult, history, TypeOK
  <1>5. ASSUME NEW n \in Node, Crash(n) PROVE OnlyElectedLead'
    BY <1>5, SilentEffect DEF Crash, ViewAfterCrash, history, TypeOK
  <1>6. ASSUME NEW n \in Node, NEW msg \in InFlight, LeaderCountsVote(n, msg)
        PROVE OnlyElectedLead'
    BY <1>6, SilentEffect DEF LeaderCountsVote, history, TypeOK
  <1>7. ASSUME NEW n \in Node,
               LeaderHearsNothing(n) \/ FollowerTimeout(n) \/ Restart(n)
        PROVE OnlyElectedLead'
    BY <1>7, SilentEffect
       DEF LeaderHearsNothing, FollowerTimeout, Restart, history, TypeOK
  <1>8. ASSUME NEW n \in Node, NEW msg \in InFlight,
               LeaderIgnores(n, msg) \/ FollowerIgnores(n, msg) \/ Lose(msg)
        PROVE OnlyElectedLead'
    BY <1>8, SilentEffect
       DEF LeaderIgnores, FollowerIgnores, Lose, node, history, TypeOK
  <1>9. ASSUME NEW msg \in InFlight, Lose(msg) PROVE OnlyElectedLead'
    BY <1>9, SilentEffect DEF Lose, node, history
  <1>10. CASE UNCHANGED vars
    BY <1>10 DEF vars, node, history, InFlight
  <1> QED
    BY <1>1, <1>2, <1>3, <1>4, <1>5, <1>6, <1>7, <1>8, <1>9, <1>10, NextCases

THEOREM ElectedLead == Spec => []OnlyElectedLead
  <1>1. Init => OnlyElectedLead
    BY DEF Init, OnlyElectedLead, InFlight
  <1>2. TypeOK /\ OnlyElectedLead /\ [Next]_vars => OnlyElectedLead'
    BY OnlyElectedLeadStep
  <1> QED
    BY <1>1, <1>2, TypeCorrect, PTL DEF Spec
-------------------------------------------------------------------------------
(* The term of a leader.                                                    *)

(* One more vote from another node: the leader has one vote, or steps down  *)
(* with exactly two.                                                        *)
LEMMA OneMoreVote ==
  ASSUME NEW V, NEW v, IsFiniteSet(V), Cardinality(V) < StepDownVotes
  PROVE  /\ IsFiniteSet(V \cup {v})
         /\ Cardinality(V \cup {v}) \in Nat
         /\ Cardinality(V \cup {v}) <= StepDownVotes
  <1>1. /\ IsFiniteSet(V \cup {v}) /\ Cardinality(V) \in Nat
        /\ Cardinality(V \cup {v}) \in {Cardinality(V), Cardinality(V) + 1}
    BY FS_AddElement, FS_CardinalityType
  <1> QED
    BY <1>1 DEF StepDownVotes

LEMMA CountVoteTerm ==
  ASSUME TypeOK, TermInv, NEW n \in Node, NEW msg \in InFlight,
         LeaderCountsVote(n, msg)
  PROVE  /\ votes' = [votes EXCEPT ![n] = votes[n] \cup {msg.from}]
         /\ n \notin votes'[n]
         /\ IsFiniteSet(votes'[n])
         /\ \/ state' = state /\ Cardinality(votes'[n]) < StepDownVotes
            \/ /\ state' = [state EXCEPT ![n] = "DefactoLeader"]
               /\ Cardinality(votes'[n]) = StepDownVotes
  <1>1. /\ state[n] = "Leader" /\ msg.from # n
        /\ votes' = [votes EXCEPT ![n] = votes[n] \cup {msg.from}]
        /\ state' = [state EXCEPT ![n] =
                       IF Cardinality(votes'[n]) >= StepDownVotes
                       THEN "DefactoLeader" ELSE state[n]]
    BY DEF LeaderCountsVote, TermInv
  <1>2. votes'[n] = votes[n] \cup {msg.from}
    BY <1>1 DEF TypeOK
  <1>3. /\ IsFiniteSet(votes[n]) /\ Cardinality(votes[n]) < StepDownVotes
        /\ n \notin votes[n]
    BY <1>1 DEF TermInv, VotesOfOneTerm
  <1>4. /\ IsFiniteSet(votes'[n])
        /\ Cardinality(votes'[n]) \in Nat
        /\ Cardinality(votes'[n]) <= StepDownVotes
    <2> DEFINE V == votes[n] \cup {msg.from}
    <2>1. /\ IsFiniteSet(V) /\ Cardinality(V) \in Nat
          /\ Cardinality(V) <= StepDownVotes
      BY <1>3, OneMoreVote
    <2>2. votes'[n] = V
      BY <1>2
    <2> HIDE DEF V
    <2> QED
      BY <2>1, <2>2
  <1>5. CASE Cardinality(votes'[n]) >= StepDownVotes
    <2>1. state' = [state EXCEPT ![n] = "DefactoLeader"]
      BY <1>1, <1>5
    <2>2. Cardinality(votes'[n]) = StepDownVotes
      BY <1>4, <1>5 DEF StepDownVotes
    <2>3. n \notin votes'[n]
      BY <1>1, <1>2, <1>3
    <2> QED
      BY <1>1, <1>4, <2>1, <2>2, <2>3
  <1>6. CASE ~ (Cardinality(votes'[n]) >= StepDownVotes)
    <2>1. state' = state
      BY <1>1, <1>6 DEF TypeOK
    <2> QED
      BY <1>1, <1>2, <1>3, <1>4, <1>6, <2>1 DEF StepDownVotes
  <1> QED
    BY <1>5, <1>6

LEMMA TermStep == ASSUME TypeOK, TermInv, [Next]_vars PROVE TermInv'
  <1> USE DEF TermInv, LeadersServe, VotesOfOneTerm, Leads, Serves
  <1>0. Cardinality({}) = 0 /\ IsFiniteSet({}) /\ 0 < StepDownVotes
    BY FS_EmptySet DEF StepDownVotes
  <1>1. ASSUME NEW n \in Node, LeaderHeartbeat(n) PROVE TermInv'
    <2>1. UNCHANGED <<running, state, votes, leaderView>>
      BY <1>1 DEF LeaderHeartbeat
    <2>2. \A x \in InFlight' : x.from # x.to
      BY <1>1, HeartbeatEffect
    <2> QED
      BY <2>1, <2>2
  <1>2. ASSUME NEW n \in Node, HandleElection(n) PROVE TermInv'
    <2>1. PICK w \in Node :
            /\ state' = [state EXCEPT ![n] =
                           IF w = n THEN "Leader" ELSE "Follower"]
            /\ leaderView' = [leaderView EXCEPT ![n] =
                                IF w = n THEN w ELSE leaderView[n]]
            /\ \A x \in InFlight' : x \in InFlight \/ x.from # x.to
      BY <1>2, ElectionEffect
    <2>2. /\ votes' = [votes EXCEPT ![n] = {}] /\ running' = running
          /\ running[n]
      BY <1>2 DEF HandleElection, EndTerm
    <2>3. LeadersServe'
      BY <2>1, <2>2 DEF TypeOK
    <2>4. VotesOfOneTerm' /\ \A i \in Node : IsFiniteSet(votes'[i])
      BY <1>0, <2>1, <2>2 DEF TypeOK
    <2>5. \A i \in Node : ~ running'[i] =>
             state'[i] = "Follower" /\ leaderView'[i] = InitialLeaderId
      BY <2>1, <2>2 DEF TypeOK
    <2> QED
      BY <2>1, <2>3, <2>4, <2>5
  <1>3. ASSUME NEW n \in Node, NEW msg \in InFlight, FollowerHeartbeat(n, msg)
        PROVE TermInv'
    <2>1. /\ UNCHANGED <<running, state, votes>>
          /\ leaderView' = [leaderView EXCEPT ![n] = msg.from]
          /\ state[n] = "Follower" /\ running[n]
      BY <1>3 DEF FollowerHeartbeat
    <2>2. \A x \in InFlight' : x.from # x.to
      BY <1>3, VoteEffect
    <2> QED
      BY <2>1, <2>2 DEF TypeOK
  <1>4. ASSUME NEW n \in Node, NEW msg \in InFlight, FollowerResult(n, msg)
        PROVE TermInv'
    <2>1. /\ UNCHANGED <<running, votes>> /\ state[n] = "Follower" /\ running[n]
          /\ leaderView' = [leaderView EXCEPT ![n] = msg.new_leader_id]
          /\ state' = [state EXCEPT ![n] =
                         IF msg.new_leader_id = n THEN "Leader" ELSE state[n]]
      BY <1>4 DEF FollowerResult, StateOnResult
    <2>2. InFlight' \subseteq InFlight
      BY <1>4, SilentEffect
    <2> QED
      BY <1>0, <2>1, <2>2 DEF TypeOK
  <1>5. ASSUME NEW n \in Node, NEW msg \in InFlight, LeaderCountsVote(n, msg)
        PROVE TermInv'
    <2>1. UNCHANGED <<running, leaderView>> /\ running[n] /\ state[n] = "Leader"
      BY <1>5 DEF LeaderCountsVote
    <2>2. InFlight' \subseteq InFlight
      BY <1>5, SilentEffect
    <2>3. /\ votes' = [votes EXCEPT ![n] = votes[n] \cup {msg.from}]
          /\ n \notin votes'[n]
          /\ IsFiniteSet(votes'[n])
          /\ \/ state' = state /\ Cardinality(votes'[n]) < StepDownVotes
             \/ /\ state' = [state EXCEPT ![n] = "DefactoLeader"]
                /\ Cardinality(votes'[n]) = StepDownVotes
      BY <1>5, CountVoteTerm
    <2>4. \A i \in Node \ {n} : votes'[i] = votes[i] /\ state'[i] = state[i]
      BY <2>3 DEF TypeOK
    <2>5. state'[n] \in {"Leader", "DefactoLeader"}
      BY <2>1, <2>3 DEF TypeOK
    <2>6. state'[n] = "Leader" => Cardinality(votes'[n]) < StepDownVotes
      BY <2>3 DEF TypeOK
    <2>7. state'[n] = "DefactoLeader" => Cardinality(votes'[n]) = StepDownVotes
      BY <2>1, <2>3
    <2> QED
      BY <2>1, <2>2, <2>3, <2>4, <2>5, <2>6, <2>7
  <1>6. ASSUME NEW n \in Node, Crash(n) \/ Restart(n) \/ FollowerTimeout(n)
        PROVE TermInv'
    <2>1. InFlight' \subseteq InFlight
      BY <1>6, SilentEffect
    <2>2. CASE Crash(n)
      <3>1. /\ running' = [running EXCEPT ![n] = FALSE]
            /\ state' = [state EXCEPT ![n] = "Follower"]
            /\ votes' = [votes EXCEPT ![n] = {}]
            /\ leaderView' = [leaderView EXCEPT ![n] = InitialLeaderId]
        BY <2>2 DEF Crash, ViewAfterCrash
      <3>2. /\ ~ running'[n] /\ state'[n] = "Follower"
            /\ votes'[n] = {} /\ leaderView'[n] = InitialLeaderId
        BY <3>1 DEF TypeOK
      <3>3. \A i \in Node \ {n} :
              /\ running'[i] = running[i] /\ state'[i] = state[i]
              /\ votes'[i] = votes[i] /\ leaderView'[i] = leaderView[i]
        BY <3>1 DEF TypeOK
      <3> QED
        BY <1>0, <2>1, <3>2, <3>3
    <2>3. CASE Restart(n)
      BY <2>1, <2>3 DEF Restart, TypeOK
    <2>4. CASE FollowerTimeout(n)
      BY <1>0, <2>1, <2>4 DEF FollowerTimeout, TypeOK
    <2> QED
      BY <1>6, <2>2, <2>3, <2>4
  <1>7. ASSUME UNCHANGED <<running, state, votes, leaderView>>,
               InFlight' \subseteq InFlight
        PROVE TermInv'
    BY <1>7
  <1>8. ASSUME NEW n \in Node, LeaderHearsNothing(n) PROVE TermInv'
    BY <1>7, <1>8, SilentEffect DEF LeaderHearsNothing
  <1>9. ASSUME NEW n \in Node, NEW msg \in InFlight,
               LeaderIgnores(n, msg) \/ FollowerIgnores(n, msg)
        PROVE TermInv'
    BY <1>7, <1>9, SilentEffect DEF LeaderIgnores, FollowerIgnores, node
  <1>10. ASSUME NEW msg \in InFlight, Lose(msg) PROVE TermInv'
    BY <1>7, <1>10, SilentEffect DEF Lose, node
  <1>11. CASE UNCHANGED vars
    BY <1>7, <1>11, SilentEffect DEF vars, node
  <1> QED
    BY <1>1, <1>2, <1>3, <1>4, <1>5, <1>6, <1>8, <1>9, <1>10, <1>11, NextCases

(* Whoever leads serves, and the votes a node holds are those of its        *)
(* present term, for every number of nodes and of crashes.                  *)
THEOREM TermInvariant == Spec => []TermInv
  <1>1. Init => TermInv
    BY FS_EmptySet
       DEF Init, TermInv, LeadersServe, VotesOfOneTerm, Leads, InFlight,
           StepDownVotes
  <1>2. TypeOK /\ TermInv /\ [Next]_vars => TermInv'
    BY TermStep
  <1> QED
    BY <1>1, <1>2, TypeCorrect, PTL DEF Spec

THEOREM LeadersServeAlways == Spec => []LeadersServe
  BY TermInvariant, PTL DEF TermInv

THEOREM VotesAreOfOneTerm == Spec => []VotesOfOneTerm
  BY TermInvariant, PTL DEF TermInv

(* A term starts without votes and ends on exactly two, of other nodes.     *)
LEMMA TermAction ==
  ASSUME TypeOK, TermInv, [Next]_vars, NEW i \in Node
  PROVE  /\ ~ Leads(i) /\ Leads(i)' => votes'[i] = {}
         /\ Leads(i) /\ ~ Leads(i)' /\ running'[i] =>
              /\ state'[i] = "DefactoLeader"
              /\ Cardinality(votes'[i] \ {i}) = 2
  <1> DEFINE Goal ==
         /\ ~ Leads(i) /\ Leads(i)' => votes'[i] = {}
         /\ Leads(i) /\ ~ Leads(i)' /\ running'[i] =>
              /\ state'[i] = "DefactoLeader"
              /\ Cardinality(votes'[i] \ {i}) = 2
  <1> USE DEF Leads
  <1>1. ASSUME UNCHANGED <<running, state>> PROVE Goal
    BY <1>1
  <1>2. ASSUME NEW n \in Node, HandleElection(n) PROVE Goal
    <2>1. PICK w \in Node :
            state' = [state EXCEPT ![n] = IF w = n THEN "Leader" ELSE "Follower"]
      BY <1>2, ElectionEffect
    <2>2. /\ votes' = [votes EXCEPT ![n] = {}] /\ running' = running
          /\ state[n] = "DefactoLeader"
      BY <1>2 DEF HandleElection, EndTerm
    <2> QED
      BY <2>1, <2>2 DEF TypeOK
  <1>3. ASSUME NEW n \in Node, NEW msg \in InFlight, LeaderCountsVote(n, msg)
        PROVE Goal
    <2>1. /\ n \notin votes'[n]
          /\ \/ state' = state
             \/ /\ state' = [state EXCEPT ![n] = "DefactoLeader"]
                /\ Cardinality(votes'[n]) = StepDownVotes
      BY <1>3, CountVoteTerm
    <2>2. running' = running
      BY <1>3 DEF LeaderCountsVote
    <2>3. votes'[n] \ {n} = votes'[n]
      BY <2>1
    <2> QED
      BY <2>1, <2>2, <2>3 DEF TypeOK, StepDownVotes
  <1>4. ASSUME NEW n \in Node, NEW msg \in InFlight, FollowerResult(n, msg)
        PROVE Goal
    <2>1. votes[n] = {} /\ votes' = votes
      BY <1>4 DEF FollowerResult, TermInv, VotesOfOneTerm
    <2> QED
      BY <1>4, <2>1 DEF FollowerResult, TypeOK
  <1>5. ASSUME NEW n \in Node, FollowerTimeout(n) \/ Crash(n) \/ Restart(n)
        PROVE Goal
    BY <1>5 DEF FollowerTimeout, Crash, Restart, TypeOK, TermInv
  <1>6. ASSUME NEW n \in Node, LeaderHeartbeat(n) \/ LeaderHearsNothing(n)
        PROVE Goal
    BY <1>1, <1>6 DEF LeaderHeartbeat, LeaderHearsNothing
  <1>7. ASSUME NEW n \in Node, NEW msg \in InFlight,
               \/ LeaderIgnores(n, msg) \/ FollowerHeartbeat(n, msg)
               \/ FollowerIgnores(n, msg)
        PROVE Goal
    BY <1>1, <1>7 DEF LeaderIgnores, FollowerHeartbeat, FollowerIgnores, node
  <1>8. ASSUME NEW msg \in InFlight, Lose(msg) PROVE Goal
    BY <1>1, <1>8 DEF Lose, node
  <1>9. CASE UNCHANGED vars
    BY <1>1, <1>9 DEF vars, node
  <1> QED
    BY <1>2, <1>3, <1>4, <1>5, <1>6, <1>7, <1>8, <1>9, NextCases

THEOREM TermsEndOnTwoVotes == Spec => TermsEndByTwoVotes
  <1>1. TypeOK /\ TermInv /\ [Next]_vars =>
          [\A n \in Node :
             /\ ~ Leads(n) /\ Leads(n)' => votes'[n] = {}
             /\ Leads(n) /\ ~ Leads(n)' /\ running'[n] =>
                  /\ state'[n] = "DefactoLeader"
                  /\ Cardinality(votes'[n] \ {n}) = 2]_vars
    BY TermAction
  <1> QED
    BY <1>1, TypeCorrect, TermInvariant, PTL DEF Spec, TermsEndByTwoVotes
-------------------------------------------------------------------------------
(* The lists of candidates.                                                 *)

(* On a list without repetitions update_candidate finds the one entry of id *)
(* or appends one: still no repetition, and id is in the list.              *)
LEMMA UpdateCandidateDistinct ==
  ASSUME NEW c \in Seq(Candidate), NEW id \in Node, NEW m \in Metrics,
         Distinct(c)
  PROVE  /\ Distinct(UpdateCandidate(c, id, m))
         /\ CandidateIds(c) \cup {id}
              \subseteq CandidateIds(UpdateCandidate(c, id, m))
  <1> DEFINE new == [id |-> id, metrics |-> m]
  <1>1. new.id = id
    OBVIOUS
  <1>2. CASE id \in CandidateIds(c)
    <2> DEFINE P(i) == c[i].id = id /\ \A j \in 1 .. i - 1 : c[j].id # id
    <2> DEFINE first == CHOOSE i \in DOMAIN c : P(i)
    <2> DEFINE d == [c EXCEPT ![first] = new]
    <2>1. UpdateCandidate(c, id, m) = d
      BY <1>2 DEF UpdateCandidate
    <2>2. DOMAIN c = 1 .. Len(c) /\ Len(c) \in Nat
      OBVIOUS
    <2>3. PICK i \in DOMAIN c : c[i].id = id
      BY <1>2 DEF CandidateIds
    <2>4. \A j \in DOMAIN c : j # i => c[j].id # id
      BY <2>3 DEF Distinct
    <2>5. P(i)
      BY <2>2, <2>3, <2>4
    <2>6. first \in DOMAIN c /\ c[first].id = id
      BY <2>5
    <2> HIDE DEF first, new
    <2>7. DOMAIN d = DOMAIN c /\ \A j \in DOMAIN c : d[j].id = c[j].id
      BY <1>1, <2>6
    <2>8. Distinct(d) /\ CandidateIds(c) \cup {id} \subseteq CandidateIds(d)
      BY <1>2, <2>7 DEF Distinct, CandidateIds
    <2> QED
      BY <2>1, <2>8
  <1>3. CASE id \notin CandidateIds(c)
    <2> DEFINE d == Append(c, new)
    <2>1. UpdateCandidate(c, id, m) = d
      BY <1>3 DEF UpdateCandidate
    <2>2. \A i \in DOMAIN c : c[i].id # id
      BY <1>3 DEF CandidateIds
    <2>3. /\ DOMAIN c = 1 .. Len(c) /\ Len(c) \in Nat
          /\ DOMAIN d = 1 .. Len(c) + 1
          /\ \A i \in DOMAIN c : d[i] = c[i]
          /\ d[Len(c) + 1] = new
      OBVIOUS
    <2> HIDE DEF d, new
    <2>4. Distinct(d)
      BY <1>1, <2>2, <2>3 DEF Distinct
    <2>5. CandidateIds(c) \cup {id} \subseteq CandidateIds(d)
      BY <1>1, <2>3 DEF CandidateIds
    <2> QED
      BY <2>1, <2>4, <2>5
  <1> QED
    BY <1>2, <1>3

RosterInv ==
  /\ CandidatesDistinct
  /\ VotersStand
  /\ CandidatesHaveVoted
  /\ NobodyDrafted

(* A step that leaves the lists alone and sends nothing keeps RosterInv.    *)
LEMMA RosterUnchanged ==
  ASSUME RosterInv, InFlight' \subseteq InFlight,
         UNCHANGED <<votes, candidates, named, voted>>
  PROVE  RosterInv'
  BY DEF RosterInv, CandidatesDistinct, VotersStand, CandidatesHaveVoted,
         NobodyDrafted

LEMMA RosterStep ==
  ASSUME TypeOK, TermInv, RosterInv, [Next]_vars PROVE RosterInv'
  <1> USE DEF RosterInv, CandidatesDistinct, VotersStand, CandidatesHaveVoted,
              NobodyDrafted
  <1>0. CandidateIds(<<>>) = {} /\ Distinct(<<>>)
    BY DEF CandidateIds, Distinct
  <1>1. ASSUME NEW n \in Node, LeaderHeartbeat(n) PROVE RosterInv'
    <2>1. UNCHANGED <<votes, candidates, named, voted>>
      BY <1>1 DEF LeaderHeartbeat, history
    <2>2. \A x \in InFlight' :
            \/ x \in InFlight
            \/ x.type = "Heartbeat" /\ x.candidates = candidates[n]
      BY <1>1, HeartbeatEffect
    <2> QED
      BY <2>1, <2>2
  <1>2. ASSUME NEW n \in Node, HandleElection(n) PROVE RosterInv'
    <2>1. PICK w \in CandidateIds(candidates[n]) \cup {n} :
            /\ named' = named \cup ({w} \ {n})
            /\ \A x \in InFlight' : x \in InFlight \/ x.type = "ElectionResult"
      BY <1>2, ElectionEffect
    <2>2. /\ votes' = [votes EXCEPT ![n] = {}]
          /\ candidates' = [candidates EXCEPT ![n] = <<>>]
          /\ voted' = voted
      BY <1>2 DEF HandleElection, EndTerm
    <2>3. named' \subseteq voted'
      BY <2>1, <2>2
    <2>4. \A i \in Node :
            \/ votes'[i] = votes[i] /\ candidates'[i] = candidates[i]
            \/ votes'[i] = {} /\ candidates'[i] = <<>>
      BY <2>2 DEF TypeOK
    <2> QED
      BY <1>0, <2>1, <2>2, <2>3, <2>4
  <1>3. ASSUME NEW n \in Node, NEW msg \in InFlight, FollowerHeartbeat(n, msg)
        PROVE RosterInv'
    <2>1. /\ votes' = votes /\ named' = named /\ votes[n] = {}
          /\ candidates' = [candidates EXCEPT ![n] = msg.candidates]
          /\ msg.type = "Heartbeat"
      BY <1>3 DEF FollowerHeartbeat, TermInv, VotesOfOneTerm
    <2>2. /\ \A x \in InFlight' :
               \/ x \in InFlight
               \/ /\ x.type = "NegativeVote" /\ x.from = n /\ x.to # n
                  /\ n \in voted'
          /\ voted \subseteq voted'
      BY <1>3, VoteEffect
    <2>3. \A i \in Node :
            \/ candidates'[i] = candidates[i]
            \/ votes'[i] = {} /\ candidates'[i] = msg.candidates
      BY <2>1 DEF TypeOK
    <2> QED
      BY <2>1, <2>2, <2>3
  <1>4. ASSUME NEW n \in Node, NEW msg \in InFlight, LeaderCountsVote(n, msg)
        PROVE RosterInv'
    <2> DEFINE new == UpdateCandidate(candidates[n], msg.from, msg.metrics)
    <2>1. /\ votes' = [votes EXCEPT ![n] = votes[n] \cup {msg.from}]
          /\ candidates' = [candidates EXCEPT ![n] = new]
          /\ UNCHANGED <<named, voted>>
          /\ msg.type = "NegativeVote"
      BY <1>4 DEF LeaderCountsVote, history
    <2>2. InFlight' \subseteq InFlight
      BY <1>4, SilentEffect
    <2>3. msg.from \in Node /\ msg.metrics \in Metrics /\ msg.from \in voted
      BY <2>1, MessageType DEF TypeOK, InFlight
    <2>4. /\ Distinct(new)
          /\ CandidateIds(new) = CandidateIds(candidates[n]) \cup {msg.from}
      BY <2>3, UpdateCandidateType, UpdateCandidateDistinct DEF TypeOK
    <2> HIDE DEF new
    <2>5. \A i \in Node :
            \/ votes'[i] = votes[i] /\ candidates'[i] = candidates[i]
            \/ /\ votes'[i] = votes[n] \cup {msg.from} /\ candidates'[i] = new
               /\ i = n
      BY <2>1 DEF TypeOK
    <2>6. CandidatesDistinct' /\ NobodyDrafted'
      BY <2>1, <2>2, <2>4, <2>5
    <2>7. VotersStand'
      BY <2>4, <2>5
    <2>8. CandidatesHaveVoted'
      BY <2>1, <2>2, <2>3, <2>4, <2>5
    <2> QED
      BY <2>6, <2>7, <2>8
  <1>5. ASSUME NEW n \in Node, Crash(n) PROVE RosterInv'
    <2>1. \A i \in Node :
            \/ votes'[i] = votes[i] /\ candidates'[i] = candidates[i]
            \/ votes'[i] = {} /\ candidates'[i] = <<>>
      BY <1>5 DEF Crash, TypeOK
    <2>2. InFlight' \subseteq InFlight /\ UNCHANGED <<named, voted>>
      BY <1>5, SilentEffect DEF Crash, history
    <2> QED
      BY <1>0, <2>1, <2>2
  <1>6. ASSUME NEW n \in Node,
               LeaderHearsNothing(n) \/ FollowerTimeout(n) \/ Restart(n)
        PROVE RosterInv'
    BY <1>6, SilentEffect, RosterUnchanged
       DEF LeaderHearsNothing, FollowerTimeout, Restart, history
  <1>7. ASSUME NEW n \in Node, NEW msg \in InFlight,
               \/ LeaderIgnores(n, msg) \/ FollowerIgnores(n, msg)
               \/ FollowerResult(n, msg)
        PROVE RosterInv'
    BY <1>7, SilentEffect, RosterUnchanged
       DEF LeaderIgnores, FollowerIgnores, FollowerResult, node, history
  <1>8. ASSUME NEW msg \in InFlight, Lose(msg) PROVE RosterInv'
    BY <1>8, SilentEffect, RosterUnchanged DEF Lose, node, history
  <1>9. CASE UNCHANGED vars
    BY <1>9, SilentEffect, RosterUnchanged DEF vars, node, history
  <1> QED
    BY <1>1, <1>2, <1>3, <1>4, <1>5, <1>6, <1>7, <1>8, <1>9, NextCases

(* The lists of candidates are sound, wherever they are.                    *)
THEOREM RosterInvariant == Spec => []RosterInv
  <1>1. Init => RosterInv
    BY DEF Init, RosterInv, CandidatesDistinct, VotersStand, Distinct,
           CandidatesHaveVoted, NobodyDrafted, InFlight, CandidateIds
  <1>2. TypeOK /\ TermInv /\ RosterInv /\ [Next]_vars => RosterInv'
    BY RosterStep
  <1> QED
    BY <1>1, <1>2, TypeCorrect, TermInvariant, PTL DEF Spec

THEOREM NobodyIsDrafted == Spec => []NobodyDrafted
  BY RosterInvariant, PTL DEF RosterInv

THEOREM VotersAlwaysStand == Spec => []VotersStand
  BY RosterInvariant, PTL DEF RosterInv

THEOREM CandidatesAlwaysDistinct == Spec => []CandidatesDistinct
  BY RosterInvariant, PTL DEF RosterInv

THEOREM CandidatesAlwaysVoted == Spec => []CandidatesHaveVoted
  BY RosterInvariant, PTL DEF RosterInv


-------------------------------------------------------------------------------
(* A node that follows and yet serves.  Without the assumption a node whose *)
(* id is the initial value of CURRENT_LEADER_ID serves as soon as it starts.*)
LEMMA StaleServiceAction ==
  ASSUME InitialLeaderId \notin Node, TypeOK, TermInv, [Next]_vars,
         NEW i \in Node,
         Serves(i)', state'[i] = "Follower",
         ~ (Serves(i) /\ state[i] = "Follower")
  PROVE  state[i] = "DefactoLeader"
  <1> USE DEF Serves
  <1>1. ASSUME UNCHANGED <<running, state, leaderView>>
        PROVE state[i] = "DefactoLeader"
    BY <1>1
  <1>2. ASSUME NEW n \in Node, HandleElection(n)
        PROVE state[i] = "DefactoLeader"
    <2>1. PICK w \in Node :
            /\ state' = [state EXCEPT ![n] =
                           IF w = n THEN "Leader" ELSE "Follower"]
            /\ leaderView' = [leaderView EXCEPT ![n] =
                                IF w = n THEN w ELSE leaderView[n]]
      BY <1>2, ElectionEffect
    <2> QED
      BY <1>2, <2>1 DEF HandleElection, TypeOK
  <1>3. ASSUME NEW n \in Node, NEW msg \in InFlight, FollowerHeartbeat(n, msg)
        PROVE state[i] = "DefactoLeader"
    <2>1. msg.from # n
      BY <1>3 DEF FollowerHeartbeat, TermInv
    <2> QED
      BY <1>3, <2>1 DEF FollowerHeartbeat, TypeOK
  <1>4. ASSUME NEW n \in Node, NEW msg \in InFlight, FollowerResult(n, msg)
        PROVE state[i] = "DefactoLeader"
    BY <1>4 DEF FollowerResult, StateOnResult, TypeOK
  <1>5. ASSUME NEW n \in Node, NEW msg \in InFlight, LeaderCountsVote(n, msg)
        PROVE state[i] = "DefactoLeader"
    <2>1. /\ UNCHANGED <<running, leaderView>>
          /\ state[n] = "Leader"
      BY <1>5 DEF LeaderCountsVote
    <2>2. state' = state \/ state' = [state EXCEPT ![n] = "DefactoLeader"]
      BY <1>5, CountVoteTerm
    <2> QED
      BY <2>1, <2>2 DEF TypeOK
  <1>6. ASSUME NEW n \in Node, FollowerTimeout(n)
        PROVE state[i] = "DefactoLeader"
    BY <1>6 DEF FollowerTimeout, TypeOK
  <1>7. ASSUME NEW n \in Node, Crash(n) \/ Restart(n)
        PROVE state[i] = "DefactoLeader"
    <2>1. CASE Crash(n)
      <3>1. ~ running'[n]
        BY <2>1 DEF Crash, TypeOK
      <3>2. i # n => /\ running'[i] = running[i] /\ state'[i] = state[i]
                     /\ leaderView'[i] = leaderView[i]
        BY <2>1 DEF Crash, TypeOK
      <3> QED
        BY <3>1, <3>2
    <2>2. CASE Restart(n)
      <3>1. UNCHANGED <<state, leaderView>> /\ leaderView[n] = InitialLeaderId
        BY <2>2 DEF Restart, TermInv
      <3>2. i # n => running'[i] = running[i]
        BY <2>2 DEF Restart, TypeOK
      <3> QED
        BY <3>1, <3>2
    <2> QED
      BY <1>7, <2>1, <2>2
  <1>8. ASSUME NEW n \in Node, LeaderHeartbeat(n) \/ LeaderHearsNothing(n)
        PROVE state[i] = "DefactoLeader"
    BY <1>1, <1>8 DEF LeaderHeartbeat, LeaderHearsNothing
  <1>9. ASSUME NEW n \in Node, NEW msg \in InFlight,
               LeaderIgnores(n, msg) \/ FollowerIgnores(n, msg)
        PROVE state[i] = "DefactoLeader"
    BY <1>1, <1>9 DEF LeaderIgnores, FollowerIgnores, node
  <1>10. ASSUME NEW msg \in InFlight, Lose(msg)
         PROVE state[i] = "DefactoLeader"
    BY <1>1, <1>10 DEF Lose, node
  <1>11. CASE UNCHANGED vars
    BY <1>1, <1>11 DEF vars, node
  <1> QED
    BY <1>2, <1>3, <1>4, <1>5, <1>6, <1>7, <1>8, <1>9, <1>10, <1>11, NextCases

THEOREM StaleServiceIsHandover ==
  ASSUME InitialLeaderId \notin Node
  PROVE  Spec => StaleServiceFromHandover
  <1>1. TypeOK /\ TermInv /\ [Next]_vars =>
          [\A n \in Node :
             /\ Serves(n)' /\ state'[n] = "Follower"
             /\ ~ (Serves(n) /\ state[n] = "Follower")
             => state[n] = "DefactoLeader"]_vars
    BY StaleServiceAction
  <1> QED
    BY <1>1, TypeCorrect, TermInvariant, PTL DEF Spec, StaleServiceFromHandover

(* Of two candidates max_by keeps one, and a candidate that beats another   *)
(* neither gives way to it nor is compared in vain with it.                 *)
LEMMA LoadsAreNumbers ==
  ASSUME NEW a \in Metrics PROVE a.load \in Nat
  BY ElectionAssumption DEF Metrics

LEMMA ComparisonEnds ==
  ASSUME NEW a \in Metrics, NEW b \in Metrics
  PROVE  MayKeep(a, b) \/ MayReplace(a, b)
  BY LoadsAreNumbers DEF MayKeep, MayReplace, Score, Low, High

LEMMA BeatenLoses ==
  ASSUME NEW a \in Metrics, NEW b \in Metrics, Beats(a, b)
  PROVE  ~ MayKeep(b, a) /\ ~ MayReplace(a, b)
  <1> DEFINE x == 100 - a.load
             y == 100 - b.load
  <1>1. x \in Int /\ y \in Int
    BY LoadsAreNumbers
  <1>2. \A f, g \in 98 .. 102 : f * x > g * y
    BY DEF Beats
  <1>3. /\ 98 * x > 98 * y /\ 98 * x > 102 * y
        /\ 102 * x > 98 * y /\ 102 * x > 102 * y
    <2> HIDE DEF x, y
    <2>1. 98 \in 98 .. 102 /\ 102 \in 98 .. 102
      OBVIOUS
    <2> QED
      BY <1>2, <2>1
  <1> QED
    BY <1>1, <1>3 DEF MayKeep, MayReplace, Score, Low, High

LEMMA CandidateLoads ==
  ASSUME NEW c \in Seq(Candidate), NEW i \in DOMAIN c
  PROVE  c[i].metrics \in Metrics
  <1>1. c[i] \in Candidate
    BY ElementOfSeq
  <1> QED
    BY <1>1 DEF Candidate

(* The passes over the first k candidates of a list; max_by's are those     *)
(* over all of them.                                                        *)
PassesUpTo(c, k) ==
  {lead \in [1 .. k -> DOMAIN c] :
     \A i \in 1 .. k :
       IF i = 1 THEN lead[i] = 1
       ELSE \/ /\ lead[i] = lead[i - 1]
               /\ MayKeep(c[lead[i - 1]].metrics, c[i].metrics)
            \/ /\ lead[i] = i
               /\ MayReplace(c[lead[i - 1]].metrics, c[i].metrics)}

(* A pass over a part of the list can go on to the next candidate...        *)
LEMMA PassGoesOn ==
  ASSUME NEW c \in Seq(Candidate), NEW k \in 1 .. Len(c), k # 1,
         NEW lead \in PassesUpTo(c, k - 1)
  PROVE  PassesUpTo(c, k) # {}
  <1> DEFINE j == lead[k - 1]
             next == IF MayKeep(c[j].metrics, c[k].metrics) THEN j ELSE k
             longer == [i \in 1 .. k |-> IF i = k THEN next ELSE lead[i]]
  <1>1. k - 1 \in 1 .. k - 1 /\ DOMAIN c = 1 .. Len(c)
    OBVIOUS
  <1>2. lead \in [1 .. k - 1 -> DOMAIN c]
    BY DEF PassesUpTo
  <1>3. j \in DOMAIN c
    BY <1>1, <1>2
  <1>4. MayKeep(c[j].metrics, c[k].metrics)
          \/ MayReplace(c[j].metrics, c[k].metrics)
    BY <1>1, <1>3, CandidateLoads, ComparisonEnds
  <1>5. longer \in [1 .. k -> DOMAIN c]
    BY <1>1, <1>2, <1>3
  <1>6. ASSUME NEW i \in 1 .. k
        PROVE  IF i = 1 THEN longer[i] = 1
               ELSE \/ /\ longer[i] = longer[i - 1]
                       /\ MayKeep(c[longer[i - 1]].metrics, c[i].metrics)
                    \/ /\ longer[i] = i
                       /\ MayReplace(c[longer[i - 1]].metrics, c[i].metrics)
    <2>1. CASE i = k
      <3>1. longer[k] = next /\ longer[k - 1] = j
        OBVIOUS
      <3> HIDE DEF longer, j
      <3> QED
        BY <2>1, <3>1, <1>4
    <2>2. CASE i # k
      <3>1. i \in 1 .. k - 1 /\ longer[i] = lead[i]
        BY <2>2
      <3>2. i # 1 => longer[i - 1] = lead[i - 1]
        BY <3>1
      <3> HIDE DEF longer
      <3> QED
        BY <3>1, <3>2 DEF PassesUpTo
    <2> QED
      BY <2>1, <2>2
  <1>7. longer \in PassesUpTo(c, k)
    <2> HIDE DEF longer
    <2> QED
      BY <1>5, <1>6 DEF PassesUpTo
  <1> QED
    BY <1>7

(* ... so a list that is not empty has passes: the election has a result.   *)
LEMMA PassesExist ==
  ASSUME NEW c \in Seq(Candidate), c # <<>>
  PROVE  Passes(c) # {}
  <1> DEFINE Fail == {k \in 1 .. Len(c) : PassesUpTo(c, k) = {}}
  <1>1. Len(c) \in Nat \ {0} /\ DOMAIN c = 1 .. Len(c)
    OBVIOUS
  <1>2. Fail = {}
    <2> SUFFICES ASSUME Fail # {} PROVE FALSE
      OBVIOUS
    <2>1. PICK k \in Fail : \A j \in Fail : k <= j
      <3>1. Fail \in SUBSET Nat
        OBVIOUS
      <3> HIDE DEF Fail
      <3> QED
        BY <3>1, LeastNumber
    <2>2. CASE k = 1
      <3>1. [i \in 1 .. 1 |-> 1] \in PassesUpTo(c, 1)
        BY <1>1 DEF PassesUpTo
      <3> QED
        BY <2>1, <2>2, <3>1
    <2>3. CASE k # 1
      <3>1. k - 1 \in 1 .. Len(c) /\ k - 1 \notin Fail
        BY <2>1, <2>3
      <3>2. PICK lead \in PassesUpTo(c, k - 1) : TRUE
        BY <3>1
      <3> QED
        BY <2>1, <2>3, <3>2, PassGoesOn
    <2> QED
      BY <2>2, <2>3
  <1>3. PassesUpTo(c, Len(c)) # {}
    BY <1>1, <1>2
  <1>4. Passes(c) = PassesUpTo(c, Len(c))
    BY <1>1 DEF Passes, PassesUpTo
  <1> QED
    BY <1>3, <1>4

(* One comparison of a pass.                                                *)
LEMMA PassStep ==
  ASSUME NEW c \in Seq(Candidate), NEW lead \in Passes(c), NEW i \in DOMAIN c
  PROVE  /\ lead[i] \in DOMAIN c
         /\ i = 1 => lead[i] = 1
         /\ i # 1 =>
              /\ i - 1 \in DOMAIN c /\ lead[i - 1] \in DOMAIN c
              /\ \/ /\ lead[i] = lead[i - 1]
                    /\ MayKeep(c[lead[i - 1]].metrics, c[i].metrics)
                 \/ /\ lead[i] = i
                    /\ MayReplace(c[lead[i - 1]].metrics, c[i].metrics)
  <1>1. DOMAIN c = 1 .. Len(c) /\ Len(c) \in Nat
    OBVIOUS
  <1> QED
    BY <1>1 DEF Passes

(* A candidate that beats all others leads from its own comparison to the   *)
(* end of the pass.                                                         *)
LEMMA WinnerStays ==
  ASSUME NEW c \in Seq(Candidate), NEW lead \in Passes(c), NEW w \in DOMAIN c,
         \A j \in DOMAIN c \ {w} : Beats(c[w].metrics, c[j].metrics)
  PROVE  \A k \in w .. Len(c) : lead[k] = w
  <1> DEFINE Fail == {k \in w .. Len(c) : lead[k] # w}
  <1>1. DOMAIN c = 1 .. Len(c) /\ Len(c) \in Nat
    OBVIOUS
  <1> SUFFICES ASSUME Fail # {} PROVE FALSE
    OBVIOUS
  <1>2. PICK k \in Fail : \A j \in Fail : k <= j
    <2>1. Fail \in SUBSET Nat
      BY <1>1
    <2> HIDE DEF Fail
    <2> QED
      BY <2>1, LeastNumber
  <1>3. k \in DOMAIN c /\ k \in w .. Len(c) /\ lead[k] # w
    BY <1>1, <1>2
  <1>4. ASSUME NEW j \in DOMAIN c, j # w
        PROVE  /\ ~ MayKeep(c[j].metrics, c[w].metrics)
               /\ ~ MayReplace(c[w].metrics, c[j].metrics)
    BY <1>4, CandidateLoads, BeatenLoses
  <1>5. CASE k = w
    <2>1. k # 1 /\ lead[k] = lead[k - 1] /\ lead[k - 1] \in DOMAIN c
          /\ MayKeep(c[lead[k - 1]].metrics, c[w].metrics)
      BY <1>3, <1>5, PassStep
    <2> QED
      BY <1>3, <1>4, <2>1
  <1>6. CASE k # w
    <2>1. k # 1 /\ k - 1 \in w .. Len(c) /\ k - 1 \notin Fail
      BY <1>1, <1>2, <1>3, <1>6
    <2>2. lead[k - 1] = w
      BY <2>1
    <2>3. MayReplace(c[w].metrics, c[k].metrics)
      BY <1>3, <2>1, <2>2, PassStep
    <2> QED
      BY <1>3, <1>4, <1>6, <2>3
  <1> QED
    BY <1>5, <1>6

(* A candidate that leads at the end has led since its own comparison, so   *)
(* it has been kept against everybody behind it.                            *)
LEMMA NamedWasKept ==
  ASSUME NEW c \in Seq(Candidate), NEW lead \in Passes(c), c # <<>>,
         NEW n, n = Len(c), NEW w, w = lead[n],
         NEW j \in DOMAIN c, j > w
  PROVE  MayKeep(c[w].metrics, c[j].metrics)
  <1> DEFINE Fail == {k \in w .. n : lead[k] # w}
  <1>1. DOMAIN c = 1 .. n /\ n \in Nat \ {0} /\ n \in DOMAIN c
    OBVIOUS
  <1>2. w \in 1 .. n
    BY <1>1, PassStep
  <1>3. Fail = {}
    <2> SUFFICES ASSUME Fail # {} PROVE FALSE
      OBVIOUS
    <2>1. Fail \in SUBSET (0 .. n)
      BY <1>1, <1>2
    <2>2. PICK k \in Fail : \A i \in Fail : i <= k
      <3> HIDE DEF Fail
      <3> QED
        BY <1>1, <2>1, GreatestNumber
    <2>3. k \in w .. n /\ lead[k] # w /\ k # n /\ k \in Nat
      BY <1>1, <1>2
    <2>4. k + 1 \in w .. n /\ k + 1 \in DOMAIN c /\ k + 1 # 1 /\ (k + 1) - 1 = k
      BY <1>1, <1>2, <2>3
    <2>5. lead[k + 1] = w
      <3>1. ~ (k + 1 <= k)
        BY <2>3
      <3> QED
        BY <2>2, <2>4, <3>1
    <2>6. lead[k + 1] = lead[k] \/ lead[k + 1] = k + 1
      <3>1. ASSUME NEW i \in DOMAIN c, i # 1
            PROVE  lead[i] = lead[i - 1] \/ lead[i] = i
        BY <3>1, PassStep
      <3> HIDE DEF Fail
      <3> QED
        BY <2>4, <3>1
    <2> QED
      BY <1>1, <1>2, <2>3, <2>5, <2>6
  <1>4. j # 1 /\ j - 1 \in w .. n /\ j \in w .. n
    BY <1>1, <1>2
  <1>5. lead[j] = w /\ lead[j - 1] = w
    BY <1>3, <1>4
  <1> QED
    BY <1>1, <1>2, <1>4, <1>5, PassStep

(* What an election over any list of candidates decides.                    *)
LEMMA ElectionDecides ==
  ASSUME NEW c \in Seq(Candidate), c # <<>>
  PROVE  Decides(c)
  <1>1. DOMAIN c = 1 .. Len(c) /\ Len(c) \in Nat \ {0}
    OBVIOUS
  <1>2. \A lead \in Passes(c) : lead[Len(c)] \in DOMAIN c
    <2>1. Len(c) \in DOMAIN c
      BY <1>1
    <2> QED
      BY <2>1, PassStep
  <1>3. Electable(c) # {}
    BY <1>2, PassesExist DEF Electable, MaxBy
  <1>4. ASSUME NEW w \in DOMAIN c,
               \A j \in DOMAIN c \ {w} : Beats(c[w].metrics, c[j].metrics)
        PROVE  Electable(c) = {c[w].id}
    <2>1. \A lead \in Passes(c) : lead[Len(c)] = w
      BY <1>1, <1>4, WinnerStays
    <2>2. MaxBy(c) \subseteq {w}
      BY <2>1 DEF MaxBy
    <2> QED
      BY <1>3, <2>2 DEF Electable
  <1>5. ASSUME NEW w \in Electable(c)
        PROVE  \E i \in DOMAIN c :
                 /\ c[i].id = w
                 /\ \A j \in DOMAIN c :
                      j > i => ~ Beats(c[j].metrics, c[i].metrics)
    <2>1. PICK i \in MaxBy(c) : c[i].id = w
      BY DEF Electable
    <2>2. PICK lead \in Passes(c) : lead[Len(c)] = i
      BY <2>1 DEF MaxBy
    <2>3. i \in DOMAIN c
      BY <2>1 DEF MaxBy
    <2>4. ASSUME NEW j \in DOMAIN c, j > i, Beats(c[j].metrics, c[i].metrics)
          PROVE  FALSE
      <3>1. MayKeep(c[i].metrics, c[j].metrics)
        BY <2>2, <2>4, NamedWasKept
      <3> QED
        BY <2>3, <2>4, <3>1, CandidateLoads, BeatenLoses
    <2> QED
      BY <2>1, <2>3, <2>4
  <1> QED
    BY <1>3, <1>4, <1>5 DEF Decides

(* update_candidate leaves nobody an empty list.                            *)
LEMMA UpdatedNotEmpty ==
  ASSUME NEW c \in Seq(Candidate), NEW id \in Node, NEW m \in Metrics
  PROVE  UpdateCandidate(c, id, m) # <<>>
  <1>1. CASE id \in CandidateIds(c)
    <2>1. c # <<>>
      BY <1>1 DEF CandidateIds
    <2>2. DOMAIN UpdateCandidate(c, id, m) = DOMAIN c
      BY <1>1 DEF UpdateCandidate
    <2> QED
      BY <2>1, <2>2
  <1>2. CASE id \notin CandidateIds(c)
    <2> DEFINE new == [id |-> id, metrics |-> m]
    <2>1. new \in Candidate
      BY DEF Candidate
    <2>2. Append(c, new) # <<>>
      BY <2>1, AppendProperties
    <2> QED
      BY <1>2, <2>2 DEF UpdateCandidate
  <1> QED
    BY <1>1, <1>2

(* Every election that can be held has a result, names a candidate that     *)
(* beats all others, and nobody whom a later candidate beats.               *)
THEOREM ElectionsAlwaysDecide == Spec => []ElectionsDecide
  <1>1. TypeOK => ElectionsDecide
    <2> SUFFICES ASSUME TypeOK, NEW n \in Node, NEW m \in Reports[n]
                 PROVE  Decides(UpdateCandidate(candidates[n], n, m))
      BY DEF ElectionsDecide
    <2>1. m \in Metrics /\ candidates[n] \in Seq(Candidate)
      BY ReportsAreMetrics DEF TypeOK
    <2> QED
      BY <2>1, UpdateCandidateType, UpdatedNotEmpty, ElectionDecides
  <1> QED
    BY <1>1, TypeCorrect, PTL
===============================================================================
