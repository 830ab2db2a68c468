---------------------------- MODULE LeaderElection ----------------------------
(***************************************************************************)
(* The leader election of the service providers, as deployed:              *)
(* src/service_provider/src/cloud_leader_election.rs.                      *)
(*                                                                         *)
(* A node is a Follower, the Leader, or a DefactoLeader (one that is about *)
(* to hold an election).  The leader broadcasts heartbeats that carry its  *)
(* load and its list of candidates.  A follower that finds itself less     *)
(* loaded broadcasts a negative vote; a leader with the votes of two nodes *)
(* becomes DefactoLeader, and so does a follower that hears no heartbeat   *)
(* for too long.  A DefactoLeader alone picks the next leader among its    *)
(* candidates and broadcasts the result.                                   *)
(*                                                                         *)
(* Every message is a task of its own: broadcast_message waits at most     *)
(* 300 ms for it and then abandons it without cancelling it, so a message  *)
(* may be late, overtaken, or lost, but it is delivered at most once.      *)
(***************************************************************************)
EXTENDS Integers, Sequences, FiniteSets

CONSTANTS Node,            (* the ids of the service providers               *)
          Reports,         (* Reports[n]: what collect_metrics can report    *)
          InitialLeaderId, (* what CURRENT_LEADER_ID holds at start (0)      *)
          MaxMessages,     (* bound: distinct messages in flight             *)
          MaxCopies,       (* bound: identical messages in flight            *)
          MaxCrashes       (* bound: process crashes                         *)

ASSUME ElectionAssumption ==
  /\ Reports \in [Node -> SUBSET [cpu : Nat, mem : Nat, load : Nat]]
  /\ MaxCrashes \in Nat
-------------------------------------------------------------------------------
(* The messages.  "from" is the sending process: a Heartbeat's leader_id    *)
(* and a NegativeVote's voter_id are the sender's own id.  The reason of a  *)
(* vote is only ever printed, and nobody sends UpdateMetrics.               *)

Metrics == UNION {Reports[n] : n \in Node}

Candidate == [id : Node, metrics : Metrics]

Heartbeat == [type : {"Heartbeat"}, from : Node, to : Node,
              metrics : Metrics, candidates : Seq(Candidate)]
NegativeVote == [type : {"NegativeVote"}, from : Node, to : Node,
                 metrics : Metrics]
ElectionResult == [type : {"ElectionResult"}, from : Node, to : Node,
                   new_leader_id : Node]

NodeMessage == Heartbeat \cup NegativeVote \cup ElectionResult
-------------------------------------------------------------------------------
VARIABLES
  running,     (* running[n]: the process of n is up                         *)
  state,       (* Node.state                                                 *)
  metrics,     (* Node.metrics: a leader refreshes it, a follower never does *)
  votes,       (* the keys of Node.negative_votes_received                   *)
  candidates,  (* Node.candidates                                            *)
  listening,   (* the leaders between their heartbeat and the end of accept  *)
  leaderView,  (* the static CURRENT_LEADER_ID of each process               *)
  net,         (* message -> number of copies in flight                      *)
  crashes,     (* number of crashes so far, bounded by MaxCrashes            *)
  elected,     (* history: the nodes some election has named                 *)
  named,       (* history: the nodes an election of another node has named   *)
  voted        (* history: the nodes that have cast a negative vote          *)

node == <<running, state, metrics, votes, candidates, listening, leaderView>>
history == <<elected, named, voted>>
vars == <<node, net, crashes, history>>

State == {"Follower", "Leader", "DefactoLeader"}

TypeOK ==
  /\ running \in [Node -> BOOLEAN]
  /\ state \in [Node -> State]
  /\ metrics \in [Node -> Metrics]
  /\ votes \in [Node -> SUBSET Node]
  /\ candidates \in [Node -> Seq(Candidate)]
  /\ listening \subseteq Node
  /\ leaderView \in [Node -> Node \cup {InitialLeaderId}]
  /\ DOMAIN net \subseteq NodeMessage
  /\ net \in [DOMAIN net -> Nat \ {0}]
  /\ crashes \in 0 .. MaxCrashes
  /\ elected \subseteq Node
  /\ named \subseteq Node
  /\ voted \subseteq Node
-------------------------------------------------------------------------------
(* Messages in flight.                                                      *)

InFlight == DOMAIN net

(* The bag b with one more copy of each message of the set M.               *)
Add(b, M) ==
  [m \in DOMAIN b \cup M |->
     (IF m \in DOMAIN b THEN b[m] ELSE 0) + (IF m \in M THEN 1 ELSE 0)]

(* The bag b with one copy of message m less.                               *)
Remove(b, m) ==
  [x \in {y \in DOMAIN b : y # m \/ b[y] > 1} |->
     IF x = m THEN b[x] - 1 ELSE b[x]]

Bounded(b) ==
  /\ Cardinality(DOMAIN b) <= MaxMessages
  /\ \A m \in DOMAIN b : b[m] <= MaxCopies

Peers(n) == Node \ {n}

(* broadcast_message: one task per peer, and those that cannot connect fail *)
(* at once; M is the message for each peer.                                 *)
Broadcast(b, M) ==
  \E sent \in SUBSET M : net' = Add(b, sent) /\ Bounded(net')

HeartbeatsOf(n, m, c) ==
  {[type |-> "Heartbeat", from |-> n, to |-> p, metrics |-> m,
    candidates |-> c] : p \in Peers(n)}
VotesOf(n, m) ==
  {[type |-> "NegativeVote", from |-> n, to |-> p, metrics |-> m]
     : p \in Peers(n)}
MutAnnounceSelf(n, w) ==
  {[type |-> "ElectionResult", from |-> n, to |-> p, new_leader_id |-> n]
     : p \in Peers(n)}
MutAnnounceView(n, w) ==
  {[type |-> "ElectionResult", from |-> n, to |-> p,
    new_leader_id |-> leaderView[n]] : p \in Peers(n)}
ResultsOf(n, w) ==
  {[type |-> "ElectionResult", from |-> n, to |-> p, new_leader_id |-> w]
     : p \in Peers(n)}
-------------------------------------------------------------------------------
(* The decisions.                                                           *)

(* should_cast_negative_vote: mine is better than the leader's in some      *)
(* measure, however much worse in the others.                               *)
ShouldCastNegativeVote(mine, leaders) ==
  \/ mine.cpu < leaders.cpu
  \/ mine.mem < leaders.mem
  \/ mine.load < leaders.load

(* calculate_score: the weights of cpu and memory are zero.  Each call      *)
(* multiplies the score by a fresh random factor in [0.98, 1.02); Low and   *)
(* High are the ends of that interval, in hundredths.                       *)
Score(m) == 100 - m.load
Low(s)  == IF s >= 0 THEN 98 * s ELSE 102 * s
High(s) == IF s >= 0 THEN 102 * s ELSE 98 * s

(* max_by keeps the earlier candidate only if it compares greater.          *)
MutKeepLess(a, b) == Low(Score(a)) < High(Score(b))
MayKeep(a, b) == High(Score(a)) > Low(Score(b))
MayReplace(a, b) ==
  \/ Low(Score(a)) < High(Score(b))
  \/ Score(a) = 0 /\ Score(b) = 0

(* The passes of max_by over the candidate list c: lead[i] is the position  *)
(* that leads when the first i candidates have been compared.               *)
Passes(c) ==
  {lead \in [DOMAIN c -> DOMAIN c] :
     \A i \in DOMAIN c :
       IF i = 1 THEN lead[i] = 1
       ELSE \/ /\ lead[i] = lead[i - 1]
               /\ MayKeep(c[lead[i - 1]].metrics, c[i].metrics)
            \/ /\ lead[i] = i
               /\ MayReplace(c[lead[i - 1]].metrics, c[i].metrics)}

(* elect_leader: whom an election over the list c can name.                 *)
MaxBy(c) == {k \in DOMAIN c : \E lead \in Passes(c) : lead[Len(c)] = k}
Electable(c) == {c[i].id : i \in MaxBy(c)}

CandidateIds(c) == {c[i].id : i \in DOMAIN c}

(* update_candidate: replace the metrics of the first candidate with this   *)
(* id, or append a new one.                                                 *)
MutReplaceFirst(c, id, m) ==
  IF c = <<>> THEN <<[id |-> id, metrics |-> m]>>
  ELSE [c EXCEPT ![1] = [id |-> id, metrics |-> m]]
MutAppendAlways(c, id, m) == Append(c, [id |-> id, metrics |-> m])
UpdateCandidate(c, id, m) ==
  IF id \in CandidateIds(c)
  THEN LET first == CHOOSE i \in DOMAIN c :
                      c[i].id = id /\ \A j \in 1 .. i - 1 : c[j].id # id
       IN  [c EXCEPT ![first] = [id |-> id, metrics |-> m]]
  ELSE Append(c, [id |-> id, metrics |-> m])

(* A leader steps down on the votes of this many nodes.                     *)
MutOneVote == 1
StepDownVotes == 2

(* The state of follower n once it is told that w leads.                    *)
MutStayFollower(n, w) == state[n]
StateOnResult(n, w) == IF w = n THEN "Leader" ELSE state[n]

(* CURRENT_LEADER_ID of n once n has named w: only a winner updates it, so  *)
(* a leader that names another node leaves its own id there.                *)
MutViewNotStored(n, w) == leaderView[n]
ViewOnElection(n, w) == IF w = n THEN w ELSE leaderView[n]

(* The end of handle_election: nothing of the old term is kept.             *)
MutKeepVotes(n) ==
  /\ candidates' = [candidates EXCEPT ![n] = <<>>]
  /\ votes' = votes
MutKeepCandidates(n) ==
  /\ candidates' = [candidates EXCEPT ![n] = UpdateCandidate(@, n, metrics[n])]
  /\ votes' = [votes EXCEPT ![n] = {}]
EndTerm(n) ==
  /\ candidates' = [candidates EXCEPT ![n] = <<>>]
  /\ votes' = [votes EXCEPT ![n] = {}]

(* The static CURRENT_LEADER_ID of a process that starts again.             *)
MutViewKept(n) == leaderView[n]
ViewAfterCrash(n) == InitialLeaderId
-------------------------------------------------------------------------------
Init ==
  /\ running = [n \in Node |-> TRUE]
  /\ state = [n \in Node |-> "Follower"]
  /\ metrics \in [Node -> Metrics]
  /\ \A n \in Node : metrics[n] \in Reports[n]
  /\ votes = [n \in Node |-> {}]
  /\ candidates = [n \in Node |-> <<>>]
  /\ listening = {}
  /\ leaderView = [n \in Node |-> InitialLeaderId]
  /\ net = [m \in {} |-> 0]
  /\ crashes = 0
  /\ elected = {}
  /\ named = {}
  /\ voted = {}

(* run_leader, first half of the loop: measure, then broadcast a heartbeat. *)
LeaderHeartbeat(n) ==
  /\ running[n] /\ state[n] = "Leader" /\ n \notin listening
  /\ \E m \in Reports[n] :
       /\ metrics' = [metrics EXCEPT ![n] = m]
       /\ Broadcast(net, HeartbeatsOf(n, m, candidates[n]))
  /\ listening' = listening \cup {n}
  /\ UNCHANGED <<running, state, votes, candidates, leaderView, crashes,
                 history>>

(* run_leader, second half: accept times out after a second...              *)
LeaderHearsNothing(n) ==
  /\ running[n] /\ state[n] = "Leader" /\ n \in listening
  /\ listening' = listening \ {n}
  /\ UNCHANGED <<running, state, metrics, votes, candidates, leaderView, net,
                 crashes, history>>

(* ... or brings a negative vote, from whomever and whenever it was cast... *)
LeaderCountsVote(n, msg) ==
  /\ running[n] /\ state[n] = "Leader" /\ n \in listening
  /\ msg \in InFlight /\ msg.to = n /\ msg.type = "NegativeVote"
  /\ net' = Remove(net, msg)
  /\ votes' = [votes EXCEPT ![n] = @ \cup {msg.from}]
  /\ candidates' =
       [candidates EXCEPT ![n] = UpdateCandidate(@, msg.from, msg.metrics)]
  /\ state' = [state EXCEPT ![n] =
                 IF Cardinality(votes'[n]) >= StepDownVotes
                 THEN "DefactoLeader" ELSE @]
  /\ listening' = listening \ {n}
  /\ UNCHANGED <<running, metrics, leaderView, crashes, history>>

(* ... or any other message, which a leader drops: it neither follows       *)
(* another leader's heartbeat nor the result of another's election.         *)
LeaderIgnores(n, msg) ==
  /\ running[n] /\ state[n] = "Leader" /\ n \in listening
  /\ msg \in InFlight /\ msg.to = n /\ msg.type # "NegativeVote"
  /\ net' = Remove(net, msg)
  /\ listening' = listening \ {n}
  /\ UNCHANGED <<running, state, metrics, votes, candidates, leaderView,
                 crashes, history>>

(* run_follower: no heartbeat for heartbeat_timeout (5 to 24 s).  Messages  *)
(* have no bound on their delay, so this may happen at any time.            *)
FollowerTimeout(n) ==
  /\ running[n] /\ state[n] = "Follower"
  /\ state' = [state EXCEPT ![n] = "DefactoLeader"]
  /\ UNCHANGED <<running, metrics, votes, candidates, listening, leaderView,
                 net, crashes, history>>

(* run_follower, Heartbeat: adopt the sender as leader and its candidates,  *)
(* and broadcast a negative vote with fresh metrics if the follower's own,  *)
(* old ones are better than the leader's.                                   *)
FollowerHeartbeat(n, msg) ==
  /\ running[n] /\ state[n] = "Follower"
  /\ msg \in InFlight /\ msg.to = n /\ msg.type = "Heartbeat"
  /\ leaderView' = [leaderView EXCEPT ![n] = msg.from]
  /\ candidates' = [candidates EXCEPT ![n] = msg.candidates]
  /\ \/ /\ ShouldCastNegativeVote(metrics[n], msg.metrics)
        /\ \E m \in Reports[n] : Broadcast(Remove(net, msg), VotesOf(n, m))
        /\ voted' = voted \cup {n}
     \/ /\ ~ ShouldCastNegativeVote(metrics[n], msg.metrics)
        /\ net' = Remove(net, msg)
        /\ voted' = voted
  /\ UNCHANGED <<running, state, metrics, votes, listening, crashes, elected,
                 named>>

(* run_follower, ElectionResult: believed whoever sent it and however old.  *)
FollowerResult(n, msg) ==
  /\ running[n] /\ state[n] = "Follower"
  /\ msg \in InFlight /\ msg.to = n /\ msg.type = "ElectionResult"
  /\ net' = Remove(net, msg)
  /\ leaderView' = [leaderView EXCEPT ![n] = msg.new_leader_id]
  /\ state' = [state EXCEPT ![n] = StateOnResult(n, msg.new_leader_id)]
  /\ UNCHANGED <<running, metrics, votes, candidates, listening, crashes,
                 history>>

(* run_follower, any other message is dropped.                              *)
FollowerIgnores(n, msg) ==
  /\ running[n] /\ state[n] = "Follower"
  /\ msg \in InFlight /\ msg.to = n /\ msg.type = "NegativeVote"
  /\ net' = Remove(net, msg)
  /\ UNCHANGED <<node, crashes, history>>

(* handle_election: enter the list with fresh metrics, name a leader, tell  *)
(* the others, and lead or follow.  No message is read meanwhile.           *)
HandleElection(n) ==
  /\ running[n] /\ state[n] = "DefactoLeader"
  /\ \E m \in Reports[n] :
     \E w \in Electable(UpdateCandidate(candidates[n], n, m)) :
       /\ Broadcast(net, ResultsOf(n, w))
       /\ elected' = elected \cup {w}
       /\ named' = named \cup ({w} \ {n})
       /\ state' = [state EXCEPT ![n] =
                      IF w = n THEN "Leader" ELSE "Follower"]
       /\ leaderView' = [leaderView EXCEPT ![n] = ViewOnElection(n, w)]
  /\ EndTerm(n)
  /\ UNCHANGED <<running, metrics, listening, crashes, voted>>

(* A message is never delivered: the connection fails or times out.         *)
Lose(msg) ==
  /\ net' = Remove(net, msg)
  /\ UNCHANGED <<node, crashes, history>>

(* The process of n stops (Ctrl+C or a crash): its state is gone.  What it  *)
(* has sent may arrive all the same; Lose drops what dies with its tasks.   *)
Crash(n) ==
  /\ running[n] /\ crashes < MaxCrashes
  /\ running' = [running EXCEPT ![n] = FALSE]
  /\ crashes' = crashes + 1
  /\ state' = [state EXCEPT ![n] = "Follower"]
  /\ votes' = [votes EXCEPT ![n] = {}]
  /\ candidates' = [candidates EXCEPT ![n] = <<>>]
  /\ listening' = listening \ {n}
  /\ leaderView' = [leaderView EXCEPT ![n] = ViewAfterCrash(n)]
  /\ UNCHANGED <<net, metrics, history>>

(* Node::new in a new process.                                              *)
Restart(n) ==
  /\ ~ running[n]
  /\ running' = [running EXCEPT ![n] = TRUE]
  /\ \E m \in Reports[n] : metrics' = [metrics EXCEPT ![n] = m]
  /\ UNCHANGED <<state, votes, candidates, listening, leaderView, net, crashes,
                 history>>

Next ==
  \/ \E n \in Node :
       \/ LeaderHeartbeat(n) \/ LeaderHearsNothing(n)
       \/ FollowerTimeout(n) \/ HandleElection(n)
       \/ Crash(n) \/ Restart(n)
  \/ \E msg \in InFlight :
       \/ LeaderCountsVote(msg.to, msg) \/ LeaderIgnores(msg.to, msg)
       \/ FollowerHeartbeat(msg.to, msg) \/ FollowerResult(msg.to, msg)
       \/ FollowerIgnores(msg.to, msg)
       \/ Lose(msg)

Spec == Init /\ [][Next]_vars

(* When nobody leads, the heartbeats in flight run out and a follower's     *)
(* timer expires; run calls handle_election as soon as state asks for it.   *)
Leads(n) == running[n] /\ state[n] = "Leader"
NoLeader == \A n \in Node : ~ Leads(n)

Fairness ==
  \A n \in Node : /\ WF_vars(NoLeader /\ FollowerTimeout(n))
                  /\ WF_vars(HandleElection(n))

FairSpec == Spec /\ Fairness
-------------------------------------------------------------------------------
(* Properties.                                                              *)

(* What main.rs reads: a node exports its service while CURRENT_LEADER_ID   *)
(* holds its own id (main.rs:81 and main.rs:208).                           *)
Serves(n) == running[n] /\ leaderView[n] = n

(* Whoever leads also serves, through both ways of becoming the leader:     *)
(* winning one's own election and being named by another node's.            *)
LeadersServe == \A n \in Node : Leads(n) => Serves(n)

(* Votes are those of the present term: a node that follows holds none, a   *)
(* leader fewer than two, and a node about to hold an election either two   *)
(* (it was voted out) or none (it timed out).  A vote left over from an     *)
(* earlier term would let one node unseat a leader.                         *)
VotesOfOneTerm ==
  \A n \in Node :
    /\ n \notin votes[n]
    /\ state[n] = "Follower" => votes[n] = {}
    /\ state[n] = "Leader" => Cardinality(votes[n]) < StepDownVotes
    /\ state[n] = "DefactoLeader" => Cardinality(votes[n]) \in {0, StepDownVotes}

(* LeadersServe and VotesOfOneTerm made inductive: a stopped process        *)
(* neither leads nor remembers a leader, and nobody sends itself a message, *)
(* so no leader can count a vote of its own.                                *)
TermInv ==
  /\ LeadersServe
  /\ VotesOfOneTerm
  /\ \A n \in Node : ~ running[n] => /\ state[n] = "Follower"
                                    /\ leaderView[n] = InitialLeaderId
  /\ \A n \in Node : IsFiniteSet(votes[n])
  /\ \A m \in InFlight : m.from # m.to

(* Every voter is in the running to succeed: the list a leader broadcasts   *)
(* and elects from holds all whose votes it has counted.                    *)
VotersStand == \A n \in Node : votes[n] \subseteq CandidateIds(candidates[n])

Distinct(c) == \A i, j \in DOMAIN c : c[i].id = c[j].id => i = j

(* No list, at a node or in a heartbeat, has two entries for one node: one  *)
(* of them would be stale, and max_by could elect the node for it.          *)
CandidatesDistinct ==
  /\ \A n \in Node : Distinct(candidates[n])
  /\ \A m \in InFlight : m.type = "Heartbeat" => Distinct(m.candidates)

(* Authority comes from elections only: whoever leads, or is believed to    *)
(* lead anywhere, or announces itself or is announced in a message still in *)
(* flight, was named by an election.                                        *)
OnlyElectedLead ==
  /\ \A n \in Node : state[n] = "Leader" => n \in elected
  /\ \A n \in Node : leaderView[n] \in elected \cup {InitialLeaderId}
  /\ \A m \in InFlight :
       /\ m.type = "Heartbeat" => m.from \in elected
       /\ m.type = "ElectionResult" => m.new_leader_id \in elected

(* A list of candidates holds only nodes that cast a negative vote; the     *)
(* node that holds an election enters it for that election only.            *)
CandidatesHaveVoted ==
  /\ \A n \in Node : votes[n] \cup CandidateIds(candidates[n]) \subseteq voted
  /\ \A m \in InFlight :
       /\ m.type = "Heartbeat" => CandidateIds(m.candidates) \subseteq voted
       /\ m.type = "NegativeVote" => m.from \in voted

(* Nobody is drafted: another node's election names only nodes that once    *)
(* found themselves less loaded than a leader.                              *)
NobodyDrafted == named \subseteq voted

(* Whatever random factors the scores of a and b are multiplied with, that  *)
(* of a is the greater one.                                                 *)
Beats(a, b) ==
  \A f, g \in 98 .. 102 : f * (100 - a.load) > g * (100 - b.load)

(* An election has a result, and the random factors, drawn anew in every    *)
(* comparison, do not make it arbitrary: a candidate that beats all others  *)
(* is the one that is named, and nobody is named whom a candidate behind it *)
(* in the list beats.  (One that is beaten by a candidate before it can be  *)
(* named, through others in between.)                                       *)
Decides(c) ==
  /\ Electable(c) # {}
  /\ \A i \in DOMAIN c :
       (\A j \in DOMAIN c \ {i} : Beats(c[i].metrics, c[j].metrics))
         => Electable(c) = {c[i].id}
  /\ \A w \in Electable(c) : \E i \in DOMAIN c :
       /\ c[i].id = w
       /\ \A j \in DOMAIN c : j > i => ~ Beats(c[j].metrics, c[i].metrics)

ElectionsDecide ==
  \A n \in Node : state[n] = "DefactoLeader" =>
    \A m \in Reports[n] : Decides(UpdateCandidate(candidates[n], n, m))

(* A leader steps down only on the votes of two other nodes, all of them    *)
(* counted in the term it steps down from; no message of another leader     *)
(* and no result of another election ends a term.                           *)
TermsEndByTwoVotes ==
  [][\A n \in Node :
       /\ ~ Leads(n) /\ Leads(n)' => votes'[n] = {}
       /\ Leads(n) /\ ~ Leads(n)' /\ running'[n] =>
            /\ state'[n] = "DefactoLeader"
            /\ Cardinality(votes'[n] \ {n}) = 2]_vars

(* A node that follows and yet serves can only be a leader that has just    *)
(* named another one: no message and no timeout leads there.                *)
StaleServiceFromHandover ==
  [][\A n \in Node :
       /\ Serves(n)' /\ state'[n] = "Follower"
       /\ ~ (Serves(n) /\ state[n] = "Follower")
       => state[n] = "DefactoLeader"]_vars

(* main.rs:218 says that a service is exported only "if this node is the    *)
(* leader".  Not so: a leader that was voted out goes on serving.           *)
ServesOnlyIfLeader ==
  \A n \in Node : Serves(n) => state[n] # "Follower"

(* While a process is up there is a leader again and again, although an     *)
(* election may name a dead node and its result may be lost.                *)
LeaderAgain == []<>(~ NoLeader)
===============================================================================
