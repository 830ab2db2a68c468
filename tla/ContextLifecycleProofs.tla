------------------------- MODULE ContextLifecycleProofs -------------------------
(***************************************************************************)
(* Theorems about ContextLifecycle, for any finite set of requests, any    *)
(* objects and proxies, and any users.                                     *)
(***************************************************************************)
EXTENDS ContextLifecycle, FiniteSetTheorems, TLAPS

Cleared == {"cleared", "stopped", "unwrapped"}
Stopped == {"stopped", "unwrapped", "unwinding", "panicked", "done"}
Joined == {"joined", "quiet", "cleared"} \cup Stopped

(* The order in which things end: the transport, the multiplexer, the       *)
(* server, the port.                                                        *)
OrderInv ==
  /\ mux = "ended" => ~open
  /\ owner \in Joined => mux = "ended"
  /\ server # "on" => mux = "ended" /\ \A j \in Job : job[j] # "channel"
  /\ server = "ended" => count = 0
  /\ owner \in Stopped => server = "ended"
  /\ port # "shared" => owner \in {"unwrapped", "panicked", "done"}
  /\ port = "left" => owner = "panicked"

CountInv == count = Cardinality(Counted)

(* Whatever goes wrong is due to somebody who was under way.                *)
HandInv ==
  /\ ~open => /\ \A j \in Job : job[j] \notin {"new", "left"} => j \in inHand
              /\ \A u \in User : user[u] \in {"calling", "returning", "unwinding"}
                                   => u \in inHand
  /\ owner = "unwinding" \/ late # {} => inHand # {}
  /\ QuietDrop

LateInv ==
  /\ owner \in Cleared => registered \subseteq late
  /\ orphan \subseteq late

Inv == TypeOK /\ OrderInv /\ CountInv /\ HandInv /\ LateInv

JobState == {"new", "channel", "queued", "running", "nested", "called",
             "removing", "deleting", "leaving", "left", "lost"}

LEMMA CountedFinite ==
  /\ IsFiniteSet(Job) /\ IsFiniteSet(Counted) /\ Counted \in SUBSET Job
  /\ Cardinality(Counted) \in 0 .. Cardinality(Job) /\ Cardinality(Job) \in Nat
  <1>1. Counted \in SUBSET Job /\ IsFiniteSet(Job)
    BY LifecycleAssumption DEF Counted
  <1>2. IsFiniteSet(Counted) /\ Cardinality(Counted) <= Cardinality(Job)
    BY <1>1, FS_Subset
  <1>3. Cardinality(Counted) \in Nat /\ Cardinality(Job) \in Nat
    BY <1>1, <1>2, FS_CardinalityType
  <1> QED
    BY <1>1, <1>2, <1>3

LEMMA CountedFiniteNext == Cardinality(Counted') \in 0 .. Cardinality(Job)
  <1>1. Counted' \in SUBSET Job /\ IsFiniteSet(Job)
    BY LifecycleAssumption DEF Counted
  <1>2. IsFiniteSet(Counted') /\ Cardinality(Counted') <= Cardinality(Job)
    BY <1>1, FS_Subset
  <1>3. Cardinality(Counted') \in Nat /\ Cardinality(Job) \in Nat
    BY <1>1, <1>2, FS_CardinalityType
  <1> QED
    BY <1>2, <1>3

(* Where the server has ended there is no job.                              *)
LEMMA NoJobs ==
  ASSUME Inv
  PROVE  /\ count = 0 <=> Counted = {}
         /\ server = "ended" => \A j \in Job : job[j] \in {"new", "left"}
  <1>1. count = 0 <=> Counted = {}
    BY CountedFinite, FS_EmptySet DEF Inv, CountInv
  <1>2. server = "ended" => \A j \in Job : job[j] \in {"new", "left"}
    BY <1>1 DEF Inv, OrderInv, Counted
  <1> QED
    BY <1>1, <1>2

LEMMA InitInv == Init => Inv
  <1> SUFFICES ASSUME Init PROVE Inv
    OBVIOUS
  <1>1. Counted = {}
    BY DEF Init, Counted
  <1>2. CountInv
    BY <1>1, FS_EmptySet DEF Init, CountInv
  <1>3. registered \subseteq Object
    BY LifecycleAssumption DEF Init
  <1>4. count \in 0 .. Cardinality(Job)
    BY CountedFinite DEF Init
  <1>5. TypeOK
    BY <1>3, <1>4 DEF Init, TypeOK
  <1> QED
    BY <1>2, <1>5 DEF Init, Inv, OrderInv, HandInv, LateInv, QuietDrop, Joined, Stopped, Cleared
-------------------------------------------------------------------------------
(* A job takes a step.                                                      *)
LEMMA JobStep ==
  ASSUME Inv, NEW j \in Job, NEW to \in JobState \ {"new", "channel"},
         Goes(j, job[j], to), job[j] \notin {"new", "left"},
         count' = Cardinality(Counted'), registered' \subseteq Object,
         \/ registered' \subseteq registered /\ late' = late
         \/ late' = IF owner \in Cleared THEN late \cup (registered' \ registered) ELSE late,
         late' \subseteq Object
  PROVE  Inv'
  <1>1. /\ alive /\ job' = [job EXCEPT ![j] = to]
        /\ UNCHANGED <<alive, owner, open, mux, server, client, noDrop, port, user,
                       orphan, inHand>>
    BY DEF Goes, threads
  <1>2. \A i \in Job : job'[i] = IF i = j THEN to ELSE job[i]
    BY <1>1 DEF Inv, TypeOK
  <1>3. server # "ended"
    BY NoJobs
  <1>4. TypeOK'
    <2>1. job' \in [Job -> JobState]
      BY <1>1 DEF Inv, TypeOK, JobState
    <2> QED
      BY <1>1, <2>1, CountedFiniteNext DEF Inv, TypeOK, JobState
  <1>5. OrderInv'
    BY <1>1, <1>2, <1>3 DEF Inv, OrderInv
  <1>6. CountInv'
    BY DEF CountInv
  <1>7. HandInv'
    <2>1. ~open => j \in inHand
      BY DEF Inv, HandInv
    <2>2. owner \in Cleared => inHand # {}
      BY <2>1 DEF Inv, OrderInv, Cleared, Joined, Stopped
    <2>3. late' # {} => inHand # {}
      BY <2>2 DEF Inv, HandInv
    <2> QED
      BY <1>1, <1>2, <2>1, <2>3 DEF Inv, HandInv, QuietDrop
  <1>8. LateInv'
    BY <1>1 DEF Inv, LateInv
  <1> QED
    BY <1>4, <1>5, <1>6, <1>7, <1>8 DEF Inv

(* It is counted as before, when it was and stays counted.                  *)
LEMMA StaysCounted ==
  ASSUME Inv, NEW j \in Job, NEW to \in JobState \ {"new", "channel", "left"},
         job' = [job EXCEPT ![j] = to], job[j] \notin {"new", "channel", "left"},
         count' = count
  PROVE  count' = Cardinality(Counted')
  <1>1. Counted' = Counted
    BY DEF Inv, TypeOK, Counted
  <1> QED
    BY <1>1 DEF Inv, CountInv

LEMMA CountStep ==
  ASSUME Inv, NEW j \in Job, Count(j)
  PROVE  Inv'
  <1>1. /\ alive /\ job[j] = "channel" /\ job' = [job EXCEPT ![j] = "queued"]
        /\ count' = count + 1
        /\ UNCHANGED <<alive, owner, open, threads, registered, late, noDrop, port,
                       user, orphan, inHand>>
    BY DEF Count
  <1>2. Counted' = Counted \cup {j} /\ j \notin Counted
    BY <1>1 DEF Inv, TypeOK, Counted
  <1>3. count' = Cardinality(Counted')
    BY <1>1, <1>2, CountedFinite, FS_AddElement DEF Inv, CountInv
  <1>4. Goes(j, job[j], "queued")
    BY <1>1 DEF Goes
  <1>5. registered' \subseteq Object /\ late' \subseteq Object
    BY <1>1 DEF Inv, TypeOK
  <1> QED
    BY <1>1, <1>3, <1>4, <1>5, JobStep DEF JobState

LEMMA CountDownStep ==
  ASSUME Inv, NEW j \in Job, CountDown(j)
  PROVE  Inv'
  <1>1. /\ job[j] = "leaving" /\ Goes(j, job[j], "left") /\ job' = [job EXCEPT ![j] = "left"]
        /\ count' = count - 1 /\ UNCHANGED <<registered, late>>
    BY DEF CountDown, Goes
  <1>2. Counted' = Counted \ {j} /\ j \in Counted
    BY <1>1 DEF Inv, TypeOK, Counted
  <1>3. count' = Cardinality(Counted')
    BY <1>1, <1>2, CountedFinite, FS_RemoveElement DEF Inv, CountInv
  <1>4. registered' \subseteq Object /\ late' \subseteq Object
    BY <1>1 DEF Inv, TypeOK
  <1> QED
    BY <1>1, <1>3, <1>4, JobStep DEF JobState

(* The steps that leave the registry alone.                                 *)
LEMMA PlainStep ==
  ASSUME Inv, NEW j \in Job,
         \/ Start(j) \/ CallOut(j) \/ Answered(j) \/ NotAnswered(j)
         \/ Removed(j) \/ ProxyDeleted(j) \/ ProxyNotDeleted(j)
  PROVE  Inv'
  <1>1. PICK to \in {"running", "nested", "called", "lost", "deleting", "leaving"} :
          /\ Goes(j, job[j], to)
          /\ job[j] \in {"queued", "running", "nested", "removing", "deleting"}
          /\ UNCHANGED <<count, registered, late>>
    BY DEF Start, CallOut, Answered, NotAnswered, Removed, AfterRelease, ProxyDeleted,
           ProxyNotDeleted, Goes
  <1>2. count' = Cardinality(Counted')
    BY <1>1, StaysCounted DEF Goes, JobState
  <1>3. registered' \subseteq Object /\ late' \subseteq Object
    BY <1>1 DEF Inv, TypeOK
  <1> QED
    BY <1>1, <1>2, <1>3, JobStep DEF JobState

LEMMA ReturnStep ==
  ASSUME Inv, NEW j \in Job, Return(j)
  PROVE  Inv'
  <1>1. PICK to \in {"deleting", "leaving"} :
          Goes(j, job[j], to) /\ job[j] \in {"running", "called"}
    BY DEF Return, AfterRelease
  <1>2. count' = Cardinality(Counted')
    BY <1>1, StaysCounted DEF Goes, JobState, Return
  <1>3. registered' \subseteq Object
    BY LifecycleAssumption DEF Return, Inv, TypeOK
  <1>4. late' = IF owner \in Cleared THEN late \cup (registered' \ registered) ELSE late
    BY DEF Return, Cleared
  <1>5. late' \subseteq Object
    BY <1>3, <1>4 DEF Inv, TypeOK
  <1> QED
    BY <1>1, <1>2, <1>3, <1>4, <1>5, JobStep DEF JobState

LEMMA DeleteStep ==
  ASSUME Inv, NEW j \in Job, DeleteObject(j)
  PROVE  Inv'
  <1>1. PICK to \in {"removing", "lost"} :
          Goes(j, job[j], to) /\ job[j] = "queued"
    BY DEF DeleteObject, Goes
  <1>2. UNCHANGED <<count, late>> /\ registered' \subseteq registered
    BY DEF DeleteObject
  <1>3. count' = Cardinality(Counted')
    BY <1>1, <1>2, StaysCounted DEF Goes, JobState
  <1>4. registered' \subseteq Object /\ late' \subseteq Object
    BY <1>2 DEF Inv, TypeOK
  <1> QED
    BY <1>1, <1>2, <1>3, <1>4, JobStep DEF JobState

LEMMA DeliverStep ==
  ASSUME Inv, NEW j \in Job, Deliver(j)
  PROVE  Inv'
  <1>1. /\ alive /\ mux = "on" /\ job[j] = "new" /\ job' = [job EXCEPT ![j] = "channel"]
        /\ inHand' = IF open THEN inHand ELSE inHand \cup {j}
        /\ UNCHANGED <<alive, owner, open, mux, server, client, count, registered, late,
                       noDrop, port, user, orphan>>
    BY DEF Deliver, threads
  <1>2. \A i \in Job : job'[i] = IF i = j THEN "channel" ELSE job[i]
    BY <1>1 DEF Inv, TypeOK
  <1>3. Counted' = Counted
    BY <1>1, <1>2 DEF Counted
  <1>4. TypeOK'
    BY <1>1 DEF Inv, TypeOK
  <1>5. OrderInv'
    BY <1>1, <1>2 DEF Inv, OrderInv
  <1>6. CountInv'
    BY <1>1, <1>3 DEF Inv, CountInv
  <1>7. HandInv' /\ LateInv'
    BY <1>1, <1>2 DEF Inv, HandInv, LateInv, QuietDrop
  <1> QED
    BY <1>4, <1>5, <1>6, <1>7 DEF Inv
-------------------------------------------------------------------------------
LEMMA ThreadStep ==
  ASSUME Inv, Thread
  PROVE  Inv'
  <1>1. UNCHANGED <<alive, owner, open, jobs, noDrop, port, user, orphan, inHand>>
    BY DEF Thread, MuxEnds, ServerDrains, ServerEnds, ClientEnds
  <1>2. TypeOK'
    <2>1. CASE MuxEnds
      BY <2>1 DEF MuxEnds, Inv, TypeOK, jobs
    <2>2. CASE ServerDrains
      BY <2>2 DEF ServerDrains, Inv, TypeOK, jobs
    <2>3. CASE ServerEnds
      BY <2>3 DEF ServerEnds, Inv, TypeOK, jobs
    <2>4. CASE ClientEnds
      BY <2>4 DEF ClientEnds, Inv, TypeOK, jobs
    <2> QED
      BY <2>1, <2>2, <2>3, <2>4 DEF Thread
  <1>3. OrderInv'
    <2>1. CASE MuxEnds
      BY <1>1, <2>1 DEF Inv, OrderInv, jobs, MuxEnds
    <2>2. CASE ServerDrains
      BY <1>1, <2>2 DEF Inv, OrderInv, jobs, ServerDrains
    <2>3. CASE ServerEnds
      BY <1>1, <2>3 DEF Inv, OrderInv, jobs, ServerEnds
    <2>4. CASE ClientEnds
      BY <1>1, <2>4 DEF Inv, OrderInv, jobs, ClientEnds
    <2> QED
      BY <2>1, <2>2, <2>3, <2>4 DEF Thread
  <1>4. CountInv' /\ HandInv' /\ LateInv'
    BY <1>1 DEF Inv, CountInv, Counted, HandInv, QuietDrop, LateInv, jobs
  <1> QED
    BY <1>2, <1>3, <1>4 DEF Inv

(* The transport closes, be it closed already.                              *)
LEMMA CloseStep ==
  ASSUME Inv, alive, CloseTransport, owner' \in {owner, "dropping"},
         owner' # owner => owner = "using",
         UNCHANGED <<alive, threads, jobs, noDrop, port, user, orphan>>
  PROVE  Inv'
  <1>1. open' = FALSE /\ inHand \subseteq inHand' /\ inHand' \subseteq Job \cup User
    BY DEF CloseTransport, UnderWay, Inv, TypeOK, Holders
  <1>2. TypeOK'
    <2>1. /\ UNCHANGED <<alive, mux, server, client, count, job, registered, late,
                         noDrop, port, user, orphan>>
          /\ owner' = owner \/ owner' = "dropping"
      BY DEF threads, jobs
    <2> QED
      BY <1>1, <2>1 DEF Inv, TypeOK
  <1>3. OrderInv'
    BY <1>1 DEF Inv, OrderInv, threads, jobs, Joined, Stopped
  <1>4. HandInv'
    <2>1. \A j \in Job : job[j] \notin {"new", "left"} => j \in inHand'
      BY DEF CloseTransport, UnderWay, Inv, HandInv
    <2>2. \A u \in User : user[u] \in {"calling", "returning", "unwinding"} => u \in inHand'
      BY DEF CloseTransport, Holders, Inv, HandInv
    <2> QED
      BY <1>1, <2>1, <2>2 DEF Inv, HandInv, QuietDrop, jobs
  <1>5. CountInv' /\ LateInv'
    BY DEF Inv, CountInv, Counted, LateInv, jobs, Cleared
  <1> QED
    BY <1>2, <1>3, <1>4, <1>5 DEF Inv

LEMMA UserStep ==
  ASSUME Inv, NEW u \in User, Use(u)
  PROVE  Inv'
  <1>1. UNCHANGED <<owner, open, threads, jobs, noDrop, port, orphan>>
    BY DEF Use, CallProxy, DropProxy, UseProxy, CallReturns, CallFails, LetGo
  <1>2. PICK x \in {"calling", "returning", "unwinding", "finished"} :
          user' = [user EXCEPT ![u] = x]
    BY DEF Use, CallProxy, DropProxy, UseProxy, CallReturns, CallFails, LetGo
  <1>3. inHand \subseteq inHand' /\ inHand' \subseteq inHand \cup {u}
    BY DEF Use, CallProxy, DropProxy, UseProxy, CallReturns, CallFails, LetGo
  <1>4. ~open => u \in inHand' \/ user'[u] = "finished"
    BY <1>2, <1>3 DEF Use, CallProxy, DropProxy, UseProxy, CallReturns, CallFails, LetGo,
       Inv, HandInv, TypeOK
  <1>5. /\ alive' \in BOOLEAN
        /\ ~alive' => ~alive \/ port = "left"
    BY DEF Use, CallProxy, DropProxy, UseProxy, CallReturns, CallFails, LetGo, Inv, TypeOK
  <1>6. TypeOK'
    BY <1>1, <1>2, <1>3, <1>5 DEF Inv, TypeOK, threads, jobs
  <1>7. OrderInv'
    BY <1>1 DEF Inv, OrderInv, threads, jobs
  <1>8. HandInv'
    <2>1. \A v \in User : user'[v] = IF v = u THEN x ELSE user[v]
      BY <1>2 DEF Inv, TypeOK
    <2>2. QuietDrop'
      BY <1>1, <1>3, <1>5 DEF Inv, OrderInv, HandInv, QuietDrop
    <2> QED
      BY <1>1, <1>3, <1>4, <2>1, <2>2 DEF Inv, HandInv, jobs
  <1>9. CountInv' /\ LateInv'
    BY <1>1 DEF Inv, CountInv, Counted, LateInv, jobs
  <1> QED
    BY <1>6, <1>7, <1>8, <1>9 DEF Inv
-------------------------------------------------------------------------------
(* The owner's steps that touch neither the registry nor the port.          *)
LEMMA PlainOwnerStep ==
  ASSUME Inv, Wait \/ JoinMux \/ SetNoDrop \/ ShutdownServer \/ UnwrapFails
  PROVE  Inv'
  <1>1. UNCHANGED <<alive, open, user, mux, server, client, count, job, registered, late,
                    port, orphan, inHand>>
    BY DEF Wait, JoinMux, SetNoDrop, ShutdownServer, UnwrapFails, OwnerGoes
  <1>2. TypeOK'
    <2>1. noDrop' \in BOOLEAN
      BY DEF Wait, JoinMux, SetNoDrop, ShutdownServer, UnwrapFails, OwnerGoes, Inv, TypeOK
    <2>2. owner' \in {"waiting", "joined", "quiet", "stopped", "unwinding"}
      BY DEF Wait, JoinMux, SetNoDrop, ShutdownServer, UnwrapFails, OwnerGoes
    <2> QED
      BY <1>1, <2>1, <2>2 DEF Inv, TypeOK
  <1>3. OrderInv'
    <2>1. CASE Wait
      BY <1>1, <2>1 DEF Wait, OwnerGoes, Inv, OrderInv, Joined, Stopped
    <2>2. CASE JoinMux
      BY <1>1, <2>2 DEF JoinMux, OwnerGoes, Inv, OrderInv, Joined, Stopped
    <2>3. CASE SetNoDrop
      BY <1>1, <2>3 DEF SetNoDrop, OwnerGoes, Inv, OrderInv, Joined, Stopped
    <2>4. CASE ShutdownServer
      BY <1>1, <2>4 DEF ShutdownServer, OwnerGoes, Inv, OrderInv, Joined, Stopped
    <2>5. CASE UnwrapFails
      BY <1>1, <2>5 DEF UnwrapFails, OwnerGoes, Inv, OrderInv, Joined, Stopped
    <2> QED
      BY <2>1, <2>2, <2>3, <2>4, <2>5
  <1>4. LateInv'
    BY <1>1 DEF Inv, LateInv, Cleared, Wait, JoinMux, SetNoDrop, ShutdownServer,
       UnwrapFails, OwnerGoes
  <1>5. owner' = "unwinding" => inHand # {}
    <2>1. owner' = "unwinding" => Holders # {} /\ owner = "stopped"
      BY DEF Wait, JoinMux, SetNoDrop, ShutdownServer, UnwrapFails, OwnerGoes
    <2>2. owner = "stopped" => ~open
      BY DEF Inv, OrderInv, Joined, Stopped
    <2>3. ~open => Holders \subseteq inHand
      BY DEF Inv, HandInv, Holders
    <2> QED
      BY <2>1, <2>2, <2>3
  <1>6. owner' # "panicked" /\ owner # "panicked"
    BY DEF Wait, JoinMux, SetNoDrop, ShutdownServer, UnwrapFails, OwnerGoes
  <1>7. HandInv'
    BY <1>1, <1>5, <1>6 DEF Inv, HandInv, QuietDrop
  <1>8. CountInv'
    BY <1>1 DEF Inv, CountInv, Counted
  <1> QED
    BY <1>2, <1>3, <1>4, <1>7, <1>8 DEF Inv

LEMMA ClearRegistryStep ==
  ASSUME Inv, ClearRegistry
  PROVE  Inv'
  <1>1. /\ owner = "quiet" /\ owner' = "cleared" /\ registered' = {}
        /\ UNCHANGED <<alive, user, mux, server, client, count, job, open, late, noDrop,
                       port, inHand>>
    BY DEF ClearRegistry, OwnerGoes
  <1>2. orphan' = orphan
    BY <1>1 DEF ClearRegistry, PortThere, Inv, OrderInv
  <1>3. TypeOK'
    BY <1>1, <1>2 DEF Inv, TypeOK
  <1>4. OrderInv'
    BY <1>1 DEF Inv, OrderInv, Joined, Stopped
  <1>5. CountInv' /\ HandInv' /\ LateInv'
    BY <1>1, <1>2 DEF Inv, CountInv, Counted, HandInv, QuietDrop, LateInv
  <1> QED
    BY <1>3, <1>4, <1>5 DEF Inv

(* The server cannot be shut down in time: somebody is under way.           *)
LEMMA ShutdownTimesOutStep ==
  ASSUME Inv, ShutdownTimesOut
  PROVE  Inv'
  <1>1. /\ owner = "cleared" /\ count # 0 /\ alive' = FALSE
        /\ UNCHANGED <<owner, open, threads, jobs, noDrop, port, user, orphan, inHand>>
    BY DEF ShutdownTimesOut
  <1>2. inHand # {}
    <2>1. ~open
      BY <1>1 DEF Inv, OrderInv, Joined
    <2>2. PICK j \in Job : job[j] \notin {"new", "channel", "left"}
      BY <1>1, NoJobs DEF Counted
    <2> QED
      BY <2>1, <2>2 DEF Inv, HandInv
  <1>3. TypeOK' /\ OrderInv'
    BY <1>1 DEF Inv, TypeOK, OrderInv, threads, jobs
  <1>4. CountInv' /\ HandInv' /\ LateInv'
    BY <1>1, <1>2 DEF Inv, CountInv, Counted, HandInv, QuietDrop, LateInv, jobs
  <1> QED
    BY <1>3, <1>4 DEF Inv

LEMMA UnwrapPortStep ==
  ASSUME Inv, UnwrapPort
  PROVE  Inv'
  <1>1. /\ owner = "stopped" /\ owner' = "unwrapped" /\ port' = "unwrapped"
        /\ UNCHANGED <<alive, user, mux, server, client, count, job, open, registered, late,
                       noDrop, orphan, inHand>>
    BY DEF UnwrapPort, OwnerGoes
  <1>2. TypeOK' /\ OrderInv'
    BY <1>1 DEF Inv, TypeOK, OrderInv, Joined, Stopped
  <1>3. CountInv' /\ HandInv' /\ LateInv'
    BY <1>1 DEF Inv, CountInv, Counted, HandInv, QuietDrop, LateInv, Cleared
  <1> QED
    BY <1>2, <1>3 DEF Inv

LEMMA OwnerLetsGoStep ==
  ASSUME Inv, OwnerLetsGo
  PROVE  Inv'
  <1>1. /\ owner = "unwinding" /\ owner' = "panicked" /\ port' = "left" /\ alive' \in BOOLEAN
        /\ UNCHANGED <<open, threads, jobs, noDrop, user, orphan, inHand>>
    BY DEF OwnerLetsGo
  <1>2. inHand # {}
    BY <1>1 DEF Inv, HandInv
  <1>3. TypeOK'
    BY <1>1 DEF Inv, TypeOK, threads, jobs
  <1>4. OrderInv'
    BY <1>1 DEF Inv, OrderInv, threads, jobs, Joined, Stopped
  <1>5. CountInv' /\ HandInv' /\ LateInv'
    BY <1>1, <1>2 DEF Inv, CountInv, Counted, HandInv, QuietDrop, LateInv, jobs, Cleared
  <1> QED
    BY <1>3, <1>4, <1>5 DEF Inv

LEMMA ShutdownClientStep ==
  ASSUME Inv, ShutdownClient
  PROVE  Inv'
  <1>1. /\ owner = "unwrapped"
        /\ owner' = (IF registered \cap Owns = {} THEN "done" ELSE "panicked")
        /\ port' = "gone" /\ registered' = {}
        /\ orphan' = orphan \cup (registered \cap Owns)
        /\ UNCHANGED <<alive, user, mux, server, client, count, job, open, late, noDrop, inHand>>
    BY DEF ShutdownClient, OwnerGoes
  <1>2. registered \subseteq late
    BY <1>1 DEF Inv, LateInv, Cleared
  <1>3. owner' = "panicked" => inHand # {}
    BY <1>1, <1>2 DEF Inv, HandInv
  <1>4. TypeOK'
    BY <1>1 DEF Inv, TypeOK
  <1>5. OrderInv'
    BY <1>1 DEF Inv, OrderInv, Joined, Stopped
  <1>6. LateInv'
    BY <1>1, <1>2 DEF Inv, LateInv, Cleared
  <1>7. CountInv' /\ HandInv'
    BY <1>1, <1>3 DEF Inv, CountInv, Counted, HandInv, QuietDrop
  <1> QED
    BY <1>4, <1>5, <1>6, <1>7 DEF Inv
-------------------------------------------------------------------------------
LEMMA NextInv == Inv /\ [Next]_vars => Inv'
  <1> SUFFICES ASSUME Inv, [Next]_vars PROVE Inv'
    OBVIOUS
  <1>1. CASE PeerCloses
    BY <1>1, CloseStep DEF PeerCloses
  <1>2. CASE BeginDrop
    <2>1. /\ alive /\ CloseTransport /\ owner' = "dropping" /\ owner = "using"
          /\ UNCHANGED <<alive, threads, jobs, noDrop, port, user, orphan>>
      BY <1>2 DEF BeginDrop, OwnerGoes, threads, jobs
    <2> QED
      BY <2>1, CloseStep
  <1>3. CASE UNCHANGED vars
    <2>1. UNCHANGED <<alive, owner, open, threads, jobs, noDrop, port, user, orphan, inHand>>
      BY <1>3 DEF vars
    <2>2. TypeOK' /\ OrderInv'
      BY <2>1 DEF Inv, TypeOK, OrderInv, threads, jobs
    <2>3. CountInv' /\ HandInv' /\ LateInv'
      BY <2>1 DEF Inv, CountInv, Counted, HandInv, QuietDrop, LateInv, jobs
    <2> QED
      BY <2>2, <2>3 DEF Inv
  <1>4. CASE Drop
    BY <1>4, PlainOwnerStep, ClearRegistryStep, ShutdownTimesOutStep, UnwrapPortStep,
       OwnerLetsGoStep, ShutdownClientStep DEF Drop
  <1>5. ASSUME NEW j \in Job, Deliver(j) \/ Execute(j) PROVE Inv'
    BY <1>5, DeliverStep, CountStep, PlainStep, ReturnStep, DeleteStep, CountDownStep DEF Execute
  <1> QED
    BY <1>1, <1>2, <1>3, <1>4, <1>5, PlainOwnerStep, ThreadStep, UserStep DEF Next

LEMMA Invariance == Spec => []Inv
  BY InitInv, NextInv, PTL DEF Spec
-------------------------------------------------------------------------------
(* Every variable keeps its type: the counter never goes below 0 nor above  *)
(* the number of requests.                                                  *)
THEOREM TypeCorrect == Spec => []TypeOK
  <1>1. Inv => TypeOK
    BY DEF Inv
  <1> QED
    BY <1>1, Invariance, PTL

(* The port outlives every job, and a proxy dropped without it belongs to   *)
(* an object registered after the registry was cleared.                     *)
THEOREM PortsOutliveJobs == Spec => []PortOutlivesJobs
  <1>1. Inv => PortOutlivesJobs
    <2> SUFFICES ASSUME Inv PROVE PortOutlivesJobs
      OBVIOUS
    <2>1. port # "shared" => count = 0
      BY DEF Inv, OrderInv, Stopped
    <2> QED
      BY <2>1, NoJobs DEF Inv, LateInv, PortOutlivesJobs
  <1> QED
    BY <1>1, Invariance, PTL

(* A context that is dropped while nobody is under way is dropped without a *)
(* panic.                                                                   *)
THEOREM QuietDropsSucceed == Spec => []QuietDrop
  <1>1. Inv => QuietDrop
    BY DEF Inv, HandInv
  <1> QED
    BY <1>1, Invariance, PTL
-------------------------------------------------------------------------------
(* The drop of a context ends.  It never waits for what does not come:      *)
(* these are the guards of the context's threads, of the drop itself, and   *)
(* of a job that holds the registry's lock.                                 *)
ThreadGoes ==
  \/ mux = "on" /\ ~open
  \/ server = "on" /\ mux = "ended" /\ \A j \in Job : job[j] # "channel"
  \/ server = "draining" /\ count = 0
  \/ client = "on" /\ mux = "ended"
  \/ \E j \in Job : job[j] = "channel"
DropGoes ==
  \/ owner \in {"dropping", "waiting"} /\ mux = "ended"
  \/ owner \in {"joined", "stopped", "unwinding"}
  \/ owner = "quiet" /\ ~Locked
  \/ owner = "cleared" /\ (server = "ended" \/ count # 0)
  \/ owner = "unwrapped" /\ client = "ended"

RemovalGoes ==
  \E j \in Delete : job[j] = "removing" \/ (job[j] = "deleting" /\ ~open)

Dropping == alive /\ owner \notin {"using", "waiting", "panicked", "done"}
NeverStuck == Dropping => ThreadGoes \/ DropGoes \/ RemovalGoes

ClosedByDrop == owner = "dropping" => ~open

LEMMA ClosedByDropAlways == Spec => []ClosedByDrop
  <1>1. Init => ClosedByDrop
    BY DEF Init, ClosedByDrop
  <1>2. ClosedByDrop /\ [Next]_vars => ClosedByDrop'
    <2> SUFFICES ASSUME ClosedByDrop, [Next]_vars PROVE ClosedByDrop'
      OBVIOUS
    <2> USE DEF ClosedByDrop, threads, jobs
    <2>1. CASE UNCHANGED vars
      BY <2>1 DEF vars
    <2>2. CASE PeerCloses \/ BeginDrop
      BY <2>2 DEF PeerCloses, BeginDrop, CloseTransport
    <2>3. CASE Wait
      BY <2>3 DEF Wait, OwnerGoes
    <2>4. CASE Thread
      BY <2>4 DEF Thread, MuxEnds, ServerDrains, ServerEnds, ClientEnds
    <2>5. CASE Drop
      BY <2>5 DEF Drop, OwnerGoes, JoinMux, SetNoDrop, ClearRegistry, ShutdownServer,
                  ShutdownTimesOut, UnwrapPort, UnwrapFails, OwnerLetsGo, ShutdownClient
    <2>6. ASSUME NEW j \in Job, Deliver(j) \/ Execute(j) PROVE ClosedByDrop'
      BY <2>6 DEF Deliver, Execute, Count, Start, CallOut, Answered, NotAnswered, Return,
                  DeleteObject, Removed, ProxyDeleted, ProxyNotDeleted, CountDown, Goes
    <2>7. ASSUME NEW u \in User, Use(u) PROVE ClosedByDrop'
      BY <2>7 DEF Use, CallProxy, DropProxy, UseProxy, CallReturns, CallFails, LetGo
    <2> QED
      BY <2>1, <2>2, <2>3, <2>4, <2>5, <2>6, <2>7 DEF Next
  <1> QED
    BY <1>1, <1>2, PTL DEF Spec

(* Until the drop is over a thread of the context or the one that drops it  *)
(* has a step to take, or the owner waits for a job that holds the lock of  *)
(* the registry: that job drops a removed object, and no call it waits for  *)
(* then can stay unanswered.  All other jobs, proxies and the other end may *)
(* do what they like.                                                       *)
THEOREM DropNeverSticks == Spec => []NeverStuck
  <1>1. Inv /\ ClosedByDrop => NeverStuck
    <2> SUFFICES ASSUME Inv, ClosedByDrop, Dropping,
                        ~ ThreadGoes, ~ DropGoes, ~ RemovalGoes
                 PROVE  FALSE
      BY DEF NeverStuck
    <2>1. owner \in {"dropping", "quiet", "cleared", "unwrapped"}
      BY DEF Dropping, DropGoes, Inv, TypeOK
    <2>2. mux = "ended"
      BY <2>1 DEF ThreadGoes, ClosedByDrop, Inv, TypeOK, OrderInv, Joined, Stopped
    <2>3. owner # "dropping"
      BY <2>2 DEF DropGoes
    <2>4. client = "ended"
      BY <2>2 DEF ThreadGoes, Inv, TypeOK
    <2>5. owner # "quiet"
      <3>1. ~open
        BY <2>2 DEF Inv, OrderInv
      <3>2. ~Locked
        BY <3>1 DEF Locked, RemovalGoes
      <3> QED
        BY <3>2 DEF DropGoes
    <2>6. owner = "cleared" /\ server # "ended" /\ count = 0
      BY <2>1, <2>3, <2>4, <2>5 DEF DropGoes
    <2> QED
      BY <2>2, <2>6 DEF ThreadGoes, Inv, TypeOK
  <1> QED
    BY <1>1, Invariance, ClosedByDropAlways, PTL

(* And it takes a bounded number of steps.  What is left of them: the       *)
(* requests that may still come and be counted, the removals that may still *)
(* drop an object and those whose delete request may still fail, the steps  *)
(* of the owner, and the ends of the three threads.                         *)
Pending == {j \in Job : job[j] \in {"new", "channel"}}
ToDelete == {j \in Delete : job[j] \notin {"leaving", "left", "lost"}}
ToRemove == {j \in ToDelete : job[j] # "deleting"}
JobsLeft == Cardinality(Pending) + Cardinality(ToRemove) + Cardinality(ToDelete)
OwnerLeft ==
  [using |-> 7, waiting |-> 6, dropping |-> 6, joined |-> 5, quiet |-> 4, cleared |-> 3,
   stopped |-> 2, unwrapped |-> 1, unwinding |-> 1, panicked |-> 0, done |-> 0][owner]
ServerLeft == [on |-> 2, draining |-> 1, ended |-> 0][server]
On(thread) == IF thread = "on" THEN 1 ELSE 0
StepsLeft == JobsLeft + OwnerLeft + ServerLeft + On(mux) + On(client)

OwnStep ==
  \/ Thread \/ Drop \/ \E j \in Job : Count(j)
  \/ \E j \in Delete : Removed(j) \/ ProxyNotDeleted(j)

LEMMA Shrinks ==
  ASSUME NEW S, NEW T, IsFiniteSet(S), T \subseteq S
  PROVE  /\ Cardinality(S) \in Nat /\ Cardinality(T) \in Nat
         /\ Cardinality(T) <= Cardinality(S)
         /\ T # S => Cardinality(T) < Cardinality(S)
  <1>1. IsFiniteSet(T) /\ Cardinality(T) <= Cardinality(S)
    BY FS_Subset
  <1>2. Cardinality(S) \in Nat /\ Cardinality(T) \in Nat
    BY <1>1, FS_CardinalityType
  <1>3. ASSUME T # S PROVE Cardinality(T) < Cardinality(S)
    <2>1. PICK x \in S : x \notin T
      BY <1>3
    <2>2. IsFiniteSet(S \ {x}) /\ Cardinality(S \ {x}) = Cardinality(S) - 1
      BY <2>1, FS_RemoveElement
    <2>3. T \subseteq S \ {x}
      BY <2>1
    <2>4. Cardinality(T) <= Cardinality(S \ {x})
      BY <2>2, <2>3, FS_Subset
    <2> QED
      BY <2>2, <2>4, <1>2
  <1> QED
    BY <1>1, <1>2, <1>3

LEMMA LeftAre ==
  ASSUME TypeOK
  PROVE  /\ OwnerLeft \in 0 .. 7 /\ ServerLeft \in 0 .. 2
         /\ On(mux) \in 0 .. 1 /\ On(client) \in 0 .. 1
         /\ IsFiniteSet(Pending) /\ IsFiniteSet(ToRemove) /\ IsFiniteSet(ToDelete)
         /\ JobsLeft \in Nat
  <1>1. /\ Pending \in SUBSET Job /\ ToRemove \in SUBSET Job /\ ToDelete \in SUBSET Job
    BY LifecycleAssumption DEF Pending, ToRemove, ToDelete
  <1>2. /\ IsFiniteSet(Pending) /\ IsFiniteSet(ToRemove) /\ IsFiniteSet(ToDelete)
    BY <1>1, LifecycleAssumption, FS_Subset
  <1>3. JobsLeft \in Nat
    BY <1>2, FS_CardinalityType DEF JobsLeft
  <1>4. OwnerLeft \in 0 .. 7
    BY DEF TypeOK, OwnerLeft
  <1>5. ServerLeft \in 0 .. 2
    BY DEF TypeOK, ServerLeft
  <1> QED
    BY <1>2, <1>3, <1>4, <1>5 DEF On

(* A request that goes on uses up steps, and adds none.                     *)
LEMMA JobGoesOn ==
  ASSUME TypeOK, NEW j \in Job, NEW to, job' = [job EXCEPT ![j] = to],
         job[j] \notin {"new", "channel"} => to \notin {"new", "channel"},
         job[j] \in {"leaving", "left", "lost"} => to \in {"leaving", "left", "lost"},
         job[j] = "deleting" => to \in {"deleting", "leaving", "left", "lost"}
  PROVE  /\ JobsLeft' \in Nat /\ JobsLeft' <= JobsLeft
         /\ j \in Pending /\ to \notin {"new", "channel"} => JobsLeft' < JobsLeft
         /\ j \in ToRemove /\ to \in {"deleting", "leaving", "left", "lost"}
              => JobsLeft' < JobsLeft
         /\ j \in ToDelete /\ to \in {"leaving", "left", "lost"} => JobsLeft' < JobsLeft
  <1>1. \A i \in Job : job'[i] = IF i = j THEN to ELSE job[i]
    BY DEF TypeOK
  <1>2. Delete \subseteq Job
    BY LifecycleAssumption
  <1>3. Pending' \subseteq Pending /\ ToRemove' \subseteq ToRemove /\ ToDelete' \subseteq ToDelete
    BY <1>1, <1>2 DEF Pending, ToRemove, ToDelete
  <1>4. IsFiniteSet(Pending) /\ IsFiniteSet(ToRemove) /\ IsFiniteSet(ToDelete)
    BY LeftAre
  <1>5. /\ Cardinality(Pending) \in Nat /\ Cardinality(Pending') \in Nat
        /\ Cardinality(Pending') <= Cardinality(Pending)
        /\ Pending' # Pending => Cardinality(Pending') < Cardinality(Pending)
    BY <1>3, <1>4, Shrinks
  <1>6. /\ Cardinality(ToRemove) \in Nat /\ Cardinality(ToRemove') \in Nat
        /\ Cardinality(ToRemove') <= Cardinality(ToRemove)
        /\ ToRemove' # ToRemove => Cardinality(ToRemove') < Cardinality(ToRemove)
    BY <1>3, <1>4, Shrinks
  <1>7. /\ Cardinality(ToDelete) \in Nat /\ Cardinality(ToDelete') \in Nat
        /\ Cardinality(ToDelete') <= Cardinality(ToDelete)
        /\ ToDelete' # ToDelete => Cardinality(ToDelete') < Cardinality(ToDelete)
    BY <1>3, <1>4, Shrinks
  <1>8. /\ to \notin {"new", "channel"} => j \notin Pending'
        /\ to \in {"deleting", "leaving", "left", "lost"} => j \notin ToRemove'
        /\ to \in {"leaving", "left", "lost"} => j \notin ToDelete'
    BY <1>1 DEF Pending, ToRemove, ToDelete
  <1> QED
    BY <1>5, <1>6, <1>7, <1>8 DEF JobsLeft

LEMMA SameJobsLeft ==
  ASSUME job' = job
  PROVE  JobsLeft' = JobsLeft
  BY DEF JobsLeft, Pending, ToRemove, ToDelete

(* The steps of the context's threads and of the drop.                      *)
LEMMA OwnStepsCount ==
  ASSUME Inv, OwnStep
  PROVE  StepsLeft' <= StepsLeft /\ (StepsLeft' < StepsLeft \/ ~alive')
  <1> USE DEF threads, jobs
  <1>0. /\ OwnerLeft \in 0 .. 7 /\ ServerLeft \in 0 .. 2
        /\ On(mux) \in 0 .. 1 /\ On(client) \in 0 .. 1 /\ JobsLeft \in Nat
    BY LeftAre DEF Inv
  <1>1. CASE Thread
    <2>1. job' = job /\ owner' = owner
      BY <1>1 DEF Thread, MuxEnds, ServerDrains, ServerEnds, ClientEnds
    <2>2. JobsLeft' = JobsLeft /\ OwnerLeft' = OwnerLeft
      BY <2>1, SameJobsLeft DEF OwnerLeft
    <2>3. CASE MuxEnds \/ ClientEnds
      <3>1. On(mux)' + On(client)' < On(mux) + On(client) /\ ServerLeft' = ServerLeft
            /\ On(mux)' \in 0 .. 1 /\ On(client)' \in 0 .. 1
        BY <2>3 DEF MuxEnds, ClientEnds, On, ServerLeft
      <3> QED
        BY <3>1, <2>2, <1>0 DEF StepsLeft
    <2>4. CASE ServerDrains \/ ServerEnds
      <3>1. /\ ServerLeft' = ServerLeft - 1 /\ On(mux)' = On(mux)
            /\ On(client)' = On(client)
        BY <2>4 DEF ServerDrains, ServerEnds, On, ServerLeft
      <3> QED
        BY <3>1, <2>2, <1>0 DEF StepsLeft
    <2> QED
      BY <1>1, <2>3, <2>4 DEF Thread
  <1>2. CASE Drop
    <2>1. /\ job' = job /\ ServerLeft' = ServerLeft
          /\ On(mux)' = On(mux) /\ On(client)' = On(client)
      BY <1>2 DEF Drop, JoinMux, SetNoDrop, ClearRegistry, ShutdownServer, ShutdownTimesOut,
                  UnwrapPort, UnwrapFails, OwnerLetsGo, ShutdownClient, OwnerGoes,
                  ServerLeft, On
    <2>2. JobsLeft' = JobsLeft
      BY <2>1, SameJobsLeft
    <2>3. \/ OwnerLeft' = OwnerLeft - 1
          \/ OwnerLeft' = OwnerLeft /\ ~alive'
      BY <1>2 DEF Drop, JoinMux, SetNoDrop, ClearRegistry, ShutdownServer, ShutdownTimesOut,
                  UnwrapPort, UnwrapFails, OwnerLetsGo, ShutdownClient, OwnerGoes, OwnerLeft
    <2> QED
      BY <2>1, <2>2, <2>3, <1>0 DEF StepsLeft
  <1>3. ASSUME NEW j \in Job,
               Count(j) \/ (j \in Delete /\ (Removed(j) \/ ProxyNotDeleted(j)))
        PROVE  StepsLeft' <= StepsLeft /\ StepsLeft' < StepsLeft
    <2>1. JobsLeft' \in Nat /\ JobsLeft' < JobsLeft
      <3>1. CASE Count(j)
        <4>1. job[j] = "channel" /\ job' = [job EXCEPT ![j] = "queued"] /\ j \in Pending
          BY <3>1 DEF Count, Pending
        <4>2. /\ job[j] \notin {"leaving", "left", "lost", "deleting"}
              /\ "queued" \notin {"new", "channel"}
          BY <4>1
        <4>3. TypeOK
          BY DEF Inv
        <4> QED
          BY <4>1, <4>2, <4>3, JobGoesOn
      <3>2. CASE j \in Delete /\ Removed(j)
        <4>1. PICK to \in {"deleting", "leaving"} :
                job[j] = "removing" /\ job' = [job EXCEPT ![j] = to]
          BY <3>2 DEF Removed, AfterRelease, Goes
        <4>2. j \in ToRemove
          BY <3>2, <4>1 DEF ToRemove, ToDelete
        <4>3. CASE to = "deleting"
          BY <4>1, <4>2, <4>3, JobGoesOn DEF Inv
        <4>4. CASE to = "leaving"
          BY <4>1, <4>2, <4>4, JobGoesOn DEF Inv
        <4> QED
          BY <4>1, <4>3, <4>4
      <3>3. CASE j \in Delete /\ ProxyNotDeleted(j)
        <4>1. job[j] = "deleting" /\ job' = [job EXCEPT ![j] = "lost"]
          BY <3>3 DEF ProxyNotDeleted, Goes
        <4>2. j \in ToDelete
          BY <3>3, <4>1 DEF ToDelete
        <4> QED
          BY <4>1, <4>2, JobGoesOn DEF Inv
      <3> QED
        BY <1>3, <3>1, <3>2, <3>3
    <2>2. /\ OwnerLeft' = OwnerLeft /\ ServerLeft' = ServerLeft
          /\ On(mux)' = On(mux) /\ On(client)' = On(client)
      BY <1>3 DEF Count, Removed, ProxyNotDeleted, Goes, OwnerLeft, ServerLeft, On
    <2> QED
      BY <2>1, <2>2, <1>0 DEF StepsLeft
  <1> QED
    BY <1>1, <1>2, <1>3, LifecycleAssumption DEF OwnStep

(* Those of all others.                                                     *)
LEMMA OtherStepsKeep ==
  ASSUME Inv, [Next]_vars, ~ OwnStep
  PROVE  StepsLeft' <= StepsLeft
  <1> USE DEF threads, jobs
  <1>0. /\ OwnerLeft \in 0 .. 7 /\ ServerLeft \in 0 .. 2
        /\ On(mux) \in 0 .. 1 /\ On(client) \in 0 .. 1 /\ JobsLeft \in Nat
    BY LeftAre DEF Inv
  <1>1. ASSUME JobsLeft' \in Nat, JobsLeft' <= JobsLeft, UNCHANGED <<owner, server, mux, client>>
        PROVE  StepsLeft' <= StepsLeft
    BY <1>0, <1>1 DEF StepsLeft, OwnerLeft, ServerLeft, On
  <1>2. ASSUME UNCHANGED <<job, owner, server, mux, client>>
        PROVE  StepsLeft' <= StepsLeft
    BY <1>0, <1>1, <1>2, SameJobsLeft
  <1>3. CASE UNCHANGED vars
    BY <1>2, <1>3 DEF vars
  <1>4. CASE PeerCloses
    BY <1>2, <1>4 DEF PeerCloses
  <1>5. CASE Wait \/ BeginDrop
    <2>1. /\ job' = job /\ ServerLeft' = ServerLeft
          /\ On(mux)' = On(mux) /\ On(client)' = On(client)
      BY <1>5 DEF Wait, BeginDrop, OwnerGoes, ServerLeft, On
    <2>2. OwnerLeft' = OwnerLeft - 1
      BY <1>5 DEF Wait, BeginDrop, OwnerGoes, OwnerLeft
    <2>3. JobsLeft' = JobsLeft
      BY <2>1, SameJobsLeft
    <2> QED
      BY <2>1, <2>2, <2>3, <1>0 DEF StepsLeft
  <1>6. ASSUME NEW u \in User, Use(u) PROVE StepsLeft' <= StepsLeft
    BY <1>2, <1>6 DEF Use, CallProxy, DropProxy, UseProxy, CallReturns, CallFails, LetGo
  <1>7. ASSUME NEW j \in Job, Deliver(j) PROVE StepsLeft' <= StepsLeft
    <2>1. job[j] = "new" /\ job' = [job EXCEPT ![j] = "channel"]
          /\ UNCHANGED <<owner, server, mux, client>>
      BY <1>7 DEF Deliver
    <2>2. JobsLeft' \in Nat /\ JobsLeft' <= JobsLeft
      BY <2>1, JobGoesOn DEF Inv
    <2> QED
      BY <1>1, <2>1, <2>2
  <1>8. ASSUME NEW j \in Job, Execute(j), ~ Count(j) PROVE StepsLeft' <= StepsLeft
    <2>1. UNCHANGED <<owner, server, mux, client>>
      BY <1>8 DEF Execute, Start, CallOut, Answered, NotAnswered, Return,
                  DeleteObject, Removed, ProxyDeleted, ProxyNotDeleted, CountDown, Goes
    <2>2. PICK to :
            /\ job' = [job EXCEPT ![j] = to]
            /\ job[j] \notin {"new", "channel"} /\ to \notin {"new", "channel"}
            /\ job[j] \in {"leaving", "left", "lost"} => to \in {"leaving", "left", "lost"}
            /\ job[j] = "deleting" => to \in {"deleting", "leaving", "left", "lost"}
      BY <1>8 DEF Execute, Start, CallOut, Answered, NotAnswered, Return, AfterRelease,
                  DeleteObject, Removed, ProxyDeleted, ProxyNotDeleted, CountDown, Goes
    <2>3. JobsLeft' \in Nat /\ JobsLeft' <= JobsLeft
      BY <2>2, JobGoesOn DEF Inv
    <2> QED
      BY <1>1, <2>1, <2>3
  <1> QED
    BY <1>3, <1>4, <1>5, <1>6, <1>7, <1>8 DEF Next, OwnStep

(* Each step of the threads, of the drop or of a job that holds the lock    *)
(* uses up one of those that are left, and no other step of anybody adds    *)
(* one: together with DropNeverSticks the drop is over after at most that   *)
(* many, if they go on.                                                     *)
DropsEnd == [][ /\ StepsLeft' <= StepsLeft
                /\ OwnStep => StepsLeft' < StepsLeft \/ ~alive' ]_vars

THEOREM DropStepsAreBounded == Spec => DropsEnd
  <1>1. Inv /\ [Next]_vars =>
          [ /\ StepsLeft' <= StepsLeft
            /\ OwnStep => StepsLeft' < StepsLeft \/ ~alive' ]_vars
    <2> SUFFICES ASSUME Inv, [Next]_vars
                 PROVE  /\ StepsLeft' <= StepsLeft
                        /\ OwnStep => StepsLeft' < StepsLeft \/ ~alive'
      OBVIOUS
    <2> QED
      BY OwnStepsCount, OtherStepsKeep
  <1> QED
    BY <1>1, Invariance, PTL DEF Spec, DropsEnd
===============================================================================
