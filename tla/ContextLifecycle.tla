--------------------------- MODULE ContextLifecycle ---------------------------
(***************************************************************************)
(* The end of a Context, of one end of a remote-trait-object connection    *)
(* (context.rs of src/service_provider/remote-trait-object/src): dropping  *)
(* it, or waiting for the transport to close and dropping it then, while   *)
(* requests of the other end are executed, methods call back and export    *)
(* objects, and threads of the user hold proxies.                          *)
(*                                                                         *)
(* What has to be dropped is shared: the port is an Arc that every call    *)
(* and every drop of a proxy upgrades a weak pointer to for as long as it  *)
(* takes, the service objects are Arcs of the registry and of the jobs     *)
(* that execute their methods, and a service object may own proxies of the *)
(* same context.  The order in Drop is meant to take all that apart:       *)
(* multiplexer, registry, server, port, client.  What a delete request     *)
(* removes is dropped under the write lock of the registry, and whoever    *)
(* needs the registry, the owner included, waits for it.                   *)
(*                                                                         *)
(* RemoteCall.tla models the calls and the threads themselves,             *)
(* ServiceRegistry.tla the ids; here a request is delivered at most once   *)
(* and every user's thread uses its proxy once.                            *)
(***************************************************************************)
EXTENDS Integers, FiniteSets

CONSTANTS Job,        (* the requests of the other end                       *)
          Object,     (* the service objects of this end                     *)
          NoObject,
          User,       (* the user's threads that have a proxy                *)
          Target,     (* Target[j]: the object request j is for              *)
          Delete,     (* the requests that delete it                         *)
          Nested,     (* the requests whose method calls the other end       *)
          Export,     (* Export[j]: the object its answer exports, or none   *)
          Owns        (* the objects that own a proxy of this context        *)

ASSUME LifecycleAssumption ==
  /\ IsFiniteSet(Job)
  /\ NoObject \notin Object
  /\ Job \cap User = {}
  /\ Target \in [Job -> Object]
  /\ Export \in [Job -> Object \cup {NoObject}]
  /\ Delete \subseteq Job /\ Nested \subseteq Job /\ Owns \subseteq Object

VARIABLES
  alive,       (* whether the process lives                                  *)
  owner,       (* how far the thread that drops the context is               *)
  open,        (* whether the transport is open                              *)
  mux,         (* the multiplexer's thread                                   *)
  server,      (* the server's thread                                        *)
  client,      (* the client's thread                                        *)
  count,       (* the server's counter of jobs                               *)
  job,         (* where each request is                                      *)
  registered,  (* service_objects                                            *)
  noDrop,      (* no_drop of the port                                        *)
  port,        (* the port: shared, unwrapped by the owner, left by it, gone *)
  user,        (* where each user's thread is                                *)
  orphan,      (* objects whose proxies were dropped without a port          *)
  late,        (* history: the objects registered after the registry was     *)
               (* cleared                                                    *)
  inHand       (* history: the requests under way when the transport closed  *)
               (* or later, and the users that used a proxy then             *)

threads == <<mux, server, client>>
jobs == <<count, job, registered, late>>
vars == <<alive, owner, open, threads, jobs, noDrop, port, user, orphan, inHand>>

TypeOK ==
  /\ alive \in BOOLEAN /\ open \in BOOLEAN /\ noDrop \in BOOLEAN
  /\ owner \in {"using", "waiting", "dropping", "joined", "quiet", "cleared",
                "stopped", "unwrapped", "unwinding", "panicked", "done"}
  /\ mux \in {"on", "ended"} /\ client \in {"on", "ended"}
  /\ server \in {"on", "draining", "ended"}
  /\ count \in 0 .. Cardinality(Job)
  /\ job \in [Job -> {"new", "channel", "queued", "running", "nested", "called",
                      "removing", "deleting", "leaving", "left", "lost"}]
  /\ registered \subseteq Object
  /\ port \in {"shared", "unwrapped", "left", "gone"}
  /\ user \in [User -> {"idle", "calling", "returning", "unwinding", "finished"}]
  /\ orphan \subseteq Object /\ late \subseteq Object
  /\ inHand \subseteq Job \cup User

(* The objects a request is for are there from the start.                   *)
Init ==
  /\ alive = TRUE /\ owner = "using" /\ open = TRUE
  /\ mux = "on" /\ server = "on" /\ client = "on"
  /\ count = 0
  /\ job = [j \in Job |-> "new"]
  /\ registered = {Target[j] : j \in Job}
  /\ noDrop = FALSE /\ port = "shared"
  /\ user = [u \in User |-> "idle"]
  /\ orphan = {} /\ late = {} /\ inHand = {}

(* Those that hold an upgraded pointer to the port, apart from the owner.   *)
Holders == {u \in User : user[u] \in {"calling", "returning", "unwinding"}}
           \cup {j \in Job : job[j] \in {"nested", "deleting"}}

(* The jobs that hold the object their request is for: they execute its     *)
(* method, or have removed it.                                              *)
Executing == {j \in Job : job[j] \in {"running", "nested", "called", "removing"}}

(* service_objects is locked by the job that drops what it has removed; it  *)
(* is read and written in one step otherwise.                               *)
Locked == \E j \in Delete : job[j] \in {"removing", "deleting"}

Counted == {j \in Job : job[j] \notin {"new", "channel", "left"}}
UnderWay == {j \in Job : job[j] \notin {"new", "left"}}
-------------------------------------------------------------------------------
(* The transport and the threads (RemoteCall.tla has all of their steps).   *)

CloseTransport ==
  /\ open' = FALSE
  /\ inHand' = IF open THEN inHand \cup UnderWay \cup (Holders \cap User)
                       ELSE inHand

PeerCloses ==
  /\ alive /\ open
  /\ CloseTransport
  /\ UNCHANGED <<alive, owner, threads, jobs, noDrop, port, user, orphan>>

(* The multiplexer sends the error to both channels and returns.            *)
MuxEnds ==
  /\ alive /\ ~open /\ mux = "on"
  /\ mux' = "ended"
  /\ UNCHANGED <<alive, owner, open, server, client, jobs, noDrop, port, user,
                 orphan, inHand>>

(* The channel to the server has room for one.                              *)
Deliver(j) ==
  /\ alive /\ mux = "on" /\ job[j] = "new"
  /\ \A i \in Job : job[i] # "channel"
  /\ job' = [job EXCEPT ![j] = "channel"]
  /\ inHand' = IF open THEN inHand ELSE inHand \cup {j}
  /\ UNCHANGED <<alive, owner, open, threads, count, registered, late, noDrop,
                 port, user, orphan>>

Count(j) ==
  /\ alive /\ job[j] = "channel"
  /\ job' = [job EXCEPT ![j] = "queued"]
  /\ count' = count + 1
  /\ UNCHANGED <<alive, owner, open, threads, registered, late, noDrop, port,
                 user, orphan, inHand>>

ServerDrains ==
  /\ alive /\ server = "on" /\ mux = "ended"
  /\ \A j \in Job : job[j] # "channel"
  /\ server' = "draining"
  /\ UNCHANGED <<alive, owner, open, mux, client, jobs, noDrop, port, user,
                 orphan, inHand>>

ServerEnds ==
  /\ alive /\ server = "draining" /\ count = 0
  /\ server' = "ended"
  /\ UNCHANGED <<alive, owner, open, mux, client, jobs, noDrop, port, user,
                 orphan, inHand>>

ClientEnds ==
  /\ alive /\ client = "on" /\ mux = "ended"
  /\ client' = "ended"
  /\ UNCHANGED <<alive, owner, open, mux, server, jobs, noDrop, port, user,
                 orphan, inHand>>
-------------------------------------------------------------------------------
(* A job of the thread pool: handle_single_call and forward_and_call.       *)

Goes(j, from, to) ==
  /\ alive /\ job[j] = from
  /\ job' = [job EXCEPT ![j] = to]
  /\ UNCHANGED <<alive, owner, open, threads, noDrop, port, user, orphan, inHand>>

(* "Fail to find": the job panics and is never counted down.                *)
Start(j) ==
  /\ j \notin Delete /\ ~Locked
  /\ Goes(j, "queued", IF Target[j] \in registered THEN "running" ELSE "lost")
  /\ UNCHANGED <<count, registered, late>>

(* The method calls the other end; it panics when there is no answer.       *)
CallOut(j) ==
  /\ j \in Nested
  /\ Goes(j, "running", "nested")
  /\ UNCHANGED <<count, registered, late>>

Answered(j) ==
  /\ client = "on"
  /\ Goes(j, "nested", "called")
  /\ UNCHANGED <<count, registered, late>>

NotAnswered(j) ==
  /\ ~open
  /\ Goes(j, "nested", "lost")
  /\ UNCHANGED <<count, registered, late>>

(* The last pointer to an object that owns a proxy goes: the proxy sends a  *)
(* delete request, unless no_drop is set.                                   *)
Sends(o) == o \in Owns /\ ~noDrop
AfterRelease(j, rest) ==
  IF Target[j] \notin rest /\ Sends(Target[j])
     /\ ~ \E i \in Executing \ {j} : Target[i] = Target[j]
    THEN "deleting" ELSE "leaving"

(* The result is serialized, which registers the objects in it, and the     *)
(* job's pointer to the object is dropped.                                  *)
Return(j) ==
  LET rest == IF Export[j] = NoObject THEN registered
                                      ELSE registered \cup {Export[j]} IN
  /\ j \notin Nested => job[j] = "running"
  /\ j \in Nested => job[j] = "called"
  /\ Export[j] # NoObject => ~Locked
  /\ Goes(j, job[j], AfterRelease(j, rest))
  /\ registered' = rest
  /\ late' = IF owner \in {"cleared", "stopped", "unwrapped"}
               THEN late \cup (rest \ registered) ELSE late
  /\ UNCHANGED count

(* remove(&id).unwrap() panics when the registry has been cleared.          *)
DeleteObject(j) ==
  /\ j \in Delete /\ ~Locked
  /\ Goes(j, "queued", IF Target[j] \in registered THEN "removing" ELSE "lost")
  /\ registered' = registered \ {Target[j]}
  /\ UNCHANGED <<count, late>>

(* The removed pointer is dropped before the lock is released: after the    *)
(* object's own Drop, when it is the last one, the proxies it owns go.      *)
Removed(j) ==
  /\ Goes(j, "removing", AfterRelease(j, registered))
  /\ UNCHANGED <<count, registered, late>>

ProxyDeleted(j) ==
  /\ client = "on"
  /\ Goes(j, "deleting", "leaving")
  /\ UNCHANGED <<count, registered, late>>

MutNeverFails(j) ==
  /\ ~open /\ FALSE
  /\ Goes(j, "deleting", "lost")
  /\ UNCHANGED <<count, registered, late>>
ProxyNotDeleted(j) ==
  /\ ~open
  /\ Goes(j, "deleting", "lost")
  /\ UNCHANGED <<count, registered, late>>

(* The response is sent, or cannot be sent.                                 *)
MutNotCounted(j) ==
  /\ Goes(j, "leaving", "left")
  /\ UNCHANGED <<count, registered, late>>
MutCountedTwice(j) ==
  /\ Goes(j, "leaving", "left")
  /\ count' = IF open THEN count - 1 ELSE count - 2
  /\ UNCHANGED <<registered, late>>
CountDown(j) ==
  /\ Goes(j, "leaving", "left")
  /\ count' = count - 1
  /\ UNCHANGED <<registered, late>>
-------------------------------------------------------------------------------
(* A thread of the user.  When the port is gone it panics: "You must drop   *)
(* the proxy object before the RTO context is dropped".                     *)

PortThere == port \in {"shared", "left"}

UseProxy(u, to) ==
  /\ alive /\ user[u] = "idle"
  /\ user' = [user EXCEPT ![u] = IF PortThere THEN to ELSE "finished"]
  /\ inHand' = IF open THEN inHand ELSE inHand \cup {u}
  /\ UNCHANGED <<alive, owner, open, threads, jobs, noDrop, port, orphan>>

CallProxy(u) == UseProxy(u, "calling")
DropProxy(u) == UseProxy(u, IF noDrop THEN "returning" ELSE "calling")

CallReturns(u) ==
  /\ alive /\ user[u] = "calling" /\ client = "on"
  /\ user' = [user EXCEPT ![u] = "returning"]
  /\ UNCHANGED <<alive, owner, open, threads, jobs, noDrop, port, orphan, inHand>>

CallFails(u) ==
  /\ alive /\ user[u] = "calling" /\ ~open
  /\ user' = [user EXCEPT ![u] = "unwinding"]
  /\ UNCHANGED <<alive, owner, open, threads, jobs, noDrop, port, orphan, inHand>>

(* Dropping the last pointer to a port that was not shut down panics, and   *)
(* so does its client while that panic unwinds: the process aborts.         *)
LetGo(u) ==
  /\ alive /\ user[u] \in {"returning", "unwinding"}
  /\ user' = [user EXCEPT ![u] = "finished"]
  /\ alive' = ~(port = "left" /\ Holders = {u})
  /\ UNCHANGED <<owner, open, threads, jobs, noDrop, port, orphan, inHand>>
-------------------------------------------------------------------------------
(* The owner: Context::wait, and Drop.                                      *)

OwnerGoes(from, to) ==
  /\ alive /\ owner = from
  /\ owner' = to
  /\ UNCHANGED <<alive, user, mux, server, client, count, job>>

Wait ==
  /\ OwnerGoes("using", "waiting")
  /\ UNCHANGED <<open, registered, late, noDrop, port, orphan, inHand>>

(* Multiplexer::shutdown terminates the transport.                          *)
BeginDrop ==
  /\ OwnerGoes("using", "dropping")
  /\ CloseTransport
  /\ UNCHANGED <<registered, late, noDrop, port, orphan>>

JoinMux ==
  /\ mux = "ended"
  /\ OwnerGoes("waiting", "joined") \/ OwnerGoes("dropping", "joined")
  /\ UNCHANGED <<open, registered, late, noDrop, port, orphan, inHand>>

SetNoDrop ==
  /\ OwnerGoes("joined", "quiet")
  /\ noDrop' = TRUE
  /\ UNCHANGED <<open, registered, late, port, orphan, inHand>>

(* Under the lock the objects no job holds are dropped, and with them their *)
(* proxies; then the proxy of the meta service.                             *)
ClearRegistry ==
  /\ ~Locked
  /\ OwnerGoes("quiet", "cleared")
  /\ registered' = {}
  /\ orphan' = IF PortThere THEN orphan ELSE orphan \cup (registered \cap Owns)
  /\ UNCHANGED <<open, late, noDrop, port, inHand>>

MutNoShutdown ==
  /\ OwnerGoes("cleared", "stopped")
  /\ UNCHANGED <<open, registered, late, noDrop, port, orphan, inHand>>
ShutdownServer ==
  /\ server = "ended"
  /\ OwnerGoes("cleared", "stopped")
  /\ UNCHANGED <<open, registered, late, noDrop, port, orphan, inHand>>

(* Half a second is enough for a thread that has nothing to wait for, and   *)
(* may be too short for a job.  Server::shutdown panics, Server::drop       *)
(* panics while it unwinds, and the process aborts.                         *)
ShutdownTimesOut ==
  /\ alive /\ owner = "cleared" /\ count # 0
  /\ alive' = FALSE
  /\ UNCHANGED <<owner, open, threads, jobs, noDrop, port, user, orphan, inHand>>

(* Arc::try_unwrap(port).unwrap().                                          *)
UnwrapPort ==
  /\ Holders = {}
  /\ OwnerGoes("stopped", "unwrapped")
  /\ port' = "unwrapped"
  /\ UNCHANGED <<open, registered, late, noDrop, orphan, inHand>>

UnwrapFails ==
  /\ Holders # {}
  /\ OwnerGoes("stopped", "unwinding")
  /\ UNCHANGED <<open, registered, late, noDrop, port, orphan, inHand>>

(* The owner's pointer is dropped as the panic unwinds.                     *)
OwnerLetsGo ==
  /\ alive /\ owner = "unwinding"
  /\ owner' = "panicked"
  /\ port' = "left"
  /\ alive' = (Holders # {})
  /\ UNCHANGED <<open, threads, jobs, noDrop, user, orphan, inHand>>

(* Client::shutdown, whose tenth of a second is enough for its thread.  The *)
(* registry goes with the port: an object registered after it was cleared   *)
(* finds no port for the proxy it owns, and the owner panics.               *)
ShutdownClient ==
  /\ client = "ended"
  /\ OwnerGoes("unwrapped", IF registered \cap Owns = {} THEN "done" ELSE "panicked")
  /\ port' = "gone"
  /\ registered' = {}
  /\ orphan' = orphan \cup (registered \cap Owns)
  /\ UNCHANGED <<open, late, noDrop, inHand>>
-------------------------------------------------------------------------------
Thread == MuxEnds \/ ServerDrains \/ ServerEnds \/ ClientEnds

Execute(j) ==
  \/ Count(j) \/ Start(j) \/ CallOut(j) \/ Answered(j) \/ NotAnswered(j)
  \/ Return(j) \/ DeleteObject(j) \/ Removed(j) \/ ProxyDeleted(j) \/ ProxyNotDeleted(j)
  \/ CountDown(j)

Use(u) ==
  CallProxy(u) \/ DropProxy(u) \/ CallReturns(u) \/ CallFails(u) \/ LetGo(u)

Drop ==
  \/ JoinMux \/ SetNoDrop \/ ClearRegistry \/ ShutdownServer \/ ShutdownTimesOut
  \/ UnwrapPort \/ UnwrapFails \/ OwnerLetsGo \/ ShutdownClient

Next ==
  \/ PeerCloses \/ Wait \/ BeginDrop \/ Thread \/ Drop
  \/ \E j \in Job : Deliver(j) \/ Execute(j)
  \/ \E u \in User : Use(u)

Spec == Init /\ [][Next]_vars

(* The threads of the context and the one that drops it go on.  So does a   *)
(* job that holds the lock: the Drop of a service object ends, as it has to *)
(* where the owner itself drops it, and the call of a delete request fails  *)
(* once the connection is closed.  Nothing is assumed of methods, of the    *)
(* other end or of the user's other threads.                                *)
Fairness ==
  /\ WF_vars(MuxEnds) /\ WF_vars(ServerDrains) /\ WF_vars(ServerEnds)
  /\ WF_vars(ClientEnds) /\ WF_vars(Drop)
  /\ \A j \in Job : WF_vars(Count(j)) /\ WF_vars(Removed(j))
                     /\ WF_vars(ProxyNotDeleted(j))

FairSpec == Spec /\ Fairness
-------------------------------------------------------------------------------
(* Properties.                                                              *)

(* The port outlives every job, so that methods can export objects and      *)
(* proxies can be dropped while the context goes; a proxy that is dropped   *)
(* without a port belongs to an object that was registered after the        *)
(* registry was cleared, which the comment in Drop does not think of.       *)
PortOutlivesJobs ==
  /\ alive /\ port # "shared" => Counted = {}
  /\ orphan \subseteq late

(* A context that is dropped when the other end waits for no answer and no  *)
(* thread uses a proxy, then or later, is dropped without a panic: what can *)
(* go wrong needs a request or a call that is under way.                    *)
QuietDrop == ~alive \/ owner = "panicked" => inHand # {}

(* The drop of a context ends, be it in a panic: every wait in it is        *)
(* bounded, for a thread of the context, or for the job that holds the      *)
(* registry's lock while it drops an object, which must not wait for the    *)
(* owner in turn.                                                           *)
DropCompletes ==
  owner \notin {"using", "waiting"} ~> owner \in {"done", "panicked"} \/ ~alive
===============================================================================
