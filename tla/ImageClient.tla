------------------------------ MODULE ImageClient ------------------------------
(***************************************************************************)
(* The client process (src/client/src/main.rs): it splits the images into  *)
(* three chunks, and a task for each chunk handles its images one after    *)
(* the other.  For an image the chunk's task starts a round: one task for  *)
(* every server takes a permit of a semaphore, sets up a connection        *)
(* (ImageProvider.tla), calls encode and releases the permit.  The image   *)
(* is done when a task of the round has ended without a panic, whatever    *)
(* became of its call; otherwise there is another round.                   *)
(*                                                                         *)
(* encode() blocks the worker thread of the runtime that executes the      *)
(* task, and its sixty seconds' time-out with it; the connections' own     *)
(* tasks need a worker too, so nothing moves while all are blocked.        *)
(***************************************************************************)
EXTENDS Integers, FiniteSets

CONSTANTS Server,      (* server_addrs                                       *)
          MaxImages,   (* bound on the images in the directory               *)
          Permits,     (* of the semaphore (5)                               *)
          Workers,     (* worker threads of the runtime: one for each core   *)
          MayPanic,    (* the servers whose context may fail to be created   *)
          MayFail      (* whether an image may fail to be opened             *)

ASSUME ClientAssumption ==
  /\ IsFiniteSet(Server)
  /\ MaxImages \in Nat /\ Permits \in Nat /\ Workers \in Nat
  /\ MayPanic \subseteq Server /\ MayFail \in BOOLEAN

Chunk == 1 .. 3

(* secret_images.chunks((n + 2) / 3): the images of chunk k out of n.       *)
ChunkSize(n) == (n + 2) \div 3
First(k, n) == (k - 1) * ChunkSize(n) + 1
MutChunkOf(k, n) == First(k, n) .. k * ChunkSize(n)
ChunkOf(k, n) == {i \in 1 .. n : First(k, n) <= i /\ i <= k * ChunkSize(n)}

VARIABLES
  main,     (* the main task                                                 *)
  images,   (* how many images there are                                     *)
  at,       (* the image each chunk's task has in hand, or comes to next     *)
  chunk,    (* where that task is                                            *)
  task,     (* task[k][s]: the task for server s of the round of chunk k     *)
  free      (* the permits that are not taken                                *)

vars == <<main, images, at, chunk, task, free>>

TypeOK ==
  /\ main \in {"start", "joining", "panicked", "done"}
  /\ images \in 0 .. MaxImages
  /\ at \in [Chunk -> 1 .. images + 1]
  /\ chunk \in [Chunk -> {"none", "next", "round", "ended"}]
  /\ task \in [Chunk -> [Server -> {"none", "waiting", "creating", "encoding",
                                    "closing", "ended", "panicked"}]]
  /\ free \in 0 .. Permits

Init ==
  /\ main = "start"
  /\ images \in 0 .. MaxImages
  /\ at = [k \in Chunk |-> 1]
  /\ chunk = [k \in Chunk |-> "none"]
  /\ task = [k \in Chunk |-> [s \in Server |-> "none"]]
  /\ free = Permits

(* The tasks at a step.                                                     *)
At(step) == {x \in Chunk \X Server : task[x[1]][x[2]] = step}
Holding == At("creating") \cup At("encoding")
Blocked == At("encoding") \cup At("closing")

WorkerFree == Cardinality(Blocked) < Workers
-------------------------------------------------------------------------------
(* chunks(0) panics when there is no image.  A chunk past the last one is   *)
(* an empty vector.                                                         *)
Split ==
  /\ main = "start"
  /\ \/ /\ images = 0
        /\ main' = "panicked"
        /\ UNCHANGED <<at, chunk>>
     \/ /\ images > 0
        /\ main' = "joining"
        /\ at' = [k \in Chunk |->
                    IF First(k, images) <= images THEN First(k, images)
                                                  ELSE images + 1]
        /\ chunk' = [k \in Chunk |-> "next"]
  /\ UNCHANGED <<images, task, free>>

Round == [s \in Server |-> "waiting"]

(* A spawned task runs when a worker has time for it.                       *)
Runs(k) == main = "joining" /\ WorkerFree /\ chunk[k] # "none"

TakeImage(k) ==
  /\ Runs(k) /\ chunk[k] = "next" /\ at[k] \in ChunkOf(k, images)
  /\ chunk' = [chunk EXCEPT ![k] = "round"]
  /\ task' = [task EXCEPT ![k] = Round]
  /\ UNCHANGED <<main, images, at, free>>

(* The question mark behind File::open ends the chunk's task: the images    *)
(* behind the one that fails are not looked at.                             *)
OpenFails(k) ==
  /\ MayFail
  /\ Runs(k) /\ chunk[k] = "next" /\ at[k] \in ChunkOf(k, images)
  /\ chunk' = [chunk EXCEPT ![k] = "ended"]
  /\ UNCHANGED <<main, images, at, task, free>>

ChunkDone(k) ==
  /\ Runs(k) /\ chunk[k] = "next" /\ at[k] \notin ChunkOf(k, images)
  /\ chunk' = [chunk EXCEPT ![k] = "ended"]
  /\ UNCHANGED <<main, images, at, task, free>>

RoundOver(k) ==
  /\ Runs(k) /\ chunk[k] = "round"
  /\ \A s \in Server : task[k][s] \in {"ended", "panicked"}

(* Mutant of NextImage: the same image again.                               *)
MutSameImage(k) ==
  /\ RoundOver(k)
  /\ \E s \in Server : task[k][s] = "ended"
  /\ chunk' = [chunk EXCEPT ![k] = "next"]
  /\ task' = [task EXCEPT ![k] = [s \in Server |-> "none"]]
  /\ UNCHANGED <<main, images, at, free>>

(* success = true, although every call may have failed.                     *)
NextImage(k) ==
  /\ RoundOver(k)
  /\ \E s \in Server : task[k][s] = "ended"
  /\ at' = [at EXCEPT ![k] = @ + 1]
  /\ chunk' = [chunk EXCEPT ![k] = "next"]
  /\ task' = [task EXCEPT ![k] = [s \in Server |-> "none"]]
  /\ UNCHANGED <<main, images, free>>

(* The counters the tasks change are copies of their own, so retries is 0   *)
(* and there is always another round.                                       *)
RetryRound(k) ==
  /\ RoundOver(k)
  /\ \A s \in Server : task[k][s] = "panicked"
  /\ task' = [task EXCEPT ![k] = Round]
  /\ UNCHANGED <<main, images, at, chunk, free>>

Join ==
  /\ main = "joining" /\ \A k \in Chunk : chunk[k] = "ended"
  /\ main' = "done"
  /\ UNCHANGED <<images, at, chunk, task, free>>
-------------------------------------------------------------------------------
(* The task for server s in the round of chunk k.                           *)

Move(k, s, from, to) ==
  /\ main = "joining" /\ WorkerFree
  /\ task[k][s] = from
  /\ task' = [task EXCEPT ![k][s] = to]
  /\ UNCHANGED <<main, images, at, chunk>>

Acquire(k, s) ==
  /\ Move(k, s, "waiting", "creating")
  /\ free > 0 /\ free' = free - 1

(* Mutant of Created: the permit is dropped before the call.                *)
MutEarlyRelease(k, s) ==
  /\ Move(k, s, "creating", "encoding")
  /\ free' = IF free < Permits THEN free + 1 ELSE free

(* create() has both connections.                                           *)
Created(k, s) ==
  /\ Move(k, s, "creating", "encoding")
  /\ UNCHANGED free

(* create() fails, or takes ten seconds: the task returns.                  *)
CreateFails(k, s) ==
  /\ Move(k, s, "creating", "ended")
  /\ free' = free + 1

(* Context::new panics when it cannot have its threads.                     *)
ContextPanics(k, s) ==
  /\ s \in MayPanic
  /\ Move(k, s, "creating", "panicked")
  /\ free' = free + 1

(* encode() returns, or panics and is caught; the context is dropped after  *)
(* the permit.                                                              *)
Encoded(k, s) ==
  /\ Move(k, s, "encoding", "closing")
  /\ free' = free + 1

Closed(k, s) ==
  /\ main = "joining" /\ task[k][s] = "closing"
  /\ task' = [task EXCEPT ![k][s] = "ended"]
  /\ UNCHANGED <<main, images, at, chunk, free>>
-------------------------------------------------------------------------------
Finished == main \in {"panicked", "done"} /\ UNCHANGED vars

Creates(k, s) == Created(k, s) \/ CreateFails(k, s) \/ ContextPanics(k, s)
ChunkStep(k) ==
  TakeImage(k) \/ OpenFails(k) \/ ChunkDone(k) \/ NextImage(k) \/ RetryRound(k)
TaskStep(k, s) == Acquire(k, s) \/ Creates(k, s) \/ Encoded(k, s) \/ Closed(k, s)

Step ==
  \/ Split \/ Join
  \/ \E k \in Chunk : ChunkStep(k) \/ \E s \in Server : TaskStep(k, s)

Next == Step \/ Finished

Spec == Init /\ [][Next]_vars

(* The runtime executes something as long as something can run, create()    *)
(* has a time limit, and every call ends (RemoteCall.tla: as long as no     *)
(* method panics or the connection closes).  A context that could not have  *)
(* its threads does not fail in every round for ever.                       *)
Fairness ==
  /\ WF_vars(Step)
  /\ \A k \in Chunk :
       SF_vars(\E s \in Server : Created(k, s) \/ CreateFails(k, s))

FairSpec == Spec /\ Fairness
-------------------------------------------------------------------------------
(* Properties. *)

(* The semaphore limits the calls on every path of a task, the early        *)
(* returns and the panics: no permit is lost or given back twice, and calls *)
(* alone never block every worker when there are more workers than permits. *)
CallsLimited ==
  /\ free + Cardinality(Holding) = Permits
  /\ Permits < Workers => Cardinality(At("encoding")) < Workers

(* The client comes to its end: no image waits for ever, for a permit, a    *)
(* worker or a round that succeeds.                                         *)
EveryImageEnds == <>(main \in {"panicked", "done"})
===============================================================================
