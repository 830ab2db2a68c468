---------------------------- MODULE ServiceRegistry ----------------------------
(***************************************************************************)
(* The service objects exported over one remote-trait-object connection:   *)
(* the registry of each end (forwarder.rs), the proxies that the other end *)
(* makes from the ids it is given (service/handle.rs), and the delete      *)
(* requests that dropped proxies send.                                     *)
(*                                                                         *)
(* A service object may itself own proxies of objects of the other end, so *)
(* that its drop sends delete requests; and the registry drops an object   *)
(* while it holds its write lock.                                          *)
(*                                                                         *)
(* Calls are those of Invocation: each is executed once and answered, in   *)
(* no particular order.                                                    *)
(***************************************************************************)
EXTENDS Integers, Sequences, Functions

CONSTANTS Obj,          (* the service objects                              *)
          NoObj,
          Home,         (* Home[o]: the end where it lives, 1 or 2          *)
          Owner,        (* Owner[o]: the object of the other end that owns  *)
                        (* the proxy of o, or NoObj when a thread does      *)
          Initial,      (* Initial[e]: the initial service of end e         *)
          MaxServices   (* Config.maximum_services_num (65536)              *)

End == {1, 2}
Other(e) == 3 - e

INITIAL_SERVICE_OBJECT_ID == 1
Id == 1 .. MaxServices - 1     (* 0 is the meta service, always there       *)
NoId == 0

Importer(o) == Other(Home[o])
Owned(o) == {q \in Obj : Owner[q] = o}

ASSUME ObjAssumption ==
  /\ NoObj \notin Obj
  /\ Home \in [Obj -> End]
  /\ Owner \in [Obj -> Obj \cup {NoObj}]
  /\ \A o \in Obj : Owner[o] # NoObj => Home[Owner[o]] = Importer(o)
  /\ Initial \in [End -> Obj]
  /\ \A e \in End : Home[Initial[e]] = e
  /\ MaxServices \in Nat /\ MaxServices >= 2
-------------------------------------------------------------------------------
VARIABLES
  stage,       (* how far the life of each object has got                    *)
  id,          (* the id it was registered under, or NoId                    *)
  proxy,       (* what its proxy, at the other end, is doing                 *)
  objects,     (* service_objects of each end: from ids to objects           *)
  available,   (* available_ids of each end                                  *)
  lock,        (* the object whose removal holds the lock of service_objects *)
  noDrop       (* no_drop of the port of each end                            *)

vars == <<stage, id, proxy, objects, available, lock, noDrop>>

Stage == {"local", "popped", "registered", "dying", "dead", "gone"}
Proxy == {"none", "transit", "held", "calling", "executing",
          "dropping", "deleting", "dropped"}

TypeOK ==
  /\ stage \in [Obj -> Stage]
  /\ id \in [Obj -> Id \cup {NoId}]
  /\ proxy \in [Obj -> Proxy]
  /\ objects \in [End -> [Id -> Obj \cup {NoObj}]]
  /\ available \in [End -> Seq(Id)]
  /\ lock \in [End -> Obj \cup {NoObj}]
  /\ noDrop \in [End -> BOOLEAN]

SetStage(o, s) == stage' = [stage EXCEPT ![o] = s]
SetProxy(o, p) == proxy' = [proxy EXCEPT ![o] = p]
-------------------------------------------------------------------------------
(* Export: serializing the argument or the result that carries an object    *)
(* registers it, under an id that is taken first...                         *)
MutPopId(o) ==
  /\ stage[o] = "local" /\ available[Home[o]] # <<>>
  /\ id' = [id EXCEPT ![o] = Head(available[Home[o]])]
  /\ SetStage(o, "popped")
  /\ UNCHANGED <<proxy, objects, available, lock, noDrop>>
PopId(o) ==
  /\ stage[o] = "local" /\ available[Home[o]] # <<>>
  /\ id' = [id EXCEPT ![o] = Head(available[Home[o]])]
  /\ available' = [available EXCEPT ![Home[o]] = Tail(@)]
  /\ SetStage(o, "popped")
  /\ UNCHANGED <<proxy, objects, lock, noDrop>>

(* ... or panics when there is none; unwinding drops the object.            *)
TooManyServices(o) ==
  /\ stage[o] = "local" /\ available[Home[o]] = <<>>
  /\ SetStage(o, "dying")
  /\ UNCHANGED <<id, proxy, objects, available, lock, noDrop>>

Register(o) ==
  LET e == Home[o] IN
  /\ stage[o] = "popped" /\ lock[e] = NoObj
  /\ objects' = [objects EXCEPT ![e][id[o]] = o]
  /\ SetStage(o, "registered")
  /\ SetProxy(o, "transit")
  /\ UNCHANGED <<id, available, lock, noDrop>>

(* The message arrives, and the handle in it is made into a proxy.          *)
Import(o) ==
  /\ proxy[o] = "transit"
  /\ SetProxy(o, "held")
  /\ UNCHANGED <<stage, id, objects, available, lock, noDrop>>
-------------------------------------------------------------------------------
(* Use: a thread calls a method, or the method that its owner executes does.*)
Call(o) ==
  /\ proxy[o] = "held"
  /\ Owner[o] \in {NoObj} \cup {w \in Obj : proxy[w] = "executing"}
  /\ SetProxy(o, "calling")
  /\ UNCHANGED <<stage, id, objects, available, lock, noDrop>>

(* forward_and_call: look the object up, under the lock, and panic when it  *)
(* is not there: then the caller waits for ever.                            *)
Execute(o) ==
  LET e == Home[o] IN
  /\ proxy[o] = "calling" /\ lock[e] = NoObj
  /\ objects[e][id[o]] # NoObj
  /\ SetProxy(objects[e][id[o]], "executing")
  /\ UNCHANGED <<stage, id, objects, available, lock, noDrop>>

Return(o) ==
  /\ proxy[o] = "executing"
  /\ \A q \in Owned(o) : proxy[q] \notin {"calling", "executing"}
  /\ SetProxy(o, "held")
  /\ UNCHANGED <<stage, id, objects, available, lock, noDrop>>
-------------------------------------------------------------------------------
(* Drop of a proxy: by a thread; or, one after another, in the drop of the  *)
(* object that owns it, after which nothing owns it.                        *)
MayDrop(o) ==
  \/ Owner[o] \in {NoObj} \cup {w \in Obj : stage[w] \in {"dead", "gone"}}
  \/ /\ Owner[o] \in {w \in Obj : stage[w] = "dying"}
     /\ \A q \in Obj : Owner[q] = Owner[o] => proxy[q] \notin {"dropping", "deleting"}

(* delete_request of the port sends nothing once no_drop is set.            *)
MutOtherEnd(o) ==
  /\ proxy[o] = "held" /\ MayDrop(o)
  /\ SetProxy(o, IF noDrop[Home[o]] THEN "dropped" ELSE "dropping")
  /\ UNCHANGED <<stage, id, objects, available, lock, noDrop>>
DropProxy(o) ==
  /\ proxy[o] = "held" /\ MayDrop(o)
  /\ SetProxy(o, IF noDrop[Importer(o)] THEN "dropped" ELSE "dropping")
  /\ UNCHANGED <<stage, id, objects, available, lock, noDrop>>

(* delete: remove the object from the map and, with the lock held, drop it. *)
Delete(o) ==
  LET e == Home[o] IN
  /\ proxy[o] = "dropping" /\ lock[e] = NoObj
  /\ objects[e][id[o]] # NoObj
  /\ objects' = [objects EXCEPT ![e][id[o]] = NoObj]
  /\ lock' = [lock EXCEPT ![e] = objects[e][id[o]]]
  /\ SetStage(objects[e][id[o]], "dying")
  /\ SetProxy(o, "deleting")
  /\ UNCHANGED <<id, available, noDrop>>

(* The drop of an object is over when those of its proxies are.             *)
MutDie(o) ==
  /\ stage[o] = "dying"
  /\ \A q \in Owned(o) : proxy[q] \in {"none", "transit", "dropped"}
  /\ SetStage(o, IF id[o] = NoId THEN "gone" ELSE "dead")
  /\ UNCHANGED <<id, proxy, objects, available, lock, noDrop>>
Die(o) ==
  /\ stage[o] = "dying"
  /\ \A q \in Owned(o) : proxy[q] \in {"none", "transit", "dropped"}
  /\ SetStage(o, IF id[o] = NoId THEN "gone" ELSE "dead")
  /\ lock' = [e \in End |-> IF lock[e] = o THEN NoObj ELSE lock[e]]
  /\ UNCHANGED <<id, proxy, objects, available, noDrop>>

MutPushId(o) ==
  /\ stage[o] = "dead"
  /\ SetStage(o, "gone")
  /\ UNCHANGED <<id, proxy, objects, available, lock, noDrop>>
PushId(o) ==
  /\ stage[o] = "dead"
  /\ available' = [available EXCEPT ![Home[o]] = Append(@, id[o])]
  /\ SetStage(o, "gone")
  /\ UNCHANGED <<id, proxy, objects, lock, noDrop>>

(* The answer to the delete request ends the drop of the proxy.             *)
Deleted(o) ==
  /\ proxy[o] = "deleting" /\ stage[o] = "gone"
  /\ SetProxy(o, "dropped")
  /\ UNCHANGED <<stage, id, objects, available, lock, noDrop>>

(* Context::disable_garbage_collection.                                     *)
DisableGarbageCollection(e) ==
  /\ ~ noDrop[e]
  /\ noDrop' = [noDrop EXCEPT ![e] = TRUE]
  /\ UNCHANGED <<stage, id, proxy, objects, available, lock>>
-------------------------------------------------------------------------------
IsInitial(o) == o = Initial[Home[o]]

(* The ids left over by the meta service and the initial one.               *)
MutOneMore == [i \in 1 .. MaxServices - 1 |-> i + 1]
InitialIds == [i \in 1 .. MaxServices - 2 |-> i + 1]

Init ==
  /\ stage = [o \in Obj |-> IF IsInitial(o) THEN "registered" ELSE "local"]
  /\ id = [o \in Obj |-> IF IsInitial(o) THEN INITIAL_SERVICE_OBJECT_ID ELSE NoId]
  /\ proxy = [o \in Obj |-> IF IsInitial(o) THEN "transit" ELSE "none"]
  /\ objects = [e \in End |-> [i \in Id |->
       IF i = INITIAL_SERVICE_OBJECT_ID THEN Initial[e] ELSE NoObj]]
  /\ available = [e \in End |-> InitialIds]
  /\ lock = [e \in End |-> NoObj]
  /\ noDrop = [e \in End |-> FALSE]

Next ==
  \/ \E o \in Obj :
       \/ PopId(o) \/ TooManyServices(o) \/ Register(o) \/ Import(o)
       \/ Call(o) \/ Execute(o) \/ Return(o)
       \/ DropProxy(o) \/ Delete(o) \/ Die(o) \/ PushId(o) \/ Deleted(o)
  \/ \E e \in End : DisableGarbageCollection(e)

Spec == Init /\ [][Next]_vars

(* Threads keep running and methods end; nobody has to export an object, to *)
(* call or to drop a proxy, but an object that is dropped drops its own.    *)
Fairness ==
  \A o \in Obj :
    /\ WF_vars(Register(o)) /\ WF_vars(Import(o))
    /\ WF_vars(Execute(o)) /\ WF_vars(Return(o))
    /\ WF_vars(Owner[o] # NoObj /\ DropProxy(o))
    /\ WF_vars(Delete(o)) /\ WF_vars(Die(o)) /\ WF_vars(PushId(o))
    /\ WF_vars(Deleted(o))

FairSpec == Spec /\ Fairness
-------------------------------------------------------------------------------
(* Properties.                                                              *)

InUse == {"transit", "held", "calling", "executing", "dropping"}

(* "A proxy object corresponds to exactly one skeleton, and vice versa"     *)
(* (lib.rs:37): while a proxy, or the message that brings it, exists, its   *)
(* id leads to its own object, though ids are used again; and an object is  *)
(* registered only as long as its proxy exists, or has been dropped by an   *)
(* end that has disabled delete requests.  So no request fails to find its  *)
(* object or finds another one.                                             *)
OneToOne ==
  \A o \in Obj :
    /\ proxy[o] \in InUse =>
         stage[o] = "registered" /\ objects[Home[o]][id[o]] = o
    /\ stage[o] = "registered" =>
         \/ proxy[o] \in InUse
         \/ proxy[o] = "dropped" /\ noDrop[Importer(o)]

(* The objects that have an id of end e and neither stand in its map nor    *)
(* have given it back.                                                      *)
Between(e) == {o \in Obj : /\ Home[o] = e
                           /\ \/ stage[o] \in {"popped", "dead"}
                              \/ stage[o] = "dying" /\ id[o] # NoId}

(* Every id is available, in the map, or in the hands of the one thread     *)
(* that registers or removes its object; never twice, and none is lost.     *)
IdsOf(e) ==
  /\ IsInjective(available[e])
  /\ \A o, q \in Between(e) : id[o] = id[q] => o = q
  /\ \A i \in Id :
       /\ i \in Range(available[e]) <=>
            objects[e][i] = NoObj /\ \A o \in Between(e) : id[o] # i
       /\ objects[e][i] # NoObj => \A o \in Between(e) : id[o] # i
IdsConserved == \A e \in End : IdsOf(e)

(* "If a proxy object is dropped, it will request its deletion on the       *)
(* server side" (lib.rs:38), and the drop ends.                             *)
DropEnds == \A o \in Obj : proxy[o] = "dropping" ~> proxy[o] = "dropped"

(* A method that an object executes stays under way, with the object        *)
(* registered, for as long as a call through a proxy of that object is.     *)
OwnersStay ==
  \A o \in Obj :
    proxy[o] \in {"calling", "executing"} /\ Owner[o] # NoObj =>
      proxy[Owner[o]] = "executing" /\ stage[Owner[o]] = "registered"

(* Whatever is being removed gets on, though objects are dropped, and their *)
(* proxies' requests waited for, under the lock: one of the steps of a      *)
(* removal can be taken for some object.                                    *)
RemovalMoves ==
  \E o \in Obj :
    \/ proxy[o] = "held" /\ Owner[o] # NoObj /\ MayDrop(o)
    \/ /\ proxy[o] = "dropping" /\ lock[Home[o]] = NoObj
       /\ objects[Home[o]][id[o]] # NoObj
    \/ /\ stage[o] = "dying"
       /\ \A q \in Owned(o) : proxy[q] \in {"none", "transit", "dropped"}
    \/ stage[o] = "dead"
    \/ proxy[o] = "deleting" /\ stage[o] = "gone"
RemovalsMove ==
  \/ \E e \in End : lock[e] # NoObj
  \/ \E o \in Obj : proxy[o] \in {"dropping", "deleting"}
  => RemovalMoves

(* The life of each object and of its proxy as RemoteObject sees it: an     *)
(* object that has left the map is dropped, and a message that brings a     *)
(* proxy is one.                                                            *)
ObjectState(o) ==
  CASE stage[o] \in {"local", "popped"} -> "private"
    [] stage[o] = "registered" -> "exported"
    [] stage[o] \in {"dying", "dead", "gone"} -> "dropped"

ProxyState(o) ==
  CASE proxy[o] \in {"transit", "held"} -> "usable"
    [] proxy[o] = "deleting" -> "dropping"
    [] OTHER -> proxy[o]

(* The registries keep the promise of RemoteObject.                         *)
Promise == INSTANCE RemoteObject WITH
  object <- [o \in Obj |-> ObjectState(o)],
  proxy <- [o \in Obj |-> ProxyState(o)]
KeepsPromise == Promise!Spec
===============================================================================
