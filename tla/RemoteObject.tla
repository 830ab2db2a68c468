----------------------------- MODULE RemoteObject -----------------------------
(***************************************************************************)
(* What remote-trait-object promises of an exported service object,        *)
(* whatever ids, maps and locks keep track of it (lib.rs, "A proxy object  *)
(* corresponds to exactly one skeleton, and vice versa"): a call through   *)
(* its proxy is executed by the object itself, which is there; the object  *)
(* is dropped only on the request that its own proxy sends when it is      *)
(* dropped, never under a call; and a drop without a request leaves the    *)
(* object behind only at an end that has disabled these requests.          *)
(***************************************************************************)
EXTENDS Integers

CONSTANTS Obj,       (* the service objects                                 *)
          NoObj,
          Home,      (* Home[o]: the end where it lives, 1 or 2             *)
          Owner,     (* Owner[o]: the object that owns its proxy, or NoObj  *)
          Initial    (* Initial[e]: the initial service of end e            *)

VARIABLES object,    (* what has become of each object                      *)
          proxy,     (* what its proxy is doing                             *)
          noDrop     (* the ends that send no requests any more             *)

vars == <<object, proxy, noDrop>>

ObjectState == {"private", "exported", "dropped"}
ProxyState == {"none", "usable", "calling", "executing", "dropping", "dropped"}

Init ==
  /\ object = [o \in Obj |-> IF o = Initial[Home[o]] THEN "exported" ELSE "private"]
  /\ proxy = [o \in Obj |-> IF o = Initial[Home[o]] THEN "usable" ELSE "none"]
  /\ noDrop = [e \in {1, 2} |-> FALSE]

BecomeObject(o, s) == object' = [object EXCEPT ![o] = s]
BecomeProxy(o, s) == proxy' = [proxy EXCEPT ![o] = s]

Export(o) ==
  /\ object[o] = "private"
  /\ BecomeObject(o, "exported") /\ BecomeProxy(o, "usable")
  /\ UNCHANGED noDrop

(* There is no id left for it.                                              *)
Abandon(o) ==
  /\ object[o] = "private"
  /\ BecomeObject(o, "dropped")
  /\ UNCHANGED <<proxy, noDrop>>

Call(o) ==
  /\ proxy[o] = "usable"
  /\ Owner[o] # NoObj => proxy[Owner[o]] = "executing"
  /\ BecomeProxy(o, "calling")
  /\ UNCHANGED <<object, noDrop>>

Execute(o) ==
  /\ proxy[o] = "calling" /\ object[o] = "exported"
  /\ BecomeProxy(o, "executing")
  /\ UNCHANGED <<object, noDrop>>

Return(o) ==
  /\ proxy[o] = "executing"
  /\ \A q \in Obj : Owner[q] = o => proxy[q] \notin {"calling", "executing"}
  /\ BecomeProxy(o, "usable")
  /\ UNCHANGED <<object, noDrop>>

(* An object drops the proxies it owns only when it is dropped itself.      *)
DropProxy(o) ==
  /\ proxy[o] = "usable"
  /\ Owner[o] # NoObj => object[Owner[o]] = "dropped"
  /\ BecomeProxy(o, IF noDrop[3 - Home[o]] THEN "dropped" ELSE "dropping")
  /\ UNCHANGED <<object, noDrop>>

Delete(o) ==
  /\ proxy[o] = "dropping" /\ object[o] = "exported"
  /\ BecomeObject(o, "dropped")
  /\ UNCHANGED <<proxy, noDrop>>

Deleted(o) ==
  /\ proxy[o] = "dropping" /\ object[o] = "dropped"
  /\ BecomeProxy(o, "dropped")
  /\ UNCHANGED <<object, noDrop>>

DisableGarbageCollection(e) ==
  /\ ~ noDrop[e]
  /\ noDrop' = [noDrop EXCEPT ![e] = TRUE]
  /\ UNCHANGED <<object, proxy>>

Next ==
  \/ \E o \in Obj :
       \/ Export(o) \/ Abandon(o)
       \/ Call(o) \/ Execute(o) \/ Return(o)
       \/ DropProxy(o) \/ Delete(o) \/ Deleted(o)
  \/ \E e \in {1, 2} : DisableGarbageCollection(e)

Spec == Init /\ [][Next]_vars
===============================================================================
