------------------------------ MODULE Invocation ------------------------------
(***************************************************************************)
(* What a method call on a proxy object promises, whatever slots, queues   *)
(* and threads carry it (remote-trait-object, lib.rs and Handle::call):    *)
(* the method is executed at most once, the caller gets an answer only     *)
(* after its own method has ended normally, and a method that calls back   *)
(* waits for those calls and never answers once one of them has failed.    *)
(***************************************************************************)
CONSTANTS Call,      (* the method calls                                    *)
          Parent,    (* the call whose method makes this one, or NoCall     *)
          NoCall

VARIABLES caller,    (* what the caller of each call knows                  *)
          method     (* what became of the method it invokes                *)

vars == <<caller, method>>

CallerState == {"idle", "calling", "returned", "failed"}
MethodState == {"none", "running", "ended", "panicked"}

Children(c) == {d \in Call : Parent[d] = c}

(* A call made by another call's method is made while that method runs.     *)
MayCall(c) == Parent[c] = NoCall \/ method[Parent[c]] = "running"

Init ==
  /\ caller = [c \in Call |-> "idle"]
  /\ method = [c \in Call |-> "none"]

Invoke(c) ==
  /\ caller[c] = "idle" /\ MayCall(c)
  /\ caller' = [caller EXCEPT ![c] = "calling"]
  /\ UNCHANGED method

Execute(c) ==
  /\ caller[c] \in {"calling", "failed"} /\ method[c] = "none"
  /\ method' = [method EXCEPT ![c] = "running"]
  /\ UNCHANGED caller

End(c) ==
  /\ method[c] = "running"
  /\ \A d \in Children(c) : caller[d] \in {"idle", "returned"}
  /\ method' = [method EXCEPT ![c] = "ended"]
  /\ UNCHANGED caller

Panic(c) ==
  /\ method[c] = "running"
  /\ \A d \in Children(c) : caller[d] # "calling"
  /\ method' = [method EXCEPT ![c] = "panicked"]
  /\ UNCHANGED caller

Return(c) ==
  /\ caller[c] = "calling" /\ method[c] = "ended"
  /\ caller' = [caller EXCEPT ![c] = "returned"]
  /\ UNCHANGED method

Fail(c) ==
  /\ \/ caller[c] = "calling"
     \/ caller[c] = "idle" /\ MayCall(c)
  /\ caller' = [caller EXCEPT ![c] = "failed"]
  /\ UNCHANGED method

Next ==
  \E c \in Call :
    \/ Invoke(c) \/ Execute(c) \/ End(c) \/ Panic(c) \/ Return(c) \/ Fail(c)

Spec == Init /\ [][Next]_vars
===============================================================================
