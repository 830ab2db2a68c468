----------------------------- MODULE MCRemoteCall -----------------------------
(* Instances of RemoteCall for TLC. *)
EXTENDS RemoteCall, TLC

CONSTANTS a, b, c

(* Three calls of one end: they wait for slots and their responses may      *)
(* overtake each other.                                                     *)
SameFrom == [x \in Call |-> 1]
Flat == [x \in Call |-> NoCall]
SameCalls == Permutations(Call)

(* a of end 1 is answered by a method that makes the call c back to end 1;  *)
(* b is another call of end 2.                                              *)
NestedFrom == a :> 1 @@ b :> 2 @@ c :> 2
NestedParent == a :> NoCall @@ b :> NoCall @@ c :> a

(* The method of a calls b back, whose method calls c.                      *)
ChainFrom == a :> 1 @@ b :> 2 @@ c :> 1
ChainParent == a :> NoCall @@ b :> a @@ c :> b
===============================================================================
