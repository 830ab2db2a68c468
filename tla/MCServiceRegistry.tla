--------------------------- MODULE MCServiceRegistry ---------------------------
(***************************************************************************)
(* Instances of ServiceRegistry for TLC.                                   *)
(***************************************************************************)
EXTENDS ServiceRegistry

CONSTANTS a, b, c, p, q

(* a, b and c live at end 1, p and q at end 2.                              *)
MCHome == [o \in Obj |-> IF o \in {a, b, c} THEN 1 ELSE 2]

(* The initial services are a and q, and q keeps the proxy of b that it was *)
(* given: a callback.  So only one end's registry drops proxies.            *)
CallbackInitial == <<a, q>>
Callback == [o \in Obj |-> IF o = b THEN q ELSE NoObj]

(* The initial services are a and p; q wraps the proxy of a, and c that of q.*)
ChainInitial == <<a, p>>
Chain == [o \in Obj |-> IF o = a THEN q ELSE IF o = q THEN c ELSE NoObj]
===============================================================================
