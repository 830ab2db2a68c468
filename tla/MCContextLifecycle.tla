-------------------------- MODULE MCContextLifecycle --------------------------
(* Instances of ContextLifecycle for TLC. *)
EXTENDS ContextLifecycle, TLC

CONSTANTS j1, j2, j3, o1, o2, o3, u1, u2

(* j1 is for an object that owns a proxy; its method calls back and its     *)
(* answer exports an object that owns one, too.  j2 deletes the first       *)
(* object; j3 is a plain request for another one.                           *)
MCTarget == j1 :> o1 @@ j2 :> o1 @@ j3 :> o3
MCExport == j1 :> o2 @@ j2 :> NoObject @@ j3 :> NoObject
===============================================================================
