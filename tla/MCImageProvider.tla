---------------------------- MODULE MCImageProvider ----------------------------
(* Instances of ImageProvider for TLC. *)
EXTENDS ImageProvider, TLC

CONSTANTS c1, c2, p1, p2

(* All clients call their image the same.                                   *)
OneFile == [c \in Client |-> "stego"]
===============================================================================
