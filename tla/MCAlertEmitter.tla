--------------------------- MODULE MCAlertEmitter ---------------------------
(* A small instance of AlertEmitter for TLC: the event of call c1 is scored *)
(* again in call c2, c3 is another event.                                   *)
EXTENDS AlertEmitter

CONSTANTS c1, c2, c3, v1, v2

MCEvent == [c \in {c1, c2, c3} |-> IF c = c3 THEN v2 ELSE v1]
=============================================================================
