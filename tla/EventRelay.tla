----------------------------- MODULE EventRelay -----------------------------
(***************************************************************************)
(* What a transactional consume-and-produce stage promises: it passes over *)
(* its input in order, and moves its frontier past a record in the step    *)
(* that makes the record's only output visible.  Records it passes over    *)
(* without an output are ones it has abandoned before.                     *)
(***************************************************************************)
EXTENDS Integers

CONSTANT N      \* records in the input

VARIABLES
  frontier,     \* first record not yet passed
  outputs,      \* per record, visible outputs
  abandoned     \* records that may be passed without an output

vars == <<frontier, outputs, abandoned>>

Records == 0 .. (N - 1)

Init ==
  /\ frontier = 0
  /\ outputs = [o \in Records |-> 0]
  /\ abandoned = {}

Deliver(o) ==
  /\ frontier <= o /\ outputs[o] = 0
  /\ frontier .. (o - 1) \subseteq abandoned
  /\ outputs' = [outputs EXCEPT ![o] = 1]
  /\ frontier' = o + 1
  /\ UNCHANGED abandoned

Abandon(o) ==
  /\ frontier <= o
  /\ abandoned' = abandoned \cup {o}
  /\ UNCHANGED <<frontier, outputs>>

Next == \E o \in Records : Deliver(o) \/ Abandon(o)

Spec == Init /\ [][Next]_vars
=============================================================================
