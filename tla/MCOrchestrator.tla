--------------------------- MODULE MCOrchestrator ---------------------------
(* Small instances of Orchestrator for TLC. *)
EXTENDS Orchestrator

MCKindEvents == [o \in Offsets |-> "event"]

\* A malformed record in front, a poison record before the last.
MCKindMixed == [o \in Offsets |-> CASE o = 0 -> "badjson" [] o = N - 2 -> "poison" [] OTHER -> "event"]
=============================================================================
