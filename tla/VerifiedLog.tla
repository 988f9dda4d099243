----------------------------- MODULE VerifiedLog ----------------------------
(***************************************************************************)
(* What the ledger service promises its callers: an event that a request   *)
(* brings is written at most once, "201" is only said of one that was      *)
(* written, and a hash is called valid or invalid for what stands under    *)
(* its key at that moment.  Nothing is promised of an event that another   *)
(* one of its key replaces.                                                *)
(***************************************************************************)
CONSTANTS Requests, Events, Key, None

VARIABLES
  event, kind,  \* per request, what it asks: inputs that do not change
  stored,       \* per key, the event written last, or None
  taken,        \* requests whose event was written
  answer        \* per request, its answer, or None

vars == <<event, kind, stored, taken, answer>>

Init ==
  /\ event \in [Requests -> Events] /\ kind \in [Requests -> {"log", "verify"}]
  /\ stored = [k \in {Key[v] : v \in Events} |-> None]
  /\ taken = {} /\ answer = [r \in Requests |-> None]

Tell(r, s) == answer[r] = None /\ answer' = [answer EXCEPT ![r] = s]

(* The event is written; its caller may be told at once, later or never.   *)
Take(r) ==
  /\ kind[r] = "log" /\ r \notin taken /\ taken' = taken \cup {r}
  /\ stored' = [stored EXCEPT ![Key[event[r]]] = event[r]]
  /\ UNCHANGED answer \/ Tell(r, "201") \/ Tell(r, "500")
  /\ UNCHANGED <<event, kind>>

(* A request is refused, or ends in an error.                              *)
Refuse(r) ==
  /\ Tell(r, "400") \/ Tell(r, "500")
  /\ UNCHANGED <<event, kind, stored, taken>>

Check(r) ==
  /\ kind[r] = "verify" /\ stored[Key[event[r]]] # None
  /\ Tell(r, IF stored[Key[event[r]]] = event[r] THEN "valid" ELSE "invalid")
  /\ UNCHANGED <<event, kind, stored, taken>>

Next == \E r \in Requests : Take(r) \/ Refuse(r) \/ Check(r)

Spec == Init /\ [][Next]_vars
=============================================================================
