----------------------------- MODULE SoarAudit -----------------------------
(***************************************************************************)
(* src/soar-service/src/emitters/kafkaEmitter.ts: withAudit runs an action *)
(* and emits a record of how it ended, in a Kafka transaction tried again  *)
(* by utils/backoff.ts.  All calls share one producer, and one promise of  *)
(* its connection.                                                         *)
(*                                                                         *)
(* The client library, from how the code calls it: transaction() raises    *)
(* while a transaction is open; one whose abort failed stays open.         *)
(***************************************************************************)
EXTENDS Integers

CONSTANTS
  Calls,          \* calls of withAudit
  Retries,        \* retries of one emission
  Nobody,
  MaxKafkaFaults  \* bound: errors of Kafka

ASSUME SoarAuditAssumption ==
  Nobody \notin Calls /\ Retries \in Nat /\ MaxKafkaFaults \in Nat

VARIABLES
  connected,  \* the cached promise: "none", "pending", "ok" or "rejected"
  open,       \* the call whose transaction is open on the producer, or Nobody
  callPc,     \* per call, where it stands
  status,     \* per call, the status of the record it emits, or Nobody
  tries,      \* per call, failed attempts of the emission in hand
  records,    \* per call and status, records committed to the topic
  broken,     \* calls whose action threw
  kafkaFaults

call == <<callPc, status, tries>>
soarAuditVars == <<connected, open, call, records, broken, kafkaFaults>>

SoarAuditInit ==
  /\ connected = "none" /\ open = Nobody
  /\ callPc = [a \in Calls |-> "idle"] /\ status = [a \in Calls |-> Nobody]
  /\ tries = [a \in Calls |-> 0]
  /\ records = [a \in Calls |-> [success |-> 0, failed |-> 0]]
  /\ broken = {} /\ kafkaFaults = 0

KafkaFault == kafkaFaults < MaxKafkaFaults /\ kafkaFaults' = kafkaFaults + 1

MoveCall(a, p) == callPc' = [callPc EXCEPT ![a] = p] /\ UNCHANGED <<status, tries>>

Emit(a, s) ==
  /\ callPc' = [callPc EXCEPT ![a] = "connect"]
  /\ status' = [status EXCEPT ![a] = s]
  /\ tries' = [tries EXCEPT ![a] = 0]

-----------------------------------------------------------------------------
(* withAudit                                                               *)

(* The action returns, or throws.                                          *)
Act(a) ==
  /\ callPc[a] = "idle"
  /\ \/ Emit(a, "success") /\ UNCHANGED broken
     \/ Emit(a, "failed") /\ broken' = broken \cup {a}
  /\ UNCHANGED <<connected, open, records, kafkaFaults>>

AfterEmitted(a) == IF status[a] = "success" THEN "returned" ELSE "thrown"

(* The emission raises: a success record that cannot be sent is followed   *)
(* by a failed one; an error of that replaces the error of the action.     *)
EmissionRaises(a) ==
  IF status[a] = "success" THEN Emit(a, "failed") ELSE MoveCall(a, "masked")

-----------------------------------------------------------------------------
(* ensureConnected                                                         *)

EnsureConnected(a) ==
  /\ callPc[a] = "connect" /\ MoveCall(a, "connecting")
  /\ connected' = IF connected = "none" THEN "pending" ELSE connected
  /\ UNCHANGED <<open, records, broken, kafkaFaults>>

ConnectEnds ==
  /\ connected = "pending"
  /\ \/ connected' = "ok" /\ UNCHANGED kafkaFaults
     \/ connected' = "rejected" /\ KafkaFault
  /\ UNCHANGED <<open, call, records, broken>>

Settled_Ok == connected = "ok"

Settled == connected # "pending"

(* A rejected promise stays, and its error is outside the retries.         *)
AwaitConnected(a) ==
  /\ callPc[a] = "connecting" /\ Settled
  /\ IF connected = "rejected" THEN EmissionRaises(a) ELSE MoveCall(a, "begin")
  /\ UNCHANGED <<connected, open, records, broken, kafkaFaults>>

-----------------------------------------------------------------------------
(* exponentialBackoff around one transaction                               *)

Exhausted(a) == tries[a] + 1 > Retries

Retry(a) ==
  /\ IF Exhausted(a)
     THEN EmissionRaises(a)
     ELSE /\ tries' = [tries EXCEPT ![a] = @ + 1]
          /\ callPc' = [callPc EXCEPT ![a] = "begin"]
          /\ UNCHANGED status

BeginTransaction(a) ==
  /\ callPc[a] = "begin"
  /\ IF open = Nobody /\ connected = "ok"
     THEN open' = a /\ MoveCall(a, "send")
     ELSE Retry(a) /\ UNCHANGED open
  /\ UNCHANGED <<connected, records, broken, kafkaFaults>>

Send(a) ==
  /\ callPc[a] = "send" /\ connected = "ok"
  /\ MoveCall(a, "commit")
  /\ UNCHANGED <<connected, open, records, broken, kafkaFaults>>

(* Both kinds of error, retriable or not, are thrown to the retries.       *)
SendFails(a) ==
  /\ callPc[a] = "send"
  /\ MoveCall(a, "abort")
  /\ IF connected = "ok" THEN KafkaFault ELSE UNCHANGED kafkaFaults
  /\ UNCHANGED <<connected, open, records, broken>>

Committed(a) == records' = [records EXCEPT ![a][status[a]] = @ + 1]

CommitEnds(a) ==
  /\ callPc[a] = "commit" /\ connected = "ok"
  /\ Committed(a) /\ open' = Nobody
  /\ MoveCall(a, AfterEmitted(a))
  /\ UNCHANGED <<connected, broken, kafkaFaults>>

AfterCommitError_Done(a) == AfterEmitted(a)

AfterCommitError(a) == "abort"

(* The commit fails, or its answer does after it took effect: by an error, *)
(* or because a shutdown cut the connection.                               *)
CommitFails(a) ==
  /\ callPc[a] = "commit" /\ (Committed(a) \/ UNCHANGED records)
  /\ IF connected = "ok" THEN KafkaFault ELSE UNCHANGED kafkaFaults
  /\ MoveCall(a, AfterCommitError(a))
  /\ UNCHANGED <<connected, open, broken>>

(* An error of the abort is ignored.                                       *)
Abort(a) ==
  /\ callPc[a] = "abort"
  /\ \/ connected = "ok" /\ open' = Nobody /\ UNCHANGED kafkaFaults
     \/ connected = "ok" /\ KafkaFault /\ UNCHANGED open
     \/ connected # "ok" /\ UNCHANGED <<open, kafkaFaults>>
  /\ Retry(a)
  /\ UNCHANGED <<connected, records, broken>>

-----------------------------------------------------------------------------
(* shutdown: a later call connects again.                                  *)
Shutdown ==
  /\ connected \in {"ok", "rejected"} /\ KafkaFault
  /\ connected' = "none"
  /\ UNCHANGED <<open, call, records, broken>>

AuditStep(a) ==
  \/ EnsureConnected(a) \/ AwaitConnected(a) \/ BeginTransaction(a) \/ Send(a) \/ SendFails(a)
  \/ CommitEnds(a) \/ CommitFails(a) \/ Abort(a)

SoarAuditNext == ConnectEnds \/ Shutdown \/ \E a \in Calls : Act(a) \/ AuditStep(a)

SoarAuditSpec == SoarAuditInit /\ [][SoarAuditNext]_soarAuditVars

(* Node resumes the calls whose await or timer is over, and the client     *)
(* settles its connect.                                                    *)
AuditProgress == ConnectEnds \/ \E a \in Calls : AuditStep(a)

-----------------------------------------------------------------------------
AuditEnded == {"returned", "thrown", "masked"}

(* Every variable has its type, and only the holder of the transaction     *)
(* sends in it.                                                            *)
SoarAuditTypeOK ==
  /\ connected \in {"none", "pending", "ok", "rejected"}
  /\ open \in Calls \cup {Nobody}
  /\ callPc \in [Calls -> AuditEnded \cup
                          {"idle", "connect", "connecting", "begin", "send", "commit", "abort"}]
  /\ status \in [Calls -> {"success", "failed", Nobody}]
  /\ tries \in [Calls -> 0 .. Retries]
  /\ records \in [Calls -> [success : 0 .. MaxKafkaFaults + 1,
                            failed : 0 .. MaxKafkaFaults + 1]]
  /\ broken \in SUBSET Calls /\ kafkaFaults \in 0 .. MaxKafkaFaults
  /\ \A a \in Calls : callPc[a] \in {"send", "commit", "abort"} => open = a

(* Whoever sees the action's own end, its result or its error, can read it *)
(* in the audit topic (lines 75-83).                                       *)
OutcomeIsRecorded ==
  \A a \in Calls :
    /\ callPc[a] = "returned" => records[a].success > 0 /\ a \notin broken
    /\ callPc[a] = "thrown"   => records[a].failed > 0

(* The retries add a record only when a commit's answer was lost: each     *)
(* further record of one status took a fault of its own (lines 56-69).     *)
DuplicatesNeedFaults ==
  \A a \in Calls : records[a].success + records[a].failed
                     <= kafkaFaults + IF callPc[a] \in {"returned", "thrown"} THEN 1 ELSE 0

(* An action that threw is never recorded as a success.                    *)
NoFalseSuccess == \A a \in broken : records[a].success = 0

(* Every audited call ends, whatever the producer does: also when its      *)
(* transaction stays open for good, or the cached promise is rejected.     *)
EveryCallEnds == \A a \in Calls : callPc[a] # "idle" ~> callPc[a] \in AuditEnded

(* The audit records of an action say what happened to it, and say it once *)
(* unless Kafka failed (kafkaEmitter.ts:50-85).                            *)
SoarAuditInv ==
  SoarAuditTypeOK /\ OutcomeIsRecorded /\ DuplicatesNeedFaults /\ NoFalseSuccess
=============================================================================
