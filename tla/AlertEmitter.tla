---------------------------- MODULE AlertEmitter ----------------------------
(***************************************************************************)
(* src/ai_service/app/alert_emitter.py: AlertEmitter.emit stores an alert  *)
(* in Postgres and publishes it in a Kafka transaction; when one of them   *)
(* fails it aborts, takes the row back and sends the alert to alerts_dlq.  *)
(*                                                                         *)
(* Calls of emit in one process share one producer and interleave at every *)
(* await; produce, commit_transaction and abort_transaction block the      *)
(* event loop.  A new process, started while the old one still runs, takes *)
(* over the transactional id and fences the old producer.                  *)
(*                                                                         *)
(* The client library, from how the code calls it: begin_transaction       *)
(* raises unless the producer is ready; produce raises outside a           *)
(* transaction; a fenced producer is fatal, and then abort_transaction     *)
(* raises as well.  The abort of a live producer may also raise: then, as  *)
(* after a cancelled INSERT, emit leaves it inside the transaction, which  *)
(* no other call ends.                                                     *)
(***************************************************************************)
EXTENDS Integers

CONSTANTS
  Emits,       \* calls of emit
  Event,       \* per call, alert.event.id
  Processes,   \* instances of the service, each started once
  None,
  MaxFaults    \* bound: errors and crashes

Events == {Event[c] : c \in Emits}

ASSUME EmitterAssumption == None \notin Emits \cup Processes /\ MaxFaults \in Nat

VARIABLES
  client,     \* per process, its producer: "down", "ready", "in" or "fatal"
  owner,      \* the process whose producer epoch is current
  txnDlq,     \* per process, dead letters produced inside its open transaction
  pc,         \* per call, where emit stands
  home,       \* per call, its process
  inserted,   \* calls whose local inserted is true
  row,        \* table alerts: per event, the call whose row it is
  published,  \* per call, its alerts committed to the topic alerts
  dlq,        \* calls whose alert is committed to alerts_dlq
  faults

kafka == <<client, owner, txnDlq, published, dlq>>
store == <<inserted, row>>
calls == <<pc, home>>
vars  == <<kafka, store, calls, faults>>

Init ==
  /\ client = [p \in Processes |-> "down"] /\ owner = None
  /\ txnDlq = [p \in Processes |-> {}]
  /\ pc = [c \in Emits |-> "idle"] /\ home = [c \in Emits |-> None]
  /\ inserted = {} /\ row = [v \in Events |-> None]
  /\ published = [c \in Emits |-> 0] /\ dlq = {} /\ faults = 0

Fault == faults < MaxFaults /\ faults' = faults + 1

Goto(c, p) == pc' = [pc EXCEPT ![c] = p]

At(c, p) == pc[c] = p /\ client[home[c]] # "down"

(* The transaction of process p ends; the producer becomes s.              *)
EndTxn(p, s) ==
  /\ client' = [client EXCEPT ![p] = s]
  /\ txnDlq' = [txnDlq EXCEPT ![p] = {}]
  /\ UNCHANGED owner

-----------------------------------------------------------------------------
(* Processes                                                               *)

(* init: init_transactions takes a new epoch, which aborts what the        *)
(* previous owner had open.                                                *)
StartProcess(p) ==
  /\ client[p] = "down" /\ \A c \in Emits : home[c] # p
  /\ client' = [client EXCEPT ![p] = "ready"] /\ owner' = p
  /\ txnDlq' = [q \in Processes |-> {}]
  /\ UNCHANGED <<published, dlq, store, calls, faults>>

\* Where a call may have ended; "left" is an end inside the transaction.
Ends == {"emitted", "failed", "raised", "left"}

(* The process dies; the coordinator aborts its transaction.               *)
Die(p) ==
  /\ client[p] # "down" /\ Fault
  /\ EndTxn(p, "down")
  /\ pc' = [c \in Emits |-> IF home[c] = p /\ pc[c] \notin Ends
                            THEN "crashed" ELSE pc[c]]
  /\ UNCHANGED <<published, dlq, store, home>>

(* transaction.timeout.ms runs out: the coordinator aborts the transaction *)
(* and fences its producer, which does not know yet.                       *)
TimesOut(p) ==
  /\ client[p] = "in" /\ owner = p /\ Fault
  /\ owner' = None /\ txnDlq' = [txnDlq EXCEPT ![p] = {}]
  /\ UNCHANGED <<client, published, dlq, store, calls>>

-----------------------------------------------------------------------------
(* emit                                                                    *)

(* begin_transaction stands outside the try: a producer that is inside     *)
(* another call's transaction, or fatal, makes emit raise.                 *)
Begin(c, p) ==
  /\ pc[c] = "idle" /\ client[p] # "down"
  /\ home' = [home EXCEPT ![c] = p]
  /\ IF client[p] = "ready"
     THEN Goto(c, "insert") /\ client' = [client EXCEPT ![p] = "in"]
     ELSE Goto(c, "raised") /\ UNCHANGED client
  /\ UNCHANGED <<owner, txnDlq, published, dlq, store, faults>>

Stored(c) == row' = [row EXCEPT ![Event[c]] = IF @ = None THEN c ELSE @]

(* INSERT .. ON CONFLICT (event_id) DO NOTHING RETURNING id: no row comes  *)
(* back when the event has one.                                            *)
Inserts_ReportsConflict(c) == inserted \cup {c}

Inserts(c) == IF row[Event[c]] = None THEN inserted \cup {c} ELSE inserted

Insert(c) ==
  /\ At(c, "insert")
  /\ Stored(c)
  /\ inserted' = Inserts(c)
  /\ Goto(c, "commit")
  /\ UNCHANGED <<kafka, home, faults>>

(* abort_transaction raises inside the handler: the call ends there, and   *)
(* the transaction does not.                                               *)
AbortRaises(c) ==
  /\ Goto(c, "left")
  /\ UNCHANGED <<client, owner, txnDlq>>

AfterAbort_StillIn == "in"

AfterAbort == "ready"

(* The INSERT fails, or its answer is lost after it took effect: abort,    *)
(* then _send_dlq, which raises outside a transaction and swallows that.   *)
(* The abort of a fenced producer may raise, and so may that of a live one. *)
InsertFails(c) ==
  /\ At(c, "insert") /\ Fault
  /\ Stored(c) \/ UNCHANGED row
  /\ \/ EndTxn(home[c], AfterAbort) /\ Goto(c, "failed")
     \/ owner # home[c] /\ EndTxn(home[c], "fatal") /\ Goto(c, "raised")
     \/ AbortRaises(c)
  /\ UNCHANGED <<published, dlq, inserted, home>>

(* The task is cancelled at the await of the INSERT: CancelledError is not *)
(* an Exception (line 105), so that nothing aborts.                        *)
Cancelled(c) ==
  /\ At(c, "insert") /\ Fault
  /\ Stored(c) \/ UNCHANGED row
  /\ Goto(c, "left")
  /\ UNCHANGED <<kafka, inserted, home>>

Published(c) ==
  /\ published' = [published EXCEPT ![c] = @ + 1]
  /\ dlq' = dlq \cup txnDlq[home[c]]

(* produce and commit_transaction: a dead letter that another call has put *)
(* into the transaction is committed with it.                              *)
Commit(c) ==
  /\ At(c, "commit") /\ owner = home[c]
  /\ Published(c)
  /\ EndTxn(home[c], "ready")
  /\ Goto(c, "emitted")
  /\ UNCHANGED <<store, home, faults>>

AfterRefusal_KeepsRow(c) == "failed"

(* The row is taken back only when this call inserted it.  Otherwise       *)
(* _send_dlq follows the abort at once and swallows its error.             *)
AfterRefusal(c) == IF c \in inserted THEN "delete" ELSE "failed"

(* produce raises, or the commit is refused: abort.                        *)
CommitRefused(c) ==
  /\ At(c, "commit") /\ Fault
  /\ \/ EndTxn(home[c], "ready") /\ Goto(c, AfterRefusal(c))
     \/ AbortRaises(c)
  /\ UNCHANGED <<published, dlq, store, home>>

(* The commit takes effect, its answer does not come in time, and the      *)
(* abort of a transaction that is being committed raises.                  *)
CommitInDoubt(c) ==
  /\ At(c, "commit") /\ owner = home[c] /\ Fault
  /\ Published(c)
  /\ txnDlq' = [txnDlq EXCEPT ![home[c]] = {}]
  /\ Goto(c, "left")
  /\ UNCHANGED <<client, owner, store, home>>

AfterFatal_TakesRowBack(c) == AfterRefusal(c)

AfterFatal_Retries(c) == "commit"

AfterFatal(c) == "raised"

CommitFenced_Recovers(c) ==
  /\ At(c, "commit") /\ owner = home[c] /\ Fault
  /\ Published(c)
  /\ EndTxn(home[c], "ready")
  /\ Goto(c, AfterRefusal(c))
  /\ UNCHANGED <<store, home>>

(* The producer was fenced before or, with the answer to the commit lost,  *)
(* after its transaction ended: abort raises inside the handler.           *)
CommitFenced(c) ==
  /\ At(c, "commit")
  /\ \/ owner # home[c] /\ UNCHANGED <<published, dlq, faults>>
     \/ owner = home[c] /\ Fault /\ Published(c)
  /\ EndTxn(home[c], "fatal")
  /\ Goto(c, AfterFatal(c))
  /\ UNCHANGED <<store, home>>

(* DELETE FROM public.alerts WHERE event_id: whatever row the event has.   *)
Delete(c) ==
  /\ At(c, "delete")
  /\ row' = [row EXCEPT ![Event[c]] = None]
  /\ Goto(c, "dlq")
  /\ UNCHANGED <<kafka, inserted, home, faults>>

(* The DELETE raises, before or after it took effect.                      *)
DeleteFails(c) ==
  /\ At(c, "delete") /\ Fault
  /\ row' = [row EXCEPT ![Event[c]] = None] \/ UNCHANGED row
  /\ Goto(c, "raised")
  /\ UNCHANGED <<kafka, inserted, home>>

(* _send_dlq after the await of the DELETE: the producer may be inside the *)
(* transaction of another call by now; if not, produce raises and the      *)
(* error is swallowed.                                                     *)
SendDlq(c) ==
  /\ At(c, "dlq")
  /\ txnDlq' = IF client[home[c]] = "in" THEN [txnDlq EXCEPT ![home[c]] = @ \cup {c}] ELSE txnDlq
  /\ Goto(c, "failed")
  /\ UNCHANGED <<client, owner, published, dlq, store, home, faults>>

-----------------------------------------------------------------------------
Step(c) ==
  \/ Insert(c) \/ InsertFails(c) \/ Cancelled(c)
  \/ Commit(c) \/ CommitRefused(c) \/ CommitInDoubt(c) \/ CommitFenced(c)
  \/ Delete(c) \/ DeleteFails(c) \/ SendDlq(c)

Next ==
  \/ \E p \in Processes : StartProcess(p) \/ Die(p) \/ TimesOut(p) \/ \E c \in Emits : Begin(c, p)
  \/ \E c \in Emits : Step(c)

Spec == Init /\ [][Next]_vars

(* The event loop keeps running every call it has begun.                   *)
FairSpec == Spec /\ \A c \in Emits : WF_vars(Step(c))

-----------------------------------------------------------------------------
Announced == {c \in Emits : published[c] > 0}

(* Every variable has its type; a call publishes at most one alert.        *)
TypeOK ==
  /\ client \in [Processes -> {"down", "ready", "in", "fatal"}]
  /\ owner \in Processes \cup {None}
  /\ txnDlq \in [Processes -> SUBSET Emits]
  /\ pc \in [Emits -> {"idle", "insert", "commit", "delete", "dlq", "crashed"} \cup Ends]
  /\ home \in [Emits -> Processes \cup {None}]
  /\ inserted \in SUBSET Emits /\ row \in [Events -> Emits \cup {None}]
  /\ published \in [Emits -> 0 .. 1] /\ dlq \in SUBSET Emits
  /\ faults \in 0 .. MaxFaults

TookBack(d) == d \in inserted /\ pc[d] \in {"dlq", "failed", "raised", "crashed"}

(* A published alert is in the table (lines 88-116), unless another call   *)
(* for the same event took its own row back (lines 123-125) while this one *)
(* had already passed over the conflict.                                   *)
PublishedHasRow ==
  \A c \in Announced : \/ row[Event[c]] # None
                       \/ \E d \in Emits \ {c} : Event[d] = Event[c] /\ TookBack(d)

(* A stored alert is announced, once its call has ended, unless that call  *)
(* raised, died or lost the answer to its INSERT: a handled Kafka failure  *)
(* leaves no row behind (lines 119-126).                                   *)
RowsAreAnnounced ==
  \A c \in Emits :
    row[Event[c]] = c /\ pc[c] \in {"emitted", "failed"} =>
      c \in Announced \/ (pc[c] = "failed" /\ c \notin inserted)

(* The compensating DELETE (line 125) names only the event, and still      *)
(* never removes the row of a call whose alert is published.               *)
PublishedRowStays ==
  [][\A v \in Events : row[v] \in Announced => row'[v] = row[v]]_vars

(* An alert is not both published and in the DLQ (lines 109, 126), though  *)
(* dead letters ride in the transactions of other calls.                   *)
DlqNotPublished == (dlq \cup UNION {txnDlq[p] : p \in Processes}) \cap Announced = {}

(* Every way through emit that ends ends the transaction (lines 86, 108,   *)
(* 116, 122), which would else make every later emit raise: a live         *)
(* producer stays inside one only after a cancelled INSERT or an abort     *)
(* that raised.                                                            *)
TransactionCloses ==
  \A p \in Processes :
    client[p] = "in" ~> client[p] # "in" \/ \E c \in Emits : home[c] = p /\ pc[c] = "left"
=============================================================================
