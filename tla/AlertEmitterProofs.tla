-------------------------- MODULE AlertEmitterProofs --------------------------
(***************************************************************************)
(* Theorems about AlertEmitter for every set of calls, events and          *)
(* processes.                                                              *)
(*                                                                         *)
(* The inductive invariant is IInv.  Its core is OwnRow: the compensating  *)
(* DELETE names an event, but the calls that come to it have inserted the  *)
(* row that the event has, so that no two of them have the same event.     *)
(***************************************************************************)
EXTENDS AlertEmitter, TLAPS

(* A call that has begun runs in a process.                                *)
Homes == \A c \in Emits : pc[c] # "idle" => home[c] \in Processes

(* inserted is set by the INSERT, and only a call with it takes rows back. *)
InsertedFlag ==
  \A c \in Emits :
    /\ pc[c] \in {"idle", "insert"} => c \notin inserted
    /\ pc[c] \in {"delete", "dlq"} => c \in inserted

(* Until a call that has inserted its row takes it back the event has that *)
(* row, and from then on never again.                                      *)
OwnRow ==
  \A c \in inserted :
    /\ pc[c] \in {"commit", "delete"} => row[Event[c]] = c
    /\ pc[c] \in {"dlq", "failed"} => row[Event[c]] # c

(* A call publishes at its end only.                                       *)
PublishedLast ==
  \A c \in Emits :
    /\ published[c] > 0 => pc[c] \in {"emitted", "raised", "left"}
    /\ pc[c] = "emitted" => published[c] > 0

(* A dead letter comes from a call that has failed, wherever it waits.     *)
DeadLetters ==
  /\ \A c \in dlq : pc[c] = "failed"
  /\ \A p \in Processes : \A c \in txnDlq[p] : pc[c] = "failed"

(* What PublishedHasRow says, from the INSERT on.                          *)
RowOrTakenBack ==
  \A c \in Emits : pc[c] = "commit" \/ published[c] > 0 =>
    \/ row[Event[c]] # None
    \/ \E d \in Emits \ {c} : Event[d] = Event[c] /\ TookBack(d)

IInv ==
  /\ TypeOK /\ Homes /\ InsertedFlag /\ OwnRow
  /\ PublishedLast /\ DeadLetters /\ RowOrTakenBack

-----------------------------------------------------------------------------
(* The event of a call is one of the events. *)
LEMMA EventOf == \A c \in Emits : Event[c] \in Events
  BY DEF Events

(* Every step keeps the types: a call that commits has published nothing yet.  *)
LEMMA TypeStep ==
  ASSUME TypeOK, Homes, PublishedLast, [Next]_vars
  PROVE  TypeOK'
  <1> USE EmitterAssumption, EventOf DEF kafka, store, calls, TypeOK, Ends, Homes, PublishedLast
  <1>1. ASSUME NEW p \in Processes, StartProcess(p) PROVE TypeOK'
    BY <1>1 DEF StartProcess
  <1>2. ASSUME NEW p \in Processes, Die(p) PROVE TypeOK'
    BY <1>2 DEF Die, Ends, Fault, EndTxn
  <1>3. ASSUME NEW p \in Processes, NEW c \in Emits, Begin(c, p) PROVE TypeOK'
    BY <1>3 DEF Begin, Goto
  <1>4. ASSUME NEW c \in Emits, Insert(c) PROVE TypeOK'
    BY <1>4 DEF Insert, At, Stored, Inserts, Goto
  <1>5. ASSUME NEW c \in Emits, InsertFails(c) PROVE TypeOK'
    BY <1>5 DEF InsertFails, At, Fault, Stored, EndTxn, AfterAbort, AbortRaises, Goto
  <1>6. ASSUME NEW c \in Emits, Commit(c) PROVE TypeOK'
    BY <1>6 DEF Commit, At, Published, EndTxn, Goto
  <1>7. ASSUME NEW c \in Emits, CommitRefused(c) PROVE TypeOK'
    BY <1>7 DEF CommitRefused, At, Fault, EndTxn, AfterRefusal, AbortRaises, Goto
  <1>8. ASSUME NEW c \in Emits, CommitFenced(c) PROVE TypeOK'
    BY <1>8 DEF CommitFenced, At, Fault, Published, EndTxn, AfterFatal, Goto
  <1>9. ASSUME NEW c \in Emits, Delete(c) PROVE TypeOK'
    BY <1>9 DEF Delete, At, Goto
  <1>10. ASSUME NEW c \in Emits, DeleteFails(c) PROVE TypeOK'
    BY <1>10 DEF DeleteFails, At, Fault, Goto
  <1>11. ASSUME NEW c \in Emits, SendDlq(c) PROVE TypeOK'
    BY <1>11 DEF SendDlq, At, Goto
  <1>12. CASE UNCHANGED vars
    BY <1>12 DEF vars
  <1>13. ASSUME NEW p \in Processes, TimesOut(p) PROVE TypeOK'
    BY <1>13 DEF TimesOut, Fault
  <1>14. ASSUME NEW c \in Emits, Cancelled(c) PROVE TypeOK'
    BY <1>14 DEF Cancelled, At, Fault, Stored, Goto
  <1>15. ASSUME NEW c \in Emits, CommitInDoubt(c) PROVE TypeOK'
    BY <1>15 DEF CommitInDoubt, At, Fault, Published, Goto
  <1> QED
    BY <1>1, <1>2, <1>3, <1>4, <1>5, <1>6, <1>7, <1>8, <1>9, <1>10, <1>11, <1>12, <1>13,
       <1>14, <1>15 DEF Next, Step

(* A call keeps the process it began in.  *)
LEMMA HomesStep ==
  ASSUME TypeOK, Homes, [Next]_vars
  PROVE  Homes'
  <1> USE DEF kafka, store, calls, TypeOK, Homes
  <1>1. ASSUME NEW p \in Processes, StartProcess(p) PROVE Homes'
    BY <1>1 DEF StartProcess
  <1>2. ASSUME NEW p \in Processes, Die(p) PROVE Homes'
    BY <1>2 DEF Die, Ends, Fault, EndTxn
  <1>3. ASSUME NEW p \in Processes, NEW c \in Emits, Begin(c, p) PROVE Homes'
    BY <1>3 DEF Begin, Goto
  <1>4. ASSUME NEW c \in Emits, Insert(c) PROVE Homes'
    BY <1>4 DEF Insert, At, Stored, Inserts, Goto
  <1>5. ASSUME NEW c \in Emits, InsertFails(c) PROVE Homes'
    BY <1>5 DEF InsertFails, At, Fault, Stored, EndTxn, AfterAbort, AbortRaises, Goto
  <1>6. ASSUME NEW c \in Emits, Commit(c) PROVE Homes'
    BY <1>6 DEF Commit, At, Published, EndTxn, Goto
  <1>7. ASSUME NEW c \in Emits, CommitRefused(c) PROVE Homes'
    BY <1>7 DEF CommitRefused, At, Fault, EndTxn, AfterRefusal, AbortRaises, Goto
  <1>8. ASSUME NEW c \in Emits, CommitFenced(c) PROVE Homes'
    BY <1>8 DEF CommitFenced, At, Fault, Published, EndTxn, AfterFatal, Goto
  <1>9. ASSUME NEW c \in Emits, Delete(c) PROVE Homes'
    BY <1>9 DEF Delete, At, Goto
  <1>10. ASSUME NEW c \in Emits, DeleteFails(c) PROVE Homes'
    BY <1>10 DEF DeleteFails, At, Fault, Goto
  <1>11. ASSUME NEW c \in Emits, SendDlq(c) PROVE Homes'
    BY <1>11 DEF SendDlq, At, Goto
  <1>12. CASE UNCHANGED vars
    BY <1>12 DEF vars
  <1>13. ASSUME NEW p \in Processes, TimesOut(p) PROVE Homes'
    BY <1>13 DEF TimesOut, Fault
  <1>14. ASSUME NEW c \in Emits, Cancelled(c) PROVE Homes'
    BY <1>14 DEF Cancelled, At, Fault, Stored, Goto
  <1>15. ASSUME NEW c \in Emits, CommitInDoubt(c) PROVE Homes'
    BY <1>15 DEF CommitInDoubt, At, Fault, Published, Goto
  <1> QED
    BY <1>1, <1>2, <1>3, <1>4, <1>5, <1>6, <1>7, <1>8, <1>9, <1>10, <1>11, <1>12, <1>13,
       <1>14, <1>15 DEF Next, Step

(* Only the INSERT sets the flag.  *)
LEMMA InsertedFlagStep ==
  ASSUME TypeOK, InsertedFlag, [Next]_vars
  PROVE  InsertedFlag'
  <1> USE DEF kafka, store, calls, TypeOK, InsertedFlag
  <1>1. ASSUME NEW p \in Processes, StartProcess(p) PROVE InsertedFlag'
    BY <1>1 DEF StartProcess
  <1>2. ASSUME NEW p \in Processes, Die(p) PROVE InsertedFlag'
    BY <1>2 DEF Die, Ends, Fault, EndTxn
  <1>3. ASSUME NEW p \in Processes, NEW c \in Emits, Begin(c, p) PROVE InsertedFlag'
    BY <1>3 DEF Begin, Goto
  <1>4. ASSUME NEW c \in Emits, Insert(c) PROVE InsertedFlag'
    BY <1>4 DEF Insert, At, Stored, Inserts, Goto
  <1>5. ASSUME NEW c \in Emits, InsertFails(c) PROVE InsertedFlag'
    BY <1>5 DEF InsertFails, At, Fault, Stored, EndTxn, AfterAbort, AbortRaises, Goto
  <1>6. ASSUME NEW c \in Emits, Commit(c) PROVE InsertedFlag'
    BY <1>6 DEF Commit, At, Published, EndTxn, Goto
  <1>7. ASSUME NEW c \in Emits, CommitRefused(c) PROVE InsertedFlag'
    BY <1>7 DEF CommitRefused, At, Fault, EndTxn, AfterRefusal, AbortRaises, Goto
  <1>8. ASSUME NEW c \in Emits, CommitFenced(c) PROVE InsertedFlag'
    BY <1>8 DEF CommitFenced, At, Fault, Published, EndTxn, AfterFatal, Goto
  <1>9. ASSUME NEW c \in Emits, Delete(c) PROVE InsertedFlag'
    BY <1>9 DEF Delete, At, Goto
  <1>10. ASSUME NEW c \in Emits, DeleteFails(c) PROVE InsertedFlag'
    BY <1>10 DEF DeleteFails, At, Fault, Goto
  <1>11. ASSUME NEW c \in Emits, SendDlq(c) PROVE InsertedFlag'
    BY <1>11 DEF SendDlq, At, Goto
  <1>12. CASE UNCHANGED vars
    BY <1>12 DEF vars
  <1>13. ASSUME NEW p \in Processes, TimesOut(p) PROVE InsertedFlag'
    BY <1>13 DEF TimesOut, Fault
  <1>14. ASSUME NEW c \in Emits, Cancelled(c) PROVE InsertedFlag'
    BY <1>14 DEF Cancelled, At, Fault, Stored, Goto
  <1>15. ASSUME NEW c \in Emits, CommitInDoubt(c) PROVE InsertedFlag'
    BY <1>15 DEF CommitInDoubt, At, Fault, Published, Goto
  <1> QED
    BY <1>1, <1>2, <1>3, <1>4, <1>5, <1>6, <1>7, <1>8, <1>9, <1>10, <1>11, <1>12, <1>13,
       <1>14, <1>15 DEF Next, Step

(* A DELETE removes the row of its own call.  *)
LEMMA OwnRowStep ==
  ASSUME TypeOK, InsertedFlag, OwnRow, [Next]_vars
  PROVE  OwnRow'
  <1> USE EmitterAssumption, EventOf DEF kafka, store, calls, TypeOK, InsertedFlag, OwnRow
  <1>1. ASSUME NEW p \in Processes, StartProcess(p) PROVE OwnRow'
    BY <1>1 DEF StartProcess
  <1>2. ASSUME NEW p \in Processes, Die(p) PROVE OwnRow'
    BY <1>2 DEF Die, Ends, Fault, EndTxn
  <1>3. ASSUME NEW p \in Processes, NEW c \in Emits, Begin(c, p) PROVE OwnRow'
    BY <1>3 DEF Begin, Goto
  <1>4. ASSUME NEW c \in Emits, Insert(c) PROVE OwnRow'
    BY <1>4 DEF Insert, At, Stored, Inserts, Goto
  <1>5. ASSUME NEW c \in Emits, InsertFails(c) PROVE OwnRow'
    BY <1>5 DEF InsertFails, At, Fault, Stored, EndTxn, AfterAbort, AbortRaises, Goto
  <1>6. ASSUME NEW c \in Emits, Commit(c) PROVE OwnRow'
    BY <1>6 DEF Commit, At, Published, EndTxn, Goto
  <1>7. ASSUME NEW c \in Emits, CommitRefused(c) PROVE OwnRow'
    BY <1>7 DEF CommitRefused, At, Fault, EndTxn, AfterRefusal, AbortRaises, Goto
  <1>8. ASSUME NEW c \in Emits, CommitFenced(c) PROVE OwnRow'
    BY <1>8 DEF CommitFenced, At, Fault, Published, EndTxn, AfterFatal, Goto
  <1>9. ASSUME NEW c \in Emits, Delete(c) PROVE OwnRow'
    BY <1>9 DEF Delete, At, Goto
  <1>10. ASSUME NEW c \in Emits, DeleteFails(c) PROVE OwnRow'
    BY <1>10 DEF DeleteFails, At, Fault, Goto
  <1>11. ASSUME NEW c \in Emits, SendDlq(c) PROVE OwnRow'
    BY <1>11 DEF SendDlq, At, Goto
  <1>12. CASE UNCHANGED vars
    BY <1>12 DEF vars
  <1>13. ASSUME NEW p \in Processes, TimesOut(p) PROVE OwnRow'
    BY <1>13 DEF TimesOut, Fault
  <1>14. ASSUME NEW c \in Emits, Cancelled(c) PROVE OwnRow'
    BY <1>14 DEF Cancelled, At, Fault, Stored, Goto
  <1>15. ASSUME NEW c \in Emits, CommitInDoubt(c) PROVE OwnRow'
    BY <1>15 DEF CommitInDoubt, At, Fault, Published, Goto
  <1> QED
    BY <1>1, <1>2, <1>3, <1>4, <1>5, <1>6, <1>7, <1>8, <1>9, <1>10, <1>11, <1>12, <1>13,
       <1>14, <1>15 DEF Next, Step

(* Both ways to publish end the call.  *)
LEMMA PublishedLastStep ==
  ASSUME TypeOK, PublishedLast, [Next]_vars
  PROVE  PublishedLast'
  <1> USE DEF kafka, store, calls, TypeOK, PublishedLast
  <1>1. ASSUME NEW p \in Processes, StartProcess(p) PROVE PublishedLast'
    BY <1>1 DEF StartProcess
  <1>2. ASSUME NEW p \in Processes, Die(p) PROVE PublishedLast'
    BY <1>2 DEF Die, Ends, Fault, EndTxn
  <1>3. ASSUME NEW p \in Processes, NEW c \in Emits, Begin(c, p) PROVE PublishedLast'
    BY <1>3 DEF Begin, Goto
  <1>4. ASSUME NEW c \in Emits, Insert(c) PROVE PublishedLast'
    BY <1>4 DEF Insert, At, Stored, Inserts, Goto
  <1>5. ASSUME NEW c \in Emits, InsertFails(c) PROVE PublishedLast'
    BY <1>5 DEF InsertFails, At, Fault, Stored, EndTxn, AfterAbort, AbortRaises, Goto
  <1>6. ASSUME NEW c \in Emits, Commit(c) PROVE PublishedLast'
    BY <1>6 DEF Commit, At, Published, EndTxn, Goto
  <1>7. ASSUME NEW c \in Emits, CommitRefused(c) PROVE PublishedLast'
    BY <1>7 DEF CommitRefused, At, Fault, EndTxn, AfterRefusal, AbortRaises, Goto
  <1>8. ASSUME NEW c \in Emits, CommitFenced(c) PROVE PublishedLast'
    BY <1>8 DEF CommitFenced, At, Fault, Published, EndTxn, AfterFatal, Goto
  <1>9. ASSUME NEW c \in Emits, Delete(c) PROVE PublishedLast'
    BY <1>9 DEF Delete, At, Goto
  <1>10. ASSUME NEW c \in Emits, DeleteFails(c) PROVE PublishedLast'
    BY <1>10 DEF DeleteFails, At, Fault, Goto
  <1>11. ASSUME NEW c \in Emits, SendDlq(c) PROVE PublishedLast'
    BY <1>11 DEF SendDlq, At, Goto
  <1>12. CASE UNCHANGED vars
    BY <1>12 DEF vars
  <1>13. ASSUME NEW p \in Processes, TimesOut(p) PROVE PublishedLast'
    BY <1>13 DEF TimesOut, Fault
  <1>14. ASSUME NEW c \in Emits, Cancelled(c) PROVE PublishedLast'
    BY <1>14 DEF Cancelled, At, Fault, Stored, Goto
  <1>15. ASSUME NEW c \in Emits, CommitInDoubt(c) PROVE PublishedLast'
    BY <1>15 DEF CommitInDoubt, At, Fault, Published, Goto
  <1> QED
    BY <1>1, <1>2, <1>3, <1>4, <1>5, <1>6, <1>7, <1>8, <1>9, <1>10, <1>11, <1>12, <1>13,
       <1>14, <1>15 DEF Next, Step

(* A dead letter is produced at the end of its call.  *)
LEMMA DeadLettersStep ==
  ASSUME TypeOK, Homes, DeadLetters, [Next]_vars
  PROVE  DeadLetters'
  <1> USE DEF kafka, store, calls, TypeOK, Homes, DeadLetters
  <1>1. ASSUME NEW p \in Processes, StartProcess(p) PROVE DeadLetters'
    BY <1>1 DEF StartProcess
  <1>2. ASSUME NEW p \in Processes, Die(p) PROVE DeadLetters'
    BY <1>2 DEF Die, Ends, Fault, EndTxn
  <1>3. ASSUME NEW p \in Processes, NEW c \in Emits, Begin(c, p) PROVE DeadLetters'
    BY <1>3 DEF Begin, Goto
  <1>4. ASSUME NEW c \in Emits, Insert(c) PROVE DeadLetters'
    BY <1>4 DEF Insert, At, Stored, Inserts, Goto
  <1>5. ASSUME NEW c \in Emits, InsertFails(c) PROVE DeadLetters'
    BY <1>5 DEF InsertFails, At, Fault, Stored, EndTxn, AfterAbort, AbortRaises, Goto
  <1>6. ASSUME NEW c \in Emits, Commit(c) PROVE DeadLetters'
    BY <1>6 DEF Commit, At, Published, EndTxn, Goto
  <1>7. ASSUME NEW c \in Emits, CommitRefused(c) PROVE DeadLetters'
    BY <1>7 DEF CommitRefused, At, Fault, EndTxn, AfterRefusal, AbortRaises, Goto
  <1>8. ASSUME NEW c \in Emits, CommitFenced(c) PROVE DeadLetters'
    BY <1>8 DEF CommitFenced, At, Fault, Published, EndTxn, AfterFatal, Goto
  <1>9. ASSUME NEW c \in Emits, Delete(c) PROVE DeadLetters'
    BY <1>9 DEF Delete, At, Goto
  <1>10. ASSUME NEW c \in Emits, DeleteFails(c) PROVE DeadLetters'
    BY <1>10 DEF DeleteFails, At, Fault, Goto
  <1>11. ASSUME NEW c \in Emits, SendDlq(c) PROVE DeadLetters'
    BY <1>11 DEF SendDlq, At, Goto
  <1>12. CASE UNCHANGED vars
    BY <1>12 DEF vars
  <1>13. ASSUME NEW p \in Processes, TimesOut(p) PROVE DeadLetters'
    BY <1>13 DEF TimesOut, Fault
  <1>14. ASSUME NEW c \in Emits, Cancelled(c) PROVE DeadLetters'
    BY <1>14 DEF Cancelled, At, Fault, Stored, Goto
  <1>15. ASSUME NEW c \in Emits, CommitInDoubt(c) PROVE DeadLetters'
    BY <1>15 DEF CommitInDoubt, At, Fault, Published, Goto
  <1> QED
    BY <1>1, <1>2, <1>3, <1>4, <1>5, <1>6, <1>7, <1>8, <1>9, <1>10, <1>11, <1>12, <1>13,
       <1>14, <1>15 DEF Next, Step

(* A row disappears only when another call takes back what it inserted.  *)
LEMMA RowOrTakenBackStep ==
  ASSUME TypeOK, InsertedFlag, PublishedLast, RowOrTakenBack, [Next]_vars
  PROVE  RowOrTakenBack'
  <1> USE EmitterAssumption, EventOf DEF kafka, store, calls, TypeOK, InsertedFlag,
         PublishedLast, RowOrTakenBack, TookBack
  <1>1. ASSUME NEW p \in Processes, StartProcess(p) PROVE RowOrTakenBack'
    BY <1>1 DEF StartProcess
  <1>2. ASSUME NEW p \in Processes, Die(p) PROVE RowOrTakenBack'
    BY <1>2 DEF Die, Ends, Fault, EndTxn
  <1>3. ASSUME NEW p \in Processes, NEW c \in Emits, Begin(c, p) PROVE RowOrTakenBack'
    BY <1>3 DEF Begin, Goto
  <1>4. ASSUME NEW c \in Emits, Insert(c) PROVE RowOrTakenBack'
    BY <1>4 DEF Insert, At, Stored, Inserts, Goto
  <1>5. ASSUME NEW c \in Emits, InsertFails(c) PROVE RowOrTakenBack'
    BY <1>5 DEF InsertFails, At, Fault, Stored, EndTxn, AfterAbort, AbortRaises, Goto
  <1>6. ASSUME NEW c \in Emits, Commit(c) PROVE RowOrTakenBack'
    BY <1>6 DEF Commit, At, Published, EndTxn, Goto
  <1>7. ASSUME NEW c \in Emits, CommitRefused(c) PROVE RowOrTakenBack'
    BY <1>7 DEF CommitRefused, At, Fault, EndTxn, AfterRefusal, AbortRaises, Goto
  <1>8. ASSUME NEW c \in Emits, CommitFenced(c) PROVE RowOrTakenBack'
    BY <1>8 DEF CommitFenced, At, Fault, Published, EndTxn, AfterFatal, Goto
  <1>9. ASSUME NEW c \in Emits, Delete(c) PROVE RowOrTakenBack'
    BY <1>9 DEF Delete, At, Goto
  <1>10. ASSUME NEW c \in Emits, DeleteFails(c) PROVE RowOrTakenBack'
    BY <1>10 DEF DeleteFails, At, Fault, Goto
  <1>11. ASSUME NEW c \in Emits, SendDlq(c) PROVE RowOrTakenBack'
    BY <1>11 DEF SendDlq, At, Goto
  <1>12. CASE UNCHANGED vars
    BY <1>12 DEF vars
  <1>13. ASSUME NEW p \in Processes, TimesOut(p) PROVE RowOrTakenBack'
    BY <1>13 DEF TimesOut, Fault
  <1>14. ASSUME NEW c \in Emits, Cancelled(c) PROVE RowOrTakenBack'
    BY <1>14 DEF Cancelled, At, Fault, Stored, Goto
  <1>15. ASSUME NEW c \in Emits, CommitInDoubt(c) PROVE RowOrTakenBack'
    BY <1>15 DEF CommitInDoubt, At, Fault, Published, Goto
  <1> QED
    BY <1>1, <1>2, <1>3, <1>4, <1>5, <1>6, <1>7, <1>8, <1>9, <1>10, <1>11, <1>12, <1>13,
       <1>14, <1>15 DEF Next, Step

-----------------------------------------------------------------------------
(* IInv is inductive. *)
LEMMA Initially == Init => IInv
  <1> SUFFICES ASSUME Init PROVE IInv
    OBVIOUS
  <1> USE EmitterAssumption DEF Init
  <1>1. TypeOK
    BY DEF TypeOK
  <1>2. Homes /\ InsertedFlag /\ OwnRow
    BY DEF Homes, InsertedFlag, OwnRow
  <1>3. PublishedLast /\ DeadLetters /\ RowOrTakenBack
    BY DEF PublishedLast, DeadLetters, RowOrTakenBack
  <1> QED BY <1>1, <1>2, <1>3 DEF IInv

(* Every step keeps the inductive invariant, part by part. *)
LEMMA Inductive == IInv /\ [Next]_vars => IInv'
  BY TypeStep, HomesStep, InsertedFlagStep, OwnRowStep, PublishedLastStep, DeadLettersStep,
     RowOrTakenBackStep DEF IInv

(* The inductive invariant holds of every behaviour of the emitter. *)
THEOREM Invariance == Spec => []IInv
  BY Initially, Inductive, PTL DEF Spec

(* Type correctness; with it, a call publishes at most one alert. *)
THEOREM TypeCorrect == Spec => []TypeOK
  <1>1. IInv => TypeOK
    BY DEF IInv
  <1> QED BY <1>1, Invariance, PTL

(* A published alert is in the table, unless another call for its event took *)
(* its own row back in between (lines 88-125).                               *)
THEOREM PublishedAreStored == Spec => []PublishedHasRow
  <1>1. IInv => PublishedHasRow
    BY DEF IInv, RowOrTakenBack, PublishedHasRow, Announced
  <1> QED BY <1>1, Invariance, PTL

(* A handled Kafka failure leaves no row behind (lines 119-126).             *)
THEOREM StoredAreAnnounced == Spec => []RowsAreAnnounced
  <1>1. IInv => RowsAreAnnounced
    BY DEF IInv, OwnRow, PublishedLast, RowsAreAnnounced, Announced
  <1> QED BY <1>1, Invariance, PTL

(* No alert is both published and in the DLQ, though dead letters ride in    *)
(* the transactions of other calls (lines 109, 126).                         *)
THEOREM DeadLettersAreNotPublished == Spec => []DlqNotPublished
  <1>1. IInv => DlqNotPublished
    BY DEF IInv, PublishedLast, DeadLetters, DlqNotPublished, Announced
  <1> QED BY <1>1, Invariance, PTL

(* The compensating DELETE never removes the row of a published alert.       *)
THEOREM PublishedRowsStay == Spec => PublishedRowStays
  <1>1. IInv /\ [Next]_vars =>
          [\A v \in Events : row[v] \in Announced => row'[v] = row[v]]_vars
    <2> SUFFICES ASSUME IInv, Next, NEW v \in Events, row[v] \in Announced
                 PROVE  row'[v] = row[v]
      OBVIOUS
    <2> USE EmitterAssumption DEF IInv, TypeOK, Announced, kafka, store
    <2>1. ASSUME NEW c \in Emits, pc[c] = "delete", Event[c] = v PROVE FALSE
      BY <2>1 DEF InsertedFlag, OwnRow, PublishedLast
    <2>2. row[v] # None
      OBVIOUS
    <2>3. ASSUME NEW p \in Processes, StartProcess(p) PROVE row' = row
      BY <2>3 DEF StartProcess
    <2>4. ASSUME NEW p \in Processes, Die(p) PROVE row' = row
      BY <2>4 DEF Die
    <2>5. ASSUME NEW p \in Processes, NEW c \in Emits, Begin(c, p) PROVE row' = row
      BY <2>5 DEF Begin
    <2>6. ASSUME NEW c \in Emits, Insert(c) \/ InsertFails(c) \/ Cancelled(c) PROVE row'[v] = row[v]
      BY <2>2, <2>6 DEF Insert, InsertFails, Cancelled, Stored
    <2>7. ASSUME NEW c \in Emits,
                 Commit(c) \/ CommitRefused(c) \/ CommitInDoubt(c) \/ CommitFenced(c) \/ SendDlq(c)
          PROVE  row' = row
      BY <2>7 DEF Commit, CommitRefused, CommitInDoubt, CommitFenced, SendDlq
    <2>9. ASSUME NEW p \in Processes, TimesOut(p) PROVE row' = row
      BY <2>9 DEF TimesOut
    <2>8. ASSUME NEW c \in Emits, Delete(c) \/ DeleteFails(c) PROVE row'[v] = row[v]
      BY <2>1, <2>8 DEF Delete, DeleteFails, At
    <2> QED BY <2>3, <2>4, <2>5, <2>6, <2>7, <2>8, <2>9 DEF Next, Step
  <1> QED BY <1>1, Invariance, PTL DEF Spec, PublishedRowStays
=============================================================================
