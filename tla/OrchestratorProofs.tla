-------------------------- MODULE OrchestratorProofs --------------------------
(***************************************************************************)
(* Theorems about Orchestrator for every N, Kind, watermark, retry limit   *)
(* and bound.                                                              *)
(*                                                                         *)
(* The inductive invariant is IInv.  Each of its parts has a lemma that    *)
(* every step keeps it, with one proof step per action; the theorems at    *)
(* the end combine them.                                                   *)
(***************************************************************************)
EXTENDS Orchestrator, TLAPS

(* A commit the broker applies carries an offset, by TxnShape.              *)
LEMMA BrokerTypesStep ==
  ASSUME TypeOK, QueueOrder, TxnShape, [Next]_vars
  PROVE  BrokerTypes'
  <1> USE OrchestratorAssumption DEF Running, Fault, NoFault, broker, consumer, producer, history, bounds, LoopHead,
         ProcessEnds, TypeOK, BrokerTypes
  <1>a. Busy => cur \in Offsets /\ attempts <= MaxRetries
    BY DEF QueueOrder
  <1>1. CASE ConsumerStart
    BY <1>1 DEF ConsumerStart, ResumeAt
  <1>2. CASE ProducerStart
    BY <1>2 DEF ProducerStart
  <1>3. CASE Signal
    BY <1>3 DEF Signal
  <1>4. CASE Shutdown
    BY <1>4 DEF Shutdown
  <1>5. CASE Crash
    BY <1>5 DEF Crash
  <1>6. CASE GetOne
    BY <1>6 DEF GetOne, Fetchable, Pauses
  <1>7. CASE Get
    BY <1>7 DEF Get
  <1>8. CASE BeginRaises
    BY <1>8 DEF BeginRaises
  <1>9. CASE Begin
    BY <1>9 DEF Begin
  <1>10. CASE Transform
    BY <1>10 DEF Transform
  <1>11. CASE TransformRaises
    BY <1>11 DEF TransformRaises
  <1>12. CASE SendOk
    BY <1>12, <1>a DEF SendOk, Busy, Offsets, NoOffset
  <1>13. CASE SendFails
    BY <1>13, <1>a DEF SendFails, Busy, Offsets, NoOffset
  <1>14. CASE OffsetsOk
    BY <1>14, <1>a DEF OffsetsOk, NextOffset, Busy, Offsets, NoOffset
  <1>15. CASE OffsetsFail
    BY <1>15, <1>a DEF OffsetsFail, NextOffset, Busy, Offsets, NoOffset
  <1>16. CASE CommitRequest
    BY <1>16 DEF CommitRequest
  <1>17. CASE CommitFenced
    BY <1>17 DEF CommitFenced
  <1>18. CASE CommitAck
    BY <1>18 DEF CommitAck
  <1>19. CASE CommitError
    BY <1>19 DEF CommitError
  <1>20. CASE AbortOk
    BY <1>20 DEF AbortOk
  <1>21. CASE AbortRaises
    BY <1>21 DEF AbortRaises
  <1>22. CASE Backoff
    BY <1>22 DEF Backoff
  <1>23. CASE BrokerCommits
    <2>1. pendingOff \in 1 .. N
      BY <1>23 DEF BrokerCommits, TxnShape
    <2> QED BY <1>23, <2>1 DEF BrokerCommits
  <1>24. CASE BrokerRefuses
    BY <1>24 DEF BrokerRefuses
  <1>25. CASE BrokerTimesOut
    BY <1>25 DEF BrokerTimesOut
  <1>26. CASE UNCHANGED vars
    BY <1>26 DEF vars
  <1>27. CASE GetOneFails
    BY <1>27 DEF GetOneFails
  <1> QED
    BY <1>1, <1>2, <1>3, <1>4, <1>5, <1>6, <1>7, <1>8, <1>9, <1>10, <1>11, <1>12, <1>13,
       <1>14, <1>15, <1>16, <1>17, <1>18, <1>19, <1>20, <1>21, <1>22, <1>23, <1>24, <1>25, <1>26, <1>27
       DEF Next, ProcessStep, BrokerStep

(* The consumer takes its position from the committed offset.               *)
LEMMA ConsumerTypesStep ==
  ASSUME TypeOK, [Next]_vars
  PROVE  ConsumerTypes'
  <1> USE OrchestratorAssumption DEF Running, Fault, NoFault, broker, consumer, producer, history, bounds, LoopHead,
         ProcessEnds, TypeOK, ConsumerTypes
  <1>1. CASE ConsumerStart
    BY <1>1 DEF ConsumerStart, ResumeAt, BrokerTypes
  <1>2. CASE ProducerStart
    BY <1>2 DEF ProducerStart
  <1>3. CASE Signal
    BY <1>3 DEF Signal
  <1>4. CASE Shutdown
    <2>1. queue' \in Seq(Offsets)
      BY <1>4 DEF Shutdown
    <2> QED BY <1>4, <2>1 DEF Shutdown
  <1>5. CASE Crash
    <2>1. queue' \in Seq(Offsets)
      BY <1>5 DEF Crash
    <2> QED BY <1>5, <2>1 DEF Crash
  <1>6. CASE GetOne
    BY <1>6 DEF GetOne, Fetchable, Pauses, Offsets
  <1>7. CASE Get
    BY <1>7 DEF Get
  <1>8. CASE BeginRaises
    BY <1>8 DEF BeginRaises
  <1>9. CASE Begin
    BY <1>9 DEF Begin
  <1>10. CASE Transform
    BY <1>10 DEF Transform
  <1>11. CASE TransformRaises
    BY <1>11 DEF TransformRaises
  <1>12. CASE SendOk
    BY <1>12 DEF SendOk
  <1>13. CASE SendFails
    BY <1>13 DEF SendFails
  <1>14. CASE OffsetsOk
    BY <1>14 DEF OffsetsOk, NextOffset
  <1>15. CASE OffsetsFail
    BY <1>15 DEF OffsetsFail, NextOffset
  <1>16. CASE CommitRequest
    BY <1>16 DEF CommitRequest
  <1>17. CASE CommitFenced
    BY <1>17 DEF CommitFenced
  <1>18. CASE CommitAck
    BY <1>18 DEF CommitAck
  <1>19. CASE CommitError
    BY <1>19 DEF CommitError
  <1>20. CASE AbortOk
    BY <1>20 DEF AbortOk
  <1>21. CASE AbortRaises
    BY <1>21 DEF AbortRaises
  <1>22. CASE Backoff
    BY <1>22 DEF Backoff
  <1>23. CASE BrokerCommits
    BY <1>23 DEF BrokerCommits
  <1>24. CASE BrokerRefuses
    BY <1>24 DEF BrokerRefuses
  <1>25. CASE BrokerTimesOut
    BY <1>25 DEF BrokerTimesOut
  <1>26. CASE UNCHANGED vars
    BY <1>26 DEF vars
  <1>27. CASE GetOneFails
    BY <1>27 DEF GetOneFails
  <1> QED
    BY <1>1, <1>2, <1>3, <1>4, <1>5, <1>6, <1>7, <1>8, <1>9, <1>10, <1>11, <1>12, <1>13,
       <1>14, <1>15, <1>16, <1>17, <1>18, <1>19, <1>20, <1>21, <1>22, <1>23, <1>24, <1>25, <1>26, <1>27
       DEF Next, ProcessStep, BrokerStep

(* Only a record in hand can fail, so attempts stays in range.              *)
LEMMA ProducerTypesStep ==
  ASSUME TypeOK, QueueOrder, TxnShape, [Next]_vars
  PROVE  ProducerTypes'
  <1> USE OrchestratorAssumption DEF Running, Fault, NoFault, broker, consumer, producer, history, bounds, LoopHead,
         ProcessEnds, TypeOK, ProducerTypes
  <1>a. Busy => cur \in Offsets /\ attempts <= MaxRetries
    BY DEF QueueOrder
  <1>1. CASE ConsumerStart
    BY <1>1 DEF ConsumerStart, ResumeAt
  <1>2. CASE ProducerStart
    BY <1>2 DEF ProducerStart
  <1>3. CASE Signal
    BY <1>3 DEF Signal
  <1>4. CASE Shutdown
    <2>1. attempts' \in 0 .. (MaxRetries + 1)
      BY <1>4 DEF Shutdown
    <2> QED BY <1>4, <2>1 DEF Shutdown
  <1>5. CASE Crash
    <2>1. attempts' \in 0 .. (MaxRetries + 1)
      BY <1>5 DEF Crash
    <2> QED BY <1>5, <2>1 DEF Crash
  <1>6. CASE GetOne
    BY <1>6 DEF GetOne, Fetchable, Pauses
  <1>7. CASE Get
    BY <1>7 DEF Get, ConsumerTypes
  <1>8. CASE BeginRaises
    BY <1>8 DEF BeginRaises
  <1>9. CASE Begin
    BY <1>9 DEF Begin
  <1>10. CASE Transform
    BY <1>10 DEF Transform
  <1>11. CASE TransformRaises
    BY <1>11 DEF TransformRaises
  <1>12. CASE SendOk
    BY <1>12 DEF SendOk
  <1>13. CASE SendFails
    BY <1>13 DEF SendFails
  <1>14. CASE OffsetsOk
    BY <1>14 DEF OffsetsOk, NextOffset
  <1>15. CASE OffsetsFail
    BY <1>15 DEF OffsetsFail, NextOffset
  <1>16. CASE CommitRequest
    BY <1>16 DEF CommitRequest
  <1>17. CASE CommitFenced
    BY <1>17 DEF CommitFenced
  <1>18. CASE CommitAck
    BY <1>18 DEF CommitAck
  <1>19. CASE CommitError
    BY <1>19 DEF CommitError
  <1>20. CASE AbortOk
    <2>1. attempts' \in 0 .. (MaxRetries + 1)
      BY <1>20, <1>a DEF AbortOk, Busy
    <2> QED BY <1>20, <2>1 DEF AbortOk
  <1>21. CASE AbortRaises
    BY <1>21 DEF AbortRaises
  <1>22. CASE Backoff
    BY <1>22 DEF Backoff
  <1>23. CASE BrokerCommits
    BY <1>23 DEF BrokerCommits
  <1>24. CASE BrokerRefuses
    BY <1>24 DEF BrokerRefuses
  <1>25. CASE BrokerTimesOut
    BY <1>25 DEF BrokerTimesOut
  <1>26. CASE UNCHANGED vars
    BY <1>26 DEF vars
  <1>27. CASE GetOneFails
    BY <1>27 DEF GetOneFails
  <1> QED
    BY <1>1, <1>2, <1>3, <1>4, <1>5, <1>6, <1>7, <1>8, <1>9, <1>10, <1>11, <1>12, <1>13,
       <1>14, <1>15, <1>16, <1>17, <1>18, <1>19, <1>20, <1>21, <1>22, <1>23, <1>24, <1>25, <1>26, <1>27
       DEF Next, ProcessStep, BrokerStep

(* A record that is given up is one in hand.                                *)
LEMMA HistoryTypesStep ==
  ASSUME TypeOK, QueueOrder, TxnShape, [Next]_vars
  PROVE  HistoryTypes'
  <1> USE OrchestratorAssumption DEF Running, Fault, NoFault, broker, consumer, producer, history, bounds, LoopHead,
         ProcessEnds, TypeOK, HistoryTypes
  <1>a. Busy => cur \in Offsets /\ attempts <= MaxRetries
    BY DEF QueueOrder
  <1>1. CASE ConsumerStart
    BY <1>1 DEF ConsumerStart, ResumeAt
  <1>2. CASE ProducerStart
    BY <1>2 DEF ProducerStart
  <1>3. CASE Signal
    BY <1>3 DEF Signal
  <1>4. CASE Shutdown
    BY <1>4 DEF Shutdown
  <1>5. CASE Crash
    BY <1>5 DEF Crash
  <1>6. CASE GetOne
    BY <1>6 DEF GetOne, Fetchable, Pauses
  <1>7. CASE Get
    BY <1>7 DEF Get
  <1>8. CASE BeginRaises
    BY <1>8 DEF BeginRaises
  <1>9. CASE Begin
    BY <1>9 DEF Begin
  <1>10. CASE Transform
    BY <1>10 DEF Transform
  <1>11. CASE TransformRaises
    BY <1>11 DEF TransformRaises
  <1>12. CASE SendOk
    BY <1>12 DEF SendOk
  <1>13. CASE SendFails
    BY <1>13 DEF SendFails
  <1>14. CASE OffsetsOk
    BY <1>14 DEF OffsetsOk, NextOffset
  <1>15. CASE OffsetsFail
    BY <1>15 DEF OffsetsFail, NextOffset
  <1>16. CASE CommitRequest
    BY <1>16 DEF CommitRequest
  <1>17. CASE CommitFenced
    BY <1>17 DEF CommitFenced
  <1>18. CASE CommitAck
    BY <1>18 DEF CommitAck
  <1>19. CASE CommitError
    BY <1>19 DEF CommitError
  <1>20. CASE AbortOk
    <2>1. gaveUp' \in SUBSET Offsets
      BY <1>20, <1>a DEF AbortOk, Busy
    <2> QED BY <1>20, <2>1 DEF AbortOk
  <1>21. CASE AbortRaises
    BY <1>21 DEF AbortRaises
  <1>22. CASE Backoff
    BY <1>22 DEF Backoff
  <1>23. CASE BrokerCommits
    <2>1. stale' \in [Offsets -> Nat]
      BY <1>23 DEF BrokerCommits
    <2> QED BY <1>23, <2>1 DEF BrokerCommits
  <1>24. CASE BrokerRefuses
    BY <1>24 DEF BrokerRefuses
  <1>25. CASE BrokerTimesOut
    BY <1>25 DEF BrokerTimesOut
  <1>26. CASE UNCHANGED vars
    BY <1>26 DEF vars
  <1>27. CASE GetOneFails
    BY <1>27 DEF GetOneFails
  <1> QED
    BY <1>1, <1>2, <1>3, <1>4, <1>5, <1>6, <1>7, <1>8, <1>9, <1>10, <1>11, <1>12, <1>13,
       <1>14, <1>15, <1>16, <1>17, <1>18, <1>19, <1>20, <1>21, <1>22, <1>23, <1>24, <1>25, <1>26, <1>27
       DEF Next, ProcessStep, BrokerStep

(* Every step keeps the types. *)
LEMMA TypeStep ==
  ASSUME TypeOK, QueueOrder, TxnShape, [Next]_vars
  PROVE  TypeOK'
  BY BrokerTypesStep, ConsumerTypesStep, ProducerTypesStep, HistoryTypesStep DEF TypeOK

(* The consumer pauses on the record that passes the watermark.              *)
LEMMA PauseBoundStep ==
  ASSUME TypeOK, PauseBound, [Next]_vars
  PROVE  PauseBound'
  <1> USE OrchestratorAssumption DEF Running, Fault, NoFault, broker, consumer, producer, history, bounds, LoopHead,
         ProcessEnds, TypeOK, ConsumerTypes, PauseBound
  <1>1. CASE ConsumerStart
    BY <1>1 DEF ConsumerStart, ResumeAt
  <1>2. CASE ProducerStart
    BY <1>2 DEF ProducerStart
  <1>3. CASE Signal
    BY <1>3 DEF Signal
  <1>4. CASE Shutdown
    BY <1>4 DEF Shutdown
  <1>5. CASE Crash
    BY <1>5 DEF Crash
  <1>6. CASE GetOne
    <2>1. Len(queue') = Len(queue) + 1
      BY <1>6 DEF GetOne, Fetchable, Pauses
    <2>2. ~paused /\ (~paused' => ~(Len(queue') > HighWater))
      BY <1>6 DEF GetOne, Fetchable, Pauses
    <2> QED BY <2>1, <2>2
  <1>7. CASE Get
    BY <1>7 DEF Get
  <1>8. CASE BeginRaises
    BY <1>8 DEF BeginRaises
  <1>9. CASE Begin
    BY <1>9 DEF Begin
  <1>10. CASE Transform
    BY <1>10 DEF Transform
  <1>11. CASE TransformRaises
    BY <1>11 DEF TransformRaises
  <1>12. CASE SendOk
    BY <1>12 DEF SendOk
  <1>13. CASE SendFails
    BY <1>13 DEF SendFails
  <1>14. CASE OffsetsOk
    BY <1>14 DEF OffsetsOk, NextOffset
  <1>15. CASE OffsetsFail
    BY <1>15 DEF OffsetsFail, NextOffset
  <1>16. CASE CommitRequest
    BY <1>16 DEF CommitRequest
  <1>17. CASE CommitFenced
    BY <1>17 DEF CommitFenced
  <1>18. CASE CommitAck
    BY <1>18 DEF CommitAck
  <1>19. CASE CommitError
    BY <1>19 DEF CommitError
  <1>20. CASE AbortOk
    BY <1>20 DEF AbortOk
  <1>21. CASE AbortRaises
    BY <1>21 DEF AbortRaises
  <1>22. CASE Backoff
    BY <1>22 DEF Backoff
  <1>23. CASE BrokerCommits
    BY <1>23 DEF BrokerCommits
  <1>24. CASE BrokerRefuses
    BY <1>24 DEF BrokerRefuses
  <1>25. CASE BrokerTimesOut
    BY <1>25 DEF BrokerTimesOut
  <1>26. CASE UNCHANGED vars
    BY <1>26 DEF vars
  <1>27. CASE GetOneFails
    BY <1>27 DEF GetOneFails
  <1> QED
    BY <1>1, <1>2, <1>3, <1>4, <1>5, <1>6, <1>7, <1>8, <1>9, <1>10, <1>11, <1>12, <1>13,
       <1>14, <1>15, <1>16, <1>17, <1>18, <1>19, <1>20, <1>21, <1>22, <1>23, <1>24, <1>25, <1>26, <1>27
       DEF Next, ProcessStep, BrokerStep

(* The queue holds the offsets just below the position, in order.           *)
LEMMA QueueOrderStep ==
  ASSUME TypeOK, QueueOrder, [Next]_vars
  PROVE  QueueOrder'
  <1> USE OrchestratorAssumption DEF Running, Fault, NoFault, broker, consumer, producer, history, bounds, LoopHead,
         ProcessEnds, TypeOK, ConsumerTypes, BrokerTypes, ProducerTypes, QueueOrder, Front, Busy
  <1>1. CASE ConsumerStart
    BY <1>1 DEF ConsumerStart, ResumeAt
  <1>2. CASE ProducerStart
    BY <1>2 DEF ProducerStart
  <1>3. CASE Signal
    BY <1>3 DEF Signal
  <1>4. CASE Shutdown
    BY <1>4 DEF Shutdown
  <1>5. CASE Crash
    BY <1>5 DEF Crash
  <1>6. CASE GetOne
    BY <1>6 DEF GetOne, Fetchable, Pauses
  <1>7. CASE Get
    BY <1>7 DEF Get
  <1>8. CASE BeginRaises
    BY <1>8 DEF BeginRaises
  <1>9. CASE Begin
    BY <1>9 DEF Begin
  <1>10. CASE Transform
    BY <1>10 DEF Transform
  <1>11. CASE TransformRaises
    BY <1>11 DEF TransformRaises
  <1>12. CASE SendOk
    BY <1>12 DEF SendOk
  <1>13. CASE SendFails
    BY <1>13 DEF SendFails
  <1>14. CASE OffsetsOk
    BY <1>14 DEF OffsetsOk, NextOffset
  <1>15. CASE OffsetsFail
    BY <1>15 DEF OffsetsFail, NextOffset
  <1>16. CASE CommitRequest
    BY <1>16 DEF CommitRequest
  <1>17. CASE CommitFenced
    BY <1>17 DEF CommitFenced
  <1>18. CASE CommitAck
    BY <1>18 DEF CommitAck
  <1>19. CASE CommitError
    BY <1>19 DEF CommitError
  <1>20. CASE AbortOk
    BY <1>20 DEF AbortOk
  <1>21. CASE AbortRaises
    BY <1>21 DEF AbortRaises
  <1>22. CASE Backoff
    BY <1>22 DEF Backoff
  <1>23. CASE BrokerCommits
    BY <1>23 DEF BrokerCommits
  <1>24. CASE BrokerRefuses
    BY <1>24 DEF BrokerRefuses
  <1>25. CASE BrokerTimesOut
    BY <1>25 DEF BrokerTimesOut
  <1>26. CASE UNCHANGED vars
    BY <1>26 DEF vars
  <1>27. CASE GetOneFails
    BY <1>27 DEF GetOneFails
  <1> QED
    BY <1>1, <1>2, <1>3, <1>4, <1>5, <1>6, <1>7, <1>8, <1>9, <1>10, <1>11, <1>12, <1>13,
       <1>14, <1>15, <1>16, <1>17, <1>18, <1>19, <1>20, <1>21, <1>22, <1>23, <1>24, <1>25, <1>26, <1>27
       DEF Next, ProcessStep, BrokerStep

(* Only GetOne, GetOneFails, Get and the end or start of the process move the queue or   *)
(* the position; the boundary between them stays where it was for GetOne    *)
(* and advances by one for Get.                                             *)
LEMMA FrontOfQueue ==
  ASSUME TypeOK, QueueOrder
  PROVE  /\ Front \in Nat /\ Front <= position
         /\ GetOne => Front' = Front
         /\ Get => cur' = Front /\ Front' = Front + 1
         /\ ConsumerStart => Front' = committed
  <1> USE DEF TypeOK, BrokerTypes, ConsumerTypes, QueueOrder, Front, Running, ResumeAt
  <1>1. Front \in Nat /\ Front <= position
    OBVIOUS
  <1>2. ASSUME GetOne PROVE Front' = Front
    <2>1. Len(queue') = Len(queue) + 1
      BY <1>2, OrchestratorAssumption DEF GetOne, Fetchable, Pauses
    <2> QED BY <1>2, <2>1 DEF GetOne, Fetchable, Pauses
  <1>3. ASSUME Get PROVE cur' = Front /\ Front' = Front + 1
    <2>1. Len(queue') = Len(queue) - 1 /\ cur' = queue[1] /\ Len(queue) >= 1
      BY <1>3 DEF Get
    <2> QED BY <1>3, <2>1 DEF Get, consumer
  <1>4. ASSUME ConsumerStart PROVE Front' = committed
    BY <1>4 DEF ConsumerStart, ResumeAt
  <1> QED BY <1>1, <1>2, <1>3, <1>4

(* The transaction holds what process_kafka_message has put in it so far.   *)
LEMMA TxnShapeStep ==
  ASSUME TypeOK, QueueOrder, TxnShape, [Next]_vars
  PROVE  TxnShape'
  <1> USE OrchestratorAssumption DEF Running, Fault, NoFault, broker, consumer, producer, history, bounds, LoopHead,
         ProcessEnds, TypeOK, BrokerTypes, ConsumerTypes, ProducerTypes, HistoryTypes, QueueOrder, TxnShape, Busy
  <1>f. /\ Front \in Nat /\ Front <= position
        /\ GetOne => Front' = Front
        /\ Get => cur' = Front /\ Front' = Front + 1
        /\ ConsumerStart => Front' = committed
    BY FrontOfQueue
  <1>u. queue' = queue /\ position' = position => Front' = Front
    BY DEF Front
  <1>1. CASE ConsumerStart
    BY <1>1, <1>f, <1>u DEF ConsumerStart, ResumeAt
  <1>2. CASE ProducerStart
    BY <1>2, <1>f, <1>u DEF ProducerStart
  <1>3. CASE Signal
    BY <1>3, <1>f, <1>u DEF Signal
  <1>4. CASE Shutdown
    BY <1>4, <1>f, <1>u DEF Shutdown
  <1>5. CASE Crash
    BY <1>5, <1>f, <1>u DEF Crash
  <1>6. CASE GetOne
    BY <1>6, <1>f, <1>u DEF GetOne, Fetchable, Pauses
  <1>7. CASE Get
    <2>1. Front' = Front + 1
      BY <1>7, <1>f
    <2>2. UNCHANGED <<txn, pendingOut, pendingOff, inTxn, fenced, up, emitted>> /\ pc' = "begin"
      BY <1>7 DEF Get
    <2> QED BY <1>f, <2>1, <2>2, OrchestratorAssumption DEF Offsets
  <1>8. CASE BeginRaises
    BY <1>8, <1>f, <1>u DEF BeginRaises
  <1>9. CASE Begin
    BY <1>9, <1>f, <1>u DEF Begin
  <1>10. CASE Transform
    BY <1>10, <1>f, <1>u DEF Transform
  <1>11. CASE TransformRaises
    BY <1>11, <1>f, <1>u DEF TransformRaises
  <1>12. CASE SendOk
    BY <1>12, <1>f, <1>u DEF SendOk
  <1>13. CASE SendFails
    BY <1>13, <1>f, <1>u DEF SendFails
  <1>14. CASE OffsetsOk
    BY <1>14, <1>f, <1>u DEF OffsetsOk, NextOffset
  <1>15. CASE OffsetsFail
    BY <1>15, <1>f, <1>u DEF OffsetsFail, NextOffset
  <1>16. CASE CommitRequest
    <2>1. pendingOut = {cur} /\ pendingOff = cur + 1 /\ cur \in Nat
      BY <1>16, OrchestratorAssumption DEF CommitRequest, Offsets
    <2>2. pendingOut = {pendingOff - 1} /\ pendingOff # NoOffset
      BY <2>1 DEF NoOffset
    <2> QED BY <1>16, <1>f, <1>u, <2>1, <2>2 DEF CommitRequest
  <1>17. CASE CommitFenced
    BY <1>17, <1>f, <1>u DEF CommitFenced
  <1>18. CASE CommitAck
    BY <1>18, <1>f, <1>u DEF CommitAck
  <1>19. CASE CommitError
    BY <1>19, <1>f, <1>u DEF CommitError
  <1>20. CASE AbortOk
    BY <1>20, <1>f, <1>u DEF AbortOk
  <1>21. CASE AbortRaises
    BY <1>21, <1>f, <1>u DEF AbortRaises
  <1>22. CASE Backoff
    BY <1>22, <1>f, <1>u DEF Backoff
  <1>23. CASE BrokerCommits
    BY <1>23, <1>f, <1>u DEF BrokerCommits
  <1>24. CASE BrokerRefuses
    BY <1>24, <1>f, <1>u DEF BrokerRefuses
  <1>25. CASE BrokerTimesOut
    BY <1>25, <1>f, <1>u DEF BrokerTimesOut
  <1>26. CASE UNCHANGED vars
    BY <1>26, <1>f, <1>u DEF vars
  <1>27. CASE GetOneFails
    BY <1>27, <1>f, <1>u DEF GetOneFails
  <1> QED
    BY <1>1, <1>2, <1>3, <1>4, <1>5, <1>6, <1>7, <1>8, <1>9, <1>10, <1>11, <1>12, <1>13,
       <1>14, <1>15, <1>16, <1>17, <1>18, <1>19, <1>20, <1>21, <1>22, <1>23, <1>24, <1>25, <1>26, <1>27
       DEF Next, ProcessStep, BrokerStep

(* Outputs become visible, and the group offset moves, in BrokerCommits     *)
(* alone; records that were given up stay given up.                         *)
LEMMA OnlyCommitsShow ==
  ASSUME [Next]_vars
  PROVE  /\ BrokerCommits \/ UNCHANGED <<committed, emitted, stale>>
         /\ gaveUp \subseteq gaveUp'
  <1> USE DEF Running, Fault, NoFault, broker, consumer, producer, history, bounds, LoopHead,
         ProcessEnds
  <1>1. CASE ConsumerStart
    BY <1>1 DEF ConsumerStart, ResumeAt
  <1>2. CASE ProducerStart
    BY <1>2 DEF ProducerStart
  <1>3. CASE Signal
    BY <1>3 DEF Signal
  <1>4. CASE Shutdown
    BY <1>4 DEF Shutdown
  <1>5. CASE Crash
    BY <1>5 DEF Crash
  <1>6. CASE GetOne
    BY <1>6 DEF GetOne, Fetchable, Pauses
  <1>7. CASE Get
    BY <1>7 DEF Get
  <1>8. CASE BeginRaises
    BY <1>8 DEF BeginRaises
  <1>9. CASE Begin
    BY <1>9 DEF Begin
  <1>10. CASE Transform
    BY <1>10 DEF Transform
  <1>11. CASE TransformRaises
    BY <1>11 DEF TransformRaises
  <1>12. CASE SendOk
    BY <1>12 DEF SendOk
  <1>13. CASE SendFails
    BY <1>13 DEF SendFails
  <1>14. CASE OffsetsOk
    BY <1>14 DEF OffsetsOk, NextOffset
  <1>15. CASE OffsetsFail
    BY <1>15 DEF OffsetsFail, NextOffset
  <1>16. CASE CommitRequest
    BY <1>16 DEF CommitRequest
  <1>17. CASE CommitFenced
    BY <1>17 DEF CommitFenced
  <1>18. CASE CommitAck
    BY <1>18 DEF CommitAck
  <1>19. CASE CommitError
    BY <1>19 DEF CommitError
  <1>20. CASE AbortOk
    BY <1>20 DEF AbortOk
  <1>21. CASE AbortRaises
    BY <1>21 DEF AbortRaises
  <1>22. CASE Backoff
    BY <1>22 DEF Backoff
  <1>23. CASE BrokerCommits
    BY <1>23 DEF BrokerCommits
  <1>24. CASE BrokerRefuses
    BY <1>24 DEF BrokerRefuses
  <1>25. CASE BrokerTimesOut
    BY <1>25 DEF BrokerTimesOut
  <1>26. CASE UNCHANGED vars
    BY <1>26 DEF vars
  <1>27. CASE GetOneFails
    BY <1>27 DEF GetOneFails
  <1> QED
    BY <1>1, <1>2, <1>3, <1>4, <1>5, <1>6, <1>7, <1>8, <1>9, <1>10, <1>11, <1>12, <1>13,
       <1>14, <1>15, <1>16, <1>17, <1>18, <1>19, <1>20, <1>21, <1>22, <1>23, <1>24, <1>25, <1>26, <1>27
       DEF Next, ProcessStep, BrokerStep

(* A commit the broker applies makes one record's output visible and puts   *)
(* the group offset behind that record.                                     *)
LEMMA CommitEffect ==
  ASSUME TypeOK, TxnShape, BrokerCommits
  PROVE  \E p \in Offsets :
           /\ pendingOut = {p} /\ committed' = p + 1 /\ txn' = "committed" /\ pendingOut' = {}
           /\ UNCHANGED <<up, position, queue, pc, cur, inTxn, gaveUp>>
           /\ \A o \in Offsets : emitted'[o] = IF o = p THEN emitted[o] + 1 ELSE emitted[o]
           /\ \A o \in Offsets : stale'[o] = IF o = p /\ up = "starting" THEN stale[o] + 1 ELSE stale[o]
  <1> DEFINE p == pendingOff - 1
  <1>1. pendingOut = {p} /\ p \in Offsets /\ committed' = p + 1
    <2>1. pendingOut = {p} /\ pendingOff \in 1 .. N
      BY DEF BrokerCommits, TxnShape, TypeOK, BrokerTypes
    <2> QED BY <2>1, OrchestratorAssumption DEF BrokerCommits, Offsets
  <1>2. \A o \in Offsets : emitted'[o] = IF o = p THEN emitted[o] + 1 ELSE emitted[o]
    BY <1>1 DEF BrokerCommits
  <1>3. \A o \in Offsets : stale'[o] = IF o = p /\ up = "starting" THEN stale[o] + 1 ELSE stale[o]
    BY <1>1 DEF BrokerCommits
  <1>4. /\ txn' = "committed" /\ pendingOut' = {}
        /\ UNCHANGED <<up, position, queue, pc, cur, inTxn, gaveUp>>
    BY DEF BrokerCommits, consumer, producer
  <1> HIDE DEF p
  <1> QED BY <1>1, <1>2, <1>3, <1>4

(* While the process stays up, the first unfinished record stays the same   *)
(* or the record in hand is finished with.                                  *)
LEMMA BaseSteps ==
  ASSUME TypeOK, QueueOrder, TxnShape, up' # "down", ~ConsumerStart, [Next]_vars
  PROVE  /\ Base \in Int /\ Base' \in Int /\ up # "down"
         /\ \/ Base' = Base /\ ((Busy /\ txn = "committed") => (Busy' /\ txn' = "committed"))
            \/ Busy /\ Base' = cur + 1
         /\ Front' \in Int /\ Front' >= Front
         /\ Base = IF Busy THEN cur ELSE Front
         /\ Busy => cur \in Offsets /\ Front = cur + 1
         /\ Busy' => cur' = Base'
  <1> USE OrchestratorAssumption DEF Running, Fault, NoFault, broker, consumer, producer, history, bounds, LoopHead,
         ProcessEnds, TypeOK, BrokerTypes, ConsumerTypes, ProducerTypes, HistoryTypes, QueueOrder, TxnShape, Busy, Base, Offsets, NoOffset
  <1>f. /\ Front \in Nat /\ Front <= position
        /\ GetOne => Front' = Front
        /\ Get => cur' = Front /\ Front' = Front + 1
        /\ ConsumerStart => Front' = committed
    BY FrontOfQueue
  <1>u. queue' = queue /\ position' = position => Front' = Front
    BY DEF Front
  <1>1. CASE ConsumerStart
    BY <1>1, <1>f, <1>u DEF ConsumerStart, ResumeAt
  <1>2. CASE ProducerStart
    BY <1>2, <1>f, <1>u DEF ProducerStart
  <1>3. CASE Signal
    BY <1>3, <1>f, <1>u DEF Signal
  <1>4. CASE Shutdown
    BY <1>4, <1>f, <1>u DEF Shutdown
  <1>5. CASE Crash
    BY <1>5, <1>f, <1>u DEF Crash
  <1>6. CASE GetOne
    <2>1. Front' = Front
      BY <1>6, <1>f
    <2> QED BY <1>6, <1>f, <2>1 DEF GetOne, Fetchable, Pauses
  <1>7. CASE Get
    <2>1. cur' = Front /\ Front' = Front + 1
      BY <1>7, <1>f
    <2>2. Front \in Int /\ Front' \in Int /\ Front' >= Front
      BY <2>1, <1>f
    <2>3. ~Busy /\ Busy' /\ up # "down"
      BY <1>7 DEF Get
    <2>4. Base = Front /\ Base' = Front
      BY <2>1, <2>3
    <2> HIDE DEF TypeOK, QueueOrder, TxnShape, Busy, Base
    <2> QED BY <2>1, <2>2, <2>3, <2>4
  <1>8. CASE BeginRaises
    BY <1>8, <1>f, <1>u DEF BeginRaises
  <1>9. CASE Begin
    BY <1>9, <1>f, <1>u DEF Begin
  <1>10. CASE Transform
    BY <1>10, <1>f, <1>u DEF Transform
  <1>11. CASE TransformRaises
    BY <1>11, <1>f, <1>u DEF TransformRaises
  <1>12. CASE SendOk
    BY <1>12, <1>f, <1>u DEF SendOk
  <1>13. CASE SendFails
    BY <1>13, <1>f, <1>u DEF SendFails
  <1>14. CASE OffsetsOk
    BY <1>14, <1>f, <1>u DEF OffsetsOk, NextOffset
  <1>15. CASE OffsetsFail
    BY <1>15, <1>f, <1>u DEF OffsetsFail, NextOffset
  <1>16. CASE CommitRequest
    BY <1>16, <1>f, <1>u DEF CommitRequest
  <1>17. CASE CommitFenced
    BY <1>17, <1>f, <1>u DEF CommitFenced
  <1>18. CASE CommitAck
    BY <1>18, <1>f, <1>u DEF CommitAck
  <1>19. CASE CommitError
    BY <1>19, <1>f, <1>u DEF CommitError
  <1>20. CASE AbortOk
    <2>1. UNCHANGED <<queue, position, cur>> /\ pc = "abort" /\ pc' \in {"get", "done", "backoff"}
      BY <1>20 DEF AbortOk
    <2>2. Front' = Front /\ up # "down" /\ txn # "committed"
      BY <1>20, <1>u, <2>1 DEF AbortOk
    <2> QED BY <1>f, <2>1, <2>2
  <1>21. CASE AbortRaises
    BY <1>21, <1>f, <1>u DEF AbortRaises
  <1>22. CASE Backoff
    BY <1>22, <1>f, <1>u DEF Backoff
  <1>23. CASE BrokerCommits
    BY <1>23, <1>f, <1>u DEF BrokerCommits
  <1>24. CASE BrokerRefuses
    BY <1>24, <1>f, <1>u DEF BrokerRefuses
  <1>25. CASE BrokerTimesOut
    BY <1>25, <1>f, <1>u DEF BrokerTimesOut
  <1>26. CASE UNCHANGED vars
    BY <1>26, <1>f, <1>u DEF vars
  <1>27. CASE GetOneFails
    BY <1>27, <1>f, <1>u DEF GetOneFails
  <1> QED
    BY <1>1, <1>2, <1>3, <1>4, <1>5, <1>6, <1>7, <1>8, <1>9, <1>10, <1>11, <1>12, <1>13,
       <1>14, <1>15, <1>16, <1>17, <1>18, <1>19, <1>20, <1>21, <1>22, <1>23, <1>24, <1>25, <1>26, <1>27
       DEF Next, ProcessStep, BrokerStep

(* What a transaction stages is fit to become visible: its own record and   *)
(* the later ones are fresh, the earlier ones are settled.                   *)
LEMMA PendingReadyStep ==
  ASSUME TypeOK, QueueOrder, TxnShape, PendingReady, WorkFresh, PrefixSettled, Ordered, [Next]_vars
  PROVE  PendingReady'
  <1>1. CASE BrokerCommits
    <2>1. pendingOut' = {}
      BY <1>1, CommitEffect
    <2> QED BY <2>1 DEF PendingReady
  <1>2. CASE ~BrokerCommits
    <2>1. UNCHANGED <<committed, emitted, stale>> /\ gaveUp \subseteq gaveUp'
      BY <1>2, OnlyCommitsShow
    <2>2. ASSUME NEW p \in Offsets, \A o \in Offsets : (o >= p => Fresh(o)) /\ (o < p => Settled(o)),
                 Missed \/ committed <= p
          PROVE  /\ \A o \in Offsets : (o >= p => Fresh(o)') /\ (o < p => Settled(o)')
                 /\ Missed' \/ committed' <= p
      BY <2>1, <2>2 DEF Fresh, Settled, Missed
    <2>3. CASE SendOk \/ SendFails
      <3>1. /\ up = "running" /\ pc = "send" /\ Busy /\ Base = cur
            /\ cur \in Offsets /\ pendingOut' \subseteq {cur} /\ txn = "none"
        BY <2>3 DEF SendOk, SendFails, Running, TxnShape, QueueOrder, Busy, Base
      <3>2. \A o \in Offsets : (o >= cur => Fresh(o)) /\ (o < cur => Settled(o))
        BY <3>1 DEF WorkFresh, PrefixSettled
      <3>3. Missed \/ committed <= cur
        BY <3>1 DEF Ordered
      <3> QED BY <2>2, <3>1, <3>2, <3>3 DEF PendingReady
    <2>4. CASE ~(SendOk \/ SendFails)
      <3>1. pendingOut' \subseteq pendingOut
        BY <1>2, <2>4 DEF Next, ProcessStep, BrokerStep, vars, broker, ProcessEnds, LoopHead,
           ConsumerStart, ProducerStart, Signal, Shutdown, Crash, GetOne, GetOneFails, Get, BeginRaises,
           Begin, Transform, TransformRaises, OffsetsOk, OffsetsFail, CommitRequest, CommitFenced, CommitAck,
           CommitError, AbortOk, AbortRaises, Backoff, BrokerRefuses, BrokerTimesOut
      <3>2. pendingOut \subseteq Offsets
        BY DEF TypeOK, BrokerTypes
      <3> QED BY <2>2, <3>1, <3>2 DEF PendingReady
    <2> QED BY <2>3, <2>4
  <1> QED BY <1>1, <1>2

(* A record the process has still to finish has no output of its own yet.    *)
LEMMA WorkFreshStep ==
  ASSUME TypeOK, QueueOrder, TxnShape, PendingReady, WorkFresh, [Next]_vars
  PROVE  WorkFresh'
  <1>n. /\ committed \in Int /\ \A o \in Offsets : o \in Int /\ emitted[o] \in Nat /\ stale[o] \in Nat
        /\ cur \in Int
    BY OrchestratorAssumption DEF TypeOK, BrokerTypes, HistoryTypes, ProducerTypes, Offsets, NoOffset
  <1>1. CASE BrokerCommits
    <2>1. PICK p \in Offsets :
            /\ pendingOut = {p} /\ committed' = p + 1 /\ txn' = "committed"
            /\ UNCHANGED <<up, position, queue, pc, cur>>
            /\ \A o \in Offsets : emitted'[o] = IF o = p THEN emitted[o] + 1 ELSE emitted[o]
            /\ \A o \in Offsets : stale'[o] = IF o = p /\ up = "starting" THEN stale[o] + 1 ELSE stale[o]
      BY <1>1, CommitEffect
    <2>2. Base' = Base /\ Front' = Front /\ (Busy <=> Busy')
      BY <2>1 DEF Base, Front, Busy
    <2>3. \A o \in Offsets : o # p /\ Fresh(o) => Fresh(o)'
      BY <2>1 DEF Fresh
    <2>4. OutputWithOffset'
      <3>1. \A o \in Offsets : o > p => Fresh(o)'
        BY <2>1, <2>3, <1>n DEF PendingReady
      <3> QED BY <2>1, <3>1, <1>n DEF OutputWithOffset, Fresh
    <2>5. ASSUME up # "down", NEW o \in Offsets, o >= Base
          PROVE  Fresh(o)' \/ (Busy /\ o = cur)
      <3>1. Fresh(o) \/ (Busy /\ o = cur)
        BY <2>5 DEF WorkFresh
      <3>2. CASE o # p
        BY <3>1, <3>2, <2>3
      <3>3. CASE o = p /\ up = "running"
        <4>1. p < Front
          BY <2>1, <3>3 DEF TxnShape
        <4>2. Busy /\ Base = cur /\ Front = cur + 1 /\ cur \in Int
          BY <4>1, <3>3, <2>5, <1>n, FrontOfQueue DEF QueueOrder, Base
        <4> QED BY <4>1, <4>2, <3>3, <2>5, <1>n
      <3>4. CASE o = p /\ up = "starting"
        <4>1. Fresh(o)
          BY <2>1, <3>4, <1>n DEF PendingReady
        <4> QED BY <4>1, <3>4, <2>1, <1>n DEF Fresh
      <3> QED BY <3>2, <3>3, <3>4, <2>5 DEF TypeOK, ConsumerTypes
    <2> QED BY <2>1, <2>2, <2>4, <2>5 DEF WorkFresh
  <1>2. CASE ~BrokerCommits
    <2>1. UNCHANGED <<committed, emitted, stale>>
      BY <1>2, OnlyCommitsShow
    <2>2. OutputWithOffset'
      BY <2>1 DEF WorkFresh, OutputWithOffset
    <2>3. \A o \in Offsets : Fresh(o)' <=> Fresh(o)
      BY <2>1 DEF Fresh
    <2>4. CASE ConsumerStart
      <3>1. ~Busy' /\ Base' = committed
        BY <2>4, FrontOfQueue DEF ConsumerStart, ResumeAt, QueueOrder, Base, Busy
      <3> QED BY <2>1, <2>2, <2>3, <3>1, <1>n DEF WorkFresh, OutputWithOffset, Fresh
    <2>5. CASE up' # "down" /\ ~ConsumerStart
      <3>1. /\ Base \in Int /\ Base' \in Int /\ up # "down"
            /\ \/ Base' = Base /\ ((Busy /\ txn = "committed") => (Busy' /\ txn' = "committed"))
               \/ Busy /\ Base' = cur + 1
            /\ Base = IF Busy THEN cur ELSE Front
            /\ Busy' => cur' = Base'
        BY <2>5, BaseSteps
      <3> QED BY <2>2, <2>3, <3>1, <1>n DEF WorkFresh
    <2> QED BY <2>2, <2>4, <2>5 DEF WorkFresh
  <1> QED BY <1>1, <1>2

(* Every record before the first unfinished one has an output or was given   *)
(* up, as long as the process can still commit.                              *)
LEMMA PrefixSettledStep ==
  ASSUME TypeOK, QueueOrder, TxnShape, PendingReady, PrefixSettled, [Next]_vars
  PROVE  PrefixSettled'
  <1> DEFINE Able == up # "down" /\ (inTxn => Busy /\ pc # "begin")
  <1>n. /\ committed \in Int /\ cur \in Int
        /\ \A o \in Offsets : o \in Int /\ emitted[o] \in Nat /\ stale[o] \in Nat
    BY OrchestratorAssumption DEF TypeOK, BrokerTypes, HistoryTypes, ProducerTypes, Offsets, NoOffset
  <1>1. CASE BrokerCommits
    <2>1. PICK p \in Offsets :
            /\ pendingOut = {p} /\ committed' = p + 1
            /\ UNCHANGED <<up, position, queue, pc, cur, inTxn, gaveUp>>
            /\ \A o \in Offsets : emitted'[o] = IF o = p THEN emitted[o] + 1 ELSE emitted[o]
      BY <1>1, CommitEffect
    <2>2. Base' = Base /\ (Able' <=> Able)
      BY <2>1 DEF Base, Front, Busy
    <2>3. \A o \in Offsets : Settled(o) => Settled(o)'
      BY <2>1, <1>n DEF Settled
    <2>4. NothingSkippedSilently'
      <3>1. \A o \in Offsets : o < p => Settled(o)'
        BY <2>1, <2>3 DEF PendingReady
      <3>2. emitted'[p] > 0
        BY <2>1, <1>n
      <3> QED BY <2>1, <3>1, <3>2, <1>n DEF NothingSkippedSilently, Settled
    <2> QED BY <2>2, <2>3, <2>4 DEF PrefixSettled
  <1>2. CASE ~BrokerCommits
    <2>1. UNCHANGED <<committed, emitted, stale>> /\ gaveUp \subseteq gaveUp'
      BY <1>2, OnlyCommitsShow
    <2>2. \A o \in Offsets : Settled(o) => Settled(o)'
      BY <2>1 DEF Settled
    <2>3. NothingSkippedSilently'
      BY <2>1 DEF PrefixSettled, NothingSkippedSilently
    <2>4. CASE ConsumerStart
      <3>1. Base' = committed
        BY <2>4, FrontOfQueue DEF ConsumerStart, ResumeAt, QueueOrder, Base, Busy
      <3> QED BY <2>1, <2>3, <3>1 DEF PrefixSettled, NothingSkippedSilently, Settled
    <2>5. CASE up' # "down" /\ ~ConsumerStart
      <3>1. /\ Base \in Int /\ Base' \in Int /\ up # "down"
            /\ Base' = Base \/ (Busy /\ Base' = cur + 1)
            /\ Base = IF Busy THEN cur ELSE Front
            /\ Busy => cur \in Offsets
        BY <2>5, BaseSteps
      <3>2. CASE Able' /\ Able
        <4>1. \A o \in Offsets : o < Base => Settled(o)
          BY <3>2 DEF PrefixSettled
        <4>2. Base' = Base \/ (Busy /\ Base' = cur + 1 /\ cur' = cur /\ Settled(cur)')
          <5>1. CASE CommitAck
            BY <3>1, <5>1, <2>1, <2>2 DEF CommitAck, TxnShape, Running, Settled, Busy, producer
          <5>2. CASE AbortOk
            BY <3>1, <5>2 DEF AbortOk, Running, Settled, Busy, LoopHead, Base, Front, consumer
          <5>3. CASE BeginRaises \/ TransformRaises \/ AbortRaises
            BY <3>2, <5>3 DEF BeginRaises, TransformRaises, AbortRaises, Running, TxnShape, LoopHead, producer, Busy
          <5>4. CASE ~(CommitAck \/ AbortOk \/ BeginRaises \/ TransformRaises \/ AbortRaises)
            <6>1. Busy => Busy' /\ cur' = cur
              BY <1>2, <2>5, <5>4, <3>1
                 DEF Next, ProcessStep, BrokerStep, Busy, vars, producer, Running, ProcessEnds,
                     ProducerStart, Signal, Shutdown, Crash, GetOne, GetOneFails, Get, Begin, Transform,
                     SendOk, SendFails, OffsetsOk, OffsetsFail, CommitRequest, CommitFenced,
                     CommitError, Backoff, BrokerRefuses, BrokerTimesOut
            <6> QED BY <6>1, <3>1 DEF Base
          <5> QED BY <5>1, <5>2, <5>3, <5>4
        <4>3. ASSUME NEW o \in Offsets, o < Base' PROVE Settled(o)'
          <5>1. o < Base \/ (o = cur' /\ Settled(cur)')
            BY <3>1, <4>2, <4>3, <1>n
          <5> QED BY <2>2, <4>1, <5>1
        <4> QED BY <2>3, <4>3 DEF PrefixSettled
      <3>3. CASE Able' /\ ~Able
        <4>1. FALSE
          BY <1>2, <2>5, <3>1, <3>3
             DEF Next, ProcessStep, BrokerStep, Busy, vars, broker, consumer, producer, Running,
                 ProcessEnds, LoopHead, TxnShape, QueueOrder,
                 ProducerStart, Signal, Shutdown, Crash, GetOne, GetOneFails, Get, BeginRaises, Begin, Transform,
                 TransformRaises, SendOk, SendFails, OffsetsOk, OffsetsFail, CommitRequest,
                 CommitFenced, CommitAck, CommitError, AbortOk, AbortRaises, Backoff,
                 BrokerRefuses, BrokerTimesOut
        <4> QED BY <4>1
      <3> QED BY <2>3, <3>2, <3>3 DEF PrefixSettled
    <2> QED BY <2>3, <2>4, <2>5 DEF PrefixSettled
  <1> QED BY <1>1, <1>2

(* The process never works behind the group offset, and only a commit that   *)
(* lands while it starts can put it there.                                   *)
LEMMA OrderedStep ==
  ASSUME TypeOK, QueueOrder, TxnShape, Ordered, [Next]_vars
  PROVE  Ordered'
  <1>n. /\ committed \in Int /\ cur \in Int /\ Front \in Int
        /\ \A o \in Offsets : o \in Int /\ stale[o] \in Nat
    BY OrchestratorAssumption, FrontOfQueue
       DEF TypeOK, BrokerTypes, HistoryTypes, ProducerTypes, Offsets, NoOffset
  <1>1. CASE BrokerCommits
    <2>1. PICK p \in Offsets :
            /\ pendingOut = {p} /\ committed' = p + 1 /\ txn' = "committed"
            /\ UNCHANGED <<up, position, queue, pc, cur>>
            /\ \A o \in Offsets : stale'[o] = IF o = p /\ up = "starting" THEN stale[o] + 1 ELSE stale[o]
      BY <1>1, CommitEffect
    <2>2. Base' = Base /\ Front' = Front /\ (Busy <=> Busy') /\ Base = IF Busy THEN cur ELSE Front
      BY <2>1 DEF Base, Front, Busy
    <2>3. CASE up = "starting"
      <3>1. LateCommits
        BY <1>1, <2>3 DEF BrokerCommits
      <3>2. Missed'
        BY <2>1, <2>3, <1>n DEF Missed
      <3> QED BY <3>1, <3>2 DEF Ordered
    <2>4. CASE up # "starting"
      <3>1. Missed' <=> Missed
        BY <2>1, <2>4 DEF Missed
      <3>2. up = "running" => p < Front
        BY <2>1 DEF TxnShape
      <3>3. Busy => Front = cur + 1
        BY <1>n DEF QueueOrder
      <3> QED BY <2>1, <2>2, <2>4, <3>1, <3>2, <3>3, <1>n DEF Ordered, TypeOK, ConsumerTypes
    <2> QED BY <2>3, <2>4
  <1>2. CASE ~BrokerCommits
    <2>1. UNCHANGED <<committed, stale>> /\ (Missed' <=> Missed)
      BY <1>2, OnlyCommitsShow DEF Missed
    <2>2. CASE ConsumerStart
      <3>1. ~Busy' /\ Base' = committed /\ Front' = committed
        BY <2>2, FrontOfQueue DEF ConsumerStart, ResumeAt, QueueOrder, Base, Busy
      <3> QED BY <2>1, <3>1, <1>n DEF Ordered
    <2>3. CASE up' # "down" /\ ~ConsumerStart
      <3>1. /\ Base \in Int /\ Base' \in Int /\ up # "down"
            /\ \/ Base' = Base /\ ((Busy /\ txn = "committed") => (Busy' /\ txn' = "committed"))
               \/ Busy /\ Base' = cur + 1
            /\ Front' \in Int /\ Front' >= Front
            /\ Busy => Front = cur + 1
        BY <2>3, BaseSteps
      <3> QED BY <2>1, <3>1, <1>n DEF Ordered
    <2> QED BY <2>1, <2>2, <2>3 DEF Ordered
  <1> QED BY <1>1, <1>2

(* A staged record is fresh, so showing it once more stays within the bound. *)
LEMMA OncePerRecordStep ==
  ASSUME TypeOK, TxnShape, PendingReady, OncePerRecord, [Next]_vars
  PROVE  OncePerRecord'
  <1>n. \A o \in Offsets : o \in Int /\ emitted[o] \in Nat /\ stale[o] \in Nat
    BY OrchestratorAssumption DEF TypeOK, BrokerTypes, HistoryTypes, Offsets
  <1>1. CASE BrokerCommits
    <2>1. PICK p \in Offsets :
            /\ pendingOut = {p}
            /\ \A o \in Offsets : emitted'[o] = IF o = p THEN emitted[o] + 1 ELSE emitted[o]
            /\ \A o \in Offsets : stale'[o] = IF o = p /\ up = "starting" THEN stale[o] + 1 ELSE stale[o]
      BY <1>1, CommitEffect
    <2>2. emitted[p] <= stale[p]
      BY <2>1, <1>n DEF PendingReady, Fresh
    <2> QED BY <2>1, <2>2, <1>n DEF OncePerRecord
  <1>2. CASE ~BrokerCommits
    BY <1>2, OnlyCommitsShow DEF OncePerRecord
  <1> QED BY <1>1, <1>2

-----------------------------------------------------------------------------
(* IInv is inductive. *)
LEMMA Initially == Init => IInv
  <1> SUFFICES ASSUME Init PROVE IInv
    OBVIOUS
  <1> USE OrchestratorAssumption DEF Init
  <1>1. queue \in Seq(Offsets)
    OBVIOUS
  <1>2. TypeOK
    <2>1. BrokerTypes
      <3>1. committed \in 0 .. N /\ emitted \in [Offsets -> Nat]
        OBVIOUS
      <3> QED BY <3>1 DEF BrokerTypes
    <2>2. ConsumerTypes
      <3>1. position \in 0 .. N
        OBVIOUS
      <3> QED BY <1>1, <3>1 DEF ConsumerTypes
    <2>3. ProducerTypes
      <3>1. attempts \in 0 .. (MaxRetries + 1)
        OBVIOUS
      <3> QED BY <3>1 DEF ProducerTypes
    <2>4. HistoryTypes
      BY DEF HistoryTypes
    <2> QED BY <2>1, <2>2, <2>3, <2>4 DEF TypeOK
  <1>3. ~Busy /\ Front = 0 /\ Base = 0 /\ ~Missed
    <2>1. Len(queue) = 0 /\ ~Busy
      BY DEF Busy
    <2>2. Front = 0
      <3>1. position = 0
        OBVIOUS
      <3> QED BY ONLY <2>1, <3>1 DEF Front
    <2> QED BY <2>1, <2>2 DEF Base, Missed
  <1>4. OncePerRecord
    BY DEF OncePerRecord
  <1>5. QueueOrder /\ PauseBound /\ PendingReady
    BY <1>3 DEF QueueOrder, PauseBound, PendingReady
  <1>6. TxnShape
    BY DEF TxnShape
  <1>7. WorkFresh /\ PrefixSettled /\ Ordered
    BY <1>3 DEF WorkFresh, OutputWithOffset, PrefixSettled, NothingSkippedSilently, Ordered, Offsets
  <1> QED BY <1>2, <1>4, <1>5, <1>6, <1>7 DEF IInv

(* Every step keeps the inductive invariant, part by part. *)
LEMMA Inductive == IInv /\ [Next]_vars => IInv'
  BY TypeStep, OncePerRecordStep, QueueOrderStep, PauseBoundStep, TxnShapeStep, PendingReadyStep,
     WorkFreshStep, PrefixSettledStep, OrderedStep DEF IInv

(* The inductive invariant holds of every behaviour of the orchestrator and  *)
(* its broker.                                                               *)
THEOREM Invariance == Spec => []IInv
  BY Initially, Inductive, PTL DEF Spec

(* Type correctness. *)
THEOREM TypeCorrect == Spec => []TypeOK
  <1>1. IInv => TypeOK
    BY DEF IInv
  <1> QED BY <1>1, Invariance, PTL

(* At most one committed output per record, plus one for each commit that a  *)
(* starting process missed (process_kafka_message, main).                    *)
THEOREM OnceOnly == Spec => []OncePerRecord
  <1>1. IInv => OncePerRecord
    BY DEF IInv
  <1> QED BY <1>1, Invariance, PTL

(* An output is visible only together with its offset.                       *)
THEOREM OutputCarriesOffset == Spec => []OutputWithOffset
  <1>1. IInv => OutputWithOffset
    BY DEF IInv, WorkFresh
  <1> QED BY <1>1, Invariance, PTL

(* The group offset passes a record without an output only when the record   *)
(* was given up after its last retry.                                        *)
THEOREM NoSilentSkip == Spec => []NothingSkippedSilently
  <1>1. IInv => NothingSkippedSilently
    BY DEF IInv, PrefixSettled
  <1> QED BY <1>1, Invariance, PTL

(* The queue never holds more than one record above the high watermark.      *)
THEOREM BoundedQueue == Spec => []QueueBounded
  <1>1. IInv => QueueBounded
    BY DEF IInv, PauseBound, QueueBounded
  <1> QED BY <1>1, Invariance, PTL

(* The group offset never moves back before a late commit is missed.         *)
THEOREM OffsetMonotone == Spec => CommittedNeverMovesBack
  <1>1. IInv /\ [Next]_vars => [committed' >= committed \/ \E o \in Offsets : stale[o] > 0]_vars
    <2> SUFFICES ASSUME IInv, [Next]_vars
                 PROVE  committed' >= committed \/ Missed
      BY DEF Missed
    <2>n. committed \in Int
      BY OrchestratorAssumption DEF IInv, TypeOK, BrokerTypes
    <2>1. CASE BrokerCommits
      <3>1. PICK p \in Offsets : pendingOut = {p} /\ committed' = p + 1
        BY <2>1, CommitEffect DEF IInv
      <3> QED BY <3>1, <2>n, OrchestratorAssumption DEF IInv, PendingReady, Offsets
    <2>2. CASE ~BrokerCommits
      BY <2>2, <2>n, OnlyCommitsShow
    <2> QED BY <2>1, <2>2
  <1> QED BY <1>1, Invariance, PTL DEF Spec, CommittedNeverMovesBack

(* Only the end of the process clears a pause (consume_loop).                *)
THEOREM PauseOutlastsDrain == Spec => PauseIsFinal
  <1>1. [Next]_vars => [paused /\ up' # "down" => paused']_vars
    <2> SUFFICES ASSUME [Next]_vars, paused, up' # "down" PROVE paused'
      OBVIOUS
    <2> USE DEF consumer, ProcessEnds, ResumeAt, Fetchable, Pauses, NextOffset
    <2>1. CASE ConsumerStart
      BY <2>1 DEF ConsumerStart, ResumeAt
    <2>2. CASE ProducerStart
      BY <2>2 DEF ProducerStart
    <2>3. CASE Signal
      BY <2>3 DEF Signal
    <2>4. CASE Shutdown
      BY <2>4 DEF Shutdown
    <2>5. CASE Crash
      BY <2>5 DEF Crash
    <2>6. CASE GetOne
      BY <2>6 DEF GetOne, Fetchable, Pauses
    <2>7. CASE Get
      BY <2>7 DEF Get
    <2>8. CASE BeginRaises
      BY <2>8 DEF BeginRaises
    <2>9. CASE Begin
      BY <2>9 DEF Begin
    <2>10. CASE Transform
      BY <2>10 DEF Transform
    <2>11. CASE TransformRaises
      BY <2>11 DEF TransformRaises
    <2>12. CASE SendOk
      BY <2>12 DEF SendOk
    <2>13. CASE SendFails
      BY <2>13 DEF SendFails
    <2>14. CASE OffsetsOk
      BY <2>14 DEF OffsetsOk, NextOffset
    <2>15. CASE OffsetsFail
      BY <2>15 DEF OffsetsFail, NextOffset
    <2>16. CASE CommitRequest
      BY <2>16 DEF CommitRequest
    <2>17. CASE CommitFenced
      BY <2>17 DEF CommitFenced
    <2>18. CASE CommitAck
      BY <2>18 DEF CommitAck
    <2>19. CASE CommitError
      BY <2>19 DEF CommitError
    <2>20. CASE AbortOk
      BY <2>20 DEF AbortOk
    <2>21. CASE AbortRaises
      BY <2>21 DEF AbortRaises
    <2>22. CASE Backoff
      BY <2>22 DEF Backoff
    <2>23. CASE BrokerCommits
      BY <2>23 DEF BrokerCommits
    <2>24. CASE BrokerRefuses
      BY <2>24 DEF BrokerRefuses
    <2>25. CASE BrokerTimesOut
      BY <2>25 DEF BrokerTimesOut
    <2>26. CASE UNCHANGED vars
      BY <2>26 DEF vars
    <2>27. CASE GetOneFails
      BY <2>27 DEF GetOneFails
    <2> QED BY <2>1, <2>2, <2>3, <2>4, <2>5, <2>6, <2>7, <2>8, <2>9, <2>10, <2>11, <2>12, <2>13,
          <2>14, <2>15, <2>16, <2>17, <2>18, <2>19, <2>20, <2>21, <2>22, <2>23, <2>24, <2>25, <2>26, <2>27
          DEF Next, ProcessStep, BrokerStep
  <1> QED BY <1>1, PTL DEF Spec, PauseIsFinal

-----------------------------------------------------------------------------
(* Without late commits the orchestrator implements EventRelay: every step   *)
(* delivers a record, abandons one, or changes nothing the relay sees.        *)
THEOREM RelayRefinement == ASSUME ~LateCommits PROVE Spec => ImplementsRelay
  <1>1. Init => Relay!Init
    BY DEF Init, Relay!Init, Relay!Records, Offsets
  <1>2. IInv /\ [Next]_vars => [Relay!Next]_(Relay!vars)
    <2> SUFFICES ASSUME IInv, [Next]_vars PROVE [Relay!Next]_(Relay!vars)
      OBVIOUS
    <2> USE DEF IInv
    <2>n. /\ committed \in Int /\ emitted \in [Offsets -> Nat] /\ gaveUp \in SUBSET Offsets
          /\ \A o \in Offsets : o \in Nat /\ emitted[o] \in Nat /\ stale[o] = 0
      <3>1. \A o \in Offsets : stale[o] \in Nat /\ ~(stale[o] > 0)
        BY DEF Ordered, Missed, TypeOK, HistoryTypes
      <3> QED BY <3>1, OrchestratorAssumption DEF TypeOK, BrokerTypes, HistoryTypes, Offsets
    <2>1. CASE BrokerCommits
      <3>1. PICK p \in Offsets :
              /\ pendingOut = {p} /\ committed' = p + 1 /\ gaveUp' = gaveUp
              /\ \A o \in Offsets : emitted'[o] = IF o = p THEN emitted[o] + 1 ELSE emitted[o]
        BY <2>1, CommitEffect
      <3>2. committed <= p /\ \A o \in Offsets : (o >= p => Fresh(o)) /\ (o < p => Settled(o))
        BY <3>1, <2>n DEF PendingReady, Missed
      <3>3. emitted[p] = 0
        BY <3>2, <2>n DEF Fresh
      <3>4. committed .. (p - 1) \subseteq gaveUp
        <4> SUFFICES ASSUME NEW o \in committed .. (p - 1) PROVE o \in gaveUp
          OBVIOUS
        <4>1. o \in Offsets /\ o < p /\ ~(o < committed)
          BY <2>n, OrchestratorAssumption DEF Offsets, TypeOK, BrokerTypes
        <4>2. emitted[o] = 0
          BY <4>1, <2>n DEF WorkFresh, OutputWithOffset
        <4> QED BY <4>1, <4>2, <3>2 DEF Settled
      <3>5. emitted' = [emitted EXCEPT ![p] = 1]
        <4>1. emitted' \in [Offsets -> Nat]
          BY <2>n, BrokerTypesStep DEF BrokerTypes
        <4> QED BY <2>n, <3>1, <3>3, <4>1
      <3>6. Relay!Deliver(p)
        BY <3>1, <3>2, <3>3, <3>4, <3>5 DEF Relay!Deliver
      <3> QED BY <3>6 DEF Relay!Next, Relay!Records, Offsets
    <2>2. CASE AbortOk /\ gaveUp' # gaveUp
      <3>1. /\ Busy /\ up # "down" /\ txn # "committed" /\ gaveUp' = gaveUp \cup {cur}
            /\ UNCHANGED <<committed, emitted>>
        BY <2>2 DEF AbortOk, Running, Busy
      <3>2. committed <= cur /\ cur \in Offsets
        BY <3>1, <2>n DEF Ordered, Missed, QueueOrder, Base
      <3>3. Relay!Abandon(cur)
        BY <3>1, <3>2 DEF Relay!Abandon
      <3> QED BY <3>2, <3>3 DEF Relay!Next, Relay!Records, Offsets
    <2>3. CASE ~BrokerCommits /\ ~(AbortOk /\ gaveUp' # gaveUp)
      <3>1. UNCHANGED <<committed, emitted>>
        BY <2>3, OnlyCommitsShow
      <3>2. gaveUp' = gaveUp
        BY <2>3 DEF Next, ProcessStep, BrokerStep, vars, history, ProcessEnds,
          ConsumerStart, ProducerStart, Signal, Shutdown, Crash, GetOne, GetOneFails, Get,
          BeginRaises, Begin, Transform, TransformRaises, SendOk, SendFails, OffsetsOk,
          OffsetsFail, CommitRequest, CommitFenced, CommitAck, CommitError, AbortOk, AbortRaises,
          Backoff, BrokerRefuses, BrokerTimesOut
      <3> QED BY <3>1, <3>2 DEF Relay!vars
    <2> QED BY <2>1, <2>2, <2>3
  <1> QED BY <1>1, <1>2, Invariance, PTL DEF Spec, ImplementsRelay, Relay!Spec
===============================================================================
