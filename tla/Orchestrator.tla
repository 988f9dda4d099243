---------------------------- MODULE Orchestrator ----------------------------
(***************************************************************************)
(* The AI orchestrator (src/ai_service/kafka_orchestrator.py): one asyncio *)
(* process that reads the topic rau_events, hands each record from a       *)
(* consume task to a process task over an in-memory queue, and turns it    *)
(* into one output record inside a Kafka transaction that also commits the *)
(* record's offset.                                                        *)
(*                                                                         *)
(* The topic is one partition whose records have the offsets 0 .. N-1.     *)
(* What a record's output says is left out: the model keeps which offset   *)
(* an output stands for.  The broker (group offset, transaction            *)
(* coordinator) is external and is modelled from the calls the code makes. *)
(***************************************************************************)
EXTENDS Integers, Sequences

CONSTANTS
  N,            \* records in the partition
  Kind,         \* what each record holds, see Kinds
  HighWater,    \* queue length above which the consumer pauses (10000)
  LowWater,     \* queue length below which it resumes (1000)
  MaxRetries,   \* failed attempts that are retried (3)
  LateCommits,  \* may the broker apply a dead process's commit between the
                \* consumer start and the producer start of its successor
  MaxFaults,    \* bound: broker errors in a behaviour
  MaxStops      \* bound: crashes and terminations in a behaviour

Offsets == 0 .. (N - 1)

(* "badjson" fails json.loads; "poison" is a record whose handling raises  *)
(* an exception that is not a KafkaError: bytes that are not UTF-8, or     *)
(* JSON that is not an object.                                             *)
Kinds == {"event", "badjson", "poison"}

NoOffset == -1

ASSUME OrchestratorAssumption ==
  /\ N \in Nat
  /\ Kind \in [Offsets -> Kinds]
  /\ HighWater \in Nat /\ LowWater \in Nat /\ MaxRetries \in Nat
  /\ LateCommits \in BOOLEAN
  /\ MaxFaults \in Nat /\ MaxStops \in Nat

VARIABLES
  \* the broker
  committed,    \* the group's committed offset
  emitted,      \* per offset, committed output records
  txn,          \* state of the transaction under the transactional id
  pendingOut,   \* offsets whose output the open transaction holds
  pendingOff,   \* the group offset the open transaction holds
  fenced,       \* the coordinator timed the transaction out
  \* the consumer and consume_loop
  up,           \* the process: "down", "starting" or "running"
  position,     \* next offset the consumer fetches
  paused,       \* the partition is paused
  consuming,    \* consume_loop has not returned
  queue,        \* the asyncio.Queue between the two tasks
  stop,         \* stop_event
  \* the producer and process_loop
  pc,           \* where process_loop is suspended
  cur,          \* the record process_kafka_message works on
  attempts,     \* its failed attempts
  inTxn,        \* the producer object is inside a transaction
  \* history and bounds
  gaveUp,       \* records given up after the last retry
  stale,        \* per offset, late commits a starting process missed
  faults,       \* broker errors so far
  stops         \* crashes and terminations so far

broker   == <<committed, emitted, txn, pendingOut, pendingOff, fenced>>
consumer == <<position, paused, consuming>>
producer == <<cur, attempts, inTxn>>
history  == <<gaveUp, stale>>
bounds   == <<faults, stops>>
vars == <<broker, up, consumer, queue, stop, pc, producer, history, bounds>>

Init ==
  /\ committed = 0 /\ emitted = [o \in Offsets |-> 0]
  /\ txn = "none" /\ pendingOut = {} /\ pendingOff = NoOffset /\ fenced = FALSE
  /\ up = "down" /\ position = 0 /\ paused = FALSE /\ consuming = TRUE
  /\ queue = <<>> /\ stop = FALSE
  /\ pc = "get" /\ cur = NoOffset /\ attempts = 0 /\ inTxn = FALSE
  /\ gaveUp = {} /\ stale = [o \in Offsets |-> 0] /\ faults = 0 /\ stops = 0

-----------------------------------------------------------------------------
(* Start-up, main.  consumer.start() joins the group and takes its         *)
(* position from the committed offset; producer.start() comes after it and *)
(* makes the coordinator abort what the transactional id had open.         *)

ResumeAt_Earliest == 0

\* Where a starting consumer takes its position.
ResumeAt == committed

ConsumerStart ==
  /\ up = "down"
  /\ up' = "starting"
  /\ position' = ResumeAt
  /\ UNCHANGED <<broker, paused, consuming, queue, stop, pc, producer, history, bounds>>

ProducerStart ==
  /\ up = "starting"
  /\ up' = "running"
  /\ txn' = "none" /\ pendingOut' = {} /\ pendingOff' = NoOffset /\ fenced' = FALSE
  /\ UNCHANGED <<committed, emitted, consumer, queue, stop, pc, producer, history, bounds>>

(* SIGINT or SIGTERM sets the event; main then runs shutdown, which        *)
(* cancels both tasks wherever they are suspended and drops the queue.     *)
(* Between the two the tasks may still take steps.                         *)
Signal ==
  /\ up = "running" /\ ~stop /\ stops < MaxStops
  /\ stop' = TRUE /\ stops' = stops + 1
  /\ UNCHANGED <<broker, up, consumer, queue, pc, producer, history, faults>>

ProcessEnds ==
  /\ up' = "down"
  /\ paused' = FALSE /\ consuming' = TRUE /\ queue' = <<>> /\ stop' = FALSE
  /\ pc' = "get" /\ cur' = NoOffset /\ attempts' = 0 /\ inTxn' = FALSE
  /\ UNCHANGED <<broker, position, history, faults>>

Shutdown ==
  /\ up = "running" /\ stop
  /\ ProcessEnds
  /\ UNCHANGED stops

Crash ==
  /\ up # "down" /\ stops < MaxStops
  /\ stops' = stops + 1
  /\ ProcessEnds

(* Broker errors beyond those a fenced producer is certain to get.         *)
Fault == faults < MaxFaults /\ faults' = faults + 1

NoFault == UNCHANGED faults

-----------------------------------------------------------------------------
(* consume_loop.  The put on the unbounded queue, the watermark test and   *)
(* the loop condition follow getone without a suspension point.  A paused  *)
(* partition yields no record, so getone then never returns.               *)

Fetchable_Buffered == position < N

\* getone has a record to return.
Fetchable == ~paused /\ position < N

Pauses_BeforePut(len) == len - 1 > HighWater \/ (len - 1 >= LowWater /\ paused)

\* Whether the partition is paused once the watermarks have been tested.
Pauses(len) == len > HighWater \/ (len >= LowWater /\ paused)

GetOne ==
  /\ up = "running" /\ consuming /\ Fetchable
  /\ position' = position + 1
  /\ queue' = Append(queue, position)
  /\ paused' = Pauses(Len(queue'))
  /\ consuming' = ~stop
  /\ UNCHANGED <<broker, up, stop, pc, producer, history, bounds>>

(* getone raises: nothing catches it, the task ends, and main goes on      *)
(* waiting for stop_event.                                                 *)
GetOneFails ==
  /\ up = "running" /\ consuming /\ Fault
  /\ consuming' = FALSE
  /\ UNCHANGED <<broker, up, position, paused, queue, stop, pc, producer, history, stops>>

-----------------------------------------------------------------------------
(* process_loop and process_kafka_message.                                 *)

(* The head of process_loop, reached when a record is done with, in either *)
(* way.                                                                    *)
LoopHead_StopsWhenDrained ==
  pc' = IF stop \/ queue = <<>> THEN "done" ELSE "get"

LoopHead ==
  pc' = IF stop /\ queue = <<>> THEN "done" ELSE "get"

Running(p) == up = "running" /\ pc = p

Get_KeepsAttempts ==
  /\ Running("get") /\ queue # <<>>
  /\ cur' = Head(queue) /\ queue' = Tail(queue)
  /\ pc' = "begin"
  /\ UNCHANGED <<broker, up, consumer, stop, attempts, inTxn, history, bounds>>

Get ==
  /\ Running("get") /\ queue # <<>>
  /\ cur' = Head(queue) /\ queue' = Tail(queue)
  /\ attempts' = 0
  /\ pc' = "begin"
  /\ UNCHANGED <<broker, up, consumer, stop, inTxn, history, bounds>>

(* begin_transaction stands outside the try block: inside a transaction it *)
(* raises to process_loop, which logs the error and goes on.  The call is  *)
(* taken as the synchronous call the code writes and its tests mock        *)
(* (tests/test_kafka_orchestrator.py:91).  With a client whose             *)
(* begin_transaction is a coroutine, the call that nothing awaits begins   *)
(* nothing: every send fails, every abort raises, no record settles.       *)
BeginRaises ==
  /\ Running("begin") /\ inTxn
  /\ LoopHead
  /\ UNCHANGED <<broker, up, consumer, queue, stop, producer, history, bounds>>

Begin ==
  /\ Running("begin") /\ ~inTxn
  /\ inTxn' = TRUE
  /\ pc' = IF Kind[cur] = "badjson" THEN "send" ELSE "transform"
  /\ UNCHANGED <<broker, up, consumer, queue, stop, cur, attempts, history, bounds>>

(* json.loads and process_event.                                           *)
Transform ==
  /\ Running("transform") /\ Kind[cur] = "event"
  /\ pc' = "send"
  /\ UNCHANGED <<broker, up, consumer, queue, stop, producer, history, bounds>>

(* Only KafkaError is caught, so the transaction stays open.               *)
TransformRaises_Aborts ==
  /\ Running("transform") /\ Kind[cur] = "poison"
  /\ inTxn' = FALSE
  /\ LoopHead
  /\ UNCHANGED <<broker, up, consumer, queue, stop, cur, attempts, history, bounds>>

TransformRaises ==
  /\ Running("transform") /\ Kind[cur] = "poison"
  /\ LoopHead
  /\ UNCHANGED <<broker, up, consumer, queue, stop, producer, history, bounds>>

SendOk_OutsideTransaction ==
  /\ Running("send") /\ ~fenced
  /\ emitted' = [emitted EXCEPT ![cur] = @ + 1]
  /\ pc' = "offsets"
  /\ UNCHANGED <<committed, txn, pendingOut, pendingOff, fenced, up, consumer, queue, stop,
                 producer, history, bounds>>

SendOk ==
  /\ Running("send") /\ ~fenced
  /\ txn' = "open" /\ pendingOut' = pendingOut \cup {cur}
  /\ pc' = "offsets"
  /\ UNCHANGED <<committed, emitted, pendingOff, fenced, up, consumer, queue, stop,
                 producer, history, bounds>>

(* A failed send may or may not have reached the transaction.              *)
SendFails ==
  /\ Running("send")
  /\ \/ fenced /\ NoFault /\ UNCHANGED <<txn, pendingOut>>
     \/ ~fenced /\ Fault /\ UNCHANGED <<txn, pendingOut>>
     \/ ~fenced /\ Fault /\ txn' = "open" /\ pendingOut' = pendingOut \cup {cur}
  /\ pc' = "abort"
  /\ UNCHANGED <<committed, emitted, pendingOff, fenced, up, consumer, queue, stop,
                 producer, history, stops>>

NextOffset_Same == cur

\* What the transaction commits for the group: msg.offset + 1.
NextOffset == cur + 1

OffsetsOk ==
  /\ Running("offsets") /\ ~fenced
  /\ pendingOff' = NextOffset
  /\ pc' = "commit"
  /\ UNCHANGED <<committed, emitted, txn, pendingOut, fenced, up, consumer, queue, stop,
                 producer, history, bounds>>

OffsetsFail ==
  /\ Running("offsets")
  /\ \/ fenced /\ NoFault /\ UNCHANGED pendingOff
     \/ ~fenced /\ Fault /\ pendingOff' \in {pendingOff, NextOffset}
  /\ pc' = "abort"
  /\ UNCHANGED <<committed, emitted, txn, pendingOut, fenced, up, consumer, queue, stop,
                 producer, history, stops>>

(* commit_transaction: the request leaves, the broker applies or refuses   *)
(* it, the producer learns the outcome or an error.                        *)
CommitRequest ==
  /\ Running("commit") /\ ~fenced
  /\ txn' = "ending"
  /\ pc' = "reply"
  /\ UNCHANGED <<committed, emitted, pendingOut, pendingOff, fenced, up, consumer, queue,
                 stop, producer, history, bounds>>

CommitFenced ==
  /\ Running("commit") /\ fenced
  /\ pc' = "abort"
  /\ UNCHANGED <<broker, up, consumer, queue, stop, producer, history, bounds>>

CommitAck ==
  /\ Running("reply") /\ txn = "committed"
  /\ txn' = "none"
  /\ inTxn' = FALSE
  /\ LoopHead
  /\ UNCHANGED <<committed, emitted, pendingOut, pendingOff, fenced, up, consumer, queue,
                 stop, cur, attempts, history, bounds>>

CommitError ==
  /\ Running("reply")
  /\ IF txn \in {"ending", "committed"} THEN Fault ELSE NoFault
  /\ pc' = "abort"
  /\ UNCHANGED <<broker, up, consumer, queue, stop, producer, history, stops>>

(* abort_transaction.  When it succeeds the attempt is counted: the record *)
(* is tried again after a pause, or given up and the error raised to       *)
(* process_loop.                                                           *)
AbortOk ==
  /\ Running("abort") /\ ~fenced /\ txn \in {"none", "open"}
  /\ txn' = "none" /\ pendingOut' = {} /\ pendingOff' = NoOffset
  /\ inTxn' = FALSE
  /\ attempts' = attempts + 1
  /\ IF attempts' > MaxRetries
     THEN gaveUp' = gaveUp \cup {cur} /\ LoopHead
     ELSE UNCHANGED gaveUp /\ pc' = "backoff"
  /\ UNCHANGED <<committed, emitted, fenced, up, consumer, queue, stop, cur, stale, bounds>>

(* It raises for a fenced producer and for a transaction the broker has    *)
(* already committed; otherwise an error may come before or after the      *)
(* broker aborts.  The error leaves process_kafka_message with the         *)
(* producer still inside the transaction.                                  *)
AbortRaises ==
  /\ Running("abort")
  /\ \/ (fenced \/ txn = "committed") /\ NoFault /\ UNCHANGED <<txn, pendingOut, pendingOff>>
     \/ ~fenced /\ txn # "committed" /\ Fault /\ UNCHANGED <<txn, pendingOut, pendingOff>>
     \/ /\ ~fenced /\ txn \in {"none", "open"} /\ Fault
        /\ txn' = "none" /\ pendingOut' = {} /\ pendingOff' = NoOffset
  /\ LoopHead
  /\ UNCHANGED <<committed, emitted, fenced, up, consumer, queue, stop, producer, history, stops>>

Backoff ==
  /\ Running("backoff")
  /\ pc' = "begin"
  /\ UNCHANGED <<broker, up, consumer, queue, stop, producer, history, bounds>>

-----------------------------------------------------------------------------
(* The broker on its own.  A commit request outlives the process that sent *)
(* it.                                                                     *)

BrokerCommits ==
  /\ txn = "ending" /\ (up = "starting" => LateCommits)
  /\ txn' = "committed"
  /\ committed' = pendingOff
  /\ emitted' = [o \in Offsets |-> IF o \in pendingOut THEN emitted[o] + 1 ELSE emitted[o]]
  /\ stale' = IF up = "starting" THEN [o \in Offsets |-> IF o \in pendingOut THEN stale[o] + 1 ELSE stale[o]]
                                 ELSE stale
  /\ pendingOut' = {} /\ pendingOff' = NoOffset
  /\ UNCHANGED <<fenced, up, consumer, queue, stop, pc, producer, gaveUp, bounds>>

BrokerRefuses ==
  /\ txn = "ending" /\ Fault
  /\ txn' = "open"
  /\ UNCHANGED <<committed, emitted, pendingOut, pendingOff, fenced, up, consumer, queue,
                 stop, pc, producer, history, stops>>

(* transaction.timeout.ms runs out: the coordinator aborts the transaction *)
(* and fences its producer.                                                *)
BrokerTimesOut ==
  /\ txn = "open" /\ Fault
  /\ txn' = "none" /\ pendingOut' = {} /\ pendingOff' = NoOffset /\ fenced' = TRUE
  /\ UNCHANGED <<committed, emitted, up, consumer, queue, stop, pc, producer, history, stops>>

-----------------------------------------------------------------------------

ProcessStep ==
  \/ Get \/ BeginRaises \/ Begin \/ Transform \/ TransformRaises
  \/ SendOk \/ SendFails \/ OffsetsOk \/ OffsetsFail
  \/ CommitRequest \/ CommitFenced \/ CommitAck \/ CommitError
  \/ AbortOk \/ AbortRaises \/ Backoff

BrokerStep == BrokerCommits \/ BrokerRefuses \/ BrokerTimesOut

Next ==
  \/ ConsumerStart \/ ProducerStart \/ Signal \/ Shutdown \/ Crash
  \/ GetOne \/ GetOneFails \/ ProcessStep \/ BrokerStep

Spec == Init /\ [][Next]_vars

(* The event loop runs every ready task, the broker answers every request, *)
(* and the container restarts (docker-compose.ai.yml:29).  No crash, no    *)
(* signal and no error is assumed to happen.                               *)
Fairness ==
  /\ WF_vars(ConsumerStart) /\ WF_vars(ProducerStart) /\ WF_vars(Shutdown)
  /\ WF_vars(GetOne) /\ WF_vars(ProcessStep) /\ WF_vars(BrokerCommits)

FairSpec == Spec /\ Fairness

-----------------------------------------------------------------------------
BrokerTypes ==
  /\ committed \in 0 .. N
  /\ emitted \in [Offsets -> Nat]
  /\ txn \in {"none", "open", "ending", "committed"}
  /\ pendingOut \in SUBSET Offsets
  /\ pendingOff \in {NoOffset} \cup (1 .. N)
  /\ fenced \in BOOLEAN

ConsumerTypes ==
  /\ up \in {"down", "starting", "running"}
  /\ position \in 0 .. N
  /\ paused \in BOOLEAN /\ consuming \in BOOLEAN /\ stop \in BOOLEAN
  /\ queue \in Seq(Offsets)

ProducerTypes ==
  /\ pc \in {"get", "begin", "transform", "send", "offsets", "commit", "reply",
             "abort", "backoff", "done"}
  /\ cur \in {NoOffset} \cup Offsets
  /\ attempts \in 0 .. (MaxRetries + 1)
  /\ inTxn \in BOOLEAN

HistoryTypes ==
  /\ gaveUp \in SUBSET Offsets
  /\ stale \in [Offsets -> Nat]
  /\ faults \in 0 .. MaxFaults /\ stops \in 0 .. MaxStops

(* Every variable of the orchestrator, its broker (lines 44-155) and the    *)
(* history of the model has its type.                                      *)
TypeOK == BrokerTypes /\ ConsumerTypes /\ ProducerTypes /\ HistoryTypes

(* The transaction of process_kafka_message (lines 52-84) makes an output  *)
(* and its offset one step: whatever the errors, retries, crashes and      *)
(* restarts, a record has at most one committed output, plus one for each  *)
(* time its commit landed between consumer.start() and producer.start() of *)
(* the next process (lines 185-186), which had already taken its position. *)
OncePerRecord == \A o \in Offsets : emitted[o] <= 1 + stale[o]

(* An output is never visible without the offset that keeps it from being  *)
(* produced again (lines 75-84), missed late commits aside.                *)
OutputWithOffset == \A o \in Offsets : emitted[o] > stale[o] => o < committed

(* The offset moves past a record without an output only when that record  *)
(* failed every attempt and its last abort succeeded (lines 87-95): no     *)
(* other error that process_loop swallows (lines 132-133) loses a record.  *)
NothingSkippedSilently ==
  \A o \in Offsets : o < committed => emitted[o] > 0 \/ o \in gaveUp

(* The high watermark (lines 114-115) bounds the otherwise unbounded queue. *)
QueueBounded == Len(queue) <= HighWater + 1

(* Crashes, restarts and retries never move the group offset back, until a *)
(* starting process has missed a late commit: it may then find a record    *)
(* again that its predecessor gave up, and commit that record's offset.    *)
CommittedNeverMovesBack ==
  [][committed' >= committed \/ \E o \in Offsets : stale[o] > 0]_vars

(* Only a restart ends a pause: the resume of lines 116-117 is evaluated   *)
(* after a getone, which a paused partition never completes.               *)
PauseIsFinal == [][paused /\ up' # "down" => paused']_vars

(* A record was delivered or given up.                                     *)
Settled(o) == emitted[o] > 0 \/ o \in gaveUp

\* begin_transaction raises for every record until a restart.
Wedged == inTxn /\ pc = "get"

\* No getone will return this record: the loop has ended or the partition is paused.
NeverFetched(o) == position <= o /\ (paused \/ ~consuming)

(* Every record is settled unless the process ends, is told to stop or is  *)
(* wedged in a transaction, or consume_loop died or paused before the      *)
(* record (lines 104, 114): what is in the queue by then is still settled, *)
(* and errors that are retried, and given-up records, hold nothing up.     *)
EveryRecordSettles ==
  \A o \in Offsets : [](up = "running" =>
    <>(Settled(o) \/ NeverFetched(o) \/ Wedged \/ stop \/ up # "running"))

(* The promise in the name of tests/test_kafka_orchestrator.py:131,        *)
(* test_at_least_once_delivery: no record is passed over without an output. *)
AtLeastOnce == \A o \in Offsets : o < committed => emitted[o] > 0

-----------------------------------------------------------------------------
(* Unless a late commit is missed, the process with its crashes, retries   *)
(* and restarts (lines 44-155, 185-186) implements EventRelay: in order,   *)
(* exactly once, and without a gap that is not a given-up record.          *)
Relay == INSTANCE EventRelay WITH frontier <- committed, outputs <- emitted, abandoned <- gaveUp

ImplementsRelay == Relay!Spec

-----------------------------------------------------------------------------
(* The inductive strengthening of the invariants.                          *)

Busy == pc \notin {"get", "done"}

\* First offset the process has not handed to process_kafka_message.
Front == position - Len(queue)

\* First offset it has not finished with.
Base == IF Busy THEN cur ELSE Front

Fresh(o) == emitted[o] <= stale[o]
Missed == \E o \in Offsets : stale[o] > 0

QueueOrder ==
  /\ Len(queue) <= position
  /\ \A i \in 1 .. Len(queue) : queue[i] = Front + i - 1
  /\ Busy => cur \in Offsets /\ cur = Front - 1 /\ attempts <= MaxRetries
  /\ up # "running" => queue = <<>> /\ pc = "get" /\ ~inTxn

PauseBound ==
  /\ Len(queue) <= HighWater + 1
  /\ ~paused => Len(queue) <= HighWater

TxnShape ==
  /\ txn = "ending" => pendingOff # NoOffset /\ pendingOut = {pendingOff - 1}
  /\ txn = "committed" => pendingOut = {} /\ pendingOff = NoOffset
  /\ up = "running" =>
       /\ ~inTxn => txn = "none" /\ pendingOut = {} /\ pendingOff = NoOffset
       /\ \A p \in pendingOut : p < Front
       /\ pc \in {"transform", "send", "offsets", "commit", "reply", "abort"} => inTxn
       /\ pc = "backoff" => ~inTxn
       /\ pc \in {"transform", "send"} => txn = "none" /\ pendingOut = {} /\ pendingOff = NoOffset
       /\ pc \in {"offsets", "commit"} => txn \in {"none", "open"}
       /\ pc = "offsets" /\ ~fenced => pendingOut = {cur}
       /\ pc = "commit" /\ ~fenced => pendingOut = {cur} /\ pendingOff = cur + 1
       /\ pc = "reply" /\ txn = "ending" => pendingOut = {cur}
       /\ pc = "reply" /\ txn = "committed" => emitted[cur] > 0

PendingReady ==
  \A p \in pendingOut :
    /\ \A o \in Offsets : (o >= p => Fresh(o)) /\ (o < p => Settled(o))
    /\ Missed \/ committed <= p

WorkFresh ==
  /\ OutputWithOffset
  /\ up # "down" => \A o \in Offsets :
       o >= Base => Fresh(o) \/ (Busy /\ o = cur /\ txn = "committed")

PrefixSettled ==
  /\ NothingSkippedSilently
  /\ up # "down" /\ (inTxn => Busy /\ pc # "begin") => \A o \in Offsets : o < Base => Settled(o)

Ordered ==
  /\ ~LateCommits => ~Missed
  /\ up # "down" =>
       \/ Missed
       \/ committed <= Front /\ (committed <= Base \/ (Busy /\ txn = "committed"))

IInv ==
  /\ TypeOK /\ OncePerRecord
  /\ QueueOrder /\ PauseBound /\ TxnShape /\ PendingReady /\ WorkFresh /\ PrefixSettled /\ Ordered
=============================================================================
