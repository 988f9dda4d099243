------------------------------ MODULE Feedback ------------------------------
(***************************************************************************)
(* A user marks an alert as a false positive.  The modal of the dashboard  *)
(* (ui-dashboard/src/components/FeedbackModal/FeedbackModal.tsx) posts the *)
(* reason to the AI service (ai-service/src/routes/feedback.ts), which     *)
(* looks the alert up, writes a row and sends an event.  The producer of   *)
(* ai-service/src/kafka.ts is connected nowhere, so that each send raises. *)
(* react-query 3, which the modal imports, has no isPending: the button    *)
(* stays enabled while a submission runs.                                  *)
(***************************************************************************)
EXTENDS Naturals

CONSTANTS
  Submissions,
  MaxFeedbackFaults  \* bound: database errors, lost answers and lost requests

ASSUME FaultAssumption == MaxFeedbackFaults \in Nat

VARIABLES
  modalOpen, reason,  \* the modal: shown or not, and what stands in it
  toast,              \* what the user is told: "none", "success" or "error"
  place,              \* per submission: where it stands, in the service or on its way
  posted,             \* per submission: the reason that was posted
  alert,              \* whether the alert exists
  rows,               \* submissions with a row
  answered,           \* per submission, the status the service gave, or "none"
  feedbackFaults,
  told,               \* the submission that the toast is about, or NoStatus (history)
  hitByFault          \* submissions that met a fault (history)

modal == <<modalOpen, reason, toast, told>>
feedbackVars == <<modal, place, posted, alert, rows, answered, feedbackFaults, hitByFault>>

Reasons == {"empty", "short", "long"} \* up to no, 4 and more characters
NoStatus == "none"

FeedbackInit ==
  /\ modalOpen = FALSE /\ reason = "empty" /\ toast = "none" /\ told = NoStatus
  /\ place = [s \in Submissions |-> "idle"] /\ posted = [s \in Submissions |-> "empty"]
  /\ alert \in BOOLEAN /\ rows = {} /\ feedbackFaults = 0 /\ hitByFault = {}
  /\ answered = [s \in Submissions |-> NoStatus]

Moves(s, p, q) == place[s] = p /\ place' = [place EXCEPT ![s] = q]

Fault(s) ==
  /\ feedbackFaults < MaxFeedbackFaults /\ feedbackFaults' = feedbackFaults + 1
  /\ hitByFault' = hitByFault \cup {s}

NoFault == UNCHANGED <<feedbackFaults, hitByFault>>

-----------------------------------------------------------------------------
(* The modal.                                                              *)
ShowModal(o) ==
  /\ modalOpen # o /\ modalOpen' = o
  /\ UNCHANGED <<reason, toast, told, place, posted, alert, rows, answered,
                 feedbackFaults, hitByFault>>

Type(v) ==
  /\ modalOpen /\ reason # v /\ reason' = v
  /\ UNCHANGED <<modalOpen, toast, told, place, posted, alert, rows, answered,
                 feedbackFaults, hitByFault>>

(* The modal's own schema: min(1).                                         *)
Valid(v) == v # "empty"

Submit(s) ==
  /\ modalOpen /\ Valid(reason)
  /\ Moves(s, "idle", "posted") /\ posted' = [posted EXCEPT ![s] = reason]
  /\ UNCHANGED <<modal, alert, rows, answered, feedbackFaults, hitByFault>>

DismissToast ==
  /\ toast # "none" /\ toast' = "none" /\ told' = NoStatus
  /\ UNCHANGED <<modalOpen, reason, place, posted, alert, rows, answered,
                 feedbackFaults, hitByFault>>

(* res.ok; an answer that does not come raises too.                        *)
Ok(s) == answered[s] = "201"

Succeed(s) ==
  /\ Ok(s) /\ Moves(s, "answered", "done")
  /\ modalOpen' = FALSE /\ reason' = "empty" /\ toast' = "success" /\ told' = s
  /\ UNCHANGED <<posted, alert, rows, answered, feedbackFaults, hitByFault>>

Fail(s) ==
  /\ ~Ok(s) /\ Moves(s, "answered", "done")
  /\ toast' = "error" /\ told' = s
  /\ UNCHANGED <<modalOpen, reason, posted, alert, rows, answered, feedbackFaults, hitByFault>>

(* The request or its answer is lost.                                      *)
Lose(s) ==
  /\ \/ Moves(s, "posted", "answered") /\ UNCHANGED answered
     \/ /\ Moves(s, "answered", "answered") /\ answered[s] # NoStatus
        /\ answered' = [answered EXCEPT ![s] = NoStatus]
  /\ Fault(s) /\ UNCHANGED <<modal, posted, alert, rows>>

-----------------------------------------------------------------------------
(* The service.                                                            *)
Reply(s, status) == answered' = [answered EXCEPT ![s] = status]

(* reason: min(5).                                                         *)
Fits(v) == v = "long"

Validate(s) ==
  /\ IF Fits(posted[s])
     THEN Moves(s, "posted", "find") /\ UNCHANGED answered
     ELSE Moves(s, "posted", "answered") /\ Reply(s, "400")
  /\ NoFault /\ UNCHANGED <<modal, posted, alert, rows>>

FindAlert(s) ==
  /\ IF alert THEN Moves(s, "find", "create") /\ UNCHANGED answered
              ELSE Moves(s, "find", "answered") /\ Reply(s, "404")
  /\ NoFault /\ UNCHANGED <<modal, posted, alert, rows>>

Create(s) ==
  /\ Moves(s, "create", "send") /\ rows' = rows \cup {s}
  /\ NoFault /\ UNCHANGED <<modal, posted, alert, answered>>

(* The outer catch; a row may have been written all the same.              *)
QueryFails(s) ==
  /\ \/ Moves(s, "find", "answered") /\ UNCHANGED rows
     \/ Moves(s, "create", "answered") /\ (rows' = rows \/ rows' = rows \cup {s})
  /\ Reply(s, "500") /\ Fault(s)
  /\ UNCHANGED <<modal, posted, alert>>

(* What the client is told after the send has raised.                      *)
SendStatus == "201"

(* kafkaProducer.send: not connected; the inner catch logs it.             *)
Send(s) ==
  /\ Moves(s, "send", "answered") /\ Reply(s, SendStatus)
  /\ NoFault /\ UNCHANGED <<modal, posted, alert, rows>>

(* The alert is removed while its feedback is on the way.                  *)
AlertGone ==
  /\ alert /\ alert' = FALSE
  /\ UNCHANGED <<modal, place, posted, rows, answered, feedbackFaults, hitByFault>>

-----------------------------------------------------------------------------
Serve(s) == Validate(s) \/ FindAlert(s) \/ Create(s) \/ QueryFails(s) \/ Send(s)

Hear(s) == Succeed(s) \/ Fail(s)

FeedbackNext ==
  \/ DismissToast \/ AlertGone
  \/ \E o \in BOOLEAN : ShowModal(o)
  \/ \E v \in Reasons : Type(v)
  \/ \E s \in Submissions : Submit(s) \/ Lose(s) \/ Serve(s) \/ Hear(s)

FeedbackSpec == FeedbackInit /\ [][FeedbackNext]_feedbackVars

(* The service's awaits end, and the browser hears of an answer or its loss.*)
FeedbackProgress == \E s \in Submissions : Serve(s) \/ Hear(s)

-----------------------------------------------------------------------------
Places == {"idle", "posted", "find", "create", "send", "answered", "done"}

(* Every variable has its type, and a row belongs to a reason that fits.   *)
FeedbackTypeOK ==
  /\ modalOpen \in BOOLEAN /\ alert \in BOOLEAN /\ reason \in Reasons
  /\ toast \in {"none", "success", "error"} /\ told \in Submissions \cup {NoStatus}
  /\ place \in [Submissions -> Places] /\ posted \in [Submissions -> Reasons]
  /\ answered \in [Submissions -> {NoStatus, "201", "400", "404", "500"}]
  /\ \A s \in rows : posted[s] = "long"
  /\ feedbackFaults \in 0 .. MaxFeedbackFaults /\ hitByFault \subseteq Submissions

(* Who is told that the feedback was submitted has a row in the table,     *)
(* whatever other submissions ran into.                                    *)
SuccessMeansRow == toast = "success" => told \in rows

(* Who is told that it failed has no row, unless an answer was lost or the *)
(* database failed: the event that cannot be sent never makes a user       *)
(* submit what is there already.                                           *)
ErrorMeansNoRow == toast = "error" => told \notin rows \/ told \in hitByFault

(* Every submission ends with a toast.                                     *)
EverySubmissionEnds == \A s \in Submissions : place[s] = "posted" ~> place[s] = "done"
=============================================================================
