---------------------------- MODULE MCDashboard -----------------------------
(***************************************************************************)
(* Eight parts of src/ui-dashboard, the feedback service with the modal.   *)
(* They share no state, so a behaviour is a behaviour of one of them while *)
(* the others rest at a state they may begin in.                           *)
(***************************************************************************)
EXTENDS LiveConnection, LiveRefresh, Feedback, Drilldown, AuditScroll, AnomalyList,
        DashboardData, IamConsole

VARIABLE part

(* Two searches and two pages; the narrower search has one page only, and  *)
(* the anomalies are numbers.                                              *)
MCSearches == {"", "a"}

MCFound ==
  [k \in MCSearches \X (1 .. 2) |->
     CASE k = <<"", 1>> -> <<1, 2>> [] k = <<"", 2>> -> <<3>>
       [] k = <<"a", 1>> -> <<2, 3>> [] k = <<"a", 2>> -> <<>>]

(* Alerts of four days, two of them of one moment.                         *)
MCAlerts == 1 .. 5

MCAt == <<2, 15, 16, 16, 25>>

MCHigh == {1, 2, 4}

-----------------------------------------------------------------------------
listVars == <<drilldownVars, auditScrollVars, anomalyListVars>>
dataVars == <<feedbackVars, dashboardDataVars, iamConsoleVars>>
dashboardVars == <<part, liveConnectionVars, liveRefreshVars, listVars, dataVars>>

Init ==
  /\ part \in {"connection", "refresh", "feedback", "drilldown", "ledger", "anomalies",
               "data", "iam"}
  /\ part # "feedback" => alert = TRUE
  /\ LiveConnectionInit /\ LiveRefreshInit /\ FeedbackInit /\ DrilldownInit
  /\ AuditScrollInit /\ AnomalyListInit /\ DashboardDataInit /\ IamConsoleInit

(* An action of one part; the others rest.                                 *)
OfConnection(A) ==
  part = "connection" /\ A /\ UNCHANGED <<part, liveRefreshVars, listVars, dataVars>>

OfRefresh(A) ==
  part = "refresh" /\ A /\ UNCHANGED <<part, liveConnectionVars, listVars, dataVars>>

OfFeedback(A) ==
  /\ part = "feedback" /\ A
  /\ UNCHANGED <<part, liveConnectionVars, liveRefreshVars, listVars, dashboardDataVars,
                 iamConsoleVars>>

OfDrilldown(A) ==
  /\ part = "drilldown" /\ A
  /\ UNCHANGED <<part, liveConnectionVars, liveRefreshVars, auditScrollVars,
                 anomalyListVars, dataVars>>

OfLedger(A) ==
  /\ part = "ledger" /\ A
  /\ UNCHANGED <<part, liveConnectionVars, liveRefreshVars, drilldownVars,
                 anomalyListVars, dataVars>>

OfAnomalies(A) ==
  /\ part = "anomalies" /\ A
  /\ UNCHANGED <<part, liveConnectionVars, liveRefreshVars, drilldownVars,
                 auditScrollVars, dataVars>>

OfData(A) ==
  /\ part = "data" /\ A
  /\ UNCHANGED <<part, liveConnectionVars, liveRefreshVars, listVars, feedbackVars,
                 iamConsoleVars>>

OfIam(A) ==
  /\ part = "iam" /\ A
  /\ UNCHANGED <<part, liveConnectionVars, liveRefreshVars, listVars, feedbackVars,
                 dashboardDataVars>>

Next ==
  \/ OfConnection(LiveConnectionNext)
  \/ OfRefresh(LiveRefreshNext)
  \/ OfFeedback(FeedbackNext)
  \/ OfDrilldown(DrilldownNext)
  \/ OfLedger(AuditScrollNext)
  \/ OfAnomalies(AnomalyListNext)
  \/ OfData(DashboardDataNext)
  \/ OfIam(IamConsoleNext)

Spec == Init /\ [][Next]_dashboardVars

(* Timers fire, effects run, requests end; see the operators.              *)
FairSpec ==
  /\ Spec
  /\ WF_dashboardVars(\/ OfConnection(HookProgress) \/ OfRefresh(WindowEnds)
                      \/ OfFeedback(FeedbackProgress) \/ OfDrilldown(DrilldownProgress)
                      \/ OfLedger(ScrollProgress) \/ OfAnomalies(ListProgress))

-----------------------------------------------------------------------------
(* However the user, the timers and the answers interleave: there is one   *)
(* socket; toasts, lists, menus and cards are true; the counts behind the  *)
(* heat map are, though it does not read them; and a dialog closes for a   *)
(* reason (ui-dashboard/hooks, components, pages).                         *)
DashboardInv ==
  /\ LiveConnectionTypeOK /\ OneSocket /\ EachWaitIsOneSecond /\ LiveRefreshTypeOK
  /\ FeedbackTypeOK /\ SuccessMeansRow /\ ErrorMeansNoRow
  /\ DrilldownTypeOK /\ SettledMeansCurrent /\ NoHoles
  /\ AuditScrollTypeOK /\ AnomalyListTypeOK /\ ListIsForInputs /\ ChoiceStays
  /\ DashboardDataTypeOK /\ CellsApart /\ CardsAreNewest /\ HighAlertIsCounted
  /\ IamConsoleTypeOK /\ ClosedByAnswer /\ OpenIsUnanswered

(* Each part does in the end what it was asked for, or has failed, and     *)
(* without a call or a fetch too many.  (The throttled updates end in      *)
(* invalidations that reach no query; an event between two sockets, or one *)
(* replaced in the throttle, is lost.)                                     *)
DashboardCatchesUp ==
  /\ Reconnects /\ QuietAfterUnmount /\ AlertsFollow /\ MetricsFollow
  /\ EverySubmissionEnds /\ PageCatchesUp
  /\ OnlyStaleRestarts /\ BottomFetches /\ ListCatchesUp
=============================================================================
