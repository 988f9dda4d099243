---------------------------- MODULE LiveRefresh -----------------------------
(***************************************************************************)
(* src/ui-dashboard/components/LiveUpdates.tsx: the events of the socket   *)
(* go through a throttle of one second to a handler that invalidates the   *)
(* queries 'alerts' and, for a created alert of high severity, 'metrics'.  *)
(* No query of the dashboard has such a key: react-query fetches none of   *)
(* them again.  The throttle is lodash's: the first call goes through at   *)
(* once, of the later ones the last, when the second is over.              *)
(***************************************************************************)
EXTENDS Naturals, Sequences

CONSTANTS
  Events,    \* what the server may emit
  Urgent,    \* of these, alertCreated with severity high
  Queries,   \* what the keys of the client's queries begin with
  MaxEvents  \* bound: events of a run

ASSUME EventAssumption == Urgent \subseteq Events /\ MaxEvents \in Nat

(* AnomalyViewer.tsx:36, AuditLedger.tsx:55 and FiltersDrilldown.tsx:52    *)
(* name theirs otherwise.                                                  *)
ASSUME KeyAssumption == Queries \cap {"alerts", "metrics"} = {}

VARIABLES
  updatesMounted,
  sent,      \* the events that reached the component, in order
  window,    \* whether the throttle's timer runs
  pending,   \* the index of the call it will make when its timer ends, or 0
  alertsAt,  \* the last event after which 'alerts' was invalidated
  metricsAt, \* the last event after which 'metrics' was invalidated
  refetched  \* the queries that were fetched again for it

called == <<alertsAt, metricsAt, refetched>>
liveRefreshVars == <<updatesMounted, sent, window, pending, called>>

LiveRefreshInit ==
  /\ updatesMounted = TRUE /\ sent = <<>> /\ window = FALSE
  /\ pending = 0 /\ alertsAt = 0 /\ metricsAt = 0 /\ refetched = {}

-----------------------------------------------------------------------------
(* invalidateQueries(key): the queries whose key begins with it.           *)
Matching(keys) == Queries \cap keys

(* The throttled handler, called with the event of index i once n events   *)
(* are there: a query that it invalidates would be fetched again, and show *)
(* all of them.                                                            *)
Handle(i, n, events) ==
  /\ alertsAt' = n
  /\ IF events[i] \in Urgent
     THEN metricsAt' = n /\ refetched' = refetched \cup Matching({"alerts", "metrics"})
     ELSE refetched' = refetched \cup Matching({"alerts"}) /\ UNCHANGED metricsAt

(* The latest arguments replace those that wait.                           *)
Keep(n) == n

(* handlerRef.current(event, payload): the throttle's call.                *)
Event(e) ==
  /\ updatesMounted /\ Len(sent) < MaxEvents
  /\ sent' = Append(sent, e)
  /\ IF window
     THEN pending' = Keep(Len(sent) + 1) /\ UNCHANGED <<window, called>>
     ELSE /\ Handle(Len(sent) + 1, Len(sent) + 1, Append(sent, e))
          /\ window' = TRUE /\ UNCHANGED pending
  /\ UNCHANGED updatesMounted

(* After a call at the end of the second, another second begins.           *)
WindowEnds ==
  /\ window
  /\ IF pending = 0
     THEN window' = FALSE /\ UNCHANGED <<pending, called>>
     ELSE Handle(pending, Len(sent), sent) /\ pending' = 0 /\ UNCHANGED window
  /\ UNCHANGED <<updatesMounted, sent>>

(* The effect is undone: throttled.cancel().                               *)
UnmountUpdates ==
  /\ updatesMounted /\ updatesMounted' = FALSE
  /\ window' = FALSE /\ pending' = 0
  /\ UNCHANGED <<sent, called>>

-----------------------------------------------------------------------------
LiveRefreshNext == UnmountUpdates \/ WindowEnds \/ \E e \in Events : Event(e)

LiveRefreshSpec == LiveRefreshInit /\ [][LiveRefreshNext]_liveRefreshVars

-----------------------------------------------------------------------------
SeenSoFar == 0 .. Len(sent)

(* Every variable has its type; a call waits only while the timer of a     *)
(* mounted component runs; and no query is ever fetched again for an event,*)
(* since none has a key that the handler invalidates.                      *)
LiveRefreshTypeOK ==
  /\ {updatesMounted, window} \subseteq BOOLEAN
  /\ Len(sent) <= MaxEvents /\ \A i \in 1 .. Len(sent) : sent[i] \in Events
  /\ {pending, alertsAt, metricsAt} \subseteq SeenSoFar
  /\ pending # 0 => window /\ updatesMounted
  /\ refetched = {}

(* Once unmounted, the throttle calls nothing: an invalidation then would  *)
(* be one for a page that is gone.                                         *)
QuietAfterUnmount == [][~updatesMounted => UNCHANGED called]_liveRefreshVars

(* No event is swallowed by the throttle: 'alerts' is invalidated after it,*)
(* if the component stays (line 12; that this reaches no query is another  *)
(* matter, see the type invariant).                                        *)
AlertsFollow ==
  \A n \in 1 .. MaxEvents : Len(sent) = n ~> (alertsAt >= n \/ ~updatesMounted)

(* 'metrics' is invalidated after an urgent event, unless another event    *)
(* takes its place in the throttle first: that much is lost, no more.      *)
MetricsFollow ==
  \A n \in 1 .. MaxEvents :
    (Len(sent) = n /\ sent[n] \in Urgent)
      ~> (metricsAt >= n \/ Len(sent) > n \/ ~updatesMounted)
=============================================================================
