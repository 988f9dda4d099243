--------------------------- MODULE DashboardProofs ---------------------------
(***************************************************************************)
(* Theorems about the eight parts of the dashboard that MCDashboard puts   *)
(* side by side, for every value of their constants.  Each part has an     *)
(* inductive invariant of its own.                                         *)
(***************************************************************************)
EXTENDS MCDashboard, FiniteSetTheorems, SequenceTheorems, TLAPS

-----------------------------------------------------------------------------
(* The live connection                                                     *)

(* While the hook is mounted, socketRef holds a socket, and else none.     *)
RefWhileMounted == IF hookMounted THEN ref \in Ids ELSE ref = NoSocket

(* The effect of a timeout is current only while the hook is mounted.      *)
CurrentWhileMounted == \A t \in timers : t.current => hookMounted

(* onConnect has reset the delay of the socket that is open.               *)
OpenHasReset == \A s \in Ids : sockets[s] = "open" => delay = 1

ConnectionIInv ==
  /\ LiveConnectionTypeOK /\ drops \in 0 .. MaxDrops
  /\ OneSocket /\ EachWaitIsOneSecond
  /\ RefWhileMounted /\ CurrentWhileMounted /\ OpenHasReset

(* The invariant holds at first: no socket is live.                        *)
LEMMA ConnectionBegins == LiveConnectionInit => ConnectionIInv
  <1> SUFFICES ASSUME LiveConnectionInit PROVE ConnectionIInv
    OBVIOUS
  <1> USE DEF LiveConnectionInit
  <1>1. LiveConnectionTypeOK /\ drops \in 0 .. MaxDrops
    <2>1. {hookMounted, connected, error, dirty} \subseteq BOOLEAN
      OBVIOUS
    <2>2. delay \in 1 .. 30 /\ drops \in 0 .. MaxDrops
      BY SocketAssumption
    <2>3. ref \in Ids \cup {NoSocket} /\ timers = {}
      OBVIOUS
    <2>4. sockets \in [Ids -> {"closed", "connecting", "retrying", "refused", "open"}]
      OBVIOUS
    <2> QED BY <2>1, <2>2, <2>3, <2>4 DEF LiveConnectionTypeOK
  <1>2. OneSocket
    BY DEF OneSocket, Live
  <1>3. EachWaitIsOneSecond /\ RefWhileMounted /\ CurrentWhileMounted /\ OpenHasReset
    BY DEF EachWaitIsOneSecond, RefWhileMounted, CurrentWhileMounted, OpenHasReset
  <1> QED BY <1>1, <1>2, <1>3 DEF ConnectionIInv

(* connect closes the socket it had and begins another: that one is the    *)
(* only one, and none is open.                                             *)
LEMMA ConnectHoldsOne ==
  ASSUME ConnectionIInv, Connect
  PROVE  /\ sockets' \in [Ids -> {"closed", "connecting", "retrying", "refused", "open"}]
         /\ ref' \in Ids
         /\ {s \in Ids : sockets'[s] # "closed"} = {ref'}
         /\ \A s \in Ids : sockets'[s] # "open"
  <1>1. \E s \in Ids : sockets[s] = "closed"
    BY SocketAssumption DEF ConnectionIInv, OneSocket, Live
  <1>2. FreshSocket \in Ids /\ sockets[FreshSocket] = "closed"
    BY <1>1 DEF FreshSocket
  <1>3. \A s \in Ids : sockets[s] # "closed" => s = ref
    BY DEF ConnectionIInv, OneSocket, Live
  <1>4. sockets \in [Ids -> {"closed", "connecting", "retrying", "refused", "open"}]
    BY DEF ConnectionIInv, LiveConnectionTypeOK
  <1> QED BY <1>2, <1>3, <1>4 DEF Connect, Cleanup

(* Every step of the hook, its timeouts and its sockets keeps the          *)
(* invariant.                                                              *)
LEMMA ConnectionInductive ==
  ASSUME ConnectionIInv, [LiveConnectionNext]_liveConnectionVars
  PROVE  ConnectionIInv'
  <1>1. CASE Mount
    <2>1. sockets' \in [Ids -> {"closed", "connecting", "retrying", "refused", "open"}]
          /\ ref' \in Ids /\ {s \in Ids : sockets'[s] # "closed"} = {ref'}
          /\ \A s \in Ids : sockets'[s] # "open"
      BY <1>1, ConnectHoldsOne DEF Mount
    <2>2. {hookMounted, connected, error, dirty}' \subseteq BOOLEAN
      BY <1>1 DEF Mount
    <2>3. LiveConnectionTypeOK' /\ drops' \in 0 .. MaxDrops
      BY <2>1, <2>2, <1>1 DEF Mount, env, ConnectionIInv, LiveConnectionTypeOK
    <2>4. OneSocket' /\ RefWhileMounted' /\ OpenHasReset'
      BY <2>1, <1>1 DEF Mount, OneSocket, Live, RefWhileMounted, OpenHasReset
    <2>5. EachWaitIsOneSecond' /\ CurrentWhileMounted'
      BY <1>1 DEF Mount, ConnectionIInv, EachWaitIsOneSecond, CurrentWhileMounted
    <2> QED BY <2>3, <2>4, <2>5 DEF ConnectionIInv
  <1>2. CASE UnmountHook
    <2>1. timers' \subseteq [drop : 0 .. MaxDrops, delay : 1 .. 30, current : BOOLEAN]
          /\ \A t \in timers' : t.delay = 1 /\ ~t.current
      <3>1. \A t \in timers : [t EXCEPT !.current = FALSE]
                                \in [drop : 0 .. MaxDrops, delay : 1 .. 30, current : BOOLEAN]
                              /\ [t EXCEPT !.current = FALSE].delay = 1
                              /\ ~[t EXCEPT !.current = FALSE].current
        BY DEF ConnectionIInv, LiveConnectionTypeOK, EachWaitIsOneSecond
      <3> QED BY <3>1, <1>2 DEF UnmountHook, env, Outdated
    <2> QED BY <2>1, <1>2
               DEF UnmountHook, env, Cleanup, ConnectionIInv, LiveConnectionTypeOK, OneSocket,
                   Live, EachWaitIsOneSecond, RefWhileMounted, CurrentWhileMounted, OpenHasReset
  <1>3. CASE RenderHook
    <2>1. timers' \subseteq [drop : 0 .. MaxDrops, delay : 1 .. 30, current : BOOLEAN]
          /\ \A t \in timers' : t.delay = 1 /\ ~t.current
      <3>1. \A t \in timers : [t EXCEPT !.current = FALSE]
                                \in [drop : 0 .. MaxDrops, delay : 1 .. 30, current : BOOLEAN]
                              /\ [t EXCEPT !.current = FALSE].delay = 1
                              /\ ~[t EXCEPT !.current = FALSE].current
        BY DEF ConnectionIInv, LiveConnectionTypeOK, EachWaitIsOneSecond
      <3> QED BY <3>1, <1>3 DEF RenderHook, Outdated
    <2>2. sockets' \in [Ids -> {"closed", "connecting", "retrying", "refused", "open"}]
          /\ ref' \in Ids /\ {s \in Ids : sockets'[s] # "closed"} = {ref'}
          /\ \A s \in Ids : sockets'[s] # "open"
      BY <1>3, ConnectHoldsOne DEF RenderHook
    <2> QED BY <2>1, <2>2, <1>3
               DEF RenderHook, env, ConnectionIInv, LiveConnectionTypeOK, OneSocket, Live,
                   EachWaitIsOneSecond, RefWhileMounted, CurrentWhileMounted, OpenHasReset
  <1>4. CASE CallerRenders
    BY <1>4
       DEF CallerRenders, env, ConnectionIInv, LiveConnectionTypeOK, OneSocket, Live,
           EachWaitIsOneSecond, RefWhileMounted, CurrentWhileMounted, OpenHasReset
  <1>5. ASSUME NEW s \in Ids, Opens(s) PROVE ConnectionIInv'
    <2>1. {hookMounted, connected, error, dirty}' \subseteq BOOLEAN
      BY <1>5 DEF Opens, ConnectionIInv, LiveConnectionTypeOK
    <2>2. LiveConnectionTypeOK'
      BY <2>1, <1>5 DEF Opens, OnConnect, ConnectionIInv, LiveConnectionTypeOK
    <2>3. Live' = Live
      BY <1>5 DEF Opens, Live, ConnectionIInv, LiveConnectionTypeOK
    <2> QED BY <2>2, <2>3, <1>5 DEF Opens, OnConnect, env, ConnectionIInv, OneSocket,
                                 EachWaitIsOneSecond, RefWhileMounted, CurrentWhileMounted,
                                 OpenHasReset
  <1>6. ASSUME NEW s \in Ids, ConnectFails(s) PROVE ConnectionIInv'
    BY <1>6
       DEF ConnectFails, OnConnectError, ConnectionIInv, LiveConnectionTypeOK, OneSocket, Live,
           EachWaitIsOneSecond, RefWhileMounted, CurrentWhileMounted, OpenHasReset
  <1>7. ASSUME NEW s \in Ids, Drops(s) PROVE ConnectionIInv'
    <2>1. ref = s /\ hookMounted /\ delay = 1 /\ \A r \in Ids : sockets[r] = "open" => r = s
      <3>1. sockets[s] = "open" /\ sockets[s] # "closed"
        BY <1>7 DEF Drops
      <3>2. s \in Live
        BY <3>1 DEF Live
      <3>3. hookMounted /\ Live = {ref}
        BY <3>2 DEF ConnectionIInv, OneSocket
      <3>4. \A r \in Ids : sockets[r] = "open" => r \in Live
        BY DEF Live
      <3> QED BY <3>1, <3>2, <3>3, <3>4 DEF ConnectionIInv, OpenHasReset
    <2>2. [drop |-> drops, delay |-> delay, current |-> TRUE]
            \in [drop : 0 .. MaxDrops, delay : 1 .. 30, current : BOOLEAN]
      BY <2>1, SocketAssumption DEF ConnectionIInv
    <2>3. EachWaitIsOneSecond' /\ CurrentWhileMounted'
      BY <2>1, <2>2, <1>7 DEF Drops, OnDisconnect, ConnectionIInv, EachWaitIsOneSecond,
                           CurrentWhileMounted
    <2>6. {hookMounted, connected, error, dirty}' \subseteq BOOLEAN
      BY <1>7 DEF Drops, ConnectionIInv, LiveConnectionTypeOK
    <2>7. timers' \subseteq [drop : 0 .. MaxDrops, delay : 1 .. 30, current : BOOLEAN]
      BY <2>2, <1>7 DEF Drops, OnDisconnect, ConnectionIInv, LiveConnectionTypeOK
    <2>8. /\ sockets' \in [Ids -> {"closed", "connecting", "retrying", "refused", "open"}]
          /\ ref' \in Ids \cup {NoSocket} /\ delay' \in 1 .. 30
      BY <2>1, <1>7 DEF Drops, OnDisconnect, ConnectionIInv, LiveConnectionTypeOK
    <2>9. LiveConnectionTypeOK'
      BY <2>6, <2>7, <2>8 DEF LiveConnectionTypeOK
    <2>4. OneSocket' /\ OpenHasReset' /\ RefWhileMounted'
      BY <2>1, <1>7
         DEF Drops, OnDisconnect, ConnectionIInv, LiveConnectionTypeOK, OneSocket, Live,
             OpenHasReset, RefWhileMounted
    <2>5. drops' \in 0 .. MaxDrops
      BY <1>7, SocketAssumption DEF Drops, ConnectionIInv
    <2> QED BY <2>3, <2>4, <2>5, <2>9 DEF ConnectionIInv
  <1>8. ASSUME NEW t \in timers, TimeoutFires(t) PROVE ConnectionIInv'
    <2>1. CASE Fires(t)
      <3>1. sockets' \in [Ids -> {"closed", "connecting", "retrying", "refused", "open"}]
            /\ ref' \in Ids /\ {s \in Ids : sockets'[s] # "closed"} = {ref'}
            /\ \A s \in Ids : sockets'[s] # "open"
        BY <1>8, <2>1, ConnectHoldsOne DEF TimeoutFires
      <3>2. hookMounted
        BY <2>1 DEF Fires, ConnectionIInv, CurrentWhileMounted
      <3> QED BY <3>1, <3>2, <1>8
                 DEF TimeoutFires, env, ConnectionIInv, LiveConnectionTypeOK, OneSocket, Live,
                     EachWaitIsOneSecond, RefWhileMounted, CurrentWhileMounted, OpenHasReset
    <2>2. CASE ~Fires(t)
      BY <2>2, <1>8
         DEF TimeoutFires, env, ConnectionIInv, LiveConnectionTypeOK, OneSocket, Live,
             EachWaitIsOneSecond, RefWhileMounted, CurrentWhileMounted, OpenHasReset
    <2> QED BY <2>1, <2>2
  <1>9. CASE UNCHANGED liveConnectionVars
    BY <1>9 DEF liveConnectionVars, hook, env, ConnectionIInv,
                   LiveConnectionTypeOK, OneSocket, Live, EachWaitIsOneSecond,
                   RefWhileMounted, CurrentWhileMounted, OpenHasReset
  <1> QED
    BY <1>1, <1>2, <1>3, <1>4, <1>5, <1>6, <1>7, <1>8, <1>9 DEF LiveConnectionNext

(* However renders, timeouts, drops and unmounting interleave, the hook    *)
(* holds one socket and no other is live; and each timeout waits a second. *)
THEOREM ConnectionIsOne ==
  LiveConnectionSpec => [](LiveConnectionTypeOK /\ OneSocket /\ EachWaitIsOneSecond)
  <1>1. ConnectionIInv /\ [LiveConnectionNext]_liveConnectionVars => ConnectionIInv'
    BY ConnectionInductive
  <1>2. ConnectionIInv => LiveConnectionTypeOK /\ OneSocket /\ EachWaitIsOneSecond
    BY DEF ConnectionIInv
  <1> QED BY ConnectionBegins, <1>1, <1>2, PTL DEF LiveConnectionSpec

-----------------------------------------------------------------------------
(* The refresh                                                             *)

(* The throttle's timer runs only for a mounted component.                 *)
WindowWhileMounted == window => updatesMounted

RefreshIInv == LiveRefreshTypeOK /\ sent \in Seq(Events) /\ WindowWhileMounted

(* Events, the throttle and unmounting keep the invariant.                 *)
LEMMA RefreshInductive ==
  ASSUME RefreshIInv, [LiveRefreshNext]_liveRefreshVars
  PROVE  RefreshIInv'
  <1> USE EventAssumption
          DEF called, RefreshIInv, LiveRefreshTypeOK, WindowWhileMounted, SeenSoFar
  <1>0. Len(sent) \in Nat
    OBVIOUS
  <1>1. CASE UnmountUpdates
    <2>1. {updatesMounted, window}' \subseteq BOOLEAN /\ sent' = sent /\ ~window'
          /\ pending' = 0 /\ alertsAt' = alertsAt /\ metricsAt' = metricsAt
          /\ refetched' = refetched
      BY <1>1 DEF UnmountUpdates
    <2>2. {pending, alertsAt, metricsAt}' \subseteq SeenSoFar'
      BY <1>0, <2>1
    <2> QED BY <2>1, <2>2
  <1>2. CASE WindowEnds
    <2>1. {updatesMounted, window}' \subseteq BOOLEAN /\ sent' = sent
          /\ updatesMounted' = updatesMounted /\ updatesMounted
      BY <1>2 DEF WindowEnds
    <2>2. CASE pending = 0
      BY <1>2, <2>1, <2>2 DEF WindowEnds
    <2>3. CASE pending # 0
      <3>1. /\ alertsAt' = Len(sent) /\ metricsAt' \in {Len(sent), metricsAt}
            /\ pending' = 0 /\ window' = window /\ refetched' = {}
        BY <1>2, <2>3, KeyAssumption DEF WindowEnds, Handle, Matching
      <3>2. {pending, alertsAt, metricsAt}' \subseteq SeenSoFar'
        BY <1>0, <2>1, <3>1
      <3> QED BY <2>1, <3>1, <3>2
    <2> QED BY <2>2, <2>3
  <1>3. ASSUME NEW e \in Events, Event(e) PROVE RefreshIInv'
    <2>1. /\ sent' \in Seq(Events) /\ Len(sent') = Len(sent) + 1 /\ Len(sent) \in Nat
          /\ \A i \in 1 .. Len(sent') : sent'[i] \in Events
      BY <1>3 DEF Event
    <2>2. Len(sent') <= MaxEvents /\ updatesMounted' = updatesMounted /\ updatesMounted
      BY <1>3, <2>1 DEF Event
    <2>3. CASE window
      BY <1>3, <2>1, <2>2, <2>3 DEF Event, Keep
    <2>4. CASE ~window
      <3>1. /\ alertsAt' = Len(sent) + 1 /\ metricsAt' \in {Len(sent) + 1, metricsAt}
            /\ pending' = pending /\ window' = TRUE /\ refetched' = {}
        BY <1>3, <2>4, KeyAssumption DEF Event, Handle, Matching
      <3> QED BY <2>1, <2>2, <3>1
    <2> QED BY <2>3, <2>4
  <1>4. CASE UNCHANGED liveRefreshVars
    BY <1>4 DEF liveRefreshVars
  <1> QED BY <1>1, <1>2, <1>3, <1>4 DEF LiveRefreshNext

(* A call waits in the throttle only while its timer runs and the          *)
(* component is mounted; once it is not, nothing is invalidated; and       *)
(* whatever is, no query is fetched again for an event.                    *)
THEOREM RefreshIsQuiet == LiveRefreshSpec => []LiveRefreshTypeOK /\ QuietAfterUnmount
  <1>1. LiveRefreshInit => RefreshIInv
    <2> SUFFICES ASSUME LiveRefreshInit PROVE RefreshIInv
      OBVIOUS
    <2>1. sent = <<>> /\ Len(sent) = 0 /\ sent \in Seq(Events)
      BY DEF LiveRefreshInit
    <2>2. {updatesMounted, window} \subseteq BOOLEAN /\ {pending, alertsAt, metricsAt} = {0}
          /\ refetched = {}
      BY DEF LiveRefreshInit
    <2> QED BY <2>1, <2>2, EventAssumption
            DEF LiveRefreshInit, RefreshIInv, LiveRefreshTypeOK, WindowWhileMounted, SeenSoFar
  <1>2. RefreshIInv /\ [LiveRefreshNext]_liveRefreshVars => RefreshIInv'
    BY RefreshInductive
  <1>3. RefreshIInv => LiveRefreshTypeOK
    BY DEF RefreshIInv
  <1>4. RefreshIInv /\ [LiveRefreshNext]_liveRefreshVars
          => [~updatesMounted => UNCHANGED called]_liveRefreshVars
    BY DEF called, RefreshIInv, WindowWhileMounted, LiveRefreshNext, UnmountUpdates, WindowEnds, Event
  <1> QED BY <1>1, <1>2, <1>3, <1>4, PTL DEF LiveRefreshSpec, QuietAfterUnmount

-----------------------------------------------------------------------------
(* The feedback                                                            *)

(* Where a submission stands tells what is known of its row: none before   *)
(* the insert, one after it; and the status it was answered with says      *)
(* whether there is one, unless a fault came between.                      *)
StandsWithRow(s) ==
  /\ place[s] \in {"find", "create", "send"} => posted[s] = "long"
  /\ place[s] \in {"idle", "posted", "find", "create"} => s \notin rows
  /\ place[s] = "send" => s \in rows
  /\ place[s] \notin {"answered", "done"} => answered[s] = NoStatus
  /\ place[s] \in {"answered", "done"} =>
       /\ answered[s] = "201" => s \in rows
       /\ answered[s] \in {"400", "404"} => s \notin rows
       /\ answered[s] \in {"500", NoStatus} => s \in hitByFault

(* A toast is about a submission that is done, and says what it heard.     *)
ToastIsOfDone ==
  toast # "none" =>
    /\ told \in Submissions /\ place[told] = "done"
    /\ toast = "success" <=> answered[told] = "201"

FeedbackIInv ==
  /\ FeedbackTypeOK /\ rows \subseteq Submissions /\ ToastIsOfDone
  /\ \A s \in Submissions : StandsWithRow(s)

(* The invariant says what a toast may say.                                *)
LEMMA ToastIsTrue == FeedbackIInv => SuccessMeansRow /\ ErrorMeansNoRow
  BY DEF FeedbackIInv, FeedbackTypeOK, ToastIsOfDone, StandsWithRow, SuccessMeansRow,
         ErrorMeansNoRow, NoStatus

(* Every step of the modal, the service and the network keeps the          *)
(* invariant.                                                              *)
LEMMA FeedbackInductive ==
  ASSUME FeedbackIInv, [FeedbackNext]_feedbackVars
  PROVE  FeedbackIInv'
  <1>1. CASE DismissToast
    <2> USE DEF DismissToast, NoStatus
    <2>1. FeedbackTypeOK' /\ (rows \subseteq Submissions)'
      BY <1>1, FaultAssumption DEF FeedbackTypeOK, FeedbackIInv, StandsWithRow, Reasons, Places
    <2>2. ToastIsOfDone'
      BY <1>1 DEF ToastIsOfDone, FeedbackIInv, FeedbackTypeOK
    <2>3. \A r \in Submissions : StandsWithRow(r)'
      BY <1>1 DEF StandsWithRow, FeedbackIInv, FeedbackTypeOK
    <2> QED BY <2>1, <2>2, <2>3 DEF FeedbackIInv
  <1>2. CASE AlertGone
    <2> USE DEF AlertGone, modal, NoStatus
    <2>1. FeedbackTypeOK' /\ (rows \subseteq Submissions)'
      BY <1>2, FaultAssumption DEF FeedbackTypeOK, FeedbackIInv, StandsWithRow, Reasons, Places
    <2>2. ToastIsOfDone'
      BY <1>2 DEF ToastIsOfDone, FeedbackIInv, FeedbackTypeOK
    <2>3. \A r \in Submissions : StandsWithRow(r)'
      BY <1>2 DEF StandsWithRow, FeedbackIInv, FeedbackTypeOK
    <2> QED BY <2>1, <2>2, <2>3 DEF FeedbackIInv
  <1>3. ASSUME NEW o \in BOOLEAN, ShowModal(o) PROVE FeedbackIInv'
    <2> USE DEF ShowModal, NoStatus
    <2>1. FeedbackTypeOK' /\ (rows \subseteq Submissions)'
      BY <1>3, FaultAssumption DEF FeedbackTypeOK, FeedbackIInv, StandsWithRow, Reasons, Places
    <2>2. ToastIsOfDone'
      BY <1>3 DEF ToastIsOfDone, FeedbackIInv, FeedbackTypeOK
    <2>3. \A r \in Submissions : StandsWithRow(r)'
      BY <1>3 DEF StandsWithRow, FeedbackIInv, FeedbackTypeOK
    <2> QED BY <2>1, <2>2, <2>3 DEF FeedbackIInv
  <1>4. ASSUME NEW v \in Reasons, Type(v) PROVE FeedbackIInv'
    <2> USE DEF Type, NoStatus
    <2>1. FeedbackTypeOK' /\ (rows \subseteq Submissions)'
      BY <1>4, FaultAssumption DEF FeedbackTypeOK, FeedbackIInv, StandsWithRow, Reasons, Places
    <2>2. ToastIsOfDone'
      BY <1>4 DEF ToastIsOfDone, FeedbackIInv, FeedbackTypeOK
    <2>3. \A r \in Submissions : StandsWithRow(r)'
      BY <1>4 DEF StandsWithRow, FeedbackIInv, FeedbackTypeOK
    <2> QED BY <2>1, <2>2, <2>3 DEF FeedbackIInv
  <1>5. ASSUME NEW s \in Submissions, Submit(s) PROVE FeedbackIInv'
    <2> USE DEF Submit, Moves, modal, NoStatus
    <2>1. FeedbackTypeOK' /\ (rows \subseteq Submissions)'
      BY <1>5, FaultAssumption DEF FeedbackTypeOK, FeedbackIInv, StandsWithRow, Reasons, Places
    <2>2. ToastIsOfDone'
      BY <1>5 DEF ToastIsOfDone, FeedbackIInv, FeedbackTypeOK
    <2>3. \A r \in Submissions : StandsWithRow(r)'
      BY <1>5 DEF StandsWithRow, FeedbackIInv, FeedbackTypeOK
    <2> QED BY <2>1, <2>2, <2>3 DEF FeedbackIInv
  <1>6. ASSUME NEW s \in Submissions, Lose(s) PROVE FeedbackIInv'
    <2> USE DEF Lose, Moves, modal, NoStatus, Fault
    <2>1. FeedbackTypeOK' /\ (rows \subseteq Submissions)'
      BY <1>6, FaultAssumption DEF FeedbackTypeOK, FeedbackIInv, StandsWithRow, Reasons, Places
    <2>2. ToastIsOfDone'
      BY <1>6 DEF ToastIsOfDone, FeedbackIInv, FeedbackTypeOK
    <2>3. \A r \in Submissions : StandsWithRow(r)'
      BY <1>6 DEF StandsWithRow, FeedbackIInv, FeedbackTypeOK
    <2> QED BY <2>1, <2>2, <2>3 DEF FeedbackIInv
  <1>7. ASSUME NEW s \in Submissions, Validate(s) PROVE FeedbackIInv'
    <2> USE DEF Validate, Moves, modal, NoStatus, Reply, Fits, NoFault
    <2>1. FeedbackTypeOK' /\ (rows \subseteq Submissions)'
      BY <1>7, FaultAssumption DEF FeedbackTypeOK, FeedbackIInv, StandsWithRow, Reasons, Places
    <2>2. ToastIsOfDone'
      BY <1>7 DEF ToastIsOfDone, FeedbackIInv, FeedbackTypeOK
    <2>3. \A r \in Submissions : StandsWithRow(r)'
      BY <1>7 DEF StandsWithRow, FeedbackIInv, FeedbackTypeOK
    <2> QED BY <2>1, <2>2, <2>3 DEF FeedbackIInv
  <1>8. ASSUME NEW s \in Submissions, FindAlert(s) PROVE FeedbackIInv'
    <2> USE DEF FindAlert, Moves, modal, NoStatus, Reply, NoFault
    <2>1. FeedbackTypeOK' /\ (rows \subseteq Submissions)'
      BY <1>8, FaultAssumption DEF FeedbackTypeOK, FeedbackIInv, StandsWithRow, Reasons, Places
    <2>2. ToastIsOfDone'
      BY <1>8 DEF ToastIsOfDone, FeedbackIInv, FeedbackTypeOK
    <2>3. \A r \in Submissions : StandsWithRow(r)'
      BY <1>8 DEF StandsWithRow, FeedbackIInv, FeedbackTypeOK
    <2> QED BY <2>1, <2>2, <2>3 DEF FeedbackIInv
  <1>9. ASSUME NEW s \in Submissions, Create(s) PROVE FeedbackIInv'
    <2> USE DEF Create, Moves, modal, NoStatus, NoFault
    <2>1. FeedbackTypeOK' /\ (rows \subseteq Submissions)'
      BY <1>9, FaultAssumption DEF FeedbackTypeOK, FeedbackIInv, StandsWithRow, Reasons, Places
    <2>2. ToastIsOfDone'
      BY <1>9 DEF ToastIsOfDone, FeedbackIInv, FeedbackTypeOK
    <2>3. \A r \in Submissions : StandsWithRow(r)'
      BY <1>9 DEF StandsWithRow, FeedbackIInv, FeedbackTypeOK
    <2> QED BY <2>1, <2>2, <2>3 DEF FeedbackIInv
  <1>10. ASSUME NEW s \in Submissions, QueryFails(s) PROVE FeedbackIInv'
    <2> USE DEF QueryFails, Moves, modal, NoStatus, Reply, Fault
    <2>1. FeedbackTypeOK' /\ (rows \subseteq Submissions)'
      BY <1>10, FaultAssumption DEF FeedbackTypeOK, FeedbackIInv, StandsWithRow, Reasons, Places
    <2>2. ToastIsOfDone'
      BY <1>10 DEF ToastIsOfDone, FeedbackIInv, FeedbackTypeOK
    <2>3. \A r \in Submissions : StandsWithRow(r)'
      BY <1>10 DEF StandsWithRow, FeedbackIInv, FeedbackTypeOK
    <2> QED BY <2>1, <2>2, <2>3 DEF FeedbackIInv
  <1>11. ASSUME NEW s \in Submissions, Send(s) PROVE FeedbackIInv'
    <2> USE DEF Send, Moves, modal, NoStatus, Reply, SendStatus, NoFault
    <2>1. FeedbackTypeOK' /\ (rows \subseteq Submissions)'
      BY <1>11, FaultAssumption DEF FeedbackTypeOK, FeedbackIInv, StandsWithRow, Reasons, Places
    <2>2. ToastIsOfDone'
      BY <1>11 DEF ToastIsOfDone, FeedbackIInv, FeedbackTypeOK
    <2>3. \A r \in Submissions : StandsWithRow(r)'
      BY <1>11 DEF StandsWithRow, FeedbackIInv, FeedbackTypeOK
    <2> QED BY <2>1, <2>2, <2>3 DEF FeedbackIInv
  <1>12. ASSUME NEW s \in Submissions, Succeed(s) PROVE FeedbackIInv'
    <2> USE DEF Succeed, Moves, modal, NoStatus, Ok
    <2>1. FeedbackTypeOK' /\ (rows \subseteq Submissions)'
      BY <1>12, FaultAssumption DEF FeedbackTypeOK, FeedbackIInv, StandsWithRow, Reasons, Places
    <2>2. ToastIsOfDone'
      BY <1>12 DEF ToastIsOfDone, FeedbackIInv, FeedbackTypeOK
    <2>3. \A r \in Submissions : StandsWithRow(r)'
      BY <1>12 DEF StandsWithRow, FeedbackIInv, FeedbackTypeOK
    <2> QED BY <2>1, <2>2, <2>3 DEF FeedbackIInv
  <1>13. ASSUME NEW s \in Submissions, Fail(s) PROVE FeedbackIInv'
    <2> USE DEF Fail, Moves, modal, NoStatus, Ok
    <2>1. FeedbackTypeOK' /\ (rows \subseteq Submissions)'
      BY <1>13, FaultAssumption DEF FeedbackTypeOK, FeedbackIInv, StandsWithRow, Reasons, Places
    <2>2. ToastIsOfDone'
      BY <1>13 DEF ToastIsOfDone, FeedbackIInv, FeedbackTypeOK
    <2>3. \A r \in Submissions : StandsWithRow(r)'
      BY <1>13 DEF StandsWithRow, FeedbackIInv, FeedbackTypeOK
    <2> QED BY <2>1, <2>2, <2>3 DEF FeedbackIInv
  <1>14. CASE UNCHANGED feedbackVars
    BY <1>14 DEF feedbackVars, modal, FeedbackIInv, FeedbackTypeOK,
                   ToastIsOfDone, StandsWithRow
  <1> QED
    BY <1>1, <1>2, <1>3, <1>4, <1>5, <1>6, <1>7, <1>8, <1>9, <1>10, <1>11, <1>12, <1>13, <1>14
       DEF FeedbackNext, Serve, Hear

(* Who is told that the feedback was submitted has a row in the table; and *)
(* who is told that it failed has none, unless a fault came between.       *)
THEOREM ToastsAreTrue ==
  FeedbackSpec => [](FeedbackTypeOK /\ SuccessMeansRow /\ ErrorMeansNoRow)
  <1>1. FeedbackInit => FeedbackIInv
    <2> SUFFICES ASSUME FeedbackInit PROVE FeedbackIInv
      OBVIOUS
    <2>1. FeedbackTypeOK
      <3>1. /\ place \in [Submissions -> Places] /\ posted \in [Submissions -> Reasons]
            /\ answered \in [Submissions -> {NoStatus, "201", "400", "404", "500"}]
        BY DEF FeedbackInit, Places, Reasons, NoStatus
      <3>2. feedbackFaults \in 0 .. MaxFeedbackFaults
        BY FaultAssumption DEF FeedbackInit
      <3> QED BY <3>1, <3>2 DEF FeedbackInit, FeedbackTypeOK, Reasons
    <2>2. ToastIsOfDone /\ \A s \in Submissions : StandsWithRow(s)
      BY DEF FeedbackInit, ToastIsOfDone, StandsWithRow
    <2> QED BY <2>1, <2>2 DEF FeedbackIInv, FeedbackInit
  <1>2. FeedbackIInv /\ [FeedbackNext]_feedbackVars => FeedbackIInv'
    BY FeedbackInductive
  <1>3. FeedbackIInv => FeedbackTypeOK
    BY DEF FeedbackIInv
  <1> QED BY <1>1, <1>2, <1>3, ToastIsTrue, PTL DEF FeedbackSpec

-----------------------------------------------------------------------------
(* The endless list                                                        *)

(* What a throttle's function may see.                                     *)
Sights == [fetching : BOOLEAN, hasNext : BOOLEAN]

Waiting(t) == IF t = "none" THEN 0 ELSE 1

(* Each scroll pays for one call of a throttle: a fetch that began, or a   *)
(* timeout that may begin one.                                             *)
ScrollsPay == requests + Cardinality(stale) + Waiting(scrollTimer) <= scrolls

ScrollIInv == AuditScrollTypeOK /\ IsFiniteSet(stale) /\ ScrollsPay

(* The timeout of the throttle that is given up joins the others.          *)
LEMMA FreshThrottle ==
  ASSUME NEW others \in SUBSET Sights, IsFiniteSet(others),
         NEW mine \in {"none", "runs", "due"},
         {fetchingPage} \subseteq BOOLEAN, Fresh(others, mine)
  PROVE  /\ ready' = TRUE /\ scrollTimer' = "none"
         /\ stale' \subseteq Sights /\ IsFiniteSet(stale')
         /\ Cardinality(others) \in Nat /\ Cardinality(stale') \in Nat
         /\ Cardinality(stale') <= Cardinality(others) + Waiting(mine)
  <1>1. Seen \in Sights
    BY DEF Seen, Sights
  <1>2. IsFiniteSet(others \cup {Seen}) /\ Cardinality(others) \in Nat
        /\ Cardinality(others \cup {Seen}) <= Cardinality(others) + 1
    <2>1. Cardinality(others) \in Nat
      BY FS_CardinalityType
    <2>2. IsFiniteSet(others \cup {Seen})
          /\ Cardinality(others \cup {Seen})
               = IF Seen \in others THEN Cardinality(others) ELSE Cardinality(others) + 1
      BY FS_AddElement
    <2> QED BY <2>1, <2>2
  <1>3. CASE mine = "none"
    <2>1. stale' = others
      BY <1>3 DEF Fresh
    <2> QED BY <2>1, <1>2, <1>3 DEF Fresh, Waiting
  <1>4. CASE mine # "none"
    <2>1. stale' = others \cup {Seen}
      BY <1>4 DEF Fresh
    <2>2. Cardinality(others \cup {Seen}) \in Nat
      BY <1>2, FS_CardinalityType
    <2> QED BY <2>1, <2>2, <1>1, <1>2, <1>4 DEF Fresh, Waiting
  <1> QED BY <1>3, <1>4

(* A run of the throttle's function begins one fetch at most, never beyond *)
(* the last page, and leaves no more timeouts than it found.               *)
LEMMA RunPays ==
  ASSUME ScrollIInv, NEW seen, NEW others \in SUBSET stale, IsFiniteSet(others),
         NEW mine \in {"none", "runs", "due"}, NEW then \in BOOLEAN, NEW now \in BOOLEAN,
         Run(seen, others, mine, then, now), mine = "runs" => ~then
  PROVE  /\ {fetchingPage, ready, asked}' \subseteq BOOLEAN
         /\ fetchingPage' => pages < Pages
         /\ scrollTimer' \in {"none", "runs", "due"} /\ (scrollTimer' = "runs" => ~ready')
         /\ stale' \subseteq Sights /\ IsFiniteSet(stale')
         /\ requests' \in Nat /\ Cardinality(others) \in Nat /\ Cardinality(stale') \in Nat
         /\ requests' + Cardinality(stale') + Waiting(scrollTimer')
              <= requests + 1 + Cardinality(others) + Waiting(mine)
  <1>1. /\ {fetchingPage, asked} \subseteq BOOLEAN /\ requests \in Nat
        /\ (fetchingPage => pages < Pages) /\ others \subseteq Sights
    BY PageAssumption DEF ScrollIInv, AuditScrollTypeOK, Sights
  <1>2. Cardinality(others) \in Nat
    BY FS_CardinalityType
  <1>3. /\ {fetchingPage, asked}' \subseteq BOOLEAN /\ (fetchingPage' => pages < Pages)
        /\ requests' \in {requests, requests + 1}
    BY <1>1 DEF Run, FetchNextPage, NoFetch, Fetches
  <1>4. CASE Fetches(seen) /\ ~fetchingPage
    <2>1. Fresh(others, mine)
      BY <1>4 DEF Run
    <2>2. /\ ready' = TRUE /\ scrollTimer' = "none"
          /\ stale' \subseteq Sights /\ IsFiniteSet(stale') /\ Cardinality(stale') \in Nat
          /\ Cardinality(stale') <= Cardinality(others) + Waiting(mine)
      BY <1>1, <2>1, FreshThrottle
    <2> QED BY <1>1, <1>2, <1>3, <2>2 DEF Waiting
  <1>5. CASE ~(Fetches(seen) /\ ~fetchingPage)
    <2>1. ready' = then /\ scrollTimer' = mine /\ stale' = others
      BY <1>5 DEF Run
    <2> QED BY <1>1, <1>2, <1>3, <2>1 DEF Waiting
  <1> QED BY <1>4, <1>5

(* Scrolls, timeouts, answers and renders keep the invariant.              *)
LEMMA ScrollInductive ==
  ASSUME ScrollIInv, [AuditScrollNext]_auditScrollVars
  PROVE  ScrollIInv'
  <1>1. CASE PageArrives
    <2>1. stale \in SUBSET Sights /\ scrollTimer \in {"none", "runs", "due"}
          /\ {fetchingPage} \subseteq BOOLEAN /\ IsFiniteSet(stale)
      BY DEF ScrollIInv, AuditScrollTypeOK, Sights
    <2>2. /\ ready' = TRUE /\ scrollTimer' = "none"
          /\ stale' \subseteq Sights /\ IsFiniteSet(stale')
          /\ Cardinality(stale) \in Nat /\ Cardinality(stale') \in Nat
          /\ Cardinality(stale') <= Cardinality(stale) + Waiting(scrollTimer)
      BY <1>1, <2>1, FreshThrottle DEF PageArrives
    <2>3. ScrollsPay'
      BY <1>1, <2>2 DEF PageArrives, ScrollIInv, ScrollsPay, AuditScrollTypeOK, Waiting
    <2>4. {pageMounted, atBottom, fetchingPage, ready, asked}' \subseteq BOOLEAN
      BY <1>1, <2>2 DEF PageArrives, ScrollIInv, AuditScrollTypeOK
    <2>5. AuditScrollTypeOK'
      BY <1>1, <2>2, <2>4, PageAssumption DEF PageArrives, ScrollIInv, AuditScrollTypeOK, Sights
    <2> QED BY <2>2, <2>3, <2>5 DEF ScrollIInv
  <1>2. CASE FetchFails
    <2>1. stale \in SUBSET Sights /\ scrollTimer \in {"none", "runs", "due"}
          /\ {fetchingPage} \subseteq BOOLEAN /\ IsFiniteSet(stale)
      BY DEF ScrollIInv, AuditScrollTypeOK, Sights
    <2>2. /\ ready' = TRUE /\ scrollTimer' = "none"
          /\ stale' \subseteq Sights /\ IsFiniteSet(stale')
          /\ Cardinality(stale) \in Nat /\ Cardinality(stale') \in Nat
          /\ Cardinality(stale') <= Cardinality(stale) + Waiting(scrollTimer)
      BY <1>2, <2>1, FreshThrottle DEF FetchFails
    <2>3. ScrollsPay'
      BY <1>2, <2>2 DEF FetchFails, ScrollIInv, ScrollsPay, AuditScrollTypeOK, Waiting
    <2>4. {pageMounted, atBottom, fetchingPage, ready, asked}' \subseteq BOOLEAN
      BY <1>2, <2>2 DEF FetchFails, ScrollIInv, AuditScrollTypeOK
    <2>5. AuditScrollTypeOK'
      BY <1>2, <2>2, <2>4, PageAssumption DEF FetchFails, ScrollIInv, AuditScrollTypeOK, Sights
    <2> QED BY <2>2, <2>3, <2>5 DEF ScrollIInv
  <1>3. CASE RenderPage
    <2>1. stale \in SUBSET Sights /\ scrollTimer \in {"none", "runs", "due"}
          /\ {fetchingPage} \subseteq BOOLEAN /\ IsFiniteSet(stale)
      BY DEF ScrollIInv, AuditScrollTypeOK, Sights
    <2>2. /\ ready' = TRUE /\ scrollTimer' = "none"
          /\ stale' \subseteq Sights /\ IsFiniteSet(stale')
          /\ Cardinality(stale) \in Nat /\ Cardinality(stale') \in Nat
          /\ Cardinality(stale') <= Cardinality(stale) + Waiting(scrollTimer)
      BY <1>3, <2>1, FreshThrottle DEF RenderPage
    <2>3. ScrollsPay'
      BY <1>3, <2>2 DEF RenderPage, ScrollIInv, ScrollsPay, AuditScrollTypeOK, Waiting
    <2>4. {pageMounted, atBottom, fetchingPage, ready, asked}' \subseteq BOOLEAN
      BY <1>3, <2>2 DEF RenderPage, ScrollIInv, AuditScrollTypeOK
    <2>5. AuditScrollTypeOK'
      BY <1>3, <2>2, <2>4, PageAssumption DEF RenderPage, ScrollIInv, AuditScrollTypeOK, Sights
    <2> QED BY <2>2, <2>3, <2>5 DEF ScrollIInv
  <1>4. CASE UnmountPage
    BY <1>4 DEF UnmountPage, ScrollIInv, AuditScrollTypeOK, ScrollsPay
  <1>5. CASE DelayEnds
    <2>1. ScrollsPay' /\ IsFiniteSet(stale')
      BY <1>5 DEF DelayEnds, ScrollIInv, ScrollsPay, Waiting
    <2>2. {pageMounted, atBottom, fetchingPage, ready, asked}' \subseteq BOOLEAN
      BY <1>5 DEF DelayEnds, ScrollIInv, AuditScrollTypeOK
    <2>3. AuditScrollTypeOK'
      BY <1>5, <2>2 DEF DelayEnds, ScrollIInv, AuditScrollTypeOK
    <2> QED BY <2>1, <2>3 DEF ScrollIInv
  <1>6. CASE TimeoutRuns
    <2>1. /\ {ready, asked} \subseteq BOOLEAN /\ scrollTimer \in {"none", "runs", "due"}
          /\ scrolls \in Nat /\ requests \in Nat /\ (scrollTimer = "runs" => ~ready)
          /\ IsFiniteSet(stale) /\ Cardinality(stale) \in Nat
      BY FS_CardinalityType, PageAssumption DEF ScrollIInv, AuditScrollTypeOK
    <2>2. Run(Seen, stale, "none", FALSE, asked) /\ scrollTimer = "due" /\ scrolls' = scrolls
      BY <1>6 DEF TimeoutRuns
    <2>3. /\ {fetchingPage, ready, asked}' \subseteq BOOLEAN
          /\ fetchingPage' => pages < Pages
          /\ scrollTimer' \in {"none", "runs", "due"} /\ (scrollTimer' = "runs" => ~ready')
          /\ stale' \subseteq Sights /\ IsFiniteSet(stale')
          /\ requests' \in Nat /\ Cardinality(stale) \in Nat /\ Cardinality(stale') \in Nat
          /\ requests' + Cardinality(stale') + Waiting(scrollTimer')
               <= requests + 1 + Cardinality(stale) + Waiting("none")
      BY <2>1, <2>2, RunPays
    <2>4. /\ {fetchingPage, ready, asked}' \subseteq BOOLEAN
          /\ fetchingPage' => pages < Pages
          /\ scrollTimer' \in {"none", "runs", "due"} /\ (scrollTimer' = "runs" => ~ready')
          /\ stale' \subseteq Sights /\ IsFiniteSet(stale')
          /\ requests' \in Nat /\ Cardinality(stale') \in Nat
          /\ requests' + Cardinality(stale') + Waiting(scrollTimer') <= scrolls'
      BY <2>1, <2>2, <2>3, <1>6 DEF TimeoutRuns, ScrollIInv, ScrollsPay, Waiting
    <2>5. {pageMounted, atBottom, fetchingPage, ready, asked}' \subseteq BOOLEAN
      BY <1>6, <2>4 DEF TimeoutRuns, ScrollIInv, AuditScrollTypeOK
    <2>6. scrolls' \in 0 .. MaxScrolls /\ Waiting(scrollTimer') \in 0 .. 1
      BY <1>6, PageAssumption DEF TimeoutRuns, ScrollIInv, AuditScrollTypeOK, Waiting
    <2>7. requests' \in 0 .. MaxScrolls
      BY <2>4, <2>6, PageAssumption
    <2>8. AuditScrollTypeOK'
      BY <1>6, <2>4, <2>5, <2>6, <2>7 DEF TimeoutRuns, ScrollIInv, AuditScrollTypeOK, Sights
    <2> QED BY <2>4, <2>8 DEF ScrollIInv, ScrollsPay
  <1>7. ASSUME NEW seen \in stale, StaleTimeoutRuns(seen) PROVE ScrollIInv'
    <2>1. /\ {ready, asked} \subseteq BOOLEAN /\ scrollTimer \in {"none", "runs", "due"}
          /\ scrolls \in Nat /\ requests \in Nat /\ (scrollTimer = "runs" => ~ready)
          /\ IsFiniteSet(stale) /\ Cardinality(stale) \in Nat
      BY FS_CardinalityType, PageAssumption DEF ScrollIInv, AuditScrollTypeOK
    <2>2. Run(seen, stale \ {seen}, scrollTimer, ready, asked) /\ scrolls' = scrolls
          /\ stale \ {seen} \in SUBSET stale
          /\ IsFiniteSet(stale \ {seen}) /\ Cardinality(stale \ {seen}) = Cardinality(stale) - 1
      BY <1>7, <2>1, FS_RemoveElement DEF StaleTimeoutRuns
    <2>3. /\ {fetchingPage, ready, asked}' \subseteq BOOLEAN
          /\ fetchingPage' => pages < Pages
          /\ scrollTimer' \in {"none", "runs", "due"} /\ (scrollTimer' = "runs" => ~ready')
          /\ stale' \subseteq Sights /\ IsFiniteSet(stale')
          /\ requests' \in Nat /\ Cardinality(stale \ {seen}) \in Nat
          /\ Cardinality(stale') \in Nat
          /\ requests' + Cardinality(stale') + Waiting(scrollTimer')
               <= requests + 1 + Cardinality(stale \ {seen}) + Waiting(scrollTimer)
      BY <2>1, <2>2, RunPays
    <2>4. /\ {fetchingPage, ready, asked}' \subseteq BOOLEAN
          /\ fetchingPage' => pages < Pages
          /\ scrollTimer' \in {"none", "runs", "due"} /\ (scrollTimer' = "runs" => ~ready')
          /\ stale' \subseteq Sights /\ IsFiniteSet(stale')
          /\ requests' \in Nat /\ Cardinality(stale') \in Nat
          /\ requests' + Cardinality(stale') + Waiting(scrollTimer') <= scrolls'
      BY <2>1, <2>2, <2>3, <1>7 DEF StaleTimeoutRuns, ScrollIInv, ScrollsPay, Waiting
    <2>5. {pageMounted, atBottom, fetchingPage, ready, asked}' \subseteq BOOLEAN
      BY <1>7, <2>4 DEF StaleTimeoutRuns, ScrollIInv, AuditScrollTypeOK
    <2>6. scrolls' \in 0 .. MaxScrolls /\ Waiting(scrollTimer') \in 0 .. 1
      BY <1>7, PageAssumption DEF StaleTimeoutRuns, ScrollIInv, AuditScrollTypeOK, Waiting
    <2>7. requests' \in 0 .. MaxScrolls
      BY <2>4, <2>6, PageAssumption
    <2>8. AuditScrollTypeOK'
      BY <1>7, <2>4, <2>5, <2>6, <2>7
         DEF StaleTimeoutRuns, ScrollIInv, AuditScrollTypeOK, Sights
    <2> QED BY <2>4, <2>8 DEF ScrollIInv, ScrollsPay
  <1>8. ASSUME NEW b \in BOOLEAN, Scroll(b) PROVE ScrollIInv'
    <2>1. /\ {ready, asked} \subseteq BOOLEAN /\ scrollTimer \in {"none", "runs", "due"}
          /\ scrolls \in Nat /\ requests \in Nat /\ (scrollTimer = "runs" => ~ready)
          /\ IsFiniteSet(stale) /\ Cardinality(stale) \in Nat
      BY FS_CardinalityType, PageAssumption DEF ScrollIInv, AuditScrollTypeOK
    <2>2. scrolls' = scrolls + 1 /\ (ready => Run(Seen, stale, scrollTimer, FALSE, b /\ ~fetchingPage))
          /\ (~ready => /\ scrollTimer' = "runs" /\ ready' = ready /\ stale' = stale
                        /\ fetchingPage' = fetchingPage /\ requests' = requests
                        /\ asked' \in BOOLEAN)
      BY <1>8 DEF Scroll, Waits, NoFetch
    <2>4. /\ {fetchingPage, ready, asked}' \subseteq BOOLEAN
          /\ fetchingPage' => pages < Pages
          /\ scrollTimer' \in {"none", "runs", "due"} /\ (scrollTimer' = "runs" => ~ready')
          /\ stale' \subseteq Sights /\ IsFiniteSet(stale')
          /\ requests' \in Nat /\ Cardinality(stale') \in Nat
          /\ requests' + Cardinality(stale') + Waiting(scrollTimer') <= scrolls'
      <3>1. CASE ready
        <4>1. /\ {fetchingPage, ready, asked}' \subseteq BOOLEAN
              /\ fetchingPage' => pages < Pages
              /\ scrollTimer' \in {"none", "runs", "due"} /\ (scrollTimer' = "runs" => ~ready')
              /\ stale' \subseteq Sights /\ IsFiniteSet(stale')
              /\ requests' \in Nat /\ Cardinality(stale) \in Nat /\ Cardinality(stale') \in Nat
              /\ requests' + Cardinality(stale') + Waiting(scrollTimer')
                   <= requests + 1 + Cardinality(stale) + Waiting(scrollTimer)
          BY <2>1, <2>2, <3>1, RunPays
        <4>2. requests + Cardinality(stale) + Waiting(scrollTimer) <= scrolls
              /\ Waiting(scrollTimer) \in Nat /\ Waiting(scrollTimer') \in Nat
          BY DEF ScrollIInv, ScrollsPay, Waiting
        <4> QED BY <4>1, <4>2, <2>1, <2>2
      <3>2. CASE ~ready
        BY <2>1, <2>2, <3>2 DEF ScrollIInv, ScrollsPay, Waiting, AuditScrollTypeOK, Sights
      <3> QED BY <3>1, <3>2
    <2>5. {pageMounted, atBottom, fetchingPage, ready, asked}' \subseteq BOOLEAN
      BY <1>8, <2>4 DEF Scroll, ScrollIInv, AuditScrollTypeOK
    <2>6. scrolls' \in 0 .. MaxScrolls /\ Waiting(scrollTimer') \in 0 .. 1
      BY <1>8, PageAssumption DEF Scroll, ScrollIInv, AuditScrollTypeOK, Waiting
    <2>7. requests' \in 0 .. MaxScrolls
      BY <2>4, <2>6, PageAssumption
    <2>8. AuditScrollTypeOK'
      BY <1>8, <2>4, <2>5, <2>6, <2>7 DEF Scroll, ScrollIInv, AuditScrollTypeOK, Sights
    <2> QED BY <2>4, <2>8 DEF ScrollIInv, ScrollsPay
  <1>10. CASE PageRefused
    BY <1>10, PageAssumption DEF PageRefused, ScrollIInv, AuditScrollTypeOK, ScrollsPay
  <1>9. CASE UNCHANGED auditScrollVars
    BY <1>9 DEF auditScrollVars, ScrollIInv, AuditScrollTypeOK, ScrollsPay
  <1> QED
    BY <1>1, <1>2, <1>3, <1>4, <1>5, <1>6, <1>7, <1>8, <1>9, <1>10 DEF AuditScrollNext

(* No page beyond the last is fetched and no fetch begins without a scroll *)
(* that pays for it; and while a page is fetched, only the timeout of a    *)
(* throttle that an earlier render left behind starts its fetch again.     *)
THEOREM ScrollsAreThrottled == AuditScrollSpec => []AuditScrollTypeOK /\ OnlyStaleRestarts
  <1>1. AuditScrollInit => ScrollIInv
    <2> SUFFICES ASSUME AuditScrollInit PROVE ScrollIInv
      OBVIOUS
    <2>1. stale = {} /\ IsFiniteSet(stale) /\ Cardinality(stale) = 0
      BY FS_EmptySet DEF AuditScrollInit
    <2>2. {pageMounted, atBottom, fetchingPage, ready, asked} \subseteq BOOLEAN
      BY DEF AuditScrollInit
    <2>3. /\ pages \in 1 .. Pages /\ scrolls \in 0 .. MaxScrolls /\ requests \in 0 .. MaxScrolls
      BY PageAssumption DEF AuditScrollInit
    <2>4. AuditScrollTypeOK
      BY <2>1, <2>2, <2>3 DEF AuditScrollInit, AuditScrollTypeOK
    <2>5. ScrollsPay
      BY <2>1 DEF AuditScrollInit, ScrollsPay, Waiting
    <2> QED BY <2>1, <2>4, <2>5 DEF ScrollIInv
  <1>2. ScrollIInv /\ [AuditScrollNext]_auditScrollVars => ScrollIInv'
    BY ScrollInductive
  <1>3. ScrollIInv => AuditScrollTypeOK
    BY DEF ScrollIInv
  <1>4. [AuditScrollNext]_auditScrollVars
          => [fetchingPage /\ requests' # requests =>
                \E seen \in stale : seen \notin stale']_auditScrollVars
    <2> SUFFICES ASSUME AuditScrollNext, fetchingPage, requests' # requests
                 PROVE  \E seen \in stale : seen \notin stale'
      OBVIOUS
    <2>1. \A others, mine, then, now : Run(Seen, others, mine, then, now) => requests' = requests
      BY DEF Run, Fetches, Wanted, Seen, NoFetch
    <2>2. PICK seen \in stale : StaleTimeoutRuns(seen)
      BY <2>1 DEF AuditScrollNext, PageArrives, PageRefused, FetchFails, RenderPage, UnmountPage,
                  DelayEnds, TimeoutRuns, Scroll, NoFetch
    <2>3. stale' = stale \ {seen}
      BY <2>2 DEF StaleTimeoutRuns, Run
    <2> QED BY <2>3
  <1> QED BY <1>1, <1>2, <1>3, <1>4, PTL DEF AuditScrollSpec, OnlyStaleRestarts

-----------------------------------------------------------------------------
(* The list of anomalies                                                   *)

(* A request asks for the page it is cached as; and what is cached is what *)
(* the server finds for its key.                                           *)
AnswersBelong ==
  /\ DOMAIN queryCache = Keys /\ queryCache = [k \in Keys |-> queryCache[k]]
  /\ \A k \in Keys : queryCache[k] \in {Absent, Refusal, Found[k]}
  /\ \A f \in inFlight : f[1] = f[2]

ListIInv == AnomalyListTypeOK /\ AnswersBelong /\ ChoiceStays

(* The key is one of the keys, and a shown row is one of its rows.         *)
LEMMA ShownIsFound ==
  ASSUME ListIInv
  PROVE  /\ Key \in Keys /\ Key = <<debouncedSearch, page>>
         /\ Data \notin {Absent, Refusal} => Shown = Found[Key]
         /\ \A i \in DOMAIN Shown : Shown[i] \in Anomalies
         /\ Shown # <<>> => 1 \in DOMAIN Shown
  <1>1. Key \in Keys /\ Key = <<debouncedSearch, page>>
    BY DEF ListIInv, AnomalyListTypeOK, Key, Keys
  <1>2. Data \in {Absent, Refusal, Found[Key]}
    BY <1>1 DEF ListIInv, AnswersBelong, Data
  <1>3. Data \notin {Absent, Refusal} => Shown = Found[Key]
    BY <1>2 DEF Shown
  <1>4. CASE Data \in {Absent, Refusal}
    BY <1>1, <1>3, <1>4 DEF Shown
  <1>5. CASE Data \notin {Absent, Refusal}
    <2>1. Shown = Found[Key] /\ Shown \in Seq(Range(Found[Key]))
      BY <1>1, <1>3, <1>5, ListAssumption
    <2>2. Range(Found[Key]) \subseteq Anomalies
      BY <1>1 DEF Anomalies
    <2>3. \A i \in DOMAIN Shown : Shown[i] \in Range(Found[Key])
      BY <2>1 DEF Range
    <2>4. Shown # <<>> => 1 \in DOMAIN Shown
      BY <2>1, EmptySeq, LenProperties
    <2> QED BY <1>1, <1>3, <2>2, <2>3, <2>4
  <1> QED BY <1>4, <1>5

(* Keystrokes, timeouts, answers in any order and choices keep the         *)
(* invariant.                                                              *)
LEMMA ListInductive ==
  ASSUME ListIInv, [AnomalyListNext]_anomalyListVars
  PROVE  ListIInv'
  <1>1. CASE DebounceSearch
    <2>1. AnomalyListTypeOK'
      BY <1>1, ListAssumption DEF DebounceSearch, SettledSearch, ListIInv, AnomalyListTypeOK
    <2>2. AnswersBelong' /\ ChoiceStays'
      BY <1>1 DEF DebounceSearch, SettledSearch, ListIInv, AnswersBelong, ChoiceStays
    <2> QED BY <2>1, <2>2 DEF ListIInv
  <1>2. CASE FetchPage
    <2>0. Key \in Keys /\ Key = <<debouncedSearch, page>>
      BY ShownIsFound
    <2>1. AnswersBelong' /\ ChoiceStays'
      BY <1>2, <2>0 DEF FetchPage, ListIInv, AnswersBelong, ChoiceStays
    <2>2. AnomalyListTypeOK'
      BY <1>2, <2>0 DEF FetchPage, view, ListIInv, AnomalyListTypeOK
    <2> QED BY <2>1, <2>2 DEF ListIInv
  <1>3. CASE SelectFirst
    <2>1. \A i \in DOMAIN Shown : Shown[i] \in Anomalies
      BY ShownIsFound
    <2>2. Shown # <<>> => 1 \in DOMAIN Shown
      BY ShownIsFound
    <2> QED BY <1>3, <2>1, <2>2
               DEF SelectFirst, ToSelect, view, ListIInv, AnomalyListTypeOK, AnswersBelong,
                   ChoiceStays
  <1>4. ASSUME NEW s \in Searches, TypeSearch(s) PROVE ListIInv'
    <2>1. AnomalyListTypeOK'
      BY <1>4, ListAssumption DEF TypeSearch, ListIInv, AnomalyListTypeOK
    <2>2. AnswersBelong' /\ ChoiceStays'
      BY <1>4 DEF TypeSearch, ListIInv, AnswersBelong, ChoiceStays
    <2> QED BY <2>1, <2>2 DEF ListIInv
  <1>5. ASSUME NEW p \in 1 .. MaxPage, TurnPage(p) PROVE ListIInv'
    <2>1. AnomalyListTypeOK'
      BY <1>5, ListAssumption DEF TurnPage, ListIInv, AnomalyListTypeOK
    <2>2. AnswersBelong' /\ ChoiceStays'
      BY <1>5 DEF TurnPage, ListIInv, AnswersBelong, ChoiceStays
    <2> QED BY <2>1, <2>2 DEF ListIInv
  <1>6. ASSUME NEW f \in inFlight, Answer(f) PROVE ListIInv'
    <2>0. f \in Keys \X Keys /\ f[1] \in Keys /\ f[1] = f[2]
      BY DEF ListIInv, AnomalyListTypeOK, AnswersBelong
    <2>1. Found[f[2]] \in Range(Found)
      BY <2>0, ListAssumption DEF Range
    <2>2. AnswersBelong'
      BY <1>6, <2>0 DEF Answer, ListIInv, AnswersBelong
    <2>3. AnomalyListTypeOK'
      BY <1>6, <2>0, <2>1 DEF Answer, view, ListIInv, AnomalyListTypeOK, AnswersBelong
    <2> QED BY <1>6, <2>2, <2>3 DEF Answer, ListIInv, ChoiceStays
  <1>7. ASSUME NEW f \in inFlight, FetchPageFails(f) PROVE ListIInv'
    <2>0. f \in Keys \X Keys /\ f[1] \in Keys /\ f[1] = f[2]
      BY DEF ListIInv, AnomalyListTypeOK, AnswersBelong
    <2>1. anomalyFaults' \in 0 .. MaxRequestFaults
      BY <1>7, ListAssumption DEF FetchPageFails, ListIInv, AnomalyListTypeOK
    <2>2. AnswersBelong'
      BY <1>7, <2>0 DEF FetchPageFails, ListIInv, AnswersBelong
    <2>3. AnomalyListTypeOK'
      BY <1>7, <2>0, <2>1 DEF FetchPageFails, view, ListIInv, AnomalyListTypeOK, AnswersBelong
    <2> QED BY <1>7, <2>2, <2>3 DEF FetchPageFails, view, ListIInv, ChoiceStays
  <1>8. ASSUME NEW i \in DOMAIN Shown, Select(i) PROVE ListIInv'
    <2>1. Shown[i] \in Anomalies
      BY ShownIsFound
    <2>2. Shown # <<>> => 1 \in DOMAIN Shown
      BY ShownIsFound
    <2> QED BY <1>8, <2>1, <2>2
               DEF Select, view, ListIInv, AnomalyListTypeOK, AnswersBelong, ChoiceStays
  <1>9. CASE UNCHANGED anomalyListVars
    BY <1>9 DEF anomalyListVars, view, ListIInv, AnomalyListTypeOK, AnswersBelong,
                   ChoiceStays
  <1> QED
    BY <1>1, <1>2, <1>3, <1>4, <1>5, <1>6, <1>7, <1>8, <1>9 DEF AnomalyListNext

(* In whatever order answers arrive, the rows shown are those of the       *)
(* search and page of now, and the choice of the user stays in the panel.  *)
THEOREM ListIsTrue == AnomalyListSpec => [](AnomalyListTypeOK /\ ListIsForInputs /\ ChoiceStays)
  <1>1. AnomalyListInit => ListIInv
    <2> SUFFICES ASSUME AnomalyListInit PROVE ListIInv
      OBVIOUS
    <2>1. AnswersBelong /\ ChoiceStays
      BY DEF AnomalyListInit, AnswersBelong, ChoiceStays
    <2>2. AnomalyListTypeOK
      <3>1. page \in 1 .. MaxPage /\ anomalyFaults \in 0 .. MaxRequestFaults
        BY ListAssumption DEF AnomalyListInit
      <3>2. \A k \in Keys : queryCache[k] = Absent
        BY DEF AnomalyListInit
      <3> QED BY <3>1, <3>2, ListAssumption DEF AnomalyListInit, AnomalyListTypeOK
    <2> QED BY <2>1, <2>2 DEF ListIInv
  <1>2. ListIInv /\ [AnomalyListNext]_anomalyListVars => ListIInv'
    BY ListInductive
  <1>3. ListIInv => AnomalyListTypeOK /\ ListIsForInputs /\ ChoiceStays
    <2> SUFFICES ASSUME ListIInv PROVE ListIsForInputs
      BY DEF ListIInv
    <2> QED BY ShownIsFound DEF ListIsForInputs
  <1> QED BY <1>1, <1>2, <1>3, PTL DEF AnomalyListSpec

-----------------------------------------------------------------------------
(* The dialog of a new role                                                *)

(* A save that was submitted came from a dialog; one that was not has none *)
(* and stored nothing.                                                     *)
SavesComeFromDialogs ==
  \A s \in Saves :
    IF savePc[s] = "idle" THEN from[s] = 0 /\ s \notin roles ELSE from[s] \in 1 .. opened

ConsoleIInv == IamConsoleTypeOK /\ SavesComeFromDialogs /\ ClosedByAnswer

(* A new dialog has no saves, and an answer leaves no dialog open.         *)
LEMMA OpenStaysUnanswered ==
  ASSUME ConsoleIInv, OpenIsUnanswered, [IamConsoleNext]_iamConsoleVars
  PROVE  OpenIsUnanswered'
  <1>1. /\ opened \in Nat /\ dialog \in {0, opened}
        /\ savePc \in [Saves -> {"idle", "posted", "answered", "lost", "done", "failed"}]
        /\ from \in [Saves -> 0 .. opened]
    BY DialogAssumption DEF ConsoleIInv, IamConsoleTypeOK
  <1>2. CASE NewRole
    <2>1. dialog' = opened + 1 /\ from' = from /\ \A s \in Saves : from[s] <= opened
      BY <1>1, <1>2 DEF NewRole, save
    <2> QED BY <1>1, <2>1 DEF OpenIsUnanswered
  <1>3. CASE SessionsArrive \/ Dismiss \/ \E n \in Names : TypeName(n)
    BY <1>3 DEF SessionsArrive, Dismiss, TypeName, save, OpenIsUnanswered
  <1>4. ASSUME NEW s \in Saves, SubmitForm(s) PROVE OpenIsUnanswered'
    BY <1>1, <1>4 DEF SubmitForm, AfterSubmit, OpenIsUnanswered
  <1>5. ASSUME NEW s \in Saves, ServeSave(s) PROVE OpenIsUnanswered'
    BY <1>1, <1>5 DEF ServeSave, form, OpenIsUnanswered
  <1>6. ASSUME NEW s \in Saves, SaveSucceeds(s) PROVE OpenIsUnanswered'
    BY <1>6 DEF SaveSucceeds, Closes, OpenIsUnanswered
  <1>7. ASSUME NEW s \in Saves, SaveFails(s) PROVE OpenIsUnanswered'
    BY <1>1, <1>7 DEF SaveFails, form, OpenIsUnanswered
  <1>8. CASE UNCHANGED iamConsoleVars
    BY <1>8 DEF iamConsoleVars, form, save, OpenIsUnanswered
  <1> QED BY <1>2, <1>3, <1>4, <1>5, <1>6, <1>7, <1>8 DEF IamConsoleNext

(* Every step of the page, the user and the saves keeps the invariant.     *)
LEMMA ConsoleInductive ==
  ASSUME ConsoleIInv, [IamConsoleNext]_iamConsoleVars
  PROVE  ConsoleIInv'
  <1>1. CASE SessionsArrive
    <2>1. IamConsoleTypeOK'
      BY <1>1, DialogAssumption
         DEF SessionsArrive, save, ConsoleIInv, IamConsoleTypeOK, SavesComeFromDialogs, Names
    <2>2. SavesComeFromDialogs'
      BY <1>1, DialogAssumption
         DEF SessionsArrive, save, ConsoleIInv, IamConsoleTypeOK, SavesComeFromDialogs
    <2>3. ClosedByAnswer'
      BY <1>1, DialogAssumption
         DEF SessionsArrive, save, ConsoleIInv, IamConsoleTypeOK, SavesComeFromDialogs,
             ClosedByAnswer
    <2> QED BY <2>1, <2>2, <2>3 DEF ConsoleIInv
  <1>2. CASE NewRole
    <2>4. /\ pageState \in {"up", "dead"} /\ sessions \in {"loading", "array", "object", "error"}
          /\ opened \in Nat /\ opened <= MaxDialogs /\ dialog \in {0, opened} /\ name \in Names
          /\ dismissed \subseteq 1 .. opened
          /\ savePc \in [Saves -> {"idle", "posted", "answered", "lost", "done", "failed"}]
          /\ from \in [Saves -> 0 .. opened] /\ savedName \in [Saves -> Names]
          /\ roles \subseteq {s \in Saves : savedName[s] # NoName}
      BY DialogAssumption DEF ConsoleIInv, IamConsoleTypeOK
    <2>5. /\ opened' = opened + 1 /\ dialog' = opened' /\ name' \in Names /\ opened < MaxDialogs
          /\ pageState' = pageState /\ sessions' = sessions /\ dismissed' = dismissed
          /\ savePc' = savePc /\ from' = from /\ savedName' = savedName /\ roles' = roles
          /\ dialog = 0
      BY <1>2 DEF NewRole, save, Names
    <2>6. from' \in [Saves -> 0 .. opened'] /\ dismissed' \subseteq 1 .. opened'
      <3>1. 0 .. opened \subseteq 0 .. opened'
        BY <2>4, <2>5
      <3> QED BY <2>4, <2>5, <3>1
    <2>7. opened' \in 0 .. MaxDialogs /\ dialog' \in {0, opened'}
      BY <2>4, <2>5, DialogAssumption
    <2>1. IamConsoleTypeOK'
      BY <2>4, <2>5, <2>6, <2>7 DEF IamConsoleTypeOK
    <2>2. SavesComeFromDialogs'
      BY <2>4, <2>5 DEF ConsoleIInv, SavesComeFromDialogs
    <2>3. ClosedByAnswer'
      <3>1. \A d \in 1 .. opened' : d # dialog' => d \in 1 .. opened /\ d # dialog
        BY <2>4, <2>5
      <3> QED BY <2>5, <3>1 DEF ConsoleIInv, ClosedByAnswer
    <2> QED BY <2>1, <2>2, <2>3 DEF ConsoleIInv
  <1>3. CASE Dismiss
    <2>4. /\ pageState \in {"up", "dead"} /\ sessions \in {"loading", "array", "object", "error"}
          /\ opened \in Nat /\ opened <= MaxDialogs /\ dialog \in {0, opened} /\ name \in Names
          /\ dismissed \subseteq 1 .. opened
          /\ savePc \in [Saves -> {"idle", "posted", "answered", "lost", "done", "failed"}]
          /\ from \in [Saves -> 0 .. opened] /\ savedName \in [Saves -> Names]
          /\ roles \subseteq {s \in Saves : savedName[s] # NoName}
      BY DialogAssumption DEF ConsoleIInv, IamConsoleTypeOK
    <2>5. dismissed' \subseteq 1 .. opened
      BY <1>3, <2>4 DEF Dismiss, save
    <2>1. IamConsoleTypeOK'
      BY <1>3, <2>4, <2>5, DialogAssumption
         DEF Dismiss, save, ConsoleIInv, IamConsoleTypeOK, SavesComeFromDialogs, Names
    <2>2. SavesComeFromDialogs'
      BY <1>3, <2>4, <2>5, DialogAssumption
         DEF Dismiss, save, ConsoleIInv, IamConsoleTypeOK, SavesComeFromDialogs
    <2>3. ClosedByAnswer'
      BY <1>3, <2>4, <2>5, DialogAssumption
         DEF Dismiss, save, ConsoleIInv, IamConsoleTypeOK, SavesComeFromDialogs, ClosedByAnswer
    <2> QED BY <2>1, <2>2, <2>3 DEF ConsoleIInv
  <1>4. ASSUME NEW n \in Names, TypeName(n) PROVE ConsoleIInv'
    <2>1. IamConsoleTypeOK'
      BY <1>4, DialogAssumption
         DEF TypeName, save, ConsoleIInv, IamConsoleTypeOK, SavesComeFromDialogs, Names
    <2>2. SavesComeFromDialogs'
      BY <1>4, DialogAssumption
         DEF TypeName, save, ConsoleIInv, IamConsoleTypeOK, SavesComeFromDialogs
    <2>3. ClosedByAnswer'
      BY <1>4, DialogAssumption
         DEF TypeName, save, ConsoleIInv, IamConsoleTypeOK, SavesComeFromDialogs, ClosedByAnswer
    <2> QED BY <2>1, <2>2, <2>3 DEF ConsoleIInv
  <1>5. ASSUME NEW s \in Saves, SubmitForm(s) PROVE ConsoleIInv'
    <2>4. /\ pageState \in {"up", "dead"} /\ sessions \in {"loading", "array", "object", "error"}
          /\ opened \in Nat /\ opened <= MaxDialogs /\ dialog \in {0, opened} /\ name \in Names
          /\ dismissed \subseteq 1 .. opened
          /\ savePc \in [Saves -> {"idle", "posted", "answered", "lost", "done", "failed"}]
          /\ from \in [Saves -> 0 .. opened] /\ savedName \in [Saves -> Names]
          /\ roles \subseteq {r \in Saves : savedName[r] # NoName}
      BY DialogAssumption DEF ConsoleIInv, IamConsoleTypeOK
    <2>5. /\ dialog \in 1 .. opened /\ savePc[s] = "idle" /\ s \notin roles
          /\ savePc' = [savePc EXCEPT ![s] = "posted"] /\ from' = [from EXCEPT ![s] = dialog]
          /\ savedName' = [savedName EXCEPT ![s] = name] /\ dialog' = dialog
          /\ UNCHANGED <<pageState, sessions, opened, name, dismissed, roles>>
      BY <1>5, <2>4 DEF SubmitForm, AfterSubmit, ConsoleIInv, SavesComeFromDialogs
    <2>6. /\ from' \in [Saves -> 0 .. opened] /\ savedName' \in [Saves -> Names]
          /\ savePc' \in [Saves -> {"idle", "posted", "answered", "lost", "done", "failed"}]
          /\ roles' \subseteq {r \in Saves : savedName'[r] # NoName}
      BY <2>4, <2>5
    <2>1. IamConsoleTypeOK'
      BY <2>4, <2>5, <2>6, DialogAssumption DEF IamConsoleTypeOK
    <2>2. SavesComeFromDialogs'
      BY <2>4, <2>5 DEF ConsoleIInv, SavesComeFromDialogs
    <2>3. ClosedByAnswer'
      <3> SUFFICES ASSUME pageState' = "up", NEW d \in 1 .. opened', d # dialog',
                          d \notin dismissed'
                   PROVE  \E s1 \in Saves :
                            /\ savePc'[s1] = "done" /\ from'[s1] <= d
                            /\ \/ from'[s1] = d \/ from'[s1] \in dismissed'
                               \/ \E t \in Saves \ {s1} : from'[t] = from'[s1]
        BY DEF ClosedByAnswer
      <3>1. /\ pageState = "up" /\ d \in 1 .. opened /\ d # dialog /\ d \notin dismissed
            /\ dismissed' = dismissed /\ savePc[s] = "idle"
        BY <1>5 DEF SubmitForm, AfterSubmit
      <3>2. PICK r \in Saves :
              /\ savePc[r] = "done" /\ from[r] <= d
              /\ \/ from[r] = d \/ from[r] \in dismissed
                 \/ \E t \in Saves \ {r} : from[t] = from[r]
        BY <3>1 DEF ConsoleIInv, ClosedByAnswer
      <3>3. /\ r # s /\ from[r] \in 1 .. opened /\ from[s] = 0
            /\ savePc'[r] = "done" /\ from'[r] = from[r]
            /\ \A t \in Saves \ {s} : from'[t] = from[t]
        BY <1>5, <3>1, <3>2 DEF SubmitForm, ConsoleIInv, IamConsoleTypeOK, SavesComeFromDialogs
      <3>4. \A t \in Saves : from[t] = from[r] => t # s
        BY <3>3
      <3>5. \/ from'[r] = d \/ from'[r] \in dismissed'
            \/ \E t \in Saves \ {r} : from'[t] = from'[r]
        BY <3>1, <3>2, <3>3, <3>4
      <3> QED BY <3>2, <3>3, <3>5
    <2> QED BY <2>1, <2>2, <2>3 DEF ConsoleIInv
  <1>6. ASSUME NEW s \in Saves, ServeSave(s) PROVE ConsoleIInv'
    <2>1. IamConsoleTypeOK'
      BY <1>6, DialogAssumption
         DEF ServeSave, form, ConsoleIInv, IamConsoleTypeOK, SavesComeFromDialogs, Names
    <2>2. SavesComeFromDialogs'
      BY <1>6, DialogAssumption
         DEF ServeSave, form, ConsoleIInv, IamConsoleTypeOK, SavesComeFromDialogs
    <2>3. ClosedByAnswer'
      BY <1>6, DialogAssumption
         DEF ServeSave, form, ConsoleIInv, IamConsoleTypeOK, SavesComeFromDialogs,
             ClosedByAnswer
    <2> QED BY <2>1, <2>2, <2>3 DEF ConsoleIInv
  <1>7. ASSUME NEW s \in Saves, SaveSucceeds(s) PROVE ConsoleIInv'
    <2>4. /\ pageState \in {"up", "dead"} /\ sessions \in {"loading", "array", "object", "error"}
          /\ opened \in Nat /\ opened <= MaxDialogs /\ dialog \in {0, opened} /\ name \in Names
          /\ dismissed \subseteq 1 .. opened
          /\ savePc \in [Saves -> {"idle", "posted", "answered", "lost", "done", "failed"}]
          /\ from \in [Saves -> 0 .. opened] /\ savedName \in [Saves -> Names]
          /\ roles \subseteq {r \in Saves : savedName[r] # NoName}
      BY DialogAssumption DEF ConsoleIInv, IamConsoleTypeOK
    <2>1. IamConsoleTypeOK'
      BY <1>7, DialogAssumption
         DEF SaveSucceeds, Closes, ConsoleIInv, IamConsoleTypeOK, SavesComeFromDialogs, Names
    <2>2. SavesComeFromDialogs'
      BY <1>7, DialogAssumption
         DEF SaveSucceeds, Closes, ConsoleIInv, IamConsoleTypeOK, SavesComeFromDialogs
    <2>3. ClosedByAnswer'
      <3> SUFFICES ASSUME pageState' = "up", NEW d \in 1 .. opened', d # dialog',
                          d \notin dismissed'
                   PROVE  \E s1 \in Saves :
                            /\ savePc'[s1] = "done" /\ from'[s1] <= d
                            /\ \/ from'[s1] = d \/ from'[s1] \in dismissed'
                               \/ \E t \in Saves \ {s1} : from'[t] = from'[s1]
        BY DEF ClosedByAnswer
      <3>1. /\ pageState = "up" /\ d \in 1 .. opened /\ d \notin dismissed /\ from' = from
            /\ dismissed' = dismissed /\ savePc[s] = "answered" /\ savePc'[s] = "done"
            /\ from[s] \in 1 .. opened /\ dialog \in {0, opened} /\ opened \in Nat
            /\ \A r \in Saves : savePc[r] = "done" => savePc'[r] = "done" /\ r # s
        <4>1. /\ pageState = "up" /\ opened' = opened /\ savePc[s] = "answered"
              /\ savePc' = [savePc EXCEPT ![s] = "done"]
              /\ UNCHANGED <<from, dismissed>>
          BY <1>7 DEF SaveSucceeds
        <4>2. from[s] \in 1 .. opened
          BY <4>1 DEF ConsoleIInv, SavesComeFromDialogs
        <4> QED BY <4>1, <4>2, <2>4
      <3>2. CASE d # dialog
        BY <3>1, <3>2 DEF ConsoleIInv, ClosedByAnswer
      <3>3. CASE d = dialog
        <4>1. d = opened /\ from[s] <= d
          BY <3>1, <3>3
        <4>2. CASE from[s] = d \/ from[s] \in dismissed
          BY <3>1, <4>1, <4>2
        <4>3. CASE from[s] # d /\ from[s] \notin dismissed
          <5>1. PICK r \in Saves :
                  /\ savePc[r] = "done" /\ from[r] <= from[s]
                  /\ \/ from[r] = from[s] \/ from[r] \in dismissed
                     \/ \E t \in Saves \ {r} : from[t] = from[r]
            BY <3>1, <3>3, <4>3 DEF ConsoleIInv, ClosedByAnswer
          <5>2. from[r] \in Nat /\ from[r] <= d
            <6>1. from[r] \in 0 .. opened /\ from[s] \in 0 .. opened /\ d \in Nat
              BY <2>4, <3>1
            <6> QED BY <4>1, <5>1, <6>1
          <5>3. from[r] = from[s] => \E t \in Saves \ {r} : from[t] = from[r]
            BY <3>1, <5>1
          <5> QED BY <3>1, <5>1, <5>2, <5>3
        <4> QED BY <4>2, <4>3
      <3> QED BY <3>2, <3>3
    <2> QED BY <2>1, <2>2, <2>3 DEF ConsoleIInv
  <1>8. ASSUME NEW s \in Saves, SaveFails(s) PROVE ConsoleIInv'
    <2>1. IamConsoleTypeOK'
      BY <1>8, DialogAssumption
         DEF SaveFails, form, ConsoleIInv, IamConsoleTypeOK, SavesComeFromDialogs, Names
    <2>2. SavesComeFromDialogs'
      BY <1>8, DialogAssumption
         DEF SaveFails, form, ConsoleIInv, IamConsoleTypeOK, SavesComeFromDialogs
    <2>3. ClosedByAnswer'
      BY <1>8, DialogAssumption
         DEF SaveFails, form, ConsoleIInv, IamConsoleTypeOK, SavesComeFromDialogs,
             ClosedByAnswer
    <2> QED BY <2>1, <2>2, <2>3 DEF ConsoleIInv
  <1>9. CASE UNCHANGED iamConsoleVars
    BY <1>9 DEF iamConsoleVars, form, save, ConsoleIInv, IamConsoleTypeOK,
                   SavesComeFromDialogs, ClosedByAnswer
  <1> QED
    BY <1>1, <1>2, <1>3, <1>4, <1>5, <1>6, <1>7, <1>8, <1>9 DEF IamConsoleNext

(* A dialog that went away and was not dismissed had an answer to its save,*)
(* a refusal as well as a stored role, or the answer to an earlier dialog's*)
(* save closed it; and one that is open has had no answer to its saves.    *)
THEOREM DialogsCloseForAReason ==
  IamConsoleSpec => [](IamConsoleTypeOK /\ ClosedByAnswer /\ OpenIsUnanswered)
  <1>1. IamConsoleInit => ConsoleIInv
    <2> SUFFICES ASSUME IamConsoleInit PROVE ConsoleIInv
      OBVIOUS
    <2>1. opened = 0 /\ opened \in 0 .. MaxDialogs /\ 1 .. opened = {} /\ 0 \in 0 .. opened
      BY DialogAssumption DEF IamConsoleInit
    <2>2. IamConsoleTypeOK
      BY <2>1 DEF IamConsoleInit, IamConsoleTypeOK, Names
    <2>3. SavesComeFromDialogs /\ ClosedByAnswer
      BY <2>1 DEF IamConsoleInit, SavesComeFromDialogs, ClosedByAnswer
    <2> QED BY <2>2, <2>3 DEF ConsoleIInv
  <1>2. ConsoleIInv /\ [IamConsoleNext]_iamConsoleVars => ConsoleIInv'
    BY ConsoleInductive
  <1>3. ConsoleIInv => IamConsoleTypeOK /\ ClosedByAnswer
    BY DEF ConsoleIInv
  <1>4. IamConsoleInit => OpenIsUnanswered
    BY DEF IamConsoleInit, OpenIsUnanswered
  <1>5. ConsoleIInv /\ OpenIsUnanswered /\ [IamConsoleNext]_iamConsoleVars => OpenIsUnanswered'
    BY OpenStaysUnanswered
  <1> QED BY <1>1, <1>2, <1>3, <1>4, <1>5, PTL DEF IamConsoleSpec

-----------------------------------------------------------------------------
(* The overview                                                            *)

(* The counts and the cells were computed on day f.                        *)
ComputedOn(f) ==
  /\ heat = HeatData(alerts, f) /\ cells = Cells(heat, f)
  /\ \A a \in alerts : Day(a) <= f

DataIInv ==
  /\ today \in FirstDay .. LastDay /\ alerts \subseteq Alerts
  /\ overview \in {"up", "dead"} /\ alertsFailed \in BOOLEAN
  /\ \E f \in FirstDay .. today : ComputedOn(f)

(* The day of an alert is a number.                                        *)
LEMMA DayIsNumber == \A a \in Alerts : Day(a) \in Int
  <1>1. \A t \in Nat, p \in Nat \ {0} : t \div p \in Int
    OBVIOUS
  <1> QED BY <1>1, DayAssumption DEF Day

(* An answer is worked into counts and cells of the day it is; midnight    *)
(* leaves them as they are.                                                *)
LEMMA DataInductive ==
  ASSUME DataIInv, [DashboardDataNext]_dashboardDataVars
  PROVE  DataIInv'
  <1>1. CASE Midnight
    <2>1. PICK f \in FirstDay .. today : ComputedOn(f)
      BY DEF DataIInv
    <2>2. f \in FirstDay .. today' /\ today' \in FirstDay .. LastDay
      BY <1>1, <2>1, DayAssumption DEF Midnight, DataIInv
    <2>3. ComputedOn(f)'
      BY <1>1, <2>1 DEF Midnight, ComputedOn
    <2> QED BY <1>1, <2>2, <2>3 DEF Midnight, DataIInv
  <1>2. ASSUME NEW S \in SUBSET Alerts, Fetch(S) PROVE DataIInv'
    <2>1. /\ today' = today /\ today \in FirstDay .. today /\ alerts' = S
          /\ overview' = overview /\ alertsFailed' = FALSE /\ \A a \in S : Day(a) <= today
      BY <1>2, DayAssumption DEF Fetch, DataIInv
    <2>2. CASE S = alerts
      <3>1. heat' = heat /\ cells' = cells
        BY <1>2, <2>2 DEF Fetch
      <3> QED BY <2>1, <2>2, <3>1 DEF DataIInv, ComputedOn
    <2>3. CASE S # alerts
      <3>1. heat' = HeatData(S, today) /\ cells' = Cells(heat', today)
        BY <1>2, <2>3 DEF Fetch
      <3>2. \E f \in FirstDay .. today' :
              /\ heat' = HeatData(alerts', f) /\ cells' = Cells(heat', f)
              /\ \A a \in alerts' : Day(a) <= f
        BY <2>1, <3>1
      <3> QED BY <2>1, <3>2 DEF DataIInv, ComputedOn
    <2> QED BY <2>2, <2>3
  <1>4. CASE FetchRejected
    BY <1>4 DEF FetchRejected, DataIInv, ComputedOn
  <1>5. CASE FetchRefused
    BY <1>5 DEF FetchRefused, DataIInv, ComputedOn
  <1>3. CASE UNCHANGED dashboardDataVars
    BY <1>3 DEF dashboardDataVars, DataIInv, ComputedOn
  <1> QED BY <1>1, <1>2, <1>3, <1>4, <1>5 DEF DashboardDataNext

(* What the map of day f holds.                                            *)
LEMMA MapOfDay ==
  ASSUME DataIInv, NEW f \in FirstDay .. today, ComputedOn(f)
  PROVE  /\ f \in Nat /\ f >= 6 /\ f <= today /\ today \in Nat
         /\ DOMAIN heat = f - 6 .. f /\ DOMAIN cells = f - 6 .. f
         /\ \A d \in f - 6 .. f :
              /\ heat[d].count = Cardinality({a \in alerts \cap High : Day(a) = d})
              /\ cells[d].row = d % 7 /\ cells[d].col = (f \div 7) - (d \div 7)
              /\ cells[d].color = "dark"
  <1>1. /\ f \in Nat /\ f >= 6 /\ f <= today /\ today \in Nat
        /\ DOMAIN heat = f - 6 .. f /\ DOMAIN cells = f - 6 .. f
    BY DayAssumption DEF DataIInv, ComputedOn, HeatData, Cells, Window
  <1>2. ASSUME NEW d \in f - 6 .. f
        PROVE  heat[d] = [count |-> Cardinality({a \in alerts \cap High : Day(a) = d})]
    BY DEF ComputedOn, HeatData, Window
  <1>3. ASSUME NEW d \in f - 6 .. f
        PROVE  /\ cells[d].row = d % 7 /\ cells[d].col = (f \div 7) - (d \div 7)
               /\ cells[d].color = ColorClass(Read(heat[d], "high"))
    BY <1>1 DEF ComputedOn, Cells, Col
  <1>4. ASSUME NEW d \in f - 6 .. f PROVE Read(heat[d], "high") = Undefined
    <2>1. DOMAIN heat[d] = {"count"} /\ "high" # "count"
      BY <1>2
    <2> QED BY <2>1 DEF Read
  <1>5. ColorClass(Undefined) = "dark"
    BY DayAssumption DEF ColorClass
  <1> QED BY <1>1, <1>2, <1>3, <1>4, <1>5

(* Types follow: a count is of some of the alerts, and a week has 7 days.  *)
LEMMA DataTypes == DataIInv => DashboardDataTypeOK
  <1> SUFFICES ASSUME DataIInv PROVE DashboardDataTypeOK
    OBVIOUS
  <1>1. PICK f \in FirstDay .. today : ComputedOn(f)
    BY DEF DataIInv
  <1>2. /\ f \in Nat /\ f >= 6 /\ DOMAIN heat = f - 6 .. f /\ DOMAIN cells = f - 6 .. f
        /\ \A d \in f - 6 .. f :
             /\ heat[d].count = Cardinality({a \in alerts \cap High : Day(a) = d})
             /\ cells[d].row = d % 7 /\ cells[d].color = "dark"
    BY <1>1, MapOfDay
  <1>3. ASSUME NEW d \in f - 6 .. f
        PROVE  heat[d].count \in 0 .. Cardinality(Alerts) /\ cells[d].row \in 0 .. 6
    <2>1. {a \in alerts \cap High : Day(a) = d} \in SUBSET Alerts
      BY DEF DataIInv
    <2>2. /\ Cardinality({a \in alerts \cap High : Day(a) = d}) \in Nat
          /\ Cardinality({a \in alerts \cap High : Day(a) = d}) <= Cardinality(Alerts)
          /\ Cardinality(Alerts) \in Nat
      BY <2>1, FS_Subset, FS_CardinalityType, DayAssumption
    <2>3. d \in Nat /\ d % 7 \in 0 .. 6
      <3>1. f \in Nat /\ f >= 6 /\ d \in f - 6 .. f
        BY <1>2
      <3>2. d \in Nat
        BY ONLY <3>1
      <3>3. \A n \in Nat : n % 7 \in 0 .. 6
        OBVIOUS
      <3> QED BY <3>2, <3>3
    <2>4. heat[d].count = Cardinality({a \in alerts \cap High : Day(a) = d})
          /\ cells[d].row = d % 7
      BY <1>2
    <2> QED BY ONLY <2>2, <2>3, <2>4
  <1>4. Cardinality(f - 6 .. f) = 7
    <2>1. f - 6 \in Int /\ f \in Int /\ ~(f - 6 > f) /\ f - (f - 6) + 1 = 7
      BY <1>2
    <2> QED BY <2>1, FS_Interval
  <1> QED BY <1>2, <1>3, <1>4 DEF DashboardDataTypeOK, DataIInv

(* The cells of a window of seven days take one column or two.             *)
LEMMA ColumnsAreTwo ==
  ASSUME DataIInv
  PROVE  MaxCol \in Int
  <1>1. PICK f \in FirstDay .. today : ComputedOn(f)
    BY DEF DataIInv
  <1>2. /\ f \in Nat /\ f >= 6 /\ DOMAIN cells = f - 6 .. f
        /\ \A d \in f - 6 .. f : cells[d].col = (f \div 7) - (d \div 7)
    BY <1>1, MapOfDay
  <1>3. \A d \in f - 6 .. f : (f \div 7) - (d \div 7) \in {0, 1}
    BY <1>2
  <1> DEFINE C == {0} \cup {cells[d].col : d \in DOMAIN cells}
  <1>4. C \subseteq {0, 1} /\ 0 \in C
    BY <1>2, <1>3
  <1>5. \E x \in C : \A y \in C : x >= y
    <2>1. CASE 1 \in C
      BY <2>1, <1>4
    <2>2. CASE 1 \notin C
      BY <2>2, <1>4
    <2> QED BY <2>1, <2>2
  <1>6. Max(C) \in C
    <2> HIDE DEF C
    <2> QED BY <1>5 DEF Max
  <1> QED BY <1>4, <1>6 DEF MaxCol

(* Two days of the window are drawn apart, and in their order.             *)
LEMMA CellsAreApart == DataIInv => CellsApart
  <1> SUFFICES ASSUME DataIInv, NEW d \in DOMAIN cells, NEW e \in DOMAIN cells, d < e
               PROVE  X(d) < X(e) \/ (X(d) = X(e) /\ cells[d].row < cells[e].row)
    BY DEF CellsApart
  <1>1. PICK f \in FirstDay .. today : ComputedOn(f)
    BY DEF DataIInv
  <1>2. /\ f \in Nat /\ f >= 6 /\ DOMAIN cells = f - 6 .. f
        /\ \A i \in f - 6 .. f : /\ cells[i].row = i % 7
                               /\ cells[i].col = (f \div 7) - (i \div 7)
    BY <1>1, MapOfDay
  <1>3. d \in Nat /\ e \in Nat
    <2>1. d \in f - 6 .. f /\ e \in f - 6 .. f /\ f \in Nat /\ f >= 6
      BY <1>2
    <2> QED BY ONLY <2>1
  <1>4. d \div 7 < e \div 7 \/ (d \div 7 = e \div 7 /\ d % 7 < e % 7)
    BY <1>3
  <1>5. d \div 7 \in Int /\ e \div 7 \in Int /\ f \div 7 \in Int
    BY <1>2, <1>3
  <1>6. X(d) = MaxCol - ((f \div 7) - (d \div 7)) /\ X(e) = MaxCol - ((f \div 7) - (e \div 7))
    BY <1>2 DEF X
  <1>7. cells[d].row = d % 7 /\ cells[e].row = e % 7
    BY <1>2
  <1>8. CASE d \div 7 < e \div 7
    BY <1>5, <1>6, <1>8, ColumnsAreTwo
  <1>9. CASE d \div 7 = e \div 7 /\ d % 7 < e % 7
    BY <1>6, <1>7, <1>9
  <1> QED BY <1>4, <1>8, <1>9

(* What has no card stands behind all that have one, in a full grid.       *)
LEMMA CardsAreTheNewest == DataIInv => CardsAreNewest
  <1> SUFFICES ASSUME DataIInv, NEW s \in Sorts(alerts), NEW b \in alerts \ Cards(s)
               PROVE  /\ \A a \in Cards(s) : At[a] >= At[b]
                      /\ CardCount \in DOMAIN s
    BY DEF CardsAreNewest
  <1>1. IsFiniteSet(alerts) /\ Cardinality(alerts) \in Nat /\ CardCount \in Nat \ {0}
    BY FS_Subset, FS_CardinalityType, DayAssumption DEF DataIInv
  <1>2. /\ s \in [1 .. Cardinality(alerts) -> alerts]
        /\ \A i, j \in 1 .. Cardinality(alerts) :
             i < j => s[i] # s[j] /\ At[s[j]] - At[s[i]] <= 0
    BY DEF Sorts, Compare
  <1>3. \A i, j \in 1 .. Cardinality(alerts) : s[i] = s[j] => i = j
    BY <1>1, <1>2
  <1>4. s \in Injection(1 .. Cardinality(alerts), alerts)
    BY <1>2, <1>3 DEF Injection, IsInjective
  <1>5. PICK j \in 1 .. Cardinality(alerts) : s[j] = b
    <2>1. Cardinality(1 .. Cardinality(alerts)) = Cardinality(alerts)
      BY <1>1, FS_Interval
    <2>2. s \in Surjection(1 .. Cardinality(alerts), alerts)
      BY <1>1, <1>4, <2>1, FS_Injection
    <2> QED BY <2>2 DEF Surjection
  <1>6. j > CardCount
    BY <1>1, <1>2, <1>5 DEF Cards
  <1>7. CardCount \in DOMAIN s
    BY <1>1, <1>2, <1>5, <1>6
  <1>8. ASSUME NEW a \in Cards(s) PROVE At[a] >= At[b]
    <2>1. PICK i \in 1 .. Cardinality(alerts) : i <= CardCount /\ s[i] = a
      BY <1>1, <1>2 DEF Cards
    <2>2. At[s[j]] - At[s[i]] <= 0
      BY <1>1, <1>2, <1>6, <2>1
    <2>3. At[a] \in Nat /\ At[b] \in Nat
      BY <1>2, <2>1, DayAssumption DEF DataIInv
    <2> QED BY <1>5, <2>1, <2>2, <2>3
  <1> QED BY <1>7, <1>8

(* A high alert of the window has its day in the map, and is counted.      *)
LEMMA HighAlertsAreCounted == DataIInv => HighAlertIsCounted
  <1> SUFFICES ASSUME DataIInv, NEW a \in alerts \cap High, Day(a) > today - 7
               PROVE  Day(a) \in DOMAIN heat /\ heat[Day(a)].count > 0
    BY DEF HighAlertIsCounted
  <1>1. PICK f \in FirstDay .. today : ComputedOn(f)
    BY DEF DataIInv
  <1>2. /\ f \in Nat /\ f <= today /\ today \in Nat /\ DOMAIN heat = f - 6 .. f
        /\ \A d \in f - 6 .. f : heat[d].count = Cardinality({b \in alerts \cap High : Day(b) = d})
    BY <1>1, MapOfDay
  <1>3. Day(a) \in f - 6 .. f
    <2>1. Day(a) \in Int /\ Day(a) <= f
      BY <1>1, DayIsNumber DEF DataIInv, ComputedOn
    <2> QED BY <1>2, <2>1
  <1> DEFINE D == {b \in alerts \cap High : Day(b) = Day(a)}
  <1>4. IsFiniteSet(D) /\ D # {}
    <2>1. D \in SUBSET Alerts
      BY DEF DataIInv
    <2> QED BY <2>1, FS_Subset, DayAssumption
  <1>5. Cardinality(D) \in Nat /\ Cardinality(D) # 0
    <2> HIDE DEF D
    <2> QED BY <1>4, FS_CardinalityType, FS_EmptySet
  <1> QED BY <1>2, <1>3, <1>5

(* Cells are apart and in order, but all of one colour; the cards are the  *)
(* newest alerts, however the sort orders those of one moment; and a high  *)
(* alert of the week is counted though midnight passed in between.         *)
THEOREM OverviewIsTrue ==
  DashboardDataSpec =>
    [](DashboardDataTypeOK /\ CellsApart /\ CardsAreNewest /\ HighAlertIsCounted)
  <1>1. DashboardDataInit => DataIInv
    <2> SUFFICES ASSUME DashboardDataInit PROVE DataIInv
      OBVIOUS
    <2>1. today = FirstDay /\ FirstDay \in FirstDay .. today /\ today \in FirstDay .. LastDay
      BY DayAssumption DEF DashboardDataInit
    <2>2. ComputedOn(FirstDay)
      BY DEF DashboardDataInit, ComputedOn
    <2>3. alerts \subseteq Alerts /\ overview \in {"up", "dead"} /\ alertsFailed \in BOOLEAN
      BY DEF DashboardDataInit
    <2> QED BY <2>1, <2>2, <2>3 DEF DataIInv
  <1>2. DataIInv /\ [DashboardDataNext]_dashboardDataVars => DataIInv'
    BY DataInductive
  <1> QED BY <1>1, <1>2, DataTypes, CellsAreApart, CardsAreTheNewest, HighAlertsAreCounted, PTL
          DEF DashboardDataSpec

-----------------------------------------------------------------------------
(* The menus                                                               *)

(* Every variable has its type: a key is a path of values, shorter than    *)
(* its menu's place in the row.                                            *)
MenuTypes ==
  /\ selected \in [Menu -> Values \cup {NoValue}]
  /\ reported \in [Menu -> Values \cup {NoValue}]
  /\ timer \in [Menu -> BOOLEAN] /\ open \in [Menu -> BOOLEAN] /\ rendered \in BOOLEAN
  /\ debounced \in [Menu -> Seq(Values)]
  /\ cache \in [Menu -> SUBSET Seq(Values)] /\ fetching \in [Menu -> SUBSET Seq(Values)]
  /\ \A m \in Menu : \A p \in cache[m] \cup fetching[m] \cup {debounced[m]} : Len(p) < m

NothingTwice == \A m \in Menu : cache[m] \cap fetching[m] = {}

(* Options of a later menu are fetched only once the first is chosen, and  *)
(* its choice is never taken back.                                         *)
FirstIsChosen ==
  \A m \in Menu \ {1} :
    selected[m] # NoValue \/ cache[m] \cup fetching[m] # {} => selected[1] # NoValue

DrilldownIInv == MenuTypes /\ NothingTwice /\ SettledMeansCurrent /\ FirstIsChosen

(* The menus before another are finitely many, and fewer before a filled   *)
(* one than before a later menu.                                           *)
LEMMA FilledGrows ==
  ASSUME NEW m \in Nat
  PROVE  /\ IsFiniteSet(Filled(m)) /\ Cardinality(Filled(m)) \in Nat
         /\ m > 0 => Cardinality(Filled(m)) <= m - 1
         /\ \A i \in Filled(m) : /\ IsFiniteSet(Filled(i)) /\ Cardinality(Filled(i)) \in Nat
                                /\ Cardinality(Filled(i)) < Cardinality(Filled(m))
  <1>1. \A n \in Nat : IsFiniteSet(Filled(n)) /\ Cardinality(Filled(n)) \in Nat
                      /\ (n > 0 => Cardinality(Filled(n)) <= n - 1)
    <2> SUFFICES ASSUME NEW n \in Nat
                 PROVE  IsFiniteSet(Filled(n)) /\ Cardinality(Filled(n)) \in Nat
                        /\ (n > 0 => Cardinality(Filled(n)) <= n - 1)
      OBVIOUS
    <2>1. Filled(n) \in SUBSET (1 .. n - 1)
      BY DEF Filled
    <2>2. IsFiniteSet(1 .. n - 1)
          /\ Cardinality(1 .. n - 1) = IF 1 > n - 1 THEN 0 ELSE n - 1 - 1 + 1
      BY FS_Interval
    <2>3. IsFiniteSet(Filled(n)) /\ Cardinality(Filled(n)) <= Cardinality(1 .. n - 1)
      BY <2>1, <2>2, FS_Subset
    <2>4. Cardinality(Filled(n)) \in Nat
      BY <2>3, FS_CardinalityType
    <2> QED BY <2>2, <2>3, <2>4
  <1>2. ASSUME NEW i \in Filled(m)
        PROVE  /\ IsFiniteSet(Filled(i)) /\ Cardinality(Filled(i)) \in Nat
               /\ Cardinality(Filled(i)) < Cardinality(Filled(m))
    <2>1. i \in Nat /\ i \notin Filled(i) /\ Filled(i) \cup {i} \subseteq Filled(m)
      BY DEF Filled
    <2>2. IsFiniteSet(Filled(i)) /\ Cardinality(Filled(i)) \in Nat
          /\ IsFiniteSet(Filled(m)) /\ Cardinality(Filled(m)) \in Nat
      BY <1>1, <2>1
    <2>3. Cardinality(Filled(i) \cup {i}) = Cardinality(Filled(i)) + 1
      BY <2>1, <2>2, FS_AddElement
    <2>4. Cardinality(Filled(i) \cup {i}) <= Cardinality(Filled(m))
      BY <2>1, <2>2, FS_Subset
    <2> QED BY <2>2, <2>3, <2>4
  <1> QED BY <1>1, <1>2

(* For each place of the path there is the menu it is of: ranking the      *)
(* filled menus is one to one, and so reaches every rank.                  *)
LEMMA EveryPlaceIsFilled ==
  ASSUME NEW m \in Nat, NEW k \in 1 .. Cardinality(Filled(m))
  PROVE  FilledAt(m, k) \in Filled(m)
  <1> DEFINE n == Cardinality(Filled(m))
             rank == [i \in Filled(m) |-> Cardinality(Filled(i))]
  <1>1. IsFiniteSet(Filled(m)) /\ n \in Nat
    BY FilledGrows
  <1>2. rank \in [Filled(m) -> 0 .. n - 1]
    <2>1. \A i \in Filled(m) : Cardinality(Filled(i)) \in 0 .. n - 1
      BY <1>1, FilledGrows
    <2> QED BY <2>1
  <1>3. \A i, j \in Filled(m) : rank[i] = rank[j] => i = j
    <2> SUFFICES ASSUME NEW i \in Filled(m), NEW j \in Filled(m), i < j
                 PROVE  rank[i] # rank[j]
      <3>1. Filled(m) \subseteq Nat
        BY DEF Filled
      <3>2. \A a, b \in Filled(m) : a # b => a < b \/ b < a
        BY <3>1
      <3> QED BY <3>2
    <2>1. i \in Filled(j) /\ j \in Nat
      BY DEF Filled
    <2>2. Cardinality(Filled(i)) < Cardinality(Filled(j)) /\ Cardinality(Filled(i)) \in Nat
          /\ Cardinality(Filled(j)) \in Nat
      BY <2>1, FilledGrows
    <2> QED BY <2>2
  <1>4. rank \in Injection(Filled(m), 0 .. n - 1)
    BY <1>2, <1>3 DEF Injection, IsInjective
  <1>5. IsFiniteSet(0 .. n - 1) /\ Cardinality(0 .. n - 1) = n
    <2>1. IsFiniteSet(0 .. n - 1)
          /\ Cardinality(0 .. n - 1) = IF 0 > n - 1 THEN 0 ELSE n - 1 - 0 + 1
      <3>1. 0 \in Int /\ n - 1 \in Int
        BY <1>1
      <3> QED BY ONLY <3>1, FS_Interval
    <2> QED BY <1>1, <2>1
  <1>6. rank \in Surjection(Filled(m), 0 .. n - 1)
    BY <1>4, <1>5, FS_Injection
  <1>7. k - 1 \in 0 .. n - 1
    BY <1>1
  <1>8. \E i \in Filled(m) : rank[i] = k - 1
    BY <1>6, <1>7 DEF Surjection
  <1>9. \E i \in Filled(m) : Cardinality(Filled(i)) = k - 1
    BY <1>8
  <1> QED BY <1>9 DEF FilledAt

(* The selection before a menu is a path for it, complete when every menu  *)
(* before it is filled in, and empty while nothing is selected.            *)
LEMMA BeforeIsPath ==
  ASSUME selected \in [Menu -> Values \cup {NoValue}], NEW m \in Menu
  PROVE  /\ Before(m) \in Seq(Values) /\ Len(Before(m)) = Cardinality(Filled(m))
         /\ Len(Before(m)) < m
         /\ (\A i \in Menu : selected[i] = NoValue) => Before(m) = <<>>
         /\ Len(Before(m)) = m - 1 => \A i \in 1 .. m - 1 : selected[i] # NoValue
  <1>1. m \in Nat /\ m > 0 /\ 1 .. m - 1 \subseteq Menu
    BY MenuAssumption DEF Menu
  <1>2. IsFiniteSet(Filled(m)) /\ Cardinality(Filled(m)) \in Nat
        /\ Cardinality(Filled(m)) <= m - 1
    BY <1>1, FilledGrows
  <1>3. \A k \in 1 .. Cardinality(Filled(m)) : selected[FilledAt(m, k)] \in Values
    <2> SUFFICES ASSUME NEW k \in 1 .. Cardinality(Filled(m))
                 PROVE  selected[FilledAt(m, k)] \in Values
      OBVIOUS
    <2>1. FilledAt(m, k) \in Filled(m)
      BY <1>1, EveryPlaceIsFilled
    <2> QED BY <1>1, <2>1 DEF Filled
  <1>4. Before(m) \in Seq(Values)
    BY <1>2, <1>3 DEF Before
  <1>5. Len(Before(m)) = Cardinality(Filled(m))
    BY <1>2, <1>4, LenProperties DEF Before
  <1>6. (\A i \in Menu : selected[i] = NoValue) => Before(m) = <<>>
    <2> SUFFICES ASSUME \A i \in Menu : selected[i] = NoValue PROVE Before(m) = <<>>
      OBVIOUS
    <2>1. Filled(m) = {}
      BY <1>1 DEF Filled
    <2>2. Len(Before(m)) = 0
      BY <1>5, <2>1, FS_EmptySet
    <2> QED BY <1>4, <2>2, EmptySeq
  <1>7. Len(Before(m)) = m - 1 => \A i \in 1 .. m - 1 : selected[i] # NoValue
    <2> SUFFICES ASSUME Len(Before(m)) = m - 1
                 PROVE  \A i \in 1 .. m - 1 : selected[i] # NoValue
      OBVIOUS
    <2>1. IsFiniteSet(1 .. m - 1) /\ Cardinality(1 .. m - 1) = m - 1
      <3>1. IsFiniteSet(1 .. m - 1)
            /\ Cardinality(1 .. m - 1) = IF 1 > m - 1 THEN 0 ELSE m - 1 - 1 + 1
        <4>1. 1 \in Int /\ m - 1 \in Int
          BY <1>1
        <4> QED BY ONLY <4>1, FS_Interval
      <3> QED BY <1>1, <3>1
    <2>2. Filled(m) \in SUBSET (1 .. m - 1)
      BY DEF Filled
    <2>3. Filled(m) = 1 .. m - 1
      BY <1>5, <2>1, <2>2, FS_Subset
    <2> QED BY <2>3 DEF Filled
  <1> QED BY <1>1, <1>2, <1>4, <1>5, <1>6, <1>7

(* The path before a menu is that of the selection alone.                  *)
LEMMA BeforeIsOfSelected ==
  ASSUME selected' = selected
  PROVE  \A m : Before(m)' = Before(m)
  BY DEF Before, FilledAt, Filled

(* Choices, timeouts, effects and answers keep the invariant.              *)
LEMMA DrilldownInductive ==
  ASSUME DrilldownIInv, [DrilldownNext]_drilldownVars
  PROVE  DrilldownIInv'
  <1>1. CASE Report
    <2>1. selected' = selected /\ \A i \in Menu : Before(i)' = Before(i)
      BY <1>1, BeforeIsOfSelected DEF Report
    <2>2. MenuTypes'
      BY <1>1 DEF Report, queries, DrilldownIInv, MenuTypes
    <2>3. NothingTwice'
      BY <1>1 DEF Report, queries, DrilldownIInv, MenuTypes, NothingTwice
    <2>4. SettledMeansCurrent'
      BY <1>1, <2>1 DEF Report, queries, DrilldownIInv, MenuTypes, SettledMeansCurrent
    <2>5. FirstIsChosen'
      BY <1>1, <2>1 DEF Report, queries, DrilldownIInv, MenuTypes, FirstIsChosen
    <2> QED BY <2>2, <2>3, <2>4, <2>5 DEF DrilldownIInv
  <1>2. ASSUME NEW m \in Menu, FetchOptions(m) PROVE DrilldownIInv'
    <2>1. selected' = selected /\ \A i \in Menu : Before(i)' = Before(i)
      BY <1>2, BeforeIsOfSelected DEF FetchOptions
    <2>2. MenuTypes'
      BY <1>2 DEF FetchOptions, DrilldownIInv, MenuTypes
    <2>3. NothingTwice'
      BY <1>2 DEF FetchOptions, Cached, DrilldownIInv, MenuTypes, NothingTwice
    <2>4. SettledMeansCurrent'
      BY <1>2, <2>1 DEF FetchOptions, DrilldownIInv, SettledMeansCurrent
    <2>5. m \in Menu \ {1} => selected[1] # NoValue
      <3>1. \A i \in 1 .. m - 1 : selected[i] # NoValue
        BY <1>2, BeforeIsPath DEF FetchOptions, Enabled, DrilldownIInv, MenuTypes
      <3>2. m \in Menu \ {1} => 1 \in 1 .. m - 1
        BY MenuAssumption DEF Menu
      <3> QED BY <3>1, <3>2
    <2>6. FirstIsChosen'
      BY <1>2, <2>1, <2>5 DEF FetchOptions, DrilldownIInv, MenuTypes, FirstIsChosen
    <2> QED BY <2>2, <2>3, <2>4, <2>6 DEF DrilldownIInv
  <1>3. ASSUME NEW m \in Menu, Toggle(m) PROVE DrilldownIInv'
    <2>1. selected' = selected /\ \A i \in Menu : Before(i)' = Before(i)
      BY <1>3, BeforeIsOfSelected DEF Toggle
    <2>2. MenuTypes'
      BY <1>3 DEF Toggle, queries, DrilldownIInv, MenuTypes
    <2>3. NothingTwice'
      BY <1>3 DEF Toggle, queries, DrilldownIInv, MenuTypes, NothingTwice
    <2>4. SettledMeansCurrent'
      BY <1>3, <2>1 DEF Toggle, queries, DrilldownIInv, MenuTypes, SettledMeansCurrent
    <2>5. FirstIsChosen'
      BY <1>3, <2>1 DEF Toggle, queries, DrilldownIInv, MenuTypes, FirstIsChosen
    <2> QED BY <2>2, <2>3, <2>4, <2>5 DEF DrilldownIInv
  <1>4. ASSUME NEW m \in Menu, UseDebounce(m) PROVE DrilldownIInv'
    <2>1. selected' = selected /\ \A i \in Menu : Before(i)' = Before(i)
      BY <1>4, BeforeIsOfSelected DEF UseDebounce
    <2>2. Before(m) \in Seq(Values) /\ Len(Before(m)) < m
      BY BeforeIsPath DEF DrilldownIInv, MenuTypes
    <2>3. MenuTypes'
      BY <1>4, <2>2 DEF UseDebounce, Debounced, DrilldownIInv, MenuTypes
    <2>4. NothingTwice' /\ FirstIsChosen'
      BY <1>4, <2>1 DEF UseDebounce, DrilldownIInv, NothingTwice, FirstIsChosen
    <2>5. SettledMeansCurrent'
      BY <1>4, <2>1 DEF UseDebounce, Debounced, DrilldownIInv, MenuTypes, SettledMeansCurrent
    <2> QED BY <2>3, <2>4, <2>5 DEF DrilldownIInv
  <1>5. ASSUME NEW m \in Menu, NEW key \in fetching[m], FetchEnds(m, key) PROVE DrilldownIInv'
    <2>1. selected' = selected /\ \A i \in Menu : Before(i)' = Before(i)
      BY <1>5, BeforeIsOfSelected DEF FetchEnds
    <2>2. MenuTypes'
      BY <1>5 DEF FetchEnds, DrilldownIInv, MenuTypes
    <2>3. NothingTwice'
      BY <1>5 DEF FetchEnds, DrilldownIInv, MenuTypes, NothingTwice
    <2>4. SettledMeansCurrent'
      BY <1>5, <2>1 DEF FetchEnds, DrilldownIInv, MenuTypes, SettledMeansCurrent
    <2>5. FirstIsChosen'
      BY <1>5, <2>1 DEF FetchEnds, DrilldownIInv, MenuTypes, FirstIsChosen
    <2> QED BY <2>2, <2>3, <2>4, <2>5 DEF DrilldownIInv
  <1>6. ASSUME NEW m \in Menu, NEW v \in Values, HandleSelect(m, v) PROVE DrilldownIInv'
    <2>1. selected' \in [Menu -> Values \cup {NoValue}]
      BY <1>6 DEF HandleSelect, Below, DrilldownIInv, MenuTypes
    <2>2. MenuTypes'
      BY <1>6, <2>1 DEF HandleSelect, DrilldownIInv, MenuTypes
    <2>3. NothingTwice'
      BY <1>6 DEF HandleSelect, DrilldownIInv, NothingTwice
    <2>4. SettledMeansCurrent'
      BY <1>6 DEF HandleSelect, DrilldownIInv, MenuTypes, SettledMeansCurrent
    <2>5. FirstIsChosen'
      <3>1. 1 \in Menu /\ \A i \in Menu : 1 <= i
        BY MenuAssumption DEF Menu
      <3>2. CASE m = 1
        BY <1>6, <3>1, <3>2, MenuAssumption DEF HandleSelect, Below, FirstIsChosen
      <3>3. CASE m # 1
        <4>1. selected[1] # NoValue
          BY <1>6, <3>3 DEF HandleSelect, DrilldownIInv, FirstIsChosen
        <4>2. 1 < m
          BY <3>1, <3>3, MenuAssumption DEF Menu
        <4>3. selected'[1] = selected[1]
          BY <1>6, <3>1, <4>2 DEF HandleSelect, Below
        <4> QED BY <4>1, <4>3 DEF FirstIsChosen
      <3> QED BY <3>2, <3>3
    <2> QED BY <2>2, <2>3, <2>4, <2>5 DEF DrilldownIInv
  <1>8. ASSUME NEW m \in Menu, NEW key \in fetching[m], FetchOptionsFails(m, key) PROVE DrilldownIInv'
    <2>1. selected' = selected /\ \A i \in Menu : Before(i)' = Before(i)
      BY <1>8, BeforeIsOfSelected DEF FetchOptionsFails
    <2>2. MenuTypes'
      BY <1>8 DEF FetchOptionsFails, DrilldownIInv, MenuTypes
    <2>3. NothingTwice'
      BY <1>8 DEF FetchOptionsFails, DrilldownIInv, MenuTypes, NothingTwice
    <2>4. SettledMeansCurrent'
      BY <1>8, <2>1 DEF FetchOptionsFails, DrilldownIInv, MenuTypes, SettledMeansCurrent
    <2>5. FirstIsChosen'
      BY <1>8, <2>1 DEF FetchOptionsFails, DrilldownIInv, MenuTypes, FirstIsChosen
    <2> QED BY <2>2, <2>3, <2>4, <2>5 DEF DrilldownIInv
  <1>9. CASE Focus
    <2>1. selected' = selected /\ \A i \in Menu : Before(i)' = Before(i)
      BY <1>9, BeforeIsOfSelected DEF Focus
    <2> QED BY <1>9, <2>1 DEF Focus, DrilldownIInv, MenuTypes, NothingTwice,
                             SettledMeansCurrent, FirstIsChosen
  <1>7. CASE UNCHANGED drilldownVars
    <2>1. \A i \in Menu : Before(i)' = Before(i)
      BY <1>7, BeforeIsOfSelected DEF drilldownVars, queries
    <2> QED BY <1>7, <2>1 DEF drilldownVars, queries, DrilldownIInv, MenuTypes, NothingTwice,
                             SettledMeansCurrent, FirstIsChosen
  <1> QED
    BY <1>1, <1>2, <1>3, <1>4, <1>5, <1>6, <1>7, <1>8, <1>9 DEF DrilldownNext

(* What failed is wanted, and neither there nor under way.                 *)
Failures ==
  /\ unanswered \in [Menu -> BOOLEAN] /\ optionFaults \in 0 .. MaxOptionFaults
  /\ \A m \in Menu : unanswered[m] => Enabled(m) /\ ~Cached(m, debounced[m])

(* A fetch fails for the key that its menu observes; with another key or a *)
(* query that is enabled again, the failure is forgotten.                  *)
LEMMA FailuresInductive ==
  ASSUME DrilldownIInv, Failures, [DrilldownNext]_drilldownVars
  PROVE  Failures'
  <1>1. /\ debounced \in [Menu -> Seq(Values)] /\ NothingTwice
        /\ cache \in [Menu -> SUBSET Seq(Values)] /\ fetching \in [Menu -> SUBSET Seq(Values)]
    BY DEF DrilldownIInv, MenuTypes
  <1>2. selected' = selected => \A m \in Menu : Enabled(m)' <=> Enabled(m)
    BY BeforeIsOfSelected DEF Enabled
  <1>3. CASE Report \/ Focus \/ \E m \in Menu : Toggle(m)
    <2>1. /\ selected' = selected /\ debounced' = debounced /\ cache' = cache
          /\ fetching' = fetching /\ optionFaults' = optionFaults
          /\ unanswered' \in [Menu -> BOOLEAN] /\ \A m \in Menu : unanswered'[m] => unanswered[m]
      BY <1>3 DEF Report, Focus, Toggle, queries, Failures
    <2> QED BY <1>2, <2>1 DEF Failures, Cached
  <1>4. ASSUME NEW m \in Menu, FetchOptions(m) PROVE Failures'
    BY <1>1, <1>2, <1>4 DEF FetchOptions, Failures, Cached
  <1>5. ASSUME NEW m \in Menu, UseDebounce(m) PROVE Failures'
    BY <1>1, <1>2, <1>5 DEF UseDebounce, Failures, Cached
  <1>6. ASSUME NEW m \in Menu, NEW key \in fetching[m], FetchEnds(m, key) PROVE Failures'
    BY <1>1, <1>2, <1>6 DEF FetchEnds, Failures, Cached
  <1>7. ASSUME NEW m \in Menu, NEW key \in fetching[m], FetchOptionsFails(m, key) PROVE Failures'
    <2>1. /\ unanswered' \in [Menu -> BOOLEAN] /\ optionFaults' \in 0 .. MaxOptionFaults
          /\ selected' = selected /\ debounced' = debounced /\ cache' = cache
      BY <1>7, MenuAssumption DEF FetchOptionsFails, Failures
    <2>2. ASSUME NEW i \in Menu, unanswered'[i]
          PROVE  Enabled(i)' /\ ~Cached(i, debounced[i])'
      <3>1. CASE unanswered[i]
        BY <1>1, <1>2, <1>7, <2>1, <3>1 DEF FetchOptionsFails, Failures, Cached
      <3>2. CASE ~unanswered[i]
        <4>1. i = m /\ Enabled(m) /\ debounced[m] = key
          BY <1>7, <2>2, <3>2 DEF FetchOptionsFails, Failures
        <4>2. key \notin cache[m] /\ fetching'[m] = fetching[m] \ {key}
          BY <1>1, <1>7 DEF FetchOptionsFails, NothingTwice
        <4> QED BY <1>2, <2>1, <4>1, <4>2 DEF Cached
      <3> QED BY <3>1, <3>2
    <2> QED BY <2>1, <2>2 DEF Failures
  <1>8. ASSUME NEW m \in Menu, NEW v \in Values, HandleSelect(m, v) PROVE Failures'
    <2>1. /\ unanswered' = [i \in Menu |-> unanswered[i] /\ Enabled(i)']
          /\ debounced' = debounced /\ cache' = cache /\ fetching' = fetching
          /\ optionFaults' = optionFaults
      BY <1>8 DEF HandleSelect
    <2>2. unanswered' \in [Menu -> BOOLEAN]
      BY <2>1 DEF Failures, Enabled
    <2> QED BY <2>1, <2>2 DEF Failures, Cached
  <1>9. CASE UNCHANGED drilldownVars
    BY <1>2, <1>9 DEF drilldownVars, queries, Failures, Cached
  <1> QED BY <1>3, <1>4, <1>5, <1>6, <1>7, <1>8, <1>9 DEF DrilldownNext

(* The invariant implies the properties; a hole can be only in a row of    *)
(* three menus or more.                                                    *)
LEMMA DrilldownImplies ==
  DrilldownIInv /\ Failures => DrilldownTypeOK /\ SettledMeansCurrent /\ (Menus <= 2 => NoHoles)
  <1> SUFFICES ASSUME DrilldownIInv, Failures
               PROVE  DrilldownTypeOK /\ SettledMeansCurrent /\ (Menus <= 2 => NoHoles)
    OBVIOUS
  <1>1. DrilldownTypeOK
    <2>1. \A m \in Menu : \A p \in cache[m] \cup fetching[m] \cup {debounced[m]} :
            p \in Seq(Values) /\ Len(p) < m
      BY DEF DrilldownIInv, MenuTypes
    <2>2. \A p \in Seq(Values) : \A i \in 1 .. Len(p) : p[i] \in Values
      BY ElementOfSeq
    <2> QED BY <2>1, <2>2 DEF DrilldownIInv, MenuTypes, NothingTwice, Failures, DrilldownTypeOK
  <1>2. ASSUME Menus <= 2, NEW m \in Menu, selected[m] # NoValue
        PROVE  Len(Before(m)) = m - 1
    <2>1. selected \in [Menu -> Values \cup {NoValue}]
      BY DEF DrilldownIInv, MenuTypes
    <2>2. Len(Before(m)) = Cardinality(Filled(m))
      BY <2>1, BeforeIsPath
    <2>3. CASE m = 1
      <3>1. Filled(m) = {}
        BY <2>3 DEF Filled
      <3>2. Cardinality(Filled(m)) = 0
        BY <3>1, FS_EmptySet
      <3> QED BY <2>2, <2>3, <3>2
    <2>4. CASE m # 1
      <3>1. m = 2
        BY <1>2, <2>4, MenuAssumption DEF Menu
      <3>2. selected[1] # NoValue
        BY <1>2, <2>4 DEF DrilldownIInv, FirstIsChosen
      <3>3. Filled(m) = {1}
        BY <3>1, <3>2 DEF Filled
      <3>4. Cardinality(Filled(m)) = 1
        BY <3>3, FS_Singleton
      <3> QED BY <2>2, <3>1, <3>4
    <2> QED BY <2>3, <2>4
  <1> QED BY <1>1, <1>2 DEF DrilldownIInv, NoHoles

(* A settled menu is for the selection before it, and a fetch that failed  *)
(* and is not repeated is one for the key its menu has; and two menus never*)
(* leave a hole.                                                           *)
THEOREM MenusAreCurrent ==
  DrilldownSpec => [](DrilldownTypeOK /\ SettledMeansCurrent /\ (Menus <= 2 => NoHoles))
  <1>1. DrilldownInit => DrilldownIInv
    <2> SUFFICES ASSUME DrilldownInit PROVE DrilldownIInv
      OBVIOUS
    <2>1. selected \in [Menu -> Values \cup {NoValue}] /\ \A m \in Menu : selected[m] = NoValue
      BY DEF DrilldownInit
    <2>2. \A m \in Menu : Before(m) = <<>>
      BY <2>1, BeforeIsPath
    <2>3. \A m \in Menu : 0 < m
      BY MenuAssumption DEF Menu
    <2>4. MenuTypes
      <3>1. <<>> \in Seq(Values) /\ Len(<<>>) = 0
        BY EmptySeq
      <3> QED BY <2>1, <2>3, <3>1 DEF DrilldownInit, MenuTypes
    <2>5. NothingTwice /\ FirstIsChosen
      BY <2>1 DEF DrilldownInit, NothingTwice, FirstIsChosen
    <2>6. SettledMeansCurrent
      BY <2>2 DEF DrilldownInit, SettledMeansCurrent
    <2> QED BY <2>4, <2>5, <2>6 DEF DrilldownIInv
  <1>2. DrilldownIInv /\ [DrilldownNext]_drilldownVars => DrilldownIInv'
    BY DrilldownInductive
  <1>3. DrilldownInit => Failures
    BY MenuAssumption DEF DrilldownInit, Failures
  <1>4. DrilldownIInv /\ Failures /\ [DrilldownNext]_drilldownVars => Failures'
    BY FailuresInductive
  <1> QED BY <1>1, <1>2, <1>3, <1>4, DrilldownImplies, PTL DEF DrilldownSpec

-----------------------------------------------------------------------------
(* The dashboard                                                           *)

(* A step of one part leaves the others at rest.                           *)
LEMMA StepsOfParts ==
  ASSUME [Next]_dashboardVars
  PROVE  /\ [LiveConnectionNext]_liveConnectionVars /\ [LiveRefreshNext]_liveRefreshVars
         /\ [FeedbackNext]_feedbackVars /\ [DrilldownNext]_drilldownVars
         /\ [AuditScrollNext]_auditScrollVars /\ [AnomalyListNext]_anomalyListVars
         /\ [DashboardDataNext]_dashboardDataVars /\ [IamConsoleNext]_iamConsoleVars
  BY DEF Next, OfConnection, OfRefresh, OfFeedback, OfDrilldown, OfLedger, OfAnomalies, OfData,
         OfIam, dashboardVars, listVars, dataVars

(* Each part of the composition behaves as its own specification says.     *)
THEOREM PartsBehave ==
  Spec => /\ LiveConnectionSpec /\ LiveRefreshSpec /\ FeedbackSpec /\ DrilldownSpec
          /\ AuditScrollSpec /\ AnomalyListSpec /\ DashboardDataSpec /\ IamConsoleSpec
  <1>1. Init => /\ LiveConnectionInit /\ LiveRefreshInit /\ FeedbackInit /\ DrilldownInit
                /\ AuditScrollInit /\ AnomalyListInit /\ DashboardDataInit /\ IamConsoleInit
    BY DEF Init
  <1>2. [Next]_dashboardVars =>
          /\ [LiveConnectionNext]_liveConnectionVars /\ [LiveRefreshNext]_liveRefreshVars
          /\ [FeedbackNext]_feedbackVars /\ [DrilldownNext]_drilldownVars
          /\ [AuditScrollNext]_auditScrollVars /\ [AnomalyListNext]_anomalyListVars
          /\ [DashboardDataNext]_dashboardDataVars /\ [IamConsoleNext]_iamConsoleVars
    BY StepsOfParts
  <1> QED BY <1>1, <1>2, PTL
          DEF Spec, LiveConnectionSpec, LiveRefreshSpec, FeedbackSpec, DrilldownSpec,
              AuditScrollSpec, AnomalyListSpec, DashboardDataSpec, IamConsoleSpec

(* However the user, the timers and the answers interleave: one socket,    *)
(* true toasts, lists, menus, cards and counts (which the heat map does not*)
(* read), and dialogs that close for a reason.  The path of three menus can have a hole, two have none.  *)
THEOREM DashboardIsTrue ==
  ASSUME Menus <= 2
  PROVE  Spec => []DashboardInv
  <1>1. /\ LiveConnectionTypeOK /\ OneSocket /\ EachWaitIsOneSecond /\ LiveRefreshTypeOK
        /\ FeedbackTypeOK /\ SuccessMeansRow /\ ErrorMeansNoRow
        /\ DrilldownTypeOK /\ SettledMeansCurrent /\ (Menus <= 2 => NoHoles)
        /\ AuditScrollTypeOK /\ AnomalyListTypeOK /\ ListIsForInputs /\ ChoiceStays
        /\ DashboardDataTypeOK /\ CellsApart /\ CardsAreNewest /\ HighAlertIsCounted
        /\ IamConsoleTypeOK /\ ClosedByAnswer /\ OpenIsUnanswered
        => DashboardInv
    BY DEF DashboardInv
  <1> QED BY <1>1, PartsBehave, ConnectionIsOne, RefreshIsQuiet, ToastsAreTrue, MenusAreCurrent,
             ScrollsAreThrottled, ListIsTrue, OverviewIsTrue, DialogsCloseForAReason, PTL

(* Nothing is fetched for updates that left the page, and scrolling on     *)
(* while a page is fetched starts no second fetch of it, in every          *)
(* behaviour of the dashboard and for any number of menus.                 *)
THEOREM DashboardIsQuiet == Spec => QuietAfterUnmount /\ OnlyStaleRestarts
  BY PartsBehave, RefreshIsQuiet, ScrollsAreThrottled, PTL
=============================================================================
