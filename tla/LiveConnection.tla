--------------------------- MODULE LiveConnection ---------------------------
(***************************************************************************)
(* src/ui-dashboard/hooks/useWebSocket.ts as its two callers use it        *)
(* (components/LiveUpdates.tsx:24, pages/Dashboard.tsx:125): both pass     *)
(* onMessage as a function written in place, so that every render runs the *)
(* hook's effect again.  A socket is in the hands of socket.io: it opens,  *)
(* is refused, drops, and after a failure of the transport tries again by  *)
(* itself, until the hook disconnects it.                                  *)
(***************************************************************************)
EXTENDS Integers

CONSTANTS
  Ids, NoSocket,                   \* sockets; one that was disconnected is used again
  MaxDrops, MaxErrors, MaxRenders  \* bounds on what the network and the caller do

ASSUME SocketAssumption ==
  /\ NoSocket \notin Ids /\ \E s, t \in Ids : s # t
  /\ MaxDrops \in Nat /\ MaxErrors \in Nat /\ MaxRenders \in Nat

VARIABLES
  hookMounted,  \* whether the calling component is on the page
  sockets,      \* per socket: "closed", "connecting", "retrying", "refused" or "open"
  ref,          \* socketRef.current, or NoSocket
  connected,    \* the hook's state
  error,        \* whether the hook's state holds an error
  dirty,        \* a render is due
  delay,        \* reconnectDelay.current, in seconds
  timers,       \* timeouts that run: of which drop, how long, whether its effect is current
  drops, errors, renders

hook == <<hookMounted, ref, connected, error, dirty, delay, timers>>
env  == <<drops, errors, renders>>
liveConnectionVars == <<hook, sockets, env>>

LiveConnectionInit ==
  /\ hookMounted = FALSE /\ connected = FALSE /\ error = FALSE /\ dirty = FALSE
  /\ sockets = [s \in Ids |-> "closed"] /\ ref = NoSocket
  /\ delay = 1 /\ timers = {}
  /\ drops = 0 /\ errors = 0 /\ renders = 0

-----------------------------------------------------------------------------
(* cleanup: socketRef.current is left without listeners and disconnected.  *)
Cleanup == [s \in Ids |-> IF s = ref THEN "closed" ELSE sockets[s]]

FreshSocket == CHOOSE s \in Ids : sockets[s] = "closed"

(* connect: cleanup first, then a new socket.                              *)
Connect ==
  /\ sockets' = [Cleanup EXCEPT ![FreshSocket] = "connecting"]
  /\ ref' = FreshSocket

(* The effect is undone: the timeouts it started find isMounted FALSE.     *)
Outdated == {[t EXCEPT !.current = FALSE] : t \in timers}

Mount ==
  /\ ~hookMounted /\ hookMounted' = TRUE
  /\ connected' = FALSE /\ error' = FALSE /\ dirty' = FALSE /\ delay' = 1
  /\ Connect
  /\ UNCHANGED <<timers, env>>

UnmountHook ==
  /\ hookMounted /\ hookMounted' = FALSE
  /\ sockets' = Cleanup
  /\ ref' = NoSocket /\ timers' = Outdated
  /\ UNCHANGED <<connected, error, dirty, delay, env>>

(* onMessage is another function: the effect is undone and run again.      *)
RenderHook ==
  /\ hookMounted /\ dirty /\ dirty' = FALSE
  /\ Connect /\ timers' = Outdated
  /\ UNCHANGED <<hookMounted, connected, error, delay, env>>

(* The page renders the component for a reason of its own: new query data. *)
CallerRenders ==
  /\ hookMounted /\ renders < MaxRenders
  /\ dirty' = TRUE /\ renders' = renders + 1
  /\ UNCHANGED <<hookMounted, sockets, ref, connected, error, delay, timers, drops, errors>>

-----------------------------------------------------------------------------
(* The delay after a successful connection.                                *)
OnConnect == 1

Opens(s) ==
  /\ sockets[s] \in {"connecting", "retrying"}
  /\ sockets' = [sockets EXCEPT ![s] = "open"]
  /\ connected' = TRUE /\ error' = FALSE /\ delay' = OnConnect
  /\ dirty' = (dirty \/ ~connected \/ error)
  /\ UNCHANGED <<hookMounted, ref, timers, env>>

(* A new Error object each time: there is always a render.                 *)
OnConnectError == error' = TRUE /\ dirty' = TRUE

(* The server cannot be reached, and socket.io tries again; or it refuses  *)
(* the namespace, and socket.io does not.                                  *)
ConnectFails(s) ==
  /\ sockets[s] \in {"connecting", "retrying"}
  /\ errors < MaxErrors /\ errors' = errors + 1
  /\ \E to \in {"retrying", "refused"} : sockets' = [sockets EXCEPT ![s] = to]
  /\ OnConnectError
  /\ UNCHANGED <<hookMounted, ref, connected, delay, timers, drops, renders>>

OnDisconnect ==
  /\ timers' = timers \cup {[drop |-> drops, delay |-> delay, current |-> TRUE]}
  /\ delay' = IF 2 * delay > 30 THEN 30 ELSE 2 * delay

(* The transport is lost, or the server disconnects the socket.            *)
Drops(s) ==
  /\ sockets[s] = "open"
  /\ drops < MaxDrops /\ drops' = drops + 1
  /\ \E to \in {"retrying", "refused"} : sockets' = [sockets EXCEPT ![s] = to]
  /\ connected' = FALSE /\ dirty' = (dirty \/ connected)
  /\ OnDisconnect
  /\ UNCHANGED <<hookMounted, ref, error, errors, renders>>

Fires_Always(t) == TRUE

Fires(t) == t.current

TimeoutFires(t) ==
  /\ timers' = timers \ {t}
  /\ IF Fires(t) THEN Connect ELSE UNCHANGED <<sockets, ref>>
  /\ UNCHANGED <<hookMounted, connected, error, dirty, delay, env>>

-----------------------------------------------------------------------------
LiveConnectionNext ==
  \/ Mount \/ UnmountHook \/ RenderHook \/ CallerRenders
  \/ \E s \in Ids : Opens(s) \/ ConnectFails(s) \/ Drops(s)
  \/ \E t \in timers : TimeoutFires(t)

LiveConnectionSpec == LiveConnectionInit /\ [][LiveConnectionNext]_liveConnectionVars

(* React renders what is due, timeouts fire, and an attempt that does not  *)
(* fail succeeds: the errors are bounded, the server is up in the end.     *)
HookProgress ==
  \/ RenderHook
  \/ \E t \in timers : TimeoutFires(t)
  \/ \E s \in Ids : Opens(s)

-----------------------------------------------------------------------------
Live == {s \in Ids : sockets[s] # "closed"}

(* Every variable has its type.                                            *)
LiveConnectionTypeOK ==
  /\ {hookMounted, connected, error, dirty} \subseteq BOOLEAN
  /\ sockets \in [Ids -> {"closed", "connecting", "retrying", "refused", "open"}]
  /\ ref \in Ids \cup {NoSocket} /\ delay \in 1 .. 30
  /\ timers \subseteq [drop : 0 .. MaxDrops, delay : 1 .. 30, current : BOOLEAN]

(* However renders, timeouts, drops and unmounting interleave, the hook    *)
(* holds one socket and has let go of every other: a second one would      *)
(* deliver each event twice, and one left after unmounting would never     *)
(* end.                                                                    *)
OneSocket == Live = IF hookMounted THEN {ref} ELSE {}

(* A drop needs a connection, and a connection resets the delay: the       *)
(* doubling never shows, and each timeout waits one second.                *)
EachWaitIsOneSecond == \A t \in timers : t.delay = 1

(* Whatever failed, refusals socket.io does not retry included, a hook     *)
(* that stays mounted is connected in the end.                             *)
Reconnects == hookMounted ~> (~hookMounted \/ \E s \in Ids : sockets[s] = "open")
=============================================================================
