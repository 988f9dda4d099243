--------------------------- MODULE GatewaySocket ----------------------------
(***************************************************************************)
(* src/api-gateway/src/lib/socket.ts: the gateway's socket.io server.  A   *)
(* middleware of the root namespace notes when each socket was last heard, *)
(* and a sweep of every minute disconnects the idle sockets of the         *)
(* namespace '/socket', which it creates by naming it.                     *)
(***************************************************************************)
EXTENDS Integers

CONSTANTS
  Sockets, Never,
  IdleLimit,  \* 30 minutes, in ticks
  MaxTime     \* bound: how long the clock runs

ASSUME SocketAssumption == IdleLimit \in Nat /\ MaxTime \in Nat /\ Never \notin Nat

VARIABLES
  now,
  namespaces,    \* those the server knows
  namespace,     \* per socket, the one it is in, or "none"
  lastActivity,  \* socket.data.lastActivity, Never when it was not set
  heard,         \* when the socket connected or last sent an event (history)
  swept          \* the sweep's last run

gatewaySocketVars == <<now, namespaces, namespace, lastActivity, heard, swept>>

GatewaySocketInit ==
  /\ now = 0 /\ swept = 0
  /\ namespaces = {"/"} /\ namespace = [s \in Sockets |-> "none"]
  /\ lastActivity = [s \in Sockets |-> Never] /\ heard = [s \in Sockets |-> 0]

-----------------------------------------------------------------------------
(* io.use is the middleware of the root namespace only.                    *)
Tracked(n) == n = "/"

(* A client asks for a namespace; one the server does not know is refused. *)
Connect(s, n) ==
  /\ namespace[s] = "none" /\ n \in namespaces
  /\ namespace' = [namespace EXCEPT ![s] = n]
  /\ lastActivity' = [lastActivity EXCEPT ![s] = IF Tracked(n) THEN now ELSE Never]
  /\ heard' = [heard EXCEPT ![s] = now]
  /\ UNCHANGED <<now, namespaces, swept>>

(* onAny, where the middleware has set it.                                 *)
Receive(s) ==
  /\ namespace[s] # "none"
  /\ lastActivity' = [lastActivity EXCEPT ![s] = IF Tracked(namespace[s]) THEN now ELSE @]
  /\ heard' = [heard EXCEPT ![s] = now]
  /\ UNCHANGED <<now, namespaces, namespace, swept>>

Leave(s) ==
  /\ namespace[s] # "none"
  /\ namespace' = [namespace EXCEPT ![s] = "none"]
  /\ UNCHANGED <<now, namespaces, lastActivity, heard, swept>>

(* Date.now() - undefined is NaN, which is greater than nothing.           *)
Idle(s) == lastActivity[s] # Never /\ now - lastActivity[s] > IdleLimit

Sweep ==
  /\ swept < now /\ swept' = now
  /\ namespaces' = namespaces \cup {"/socket"}
  /\ namespace' = [s \in Sockets |-> IF namespace[s] = "/socket" /\ Idle(s) THEN "none"
                                     ELSE namespace[s]]
  /\ UNCHANGED <<now, lastActivity, heard>>

Tick ==
  /\ now < MaxTime /\ now' = now + 1
  /\ UNCHANGED <<namespaces, namespace, lastActivity, heard, swept>>

-----------------------------------------------------------------------------
GatewaySocketNext ==
  \/ Tick \/ Sweep
  \/ \E s \in Sockets : Receive(s) \/ Leave(s) \/ \E n \in {"/", "/socket"} : Connect(s, n)

GatewaySocketSpec == GatewaySocketInit /\ [][GatewaySocketNext]_gatewaySocketVars

-----------------------------------------------------------------------------
(* Every variable has its type, and the middleware has marked exactly the  *)
(* sockets of the root namespace.                                          *)
GatewaySocketTypeOK ==
  /\ {now, swept} \subseteq 0 .. MaxTime /\ namespaces \subseteq {"/", "/socket"}
  /\ namespace \in [Sockets -> {"none"} \cup namespaces]
  /\ lastActivity \in [Sockets -> 0 .. MaxTime \cup {Never}]
  /\ heard \in [Sockets -> 0 .. MaxTime]
  /\ \A s \in Sockets : namespace[s] = "/" => lastActivity[s] = heard[s]

(* The sweep disconnects no socket that was heard within the limit, in     *)
(* either namespace: a missing mark does not make a socket idle.           *)
ActiveStays ==
  [][Sweep => \A s \in Sockets :
                now - heard[s] <= IdleLimit => namespace'[s] = namespace[s]]_gatewaySocketVars
=============================================================================
