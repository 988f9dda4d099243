--------------------------- MODULE GatewayRequest ---------------------------
(***************************************************************************)
(* src/api-gateway/src/server.ts: the way of a request through the layers  *)
(* of the gateway: the public routes, the token (middleware/auth.ts), the  *)
(* usage header (openaiUsage.ts), then each service's counter              *)
(* (metrics.ts) and routes in turn, and the token once more before the     *)
(* upstream is called.  The counters of the layers a request has passed    *)
(* count it when its answer is finished.  The module describes one run of  *)
(* the process, to its end.                                                *)
(***************************************************************************)
EXTENDS Integers, Sequences, SequencesExt

CONSTANTS
  Arrivals,
  Services,  \* in the order in which createApp mounts them
  WithUrl,   \* those whose URL is set
  Ledger     \* the service whose routes carry a counter of their own

ASSUME GatewayRequestAssumption == Services \in Seq(Range(Services))

VARIABLES
  path,       \* per request: a service, "log-event" of the ledger, "public" or "unknown"
  token,      \* per request: "none", "bad" or "good"; a good one may turn "expired"
  usage,      \* per request, its usage header: "none", "malformed" or "good"
  stage,      \* per request, where it stands
  layer,      \* per request, the service layer it is in
  counters,   \* per request, the counters that wait for its end: a sequence
  counted,    \* per request, api_gateway_requests_total: labels it was counted under
  rows,       \* openai_usage: requests with a row
  forwarded,  \* requests that reached their proxy handler (history)
  left,       \* requests whose client went away before the answer
  server      \* "up", "closing" or "exited"

input == <<path, usage>>
world == <<rows, forwarded, left, server>>
gatewayRequestVars == <<input, token, stage, layer, counters, counted, world>>

Paths == Range(Services) \cup {"log-event", "public", "unknown"}

GatewayRequestInit ==
  /\ path \in [Arrivals -> Paths]
  /\ token \in [Arrivals -> {"none", "bad", "good"}]
  /\ usage \in [Arrivals -> {"none", "malformed", "good"}]
  /\ stage = [r \in Arrivals |-> "idle"] /\ layer = [r \in Arrivals |-> 0]
  /\ counters = [r \in Arrivals |-> <<>>] /\ counted = [r \in Arrivals |-> <<>>]
  /\ rows = {} /\ forwarded = {} /\ left = {} /\ server = "up"

Enter(r, p) == stage' = [stage EXCEPT ![r] = p]

Target(r) == IF path[r] = "log-event" THEN Ledger ELSE path[r]

-----------------------------------------------------------------------------
Finished == {"ok", "400", "401", "404", "upstream_error"}

(* 'finish': every counter that waits counts.  req.path is read then, when *)
(* the router has cut the service's prefix off for all of them.  A client  *)
(* that left gets 'close' instead, and nothing counts its request.         *)
Finish(r, s) ==
  /\ Enter(r, s)
  /\ counted' = [counted EXCEPT ![r] = IF r \in left THEN @ ELSE counters[r]]
  /\ UNCHANGED counters

NotYet == UNCHANGED counted

(* express.json answers a body it cannot parse before any route is tried.  *)
Accept(r) ==
  /\ stage[r] = "idle" /\ server = "up"
  /\ \/ Finish(r, "400")
     \/ path[r] = "public" /\ Finish(r, "ok")
     \/ path[r] # "public" /\ Enter(r, "auth") /\ NotYet /\ UNCHANGED counters
  /\ UNCHANGED <<input, token, layer, world>>

(* A bearer token that verifies, not expired by more than the clock skew,  *)
(* with a payload that fits.                                               *)
Admitted(r) == token[r] = "good"

Auth(r) ==
  /\ stage[r] = "auth"
  /\ IF Admitted(r) THEN Enter(r, "usage") /\ NotYet /\ UNCHANGED counters
     ELSE Finish(r, "401")
  /\ UNCHANGED <<input, token, layer, world>>

(* A usage header that fits is stored; the insert is not awaited, and may  *)
(* fail unnoticed.                                                         *)
OpenaiUsage(r) ==
  /\ stage[r] = "usage"
  /\ \/ rows' = rows
     \/ usage[r] = "good" /\ rows' = rows \cup {r}
  /\ Enter(r, "layer") /\ layer' = [layer EXCEPT ![r] = 1]
  /\ NotYet /\ UNCHANGED <<input, token, counters, forwarded, left, server>>

(* The counter that trackRoute hangs on the response, before next().       *)
Entered(r, i) == <<Services[i]>>

(* trackRoute is mounted without a path: every request that comes by has   *)
(* its counter, and goes on unless the service is its own; the routes of   *)
(* the ledger count once more.                                             *)
TrackRoute(r) ==
  LET i == layer[r] IN
  /\ stage[r] = "layer" /\ i <= Len(Services)
  /\ IF Target(r) = Services[i]
     THEN /\ Enter(r, "second_auth") /\ UNCHANGED layer
          /\ counters' = [counters EXCEPT ![r] = @ \o Entered(r, i)
                            \o IF Services[i] = Ledger THEN <<Ledger>> ELSE <<>>]
     ELSE /\ layer' = [layer EXCEPT ![r] = i + 1] /\ UNCHANGED stage
          /\ counters' = [counters EXCEPT ![r] = @ \o Entered(r, i)]
  /\ NotYet /\ UNCHANGED <<input, token, world>>

NotFound(r) ==
  /\ stage[r] = "layer" /\ layer[r] > Len(Services)
  /\ Finish(r, "404")
  /\ UNCHANGED <<input, token, layer, world>>

SecondAuth(r) ==
  /\ stage[r] = "second_auth"
  /\ IF Admitted(r)
     THEN Enter(r, "proxy") /\ forwarded' = forwarded \cup {r} /\ NotYet /\ UNCHANGED counters
     ELSE Finish(r, "401") /\ UNCHANGED forwarded
  /\ UNCHANGED <<input, token, layer, rows, left, server>>

(* The process ends, whatever is still under way.                          *)
Exit ==
  /\ server' = "exited"
  /\ stage' = [r \in Arrivals |->
                 IF stage[r] \in Finished \cup {"idle"} THEN stage[r] ELSE "cut"]

Proxy(r) ==
  /\ stage[r] = "proxy" /\ Target(r) \in WithUrl
  /\ \E s \in {"ok", "upstream_error"} : Finish(r, s)
  /\ UNCHANGED <<input, token, layer, world>>

(* A service without a URL: the handler's promise is rejected, nobody      *)
(* handles that, and Node ends the process.                                *)
ProxyThrows(r) ==
  /\ stage[r] = "proxy" /\ Target(r) \notin WithUrl
  /\ Exit
  /\ UNCHANGED <<input, token, layer, counters, counted, rows, forwarded, left>>

(* The client closes its connection; its request goes on to the end.       *)
Leaves(r) ==
  /\ stage[r] \notin Finished \cup {"idle", "cut"} /\ r \notin left
  /\ left' = left \cup {r}
  /\ UNCHANGED <<input, token, stage, layer, counters, counted, rows, forwarded, server>>

Expire(r) ==
  /\ token[r] = "good" /\ token' = [token EXCEPT ![r] = "expired"]
  /\ UNCHANGED <<input, stage, layer, counters, counted, world>>

(* SIGTERM: the server takes no more requests, and exits 100 ms later.     *)
Shutdown ==
  /\ \/ server = "up" /\ server' = "closing" /\ UNCHANGED stage
     \/ server = "closing" /\ Exit
  /\ UNCHANGED <<input, token, layer, counters, counted, rows, forwarded, left>>

-----------------------------------------------------------------------------
LayerStep(r) ==
  \/ Auth(r) \/ OpenaiUsage(r) \/ TrackRoute(r) \/ NotFound(r) \/ SecondAuth(r)
  \/ Proxy(r) \/ ProxyThrows(r)

GatewayRequestNext ==
  \/ Shutdown
  \/ \E r \in Arrivals : Accept(r) \/ Expire(r) \/ Leaves(r) \/ LayerStep(r)

GatewayRequestSpec == GatewayRequestInit /\ [][GatewayRequestNext]_gatewayRequestVars

(* Each layer calls the next, and the proxy answers within its timeout or  *)
(* throws.                                                                 *)
LayerProgress == \E r \in Arrivals : LayerStep(r)

-----------------------------------------------------------------------------
(* Every variable has its type; a request is counted once by each service  *)
(* whose layer it passed, and by the ledger once more.                     *)
GatewayRequestTypeOK ==
  /\ path \in [Arrivals -> Paths] /\ token \in [Arrivals -> {"none", "bad", "good", "expired"}]
  /\ usage \in [Arrivals -> {"none", "malformed", "good"}]
  /\ stage \in [Arrivals -> Finished \cup
                              {"idle", "auth", "usage", "layer", "second_auth", "proxy", "cut"}]
  /\ layer \in [Arrivals -> 0 .. Len(Services) + 1]
  /\ \A r \in Arrivals : Len(counters[r]) <= Len(Services) + 1
  /\ \A r \in Arrivals : Range(counters[r]) \cup Range(counted[r]) \subseteq Range(Services)
  /\ rows \subseteq Arrivals /\ forwarded \subseteq Arrivals /\ left \subseteq Arrivals
  /\ server \in {"up", "closing", "exited"}

(* A request that reached its proxy is, once answered, among the requests  *)
(* of its service, whatever layers it passed; one whose client left before *)
(* is counted nowhere, though it was forwarded (metrics.ts:51-67).         *)
ForwardedIsCounted ==
  \A r \in forwarded :
    stage[r] \in Finished => (Target(r) \in Range(counted[r]) <=> r \notin left)

(* A request is stored as usage or forwarded only if its token was good    *)
(* once: expiring on the way may stop it, and nothing lets another by.     *)
OnlyAdmittedIsStored ==
  \A r \in rows \cup forwarded : token[r] \in {"good", "expired"} /\ path[r] # "public"

(* Every request is handled to its end, or cut off by the exit: of its own *)
(* process after a signal, or because some request asked for a service     *)
(* that has no URL.                                                        *)
EveryRequestEnds == \A r \in Arrivals : stage[r] # "idle" ~> stage[r] \in Finished \cup {"cut"}
=============================================================================
