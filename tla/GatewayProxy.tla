---------------------------- MODULE GatewayProxy ----------------------------
(***************************************************************************)
(* src/api-gateway: each service route (routes/*.ts) forwards its requests *)
(* to one upstream through a handler and a circuit breaker of its own      *)
(* (lib/proxy.ts).  A 5xx, a network error, ten seconds without an answer, *)
(* and a 2xx body that is no JSON or does not fit the route's schema all   *)
(* count as failures of the upstream and are answered with 503.            *)
(*                                                                         *)
(* The breaker (opossum), from how the code sets it up: it opens when more *)
(* than half of the calls of its window failed, turns half open after its  *)
(* reset time, lets one call through, and closes on a success.             *)
(*                                                                         *)
(* All routes live in one process: a request to a route whose service has  *)
(* no URL ends it, with every breaker and every request in flight, and     *)
(* nothing in the repository starts it again.                              *)
(***************************************************************************)
EXTENDS Integers, FiniteSets

CONSTANTS
  Requests,    \* slots: requests in flight at once, each used again and again
  Routes,      \* alerts, sessions, users, soar, ledger
  Endpoints,   \* per route, the endpoints its upstream serves
  Fits,        \* endpoints whose 2xx body fits the schema of their route
  Configured,  \* routes whose service URL is set
  None,
  MaxFires     \* bound: calls counted in one window

ASSUME GatewayProxyAssumption ==
  /\ None \notin Requests /\ IsFiniteSet(Requests) /\ MaxFires \in Nat \ {0}
  /\ Configured \subseteq Routes

VARIABLES
  process,          \* "up" or "ended"
  up,               \* configured routes whose upstream answers: in time, JSON, no 5xx
  breaker,          \* per breaker: "closed", "open" or "half"
  trial,            \* per breaker, half open: the one call is still to come
  fires, failures,  \* per breaker, calls and failures of its window
  call,             \* per request, its route and endpoint until it is answered, or None
  blamed,           \* routes with an upstream failure so far (history)
  denied,           \* routes of which a request was answered 503 so far (history)
  lost              \* routes of which a request was never answered (history)

stats   == <<fires, failures>>
history == <<blamed, denied, lost>>
gatewayProxyVars == <<process, up, breaker, trial, stats, call, history>>

GatewayProxyInit ==
  /\ process = "up" /\ up \in SUBSET Configured
  /\ breaker = [q \in Routes |-> "closed"] /\ trial = [q \in Routes |-> FALSE]
  /\ fires = [q \in Routes |-> 0] /\ failures = [q \in Routes |-> 0]
  /\ call = [r \in Requests |-> None]
  /\ blamed = {} /\ denied = {} /\ lost = {}

BreakerOf_Shared(q) == CHOOSE p \in Routes : TRUE

(* createProxyHandler makes a breaker for every route.                     *)
BreakerOf(q) == q

RouteOf(r) == call[r][1]

-----------------------------------------------------------------------------
Admits(b) == breaker[b] = "closed" \/ (breaker[b] = "half" /\ trial[b])

(* breaker.fire: a refused call gets the fallback, 503, and counts as a    *)
(* call.                                                                   *)
Fire(r, q, x) ==
  LET b == BreakerOf(q) IN
  /\ process = "up" /\ call[r] = None /\ q \in Configured /\ x \in Endpoints[q] /\ fires[b] < MaxFires
  /\ fires' = [fires EXCEPT ![b] = @ + 1]
  /\ trial' = [trial EXCEPT ![b] = FALSE]
  /\ IF Admits(b)
     THEN call' = [call EXCEPT ![r] = <<q, x>>] /\ UNCHANGED denied
     ELSE denied' = denied \cup {q} /\ UNCHANGED call
  /\ UNCHANGED <<process, up, breaker, failures, blamed, lost>>

RoutesInFlight == {RouteOf(r) : r \in {x \in Requests : call[x] # None}}

(* Without a service URL, new URL throws before the try in a handler whose *)
(* promise nobody awaits: Node ends the process on the rejection, and no   *)
(* request in flight is answered.                                          *)
NoUrl(q) ==
  /\ process = "up" /\ q \notin Configured
  /\ process' = "ended" /\ lost' = lost \cup {q} \cup RoutesInFlight
  /\ call' = [r \in Requests |-> None]
  /\ breaker' = [p \in Routes |-> "closed"] /\ trial' = [p \in Routes |-> FALSE]
  /\ fires' = [p \in Routes |-> 0] /\ failures' = [p \in Routes |-> 0]
  /\ UNCHANGED <<up, blamed, denied>>

Ends(r) == call' = [call EXCEPT ![r] = None]

Succeeds_StaysHalf(b) == UNCHANGED breaker

Succeeds(b) == breaker' = [breaker EXCEPT ![b] = IF @ = "half" THEN "closed" ELSE @]

Opens(b) == breaker[b] = "half" \/ failures'[b] * 100 > 50 * fires[b]

(* A timeout is counted when its call may have left the window already.    *)
Fails(r) ==
  LET b == BreakerOf(RouteOf(r)) IN
  /\ failures' = [failures EXCEPT ![b] = @ + 1]
  /\ breaker' = [breaker EXCEPT ![b] = IF Opens(b) THEN "open" ELSE @]
  /\ blamed' = blamed \cup {RouteOf(r)} /\ denied' = denied \cup {RouteOf(r)}
  /\ Ends(r) /\ UNCHANGED <<process, up, trial, fires, lost>>

(* The upstream answers 2xx with a body that fits or none, or it answers   *)
(* 4xx: passed on, and a success of the breaker.                           *)
Passed(r) ==
  /\ call[r] # None /\ RouteOf(r) \in up
  /\ Succeeds(BreakerOf(RouteOf(r))) /\ Ends(r)
  /\ UNCHANGED <<process, up, trial, stats, history>>

(* A 2xx body that the schema of the route does not admit.                 *)
Misfits(r) == call[r] # None /\ RouteOf(r) \in up /\ call[r][2] \notin Fits /\ Fails(r)

(* 5xx, an error, or the breaker's timeout and the fetch's abort: both are *)
(* ten seconds, and whatever the upstream did is not seen.                 *)
UpstreamFails(r) == call[r] # None /\ RouteOf(r) \notin up /\ Fails(r)

-----------------------------------------------------------------------------
(* resetTimeout is over.                                                   *)
ResetTimeout(b) ==
  /\ breaker[b] = "open"
  /\ breaker' = [breaker EXCEPT ![b] = "half"] /\ trial' = [trial EXCEPT ![b] = TRUE]
  /\ UNCHANGED <<process, up, stats, call, history>>

Rolled(b) == [failures EXCEPT ![b] = 0]

(* The statistics' window of ten seconds moves on.                         *)
Roll(b) ==
  /\ fires[b] + failures[b] > 0
  /\ fires' = [fires EXCEPT ![b] = 0] /\ failures' = Rolled(b)
  /\ UNCHANGED <<process, up, breaker, trial, call, history>>

Upstream ==
  /\ \E q \in Configured : up' \in {up \cup {q}, up \ {q}} \ {up}
  /\ UNCHANGED <<process, breaker, trial, stats, call, history>>

Step(r) == Passed(r) \/ Misfits(r) \/ UpstreamFails(r)

Arrives(q) == \E r \in Requests, x \in Endpoints[q] : Fire(r, q, x)

GatewayProxyNext ==
  \/ Upstream
  \/ \E q \in Routes : ResetTimeout(q) \/ Roll(q) \/ Arrives(q) \/ NoUrl(q)
  \/ \E r \in Requests : Step(r)

GatewayProxySpec == GatewayProxyInit /\ [][GatewayProxyNext]_gatewayProxyVars

-----------------------------------------------------------------------------
(* Every variable has its type; failures are counted per window.           *)
GatewayProxyTypeOK ==
  /\ process \in {"up", "ended"} /\ up \subseteq Configured
  /\ blamed \cup denied \subseteq Configured /\ lost \subseteq Routes
  /\ breaker \in [Routes -> {"closed", "open", "half"}] /\ trial \in [Routes -> BOOLEAN]
  /\ fires \in [Routes -> 0 .. MaxFires]
  /\ failures \in [Routes -> 0 .. MaxFires + Cardinality(Requests)]
  /\ \A r \in Requests : call[r] # None => call[r][2] \in Endpoints[RouteOf(r)]

(* The failures of one upstream never cost another's requests: a route     *)
(* that is answered with 503 has seen a failure of its own upstream        *)
(* (lines 20-39).  What costs every route its requests is a route whose    *)
(* service has no URL (line 42): where all have one, no request stays      *)
(* without an answer.                                                      *)
RoutesAreIsolated == denied \subseteq blamed /\ (Configured = Routes => lost = {})

(* When an upstream recovers for good, all of whose endpoints fit, its     *)
(* breaker closes for good, however many failures came before it, unless   *)
(* the process ends.                                                       *)
BreakerRecovers ==
  \A q \in Configured :
    Endpoints[q] \subseteq Fits /\ <>[](q \in up /\ process = "up") => <>[](breaker[q] = "closed")
=============================================================================
