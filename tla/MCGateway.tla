------------------------------ MODULE MCGateway ------------------------------
(***************************************************************************)
(* Three parts of src/api-gateway that share no state: the proxies with    *)
(* their breakers, the layers a request passes, and the socket server.  A  *)
(* behaviour is a behaviour of one of them while the others rest at a      *)
(* state they may begin in.                                                *)
(***************************************************************************)
EXTENDS GatewayProxy, GatewayRequest, GatewaySocket, TLC

CONSTANTS alerts, soar, ledger, item, list, record, a2

VARIABLE part

(* alerts serves an item, which fits AlertSchema, and a list, which is an  *)
(* array and does not; soar's schema is z.any(); ledger has no URL.        *)
MCEndpoints == (alerts :> {item, list}) @@ (soar :> {record}) @@ (ledger :> {record})

(* The services in the order of createApp.                                 *)
MCServices == <<"alerts", "soar", "ledger">>
MCLedger == "ledger"

(* Here soar has no URL, and one of the requests asks for it.              *)
MCWithUrl == {"alerts", "ledger"}

-----------------------------------------------------------------------------
gatewayVars == <<part, gatewayProxyVars, gatewayRequestVars, gatewaySocketVars>>

Init ==
  /\ part \in {"proxy", "layers", "socket"}
  /\ part # "proxy" => up = Configured
  /\ part # "layers" => /\ path = [r \in Arrivals |-> "public"]
                        /\ token = [r \in Arrivals |-> "none"]
                        /\ usage = [r \in Arrivals |-> "none"]
  /\ GatewayProxyInit /\ GatewayRequestInit /\ GatewaySocketInit
  /\ part = "layers" => path[a2] = "soar" /\ token[a2] = "good" /\ usage[a2] = "none"

(* An action of one part; the others rest.                                 *)
OfProxy(A) == part = "proxy" /\ A /\ UNCHANGED <<part, gatewayRequestVars, gatewaySocketVars>>

OfLayers(A) == part = "layers" /\ A /\ UNCHANGED <<part, gatewayProxyVars, gatewaySocketVars>>

OfSocket(A) == part = "socket" /\ A /\ UNCHANGED <<part, gatewayProxyVars, gatewayRequestVars>>

Next ==
  \/ OfProxy(GatewayProxyNext)
  \/ OfLayers(GatewayRequestNext)
  \/ OfSocket(GatewaySocketNext)

Spec == Init /\ [][Next]_gatewayVars

(* The breakers' timers run, every call is answered or timed out, requests *)
(* keep coming to every route that has a URL, and each layer calls the     *)
(* next.                                                                   *)
FairSpec ==
  /\ Spec
  /\ \A r \in Requests : WF_gatewayVars(OfProxy(Step(r)))
  /\ \A q \in Configured :
       /\ WF_gatewayVars(OfProxy(ResetTimeout(q))) /\ WF_gatewayVars(OfProxy(Roll(q)))
       /\ SF_gatewayVars(OfProxy(Arrives(q)))
  /\ WF_gatewayVars(OfLayers(LayerProgress))

-----------------------------------------------------------------------------
(* A route answers 503 only after a failure of its own upstream, whatever  *)
(* the others do; a forwarded request is counted unless its client left;   *)
(* and only admitted ones are stored (api-gateway/src/lib,                 *)
(* api-gateway/src/middleware).                                            *)
GatewayInv ==
  /\ GatewayProxyTypeOK /\ RoutesAreIsolated
  /\ GatewayRequestTypeOK /\ ForwardedIsCounted /\ OnlyAdmittedIsStored
  /\ GatewaySocketTypeOK

(* A breaker closes again after its upstream has recovered, every request  *)
(* that was accepted is handled to its end or cut off with the process,    *)
(* and no active socket is swept.                                          *)
GatewayRecovers == BreakerRecovers /\ EveryRequestEnds /\ ActiveStays
=============================================================================
