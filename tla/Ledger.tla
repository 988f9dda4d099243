------------------------------- MODULE Ledger -------------------------------
(***************************************************************************)
(* src/ledger-service: a request takes the shared Fabric gateway, made by  *)
(* the first one that needs it, and submits LogEvent or evaluates          *)
(* VerifyHash, up to three times while the error is transient              *)
(* (fabricClient.ts, routes/ledger.ts).  The chaincode stores an event     *)
(* under a hash of its run and timestamp (ledger_contract.ts).             *)
(*                                                                         *)
(* Fabric, from how the code calls it: one transaction takes effect at     *)
(* most once, and submitting it again after that is refused for good.      *)
(***************************************************************************)
EXTENDS Integers

CONSTANTS
  Requests, Events,
  Key,       \* per event, its ledger key: run and timestamp
  Attempts,  \* tries of one submission or evaluation (retries = 3)
  None,
  MaxFaults  \* bound: errors of Fabric and of the files

ASSUME LedgerAssumption ==
  None \notin Requests \cup Events /\ Attempts \in Nat \ {0} /\ MaxFaults \in Nat

Keys == {Key[v] : v \in Events}

VARIABLES
  event,        \* per request, the event it logs or verifies
  kind,         \* per request, "log" or "verify"
  gateway,      \* the module's gateway: the request that made it, or None
  live,         \* gateways whose connect has succeeded
  use,          \* per request, the gateway it holds
  pc, attempt,  \* per request, where it stands and its failed tries
  committed,    \* requests whose transaction took effect
  state,        \* world state: per key, the event stored last, or None
  lost,         \* requests that lost the answer to a submission (history)
  errors,       \* requests that met an error of Fabric or the files (history)
  faults

inputs == <<event, kind>>
fabric == <<committed, state>>
ledgerVars == <<inputs, gateway, live, use, pc, attempt, fabric, lost, errors, faults>>

LedgerInit ==
  /\ event \in [Requests -> Events] /\ kind \in [Requests -> {"log", "verify"}]
  /\ gateway = None /\ live = {}
  /\ use = [r \in Requests |-> None]
  /\ pc = [r \in Requests |-> "idle"] /\ attempt = [r \in Requests |-> 0]
  /\ committed = {} /\ state = [k \in Keys |-> None]
  /\ lost = {} /\ errors = {} /\ faults = 0

Fault(r) == faults < MaxFaults /\ faults' = faults + 1 /\ errors' = errors \cup {r}

NoFault == UNCHANGED <<errors, faults>>

Goto(r, p) == pc' = [pc EXCEPT ![r] = p]

-----------------------------------------------------------------------------
(* initGateway                                                             *)

(* A malformed request is refused; a gateway in place is taken as it is.   *)
Begin(r) ==
  /\ pc[r] = "idle"
  /\ \/ Goto(r, "400") /\ UNCHANGED use
     \/ gateway # None /\ Goto(r, "network") /\ use' = [use EXCEPT ![r] = gateway]
     \/ gateway = None /\ Goto(r, "files") /\ UNCHANGED use
  /\ NoFault /\ UNCHANGED <<inputs, gateway, live, attempt, fabric, lost>>

(* The profile and the wallet are read, then gateway is assigned, over one *)
(* that another request may have assigned meanwhile.                       *)
NewGateway(r) ==
  /\ pc[r] = "files"
  /\ \/ Goto(r, "connect") /\ gateway' = r /\ NoFault
     \/ Goto(r, "500") /\ Fault(r) /\ UNCHANGED gateway
  /\ UNCHANGED <<inputs, live, use, attempt, fabric, lost>>

Connected_NotAwaited(r) == live

Connected(r) == live \cup {r}

(* connect ends; what is returned is the module's gateway of that moment.  *)
Connect(r) ==
  /\ pc[r] = "connect"
  /\ live' = Connected(r) /\ Goto(r, "network")
  /\ use' = [use EXCEPT ![r] = gateway]
  /\ NoFault /\ UNCHANGED <<inputs, gateway, attempt, fabric, lost>>

(* A gateway that failed to connect stays.                                 *)
ConnectFails(r) ==
  /\ pc[r] = "connect" /\ Fault(r) /\ Goto(r, "500")
  /\ UNCHANGED <<inputs, gateway, live, use, attempt, fabric, lost>>

(* getNetwork raises on a gateway that is not connected, or gone.          *)
GetContract(r) ==
  /\ pc[r] = "network"
  /\ \/ use[r] \in live /\ Goto(r, kind[r]) /\ NoFault
     \/ use[r] \notin live /\ Goto(r, "500") /\ NoFault
     \/ use[r] \in live /\ Fault(r) /\ Goto(r, "500")
  /\ UNCHANGED <<inputs, gateway, live, use, attempt, fabric, lost>>

(* SIGTERM disconnects the gateway; requests still under way meet that,    *)
(* and one that comes before the exit makes another.                       *)
Disconnect ==
  /\ live # {} /\ gateway # None /\ faults < MaxFaults /\ faults' = faults + 1
  /\ live' = live \ {gateway} /\ gateway' = None
  /\ UNCHANGED <<inputs, use, pc, attempt, fabric, lost, errors>>

-----------------------------------------------------------------------------
(* logEvent: retry around submit                                           *)

Commits(r) ==
  /\ committed' = committed \cup {r}
  /\ state' = [state EXCEPT ![Key[event[r]]] = event[r]]

Submit_NewTransaction(r) ==
  /\ pc[r] = "log" /\ use[r] \in live
  /\ Commits(r) /\ Goto(r, "201")
  /\ NoFault /\ UNCHANGED <<inputs, gateway, live, use, attempt, lost>>

(* The transaction was made before the first try: it takes effect once.    *)
Submit(r) ==
  /\ pc[r] = "log" /\ use[r] \in live /\ r \notin committed
  /\ Commits(r) /\ Goto(r, "201")
  /\ NoFault /\ UNCHANGED <<inputs, gateway, live, use, attempt, lost>>

MayRetry(r) == attempt[r] < Attempts - 1

Counted(r) == attempt[r] + 1

Thrown == "500"

(* Transient errors are tried again while tries are left.                  *)
Raised(r, transient) ==
  IF transient /\ MayRetry(r)
  THEN attempt' = [attempt EXCEPT ![r] = Counted(r)] /\ UNCHANGED pc
  ELSE Goto(r, Thrown) /\ UNCHANGED attempt

(* The submission fails, or its answer does after it took effect.          *)
SubmitFails(r) ==
  /\ pc[r] = "log" /\ Fault(r)
  /\ \/ r \notin committed /\ Commits(r) /\ lost' = lost \cup {r}
     \/ UNCHANGED <<fabric, lost>>
  /\ \E transient \in BOOLEAN : Raised(r, transient)
  /\ UNCHANGED <<inputs, gateway, live, use>>

(* A transaction that took effect already is refused.                      *)
SubmitAgain(r) ==
  /\ pc[r] = "log" /\ r \in committed
  /\ Raised(r, FALSE)
  /\ NoFault /\ UNCHANGED <<inputs, gateway, live, use, fabric, lost>>

(* A connection that was cut is "unavailable": a transient error.          *)
Unavailable(r) ==
  /\ pc[r] \in {"log", "verify"} /\ use[r] \notin live
  /\ Raised(r, TRUE)
  /\ NoFault /\ UNCHANGED <<inputs, gateway, live, use, fabric, lost>>

Matches(r) == state[Key[event[r]]] = event[r]

(* verifyIntegrity: the hash of the stored event is compared with the one  *)
(* given; no record is an error, and no transient one.                     *)
Verify(r) ==
  /\ pc[r] = "verify" /\ use[r] \in live
  /\ Goto(r, CASE Matches(r)                   -> "valid"
               [] state[Key[event[r]]] = None -> "500"
               [] OTHER                       -> "invalid")
  /\ NoFault /\ UNCHANGED <<inputs, gateway, live, use, attempt, fabric, lost>>

VerifyFails(r) ==
  /\ pc[r] = "verify" /\ Fault(r)
  /\ \E transient \in BOOLEAN : Raised(r, transient)
  /\ UNCHANGED <<inputs, gateway, live, use, fabric, lost>>

-----------------------------------------------------------------------------
Step(r) ==
  \/ NewGateway(r) \/ Connect(r) \/ ConnectFails(r) \/ GetContract(r)
  \/ Submit(r) \/ SubmitFails(r) \/ SubmitAgain(r) \/ Unavailable(r)
  \/ Verify(r) \/ VerifyFails(r)

LedgerNext == Disconnect \/ \E r \in Requests : Begin(r) \/ Step(r)

LedgerSpec == LedgerInit /\ [][LedgerNext]_ledgerVars

(* Node resumes the calls whose await or timer is over.                    *)
LedgerProgress == \E r \in Requests : Step(r)

-----------------------------------------------------------------------------
Answers == {"400", "500", "201", "valid", "invalid"}

(* Every variable has its type.                                            *)
LedgerTypeOK ==
  /\ event \in [Requests -> Events] /\ kind \in [Requests -> {"log", "verify"}]
  /\ gateway \in Requests \cup {None} /\ live \subseteq Requests
  /\ use \in [Requests -> Requests \cup {None}]
  /\ pc \in [Requests -> Answers \cup {"idle", "files", "connect", "network", "log", "verify"}]
  /\ attempt \in [Requests -> 0 .. Attempts - 1]
  /\ committed \subseteq Requests /\ state \in [Keys -> Events \cup {None}]
  /\ lost \subseteq Requests /\ errors \subseteq Requests /\ faults \in 0 .. MaxFaults

(* 201 says that the event's transaction took effect; another answer       *)
(* leaves that open only when the answer to a submission was lost          *)
(* (fabricClient.ts 62-85, routes/ledger.ts 12-19).                        *)
AnswerIsHonest ==
  \A r \in Requests :
    /\ pc[r] = "201" => r \in committed
    /\ pc[r] = "500" /\ r \in committed => r \in lost

(* A hash is found valid only for an event some request has logged, and    *)
(* the world state never holds another.                                    *)
VerifiedWasLogged ==
  /\ \A r \in Requests : pc[r] = "valid" => \E q \in committed : event[q] = event[r]
  /\ \A k \in Keys :
       state[k] # None => \E q \in committed : event[q] = state[k] /\ Key[event[q]] = k

(* A request that makes the gateway and is handed it back, meeting no error *)
(* of its own, is served: only racing requests hand each other gateways    *)
(* that are not connected (lines 32-49).                                   *)
OwnGatewayServes ==
  \A r \in Requests :
    kind[r] = "log" /\ pc[r] = "500" /\ use[r] = r /\ r \notin errors => faults > 0

(* The service as its callers see it: the world state, which transactions  *)
(* took effect and the answers; the gateway, the retries and what is under *)
(* way are hidden.                                                         *)
Log == INSTANCE VerifiedLog WITH
  stored <- state, taken <- committed,
  answer <- [r \in Requests |-> IF pc[r] \in Answers THEN pc[r] ELSE None]

(* Gateways that are shared, replaced, lost and not connected, and         *)
(* submissions that are repeated after their answer was lost, amount to a  *)
(* log that takes each event at most once and answers for what it holds.   *)
ImplementsLog == Log!Spec

(* Every request is answered.                                              *)
EveryRequestAnswered == \A r \in Requests : pc[r] # "idle" ~> pc[r] \in Answers

(* What a caller is told of the ledger is so, and it was asked through a   *)
(* gateway that is connected (fabricClient.ts:32-91).                      *)
LedgerInv == LedgerTypeOK /\ AnswerIsHonest /\ VerifiedWasLogged /\ OwnGatewayServes
=============================================================================
