---------------------------- MODULE ResponseProofs ----------------------------
(***************************************************************************)
(* Theorems about the parts that MCResponse puts side by side: the ledger  *)
(* service, audited actions, playbooks and built-in actions, for every set *)
(* of requests, events, calls, documents and hosts and every bound.        *)
(*                                                                         *)
(* Each part has an inductive invariant of its own (LedgerIInv,            *)
(* SoarAuditIInv, PlaybookIInv, ActionsIInv); the ledger service is shown  *)
(* to implement VerifiedLog; the last theorems carry all of it over to the *)
(* composition.                                                            *)
(***************************************************************************)
EXTENDS MCResponse, FiniteSetTheorems, TLAPS

-----------------------------------------------------------------------------
(* The ledger service                                                      *)

(* A request submits or evaluates what it came for.                        *)
Kinds == \A r \in Requests : pc[r] \in {"log", "verify"} => kind[r] = pc[r]

(* A transaction that took effect was told, or its answer was lost.        *)
Commitments ==
  /\ \A r \in committed :
       /\ kind[r] = "log"
       /\ pc[r] = "201" \/ (r \in lost /\ pc[r] \in {"log", "500"})
  /\ lost \subseteq errors

(* The gateway is one some request has made, and a request that holds its  *)
(* own has seen it connected.                                              *)
Gateways ==
  /\ gateway # None => pc[gateway] \notin {"idle", "files"}
  /\ \A r \in Requests : use[r] = r => r \in live \/ faults > 0

LedgerIInv == LedgerInv /\ Kinds /\ Commitments /\ Gateways

(* The key of an event is one of the keys. *)
LEMMA KeyOf == \A v \in Events : Key[v] \in Keys
  BY DEF Keys

(* Every step keeps the types.  *)
LEMMA LedgerTypeStep ==
  ASSUME LedgerTypeOK, Kinds, [LedgerNext]_ledgerVars
  PROVE  LedgerTypeOK'
  <1> USE LedgerAssumption, KeyOf DEF inputs, fabric, LedgerTypeOK, Kinds, Answers
  <1>1. CASE Disconnect
    BY <1>1 DEF Disconnect
  <1>2. ASSUME NEW r \in Requests, Begin(r) PROVE LedgerTypeOK'
    BY <1>2 DEF Begin, NoFault, Goto
  <1>3. ASSUME NEW r \in Requests, NewGateway(r) PROVE LedgerTypeOK'
    BY <1>3 DEF NewGateway, NoFault, Fault, Goto
  <1>4. ASSUME NEW r \in Requests, Connect(r) PROVE LedgerTypeOK'
    BY <1>4 DEF Connect, Connected, NoFault, Goto
  <1>5. ASSUME NEW r \in Requests, ConnectFails(r) PROVE LedgerTypeOK'
    BY <1>5 DEF ConnectFails, Fault, Goto
  <1>6. ASSUME NEW r \in Requests, GetContract(r) PROVE LedgerTypeOK'
    BY <1>6 DEF GetContract, NoFault, Fault, Goto
  <1>7. ASSUME NEW r \in Requests, Submit(r) PROVE LedgerTypeOK'
    BY <1>7 DEF Submit, Commits, NoFault, Goto
  <1>8. ASSUME NEW r \in Requests, SubmitFails(r) PROVE LedgerTypeOK'
    BY <1>8 DEF SubmitFails, Fault, Commits, Raised, MayRetry, Counted, Thrown, Goto
  <1>9. ASSUME NEW r \in Requests, SubmitAgain(r) PROVE LedgerTypeOK'
    BY <1>9 DEF SubmitAgain, Raised, Thrown, NoFault, Goto
  <1>10. ASSUME NEW r \in Requests, Unavailable(r) PROVE LedgerTypeOK'
    BY <1>10 DEF Unavailable, Raised, MayRetry, Counted, Thrown, NoFault, Goto
  <1>11. ASSUME NEW r \in Requests, Verify(r) PROVE LedgerTypeOK'
    BY <1>11 DEF Verify, Matches, NoFault, Goto
  <1>12. ASSUME NEW r \in Requests, VerifyFails(r) PROVE LedgerTypeOK'
    BY <1>12 DEF VerifyFails, Fault, Raised, MayRetry, Counted, Thrown, Goto
  <1>13. CASE UNCHANGED ledgerVars
    BY <1>13 DEF ledgerVars
  <1> QED
    BY <1>1, <1>2, <1>3, <1>4, <1>5, <1>6, <1>7, <1>8, <1>9, <1>10, <1>11, <1>12, <1>13
       DEF LedgerNext, Step

(* Only getContract leads to a submission or an evaluation.  *)
LEMMA KindsStep ==
  ASSUME LedgerTypeOK, Kinds, [LedgerNext]_ledgerVars
  PROVE  Kinds'
  <1> USE  DEF inputs, fabric, LedgerTypeOK, Kinds
  <1>1. CASE Disconnect
    BY <1>1 DEF Disconnect
  <1>2. ASSUME NEW r \in Requests, Begin(r) PROVE Kinds'
    BY <1>2 DEF Begin, NoFault, Goto
  <1>3. ASSUME NEW r \in Requests, NewGateway(r) PROVE Kinds'
    BY <1>3 DEF NewGateway, NoFault, Fault, Goto
  <1>4. ASSUME NEW r \in Requests, Connect(r) PROVE Kinds'
    BY <1>4 DEF Connect, Connected, NoFault, Goto
  <1>5. ASSUME NEW r \in Requests, ConnectFails(r) PROVE Kinds'
    BY <1>5 DEF ConnectFails, Fault, Goto
  <1>6. ASSUME NEW r \in Requests, GetContract(r) PROVE Kinds'
    BY <1>6 DEF GetContract, NoFault, Fault, Goto
  <1>7. ASSUME NEW r \in Requests, Submit(r) PROVE Kinds'
    BY <1>7 DEF Submit, Commits, NoFault, Goto
  <1>8. ASSUME NEW r \in Requests, SubmitFails(r) PROVE Kinds'
    BY <1>8 DEF SubmitFails, Fault, Commits, Raised, MayRetry, Counted, Thrown, Goto
  <1>9. ASSUME NEW r \in Requests, SubmitAgain(r) PROVE Kinds'
    BY <1>9 DEF SubmitAgain, Raised, Thrown, NoFault, Goto
  <1>10. ASSUME NEW r \in Requests, Unavailable(r) PROVE Kinds'
    BY <1>10 DEF Unavailable, Raised, MayRetry, Counted, Thrown, NoFault, Goto
  <1>11. ASSUME NEW r \in Requests, Verify(r) PROVE Kinds'
    BY <1>11 DEF Verify, Matches, NoFault, Goto
  <1>12. ASSUME NEW r \in Requests, VerifyFails(r) PROVE Kinds'
    BY <1>12 DEF VerifyFails, Fault, Raised, MayRetry, Counted, Thrown, Goto
  <1>13. CASE UNCHANGED ledgerVars
    BY <1>13 DEF ledgerVars
  <1> QED
    BY <1>1, <1>2, <1>3, <1>4, <1>5, <1>6, <1>7, <1>8, <1>9, <1>10, <1>11, <1>12, <1>13
       DEF LedgerNext, Step

(* A submission that stays open after it took effect has lost its answer.  *)
LEMMA CommitmentsStep ==
  ASSUME LedgerTypeOK, Kinds, Commitments, [LedgerNext]_ledgerVars
  PROVE  Commitments'
  <1> USE  DEF inputs, fabric, LedgerTypeOK, Kinds, Commitments
  <1>1. CASE Disconnect
    BY <1>1 DEF Disconnect
  <1>2. ASSUME NEW r \in Requests, Begin(r) PROVE Commitments'
    BY <1>2 DEF Begin, NoFault, Goto
  <1>3. ASSUME NEW r \in Requests, NewGateway(r) PROVE Commitments'
    BY <1>3 DEF NewGateway, NoFault, Fault, Goto
  <1>4. ASSUME NEW r \in Requests, Connect(r) PROVE Commitments'
    BY <1>4 DEF Connect, Connected, NoFault, Goto
  <1>5. ASSUME NEW r \in Requests, ConnectFails(r) PROVE Commitments'
    BY <1>5 DEF ConnectFails, Fault, Goto
  <1>6. ASSUME NEW r \in Requests, GetContract(r) PROVE Commitments'
    BY <1>6 DEF GetContract, NoFault, Fault, Goto
  <1>7. ASSUME NEW r \in Requests, Submit(r) PROVE Commitments'
    BY <1>7 DEF Submit, Commits, NoFault, Goto
  <1>8. ASSUME NEW r \in Requests, SubmitFails(r) PROVE Commitments'
    BY <1>8 DEF SubmitFails, Fault, Commits, Raised, MayRetry, Counted, Thrown, Goto
  <1>9. ASSUME NEW r \in Requests, SubmitAgain(r) PROVE Commitments'
    BY <1>9 DEF SubmitAgain, Raised, Thrown, NoFault, Goto
  <1>10. ASSUME NEW r \in Requests, Unavailable(r) PROVE Commitments'
    BY <1>10 DEF Unavailable, Raised, MayRetry, Counted, Thrown, NoFault, Goto
  <1>11. ASSUME NEW r \in Requests, Verify(r) PROVE Commitments'
    BY <1>11 DEF Verify, Matches, NoFault, Goto
  <1>12. ASSUME NEW r \in Requests, VerifyFails(r) PROVE Commitments'
    BY <1>12 DEF VerifyFails, Fault, Raised, MayRetry, Counted, Thrown, Goto
  <1>13. CASE UNCHANGED ledgerVars
    BY <1>13 DEF ledgerVars
  <1> QED
    BY <1>1, <1>2, <1>3, <1>4, <1>5, <1>6, <1>7, <1>8, <1>9, <1>10, <1>11, <1>12, <1>13
       DEF LedgerNext, Step

(* A gateway that has been connected goes away at a Disconnect only.  *)
LEMMA GatewaysStep ==
  ASSUME LedgerTypeOK, Gateways, [LedgerNext]_ledgerVars
  PROVE  Gateways'
  <1> USE LedgerAssumption DEF inputs, fabric, LedgerTypeOK, Gateways
  <1>1. CASE Disconnect
    BY <1>1 DEF Disconnect
  <1>2. ASSUME NEW r \in Requests, Begin(r) PROVE Gateways'
    BY <1>2 DEF Begin, NoFault, Goto
  <1>3. ASSUME NEW r \in Requests, NewGateway(r) PROVE Gateways'
    BY <1>3 DEF NewGateway, NoFault, Fault, Goto
  <1>4. ASSUME NEW r \in Requests, Connect(r) PROVE Gateways'
    BY <1>4 DEF Connect, Connected, NoFault, Goto
  <1>5. ASSUME NEW r \in Requests, ConnectFails(r) PROVE Gateways'
    BY <1>5 DEF ConnectFails, Fault, Goto
  <1>6. ASSUME NEW r \in Requests, GetContract(r) PROVE Gateways'
    BY <1>6 DEF GetContract, NoFault, Fault, Goto
  <1>7. ASSUME NEW r \in Requests, Submit(r) PROVE Gateways'
    BY <1>7 DEF Submit, Commits, NoFault, Goto
  <1>8. ASSUME NEW r \in Requests, SubmitFails(r) PROVE Gateways'
    BY <1>8 DEF SubmitFails, Fault, Commits, Raised, MayRetry, Counted, Thrown, Goto
  <1>9. ASSUME NEW r \in Requests, SubmitAgain(r) PROVE Gateways'
    BY <1>9 DEF SubmitAgain, Raised, Thrown, NoFault, Goto
  <1>10. ASSUME NEW r \in Requests, Unavailable(r) PROVE Gateways'
    BY <1>10 DEF Unavailable, Raised, MayRetry, Counted, Thrown, NoFault, Goto
  <1>11. ASSUME NEW r \in Requests, Verify(r) PROVE Gateways'
    BY <1>11 DEF Verify, Matches, NoFault, Goto
  <1>12. ASSUME NEW r \in Requests, VerifyFails(r) PROVE Gateways'
    BY <1>12 DEF VerifyFails, Fault, Raised, MayRetry, Counted, Thrown, Goto
  <1>13. CASE UNCHANGED ledgerVars
    BY <1>13 DEF ledgerVars
  <1> QED
    BY <1>1, <1>2, <1>3, <1>4, <1>5, <1>6, <1>7, <1>8, <1>9, <1>10, <1>11, <1>12, <1>13
       DEF LedgerNext, Step

(* An answer is given once, after what it says.  *)
LEMMA HonestStep ==
  ASSUME LedgerTypeOK, Commitments, AnswerIsHonest, [LedgerNext]_ledgerVars
  PROVE  AnswerIsHonest'
  <1> USE  DEF inputs, fabric, LedgerTypeOK, Commitments, AnswerIsHonest
  <1>1. CASE Disconnect
    BY <1>1 DEF Disconnect
  <1>2. ASSUME NEW r \in Requests, Begin(r) PROVE AnswerIsHonest'
    BY <1>2 DEF Begin, NoFault, Goto
  <1>3. ASSUME NEW r \in Requests, NewGateway(r) PROVE AnswerIsHonest'
    BY <1>3 DEF NewGateway, NoFault, Fault, Goto
  <1>4. ASSUME NEW r \in Requests, Connect(r) PROVE AnswerIsHonest'
    BY <1>4 DEF Connect, Connected, NoFault, Goto
  <1>5. ASSUME NEW r \in Requests, ConnectFails(r) PROVE AnswerIsHonest'
    BY <1>5 DEF ConnectFails, Fault, Goto
  <1>6. ASSUME NEW r \in Requests, GetContract(r) PROVE AnswerIsHonest'
    BY <1>6 DEF GetContract, NoFault, Fault, Goto
  <1>7. ASSUME NEW r \in Requests, Submit(r) PROVE AnswerIsHonest'
    BY <1>7 DEF Submit, Commits, NoFault, Goto
  <1>8. ASSUME NEW r \in Requests, SubmitFails(r) PROVE AnswerIsHonest'
    BY <1>8 DEF SubmitFails, Fault, Commits, Raised, MayRetry, Counted, Thrown, Goto
  <1>9. ASSUME NEW r \in Requests, SubmitAgain(r) PROVE AnswerIsHonest'
    BY <1>9 DEF SubmitAgain, Raised, Thrown, NoFault, Goto
  <1>10. ASSUME NEW r \in Requests, Unavailable(r) PROVE AnswerIsHonest'
    BY <1>10 DEF Unavailable, Raised, MayRetry, Counted, Thrown, NoFault, Goto
  <1>11. ASSUME NEW r \in Requests, Verify(r) PROVE AnswerIsHonest'
    BY <1>11 DEF Verify, Matches, NoFault, Goto
  <1>12. ASSUME NEW r \in Requests, VerifyFails(r) PROVE AnswerIsHonest'
    BY <1>12 DEF VerifyFails, Fault, Raised, MayRetry, Counted, Thrown, Goto
  <1>13. CASE UNCHANGED ledgerVars
    BY <1>13 DEF ledgerVars
  <1> QED
    BY <1>1, <1>2, <1>3, <1>4, <1>5, <1>6, <1>7, <1>8, <1>9, <1>10, <1>11, <1>12, <1>13
       DEF LedgerNext, Step

(* The world state changes by commits only.  *)
LEMMA LoggedStep ==
  ASSUME LedgerTypeOK, VerifiedWasLogged, [LedgerNext]_ledgerVars
  PROVE  VerifiedWasLogged'
  <1> USE LedgerAssumption, KeyOf DEF inputs, fabric, LedgerTypeOK, VerifiedWasLogged
  <1>1. CASE Disconnect
    BY <1>1 DEF Disconnect
  <1>2. ASSUME NEW r \in Requests, Begin(r) PROVE VerifiedWasLogged'
    BY <1>2 DEF Begin, NoFault, Goto
  <1>3. ASSUME NEW r \in Requests, NewGateway(r) PROVE VerifiedWasLogged'
    BY <1>3 DEF NewGateway, NoFault, Fault, Goto
  <1>4. ASSUME NEW r \in Requests, Connect(r) PROVE VerifiedWasLogged'
    BY <1>4 DEF Connect, Connected, NoFault, Goto
  <1>5. ASSUME NEW r \in Requests, ConnectFails(r) PROVE VerifiedWasLogged'
    BY <1>5 DEF ConnectFails, Fault, Goto
  <1>6. ASSUME NEW r \in Requests, GetContract(r) PROVE VerifiedWasLogged'
    BY <1>6 DEF GetContract, NoFault, Fault, Goto
  <1>7. ASSUME NEW r \in Requests, Submit(r) PROVE VerifiedWasLogged'
    BY <1>7 DEF Submit, Commits, NoFault, Goto
  <1>8. ASSUME NEW r \in Requests, SubmitFails(r) PROVE VerifiedWasLogged'
    BY <1>8 DEF SubmitFails, Fault, Commits, Raised, MayRetry, Counted, Thrown, Goto
  <1>9. ASSUME NEW r \in Requests, SubmitAgain(r) PROVE VerifiedWasLogged'
    BY <1>9 DEF SubmitAgain, Raised, Thrown, NoFault, Goto
  <1>10. ASSUME NEW r \in Requests, Unavailable(r) PROVE VerifiedWasLogged'
    BY <1>10 DEF Unavailable, Raised, MayRetry, Counted, Thrown, NoFault, Goto
  <1>11. ASSUME NEW r \in Requests, Verify(r) PROVE VerifiedWasLogged'
    BY <1>11 DEF Verify, Matches, NoFault, Goto
  <1>12. ASSUME NEW r \in Requests, VerifyFails(r) PROVE VerifiedWasLogged'
    BY <1>12 DEF VerifyFails, Fault, Raised, MayRetry, Counted, Thrown, Goto
  <1>13. CASE UNCHANGED ledgerVars
    BY <1>13 DEF ledgerVars
  <1> QED
    BY <1>1, <1>2, <1>3, <1>4, <1>5, <1>6, <1>7, <1>8, <1>9, <1>10, <1>11, <1>12, <1>13
       DEF LedgerNext, Step

(* A request whose own gateway is connected ends in 500 by an error only.  *)
LEMMA ServesStep ==
  ASSUME LedgerTypeOK, Kinds, Commitments, Gateways, OwnGatewayServes, [LedgerNext]_ledgerVars
  PROVE  OwnGatewayServes'
  <1> USE LedgerAssumption DEF inputs, fabric, LedgerTypeOK, Kinds, Commitments, Gateways,
         OwnGatewayServes
  <1>1. CASE Disconnect
    BY <1>1 DEF Disconnect
  <1>2. ASSUME NEW r \in Requests, Begin(r) PROVE OwnGatewayServes'
    BY <1>2 DEF Begin, NoFault, Goto
  <1>3. ASSUME NEW r \in Requests, NewGateway(r) PROVE OwnGatewayServes'
    BY <1>3 DEF NewGateway, NoFault, Fault, Goto
  <1>4. ASSUME NEW r \in Requests, Connect(r) PROVE OwnGatewayServes'
    BY <1>4 DEF Connect, Connected, NoFault, Goto
  <1>5. ASSUME NEW r \in Requests, ConnectFails(r) PROVE OwnGatewayServes'
    BY <1>5 DEF ConnectFails, Fault, Goto
  <1>6. ASSUME NEW r \in Requests, GetContract(r) PROVE OwnGatewayServes'
    BY <1>6 DEF GetContract, NoFault, Fault, Goto
  <1>7. ASSUME NEW r \in Requests, Submit(r) PROVE OwnGatewayServes'
    BY <1>7 DEF Submit, Commits, NoFault, Goto
  <1>8. ASSUME NEW r \in Requests, SubmitFails(r) PROVE OwnGatewayServes'
    BY <1>8 DEF SubmitFails, Fault, Commits, Raised, MayRetry, Counted, Thrown, Goto
  <1>9. ASSUME NEW r \in Requests, SubmitAgain(r) PROVE OwnGatewayServes'
    BY <1>9 DEF SubmitAgain, Raised, Thrown, NoFault, Goto
  <1>10. ASSUME NEW r \in Requests, Unavailable(r) PROVE OwnGatewayServes'
    BY <1>10 DEF Unavailable, Raised, MayRetry, Counted, Thrown, NoFault, Goto
  <1>11. ASSUME NEW r \in Requests, Verify(r) PROVE OwnGatewayServes'
    BY <1>11 DEF Verify, Matches, NoFault, Goto
  <1>12. ASSUME NEW r \in Requests, VerifyFails(r) PROVE OwnGatewayServes'
    BY <1>12 DEF VerifyFails, Fault, Raised, MayRetry, Counted, Thrown, Goto
  <1>13. CASE UNCHANGED ledgerVars
    BY <1>13 DEF ledgerVars
  <1> QED
    BY <1>1, <1>2, <1>3, <1>4, <1>5, <1>6, <1>7, <1>8, <1>9, <1>10, <1>11, <1>12, <1>13
       DEF LedgerNext, Step

(* LedgerIInv is inductive. *)
LEMMA LedgerInitially == LedgerInit => LedgerIInv
  <1> SUFFICES ASSUME LedgerInit PROVE LedgerIInv
    OBVIOUS
  <1> USE LedgerAssumption DEF LedgerInit
  <1>1. LedgerTypeOK
    BY DEF LedgerTypeOK
  <1>2. Kinds /\ Commitments /\ Gateways
    BY DEF Kinds, Commitments, Gateways
  <1>3. AnswerIsHonest /\ VerifiedWasLogged /\ OwnGatewayServes
    BY DEF AnswerIsHonest, VerifiedWasLogged, OwnGatewayServes
  <1> QED BY <1>1, <1>2, <1>3 DEF LedgerIInv, LedgerInv

(* Every step of the ledger service keeps its inductive invariant. *)
LEMMA LedgerInductive == LedgerIInv /\ [LedgerNext]_ledgerVars => LedgerIInv'
  BY LedgerTypeStep, KindsStep, CommitmentsStep, GatewaysStep, HonestStep, LoggedStep, ServesStep
     DEF LedgerIInv, LedgerInv

(* The inductive invariant holds of every behaviour of the ledger service. *)
THEOREM LedgerInvariance == LedgerSpec => []LedgerIInv
  BY LedgerInitially, LedgerInductive, PTL DEF LedgerSpec

(* What a caller is told of the ledger is so, and a request that made the  *)
(* gateway it uses is served (fabricClient.ts:32-91).                      *)
THEOREM LedgerIsHonest == LedgerSpec => []LedgerInv
  <1>1. LedgerIInv => LedgerInv
    BY DEF LedgerIInv
  <1> QED BY <1>1, LedgerInvariance, PTL

Told == [r \in Requests |-> IF pc[r] \in Answers THEN pc[r] ELSE None]

(* To go on to an answer is to give it, once; any other step gives none.   *)
LEMMA Telling ==
  ASSUME LedgerTypeOK, NEW r \in Requests, pc[r] \notin Answers, NEW s, pc' = [pc EXCEPT ![r] = s]
  PROVE  /\ Told[r] = None
         /\ s \in Answers => Told' = [Told EXCEPT ![r] = s]
         /\ s \notin Answers => Told' = Told
  BY DEF LedgerTypeOK, Told

(* Every step is a step of the abstract log, or changes nothing of it.     *)
LEMMA StepImplements ==
  ASSUME LedgerIInv, [LedgerNext]_ledgerVars
  PROVE  [Log!Next]_(Log!vars)
  <1> USE DEF Log!vars, inputs, fabric
  <1>t. LedgerTypeOK /\ Kinds /\ Commitments
    BY DEF LedgerIInv, LedgerInv
  <1>d. /\ Told = [r \in Requests |-> IF pc[r] \in Answers THEN pc[r] ELSE None]
        /\ Told' = [r \in Requests |-> IF pc'[r] \in Answers THEN pc'[r] ELSE None]
    BY DEF Told
  <1>r. ASSUME NEW r \in Requests, Told[r] = None, UNCHANGED <<inputs, fabric>>,
               Told' = [Told EXCEPT ![r] = "400"] \/ Told' = [Told EXCEPT ![r] = "500"]
        PROVE  Log!Next
    BY <1>r, <1>d DEF Log!Next, Log!Refuse, Log!Tell
  <1>g. ASSUME NEW r \in Requests, pc[r] \notin Answers, UNCHANGED <<inputs, fabric>>,
               UNCHANGED pc \/ \E s : pc' = [pc EXCEPT ![r] = s] /\ (s \in Answers => s \in {"400", "500"})
        PROVE  Log!Next \/ UNCHANGED Log!vars
    <2>1. CASE UNCHANGED pc
      BY <2>1, <1>g
    <2>2. ASSUME NEW s, pc' = [pc EXCEPT ![r] = s], s \in Answers => s \in {"400", "500"}
          PROVE  Log!Next \/ UNCHANGED Log!vars
      <3>1. CASE s \in Answers
        <4>1. Told[r] = None /\ Told' = [Told EXCEPT ![r] = s]
          BY <3>1, <2>2, <1>g, <1>t, Telling
        <4>2. s = "400" \/ s = "500"
          BY <3>1, <2>2
        <4> QED BY <4>1, <4>2, <1>g, <1>r
      <3>2. CASE s \notin Answers
        BY <3>2, <2>2, <1>g, <1>t, <1>d, Telling
      <3> QED BY <3>1, <3>2
    <2> QED BY <2>1, <2>2, <1>g
  <1>k. ASSUME NEW r \in Requests, pc[r] = "log", Commits(r), r \notin committed, UNCHANGED inputs,
               UNCHANGED pc \/ \E s \in {"201", "500"} : pc' = [pc EXCEPT ![r] = s]
        PROVE  Log!Next
    <2>1. UNCHANGED Told \/ (Told[r] = None /\ Told' = [Told EXCEPT ![r] = "201"])
            \/ (Told[r] = None /\ Told' = [Told EXCEPT ![r] = "500"])
      <3>1. CASE UNCHANGED pc
        BY <3>1 DEF Told
      <3>2. ASSUME NEW s \in {"201", "500"}, pc' = [pc EXCEPT ![r] = s]
            PROVE  Told[r] = None /\ Told' = [Told EXCEPT ![r] = s]
        BY <3>2, <1>k, <1>t, Telling DEF Answers
      <3> QED BY <3>1, <3>2, <1>k
    <2>2. kind[r] = "log"
      BY <1>k, <1>t DEF Kinds
    <2> QED BY <2>1, <2>2, <1>k, <1>d DEF Log!Next, Log!Take, Log!Tell, Commits
  <1>1. CASE Disconnect
    BY <1>1 DEF Disconnect
  <1>2. ASSUME NEW r \in Requests, Begin(r) PROVE Log!Next \/ UNCHANGED Log!vars
    BY <1>2, <1>g DEF Begin, Goto, Answers
  <1>3. ASSUME NEW r \in Requests, NewGateway(r) \/ Connect(r) \/ ConnectFails(r)
        PROVE  Log!Next \/ UNCHANGED Log!vars
    BY <1>3, <1>g DEF NewGateway, Connect, ConnectFails, Goto, Answers
  <1>4. ASSUME NEW r \in Requests, GetContract(r) PROVE Log!Next \/ UNCHANGED Log!vars
    BY <1>4, <1>g, <1>t DEF GetContract, Goto, Answers, LedgerTypeOK
  <1>5. ASSUME NEW r \in Requests, Submit(r) PROVE Log!Next
    BY <1>5, <1>k DEF Submit, Goto
  <1>6. ASSUME NEW r \in Requests, SubmitFails(r) PROVE Log!Next \/ UNCHANGED Log!vars
    <2>1. UNCHANGED pc \/ pc' = [pc EXCEPT ![r] = "500"]
      BY <1>6 DEF SubmitFails, Raised, Thrown, Goto
    <2>2. CASE r \notin committed /\ Commits(r)
      BY <1>6, <1>k, <2>1, <2>2 DEF SubmitFails
    <2>3. CASE UNCHANGED <<fabric, lost>>
      BY <1>6, <1>g, <2>1, <2>3 DEF SubmitFails, Answers
    <2> QED BY <1>6, <2>2, <2>3 DEF SubmitFails
  <1>7. ASSUME NEW r \in Requests, SubmitAgain(r) \/ Unavailable(r) \/ VerifyFails(r)
        PROVE  Log!Next \/ UNCHANGED Log!vars
    <2>1. UNCHANGED pc \/ pc' = [pc EXCEPT ![r] = "500"]
      BY <1>7 DEF SubmitAgain, Unavailable, VerifyFails, Raised, Thrown, Goto
    <2> QED BY <1>7, <1>g, <2>1 DEF SubmitAgain, Unavailable, VerifyFails, Answers
  <1>8. ASSUME NEW r \in Requests, Verify(r) PROVE Log!Next
    <2>1. CASE state[Key[event[r]]] = None
      <3>1. ~Matches(r)
        BY <2>1, <1>t, LedgerAssumption DEF Matches, LedgerTypeOK
      <3>2. pc' = [pc EXCEPT ![r] = "500"] /\ UNCHANGED <<inputs, fabric>> /\ pc[r] \notin Answers
        BY <1>8, <2>1, <3>1 DEF Verify, Goto, Answers
      <3>3. Told[r] = None /\ Told' = [Told EXCEPT ![r] = "500"]
        BY <3>2, <1>t, Telling DEF Answers
      <3> QED BY <3>2, <3>3, <1>r
    <2>2. CASE state[Key[event[r]]] # None
      <3> DEFINE verdict == IF state[Key[event[r]]] = event[r] THEN "valid" ELSE "invalid"
      <3>1. pc' = [pc EXCEPT ![r] = verdict] /\ UNCHANGED <<inputs, fabric>> /\ pc[r] \notin Answers
        BY <1>8, <2>2 DEF Verify, Goto, Answers, Matches
      <3>2. Told[r] = None /\ Told' = [Told EXCEPT ![r] = verdict]
        BY <3>1, <1>t, Telling DEF Answers
      <3>3. kind[r] = "verify"
        BY <1>8, <1>t DEF Verify, Kinds
      <3> QED BY <2>2, <3>1, <3>2, <3>3, <1>d DEF Log!Next, Log!Check, Log!Tell
    <2> QED BY <2>1, <2>2
  <1>9. CASE UNCHANGED ledgerVars
    BY <1>9 DEF ledgerVars
  <1> QED BY <1>1, <1>2, <1>3, <1>4, <1>5, <1>6, <1>7, <1>8, <1>9 DEF LedgerNext, Step

(* The service, with its shared gateway, lost answers and repeated         *)
(* submissions, implements a log that takes each event at most once and    *)
(* answers for what it holds (fabricClient.ts, routes/ledger.ts).          *)
THEOREM LedgerRefinement == LedgerSpec => ImplementsLog
  <1>1. LedgerInit => Log!Init
    BY DEF LedgerInit, Log!Init, Keys, Answers
  <1> QED BY <1>1, LedgerInvariance, StepImplements, PTL DEF LedgerSpec, ImplementsLog, Log!Spec

-----------------------------------------------------------------------------
(* Audited actions                                                         *)

(* A call that has acted emits a status, and never again "success" after   *)
(* its action threw.                                                       *)
Statuses ==
  \A a \in Calls :
    /\ callPc[a] = "idle" => a \notin broken /\ records[a].success = 0
    /\ callPc[a] # "idle" => status[a] \in {"success", "failed"}
    /\ callPc[a] = "returned" => status[a] = "success"
    /\ a \in broken => status[a] = "failed"

(* A commit under way on a connection that was closed has a fault to spare. *)
CutOff ==
  \A a \in Calls : callPc[a] = "commit" /\ connected # "ok" =>
    records[a].success + records[a].failed + 1 <= kafkaFaults

SoarAuditIInv == SoarAuditInv /\ Statuses /\ CutOff

(* One more in a field of a pair of counters.                              *)
LEMMA CountedOnce ==
  ASSUME NEW rec \in [success : Nat, failed : Nat]
  PROVE  /\ [rec EXCEPT !["success"] = @ + 1] = [success |-> rec.success + 1, failed |-> rec.failed]
         /\ [rec EXCEPT !["failed"] = @ + 1] = [success |-> rec.success, failed |-> rec.failed + 1]
  <1>1. /\ [rec EXCEPT !["success"] = @ + 1] = [rec EXCEPT !.success = @ + 1]
        /\ [rec EXCEPT !["failed"] = @ + 1] = [rec EXCEPT !.failed = @ + 1]
    OBVIOUS
  <1>2. /\ [rec EXCEPT !.success = @ + 1] = [success |-> rec.success + 1, failed |-> rec.failed]
        /\ [rec EXCEPT !.failed = @ + 1] = [success |-> rec.success, failed |-> rec.failed + 1]
    OBVIOUS
  <1> QED BY <1>1, <1>2

(* A commit writes one record, of the status in hand.                      *)
LEMMA CommittedRecord ==
  ASSUME SoarAuditTypeOK, NEW a \in Calls, Committed(a), status[a] \in {"success", "failed"}
  PROVE  /\ records' \in [Calls -> [success : Nat, failed : Nat]]
         /\ \A b \in Calls : b # a => records'[b] = records[b]
         /\ status[a] = "success" => /\ records'[a].success = records[a].success + 1
                                     /\ records'[a].failed = records[a].failed
         /\ status[a] = "failed" => /\ records'[a].success = records[a].success
                                    /\ records'[a].failed = records[a].failed + 1
  <1>1. records \in [Calls -> [success : Nat, failed : Nat]]
    BY SoarAuditAssumption DEF SoarAuditTypeOK
  <1>2. records' = [records EXCEPT ![a] = [records[a] EXCEPT ![status[a]] = @ + 1]]
    BY Zenon DEF Committed
  <1>3. records'[a] = [records[a] EXCEPT ![status[a]] = @ + 1]
    BY <1>1, <1>2
  <1>4. records' = [records EXCEPT ![a] = records'[a]]
    BY <1>2, <1>3, Zenon
  <1>5. CASE status[a] = "success"
    <2>1. records'[a] = [records[a] EXCEPT !["success"] = @ + 1]
      BY <1>3, <1>5, Zenon
    <2>2. records'[a] = [success |-> records[a].success + 1, failed |-> records[a].failed]
      BY <1>1, <2>1, CountedOnce
    <2> QED BY <1>1, <1>4, <1>5, <2>2
  <1>6. CASE status[a] = "failed"
    <2>1. records'[a] = [records[a] EXCEPT !["failed"] = @ + 1]
      BY <1>3, <1>6, Zenon
    <2>2. records'[a] = [success |-> records[a].success, failed |-> records[a].failed + 1]
      BY <1>1, <2>1, CountedOnce
    <2> QED BY <1>1, <1>4, <1>6, <2>2
  <1> QED BY <1>5, <1>6

(* As many records as faults and one more.                                 *)
LEMMA RecordsBound ==
  ASSUME NEW recs \in [Calls -> [success : Nat, failed : Nat]], NEW k \in 0 .. MaxKafkaFaults,
         \A a \in Calls : recs[a].success + recs[a].failed <= k + 1
  PROVE  recs \in [Calls -> [success : 0 .. MaxKafkaFaults + 1, failed : 0 .. MaxKafkaFaults + 1]]
  <1>1. \A a \in Calls : recs[a] \in [success : 0 .. MaxKafkaFaults + 1,
                                      failed : 0 .. MaxKafkaFaults + 1]
    <2> TAKE a \in Calls
    <2>1. recs[a] \in [success : Nat, failed : Nat]
      OBVIOUS
    <2>2. recs[a].success \in Nat /\ recs[a].failed \in Nat /\ recs[a].success + recs[a].failed <= k + 1
      BY <2>1
    <2>3. recs[a].success \in 0 .. MaxKafkaFaults + 1 /\ recs[a].failed \in 0 .. MaxKafkaFaults + 1
      BY <2>2, SoarAuditAssumption
    <2> QED BY <2>1, <2>3
  <1> QED BY <1>1

(* A failed attempt, or the end of the retries, keeps the types.           *)
LEMMA Raising ==
  ASSUME SoarAuditTypeOK, NEW a \in Calls, Retry(a) \/ EmissionRaises(a)
  PROVE  /\ callPc' = [callPc EXCEPT ![a] = callPc'[a]]
         /\ callPc'[a] \in {"begin", "connect", "masked"}
         /\ status' \in [Calls -> {"success", "failed", Nobody}]
         /\ tries' \in [Calls -> 0 .. Retries]
  <1> USE SoarAuditAssumption DEF SoarAuditTypeOK
  <1>1. CASE EmissionRaises(a)
    <2>1. CASE status[a] = "success"
      BY <1>1, <2>1 DEF EmissionRaises, Emit
    <2>2. CASE status[a] # "success"
      BY <1>1, <2>2 DEF EmissionRaises, MoveCall
    <2> QED BY <2>1, <2>2
  <1>2. CASE Retry(a) /\ ~EmissionRaises(a)
    BY <1>2 DEF Retry, Exhausted
  <1> QED BY <1>1, <1>2

(* A commit whose answer is lost is a fault.  *)
LEMMA DuplicatesStep ==
  ASSUME SoarAuditTypeOK, Statuses, DuplicatesNeedFaults, CutOff, [SoarAuditNext]_soarAuditVars
  PROVE  DuplicatesNeedFaults'
  <1> USE SoarAuditAssumption DEF call, SoarAuditTypeOK, Statuses, DuplicatesNeedFaults
  <1>1. CASE ConnectEnds
    BY <1>1 DEF ConnectEnds, KafkaFault
  <1>2. CASE Shutdown
    BY <1>2 DEF Shutdown, KafkaFault
  <1>3. ASSUME NEW a \in Calls, Act(a) PROVE DuplicatesNeedFaults'
    BY <1>3 DEF Act, Emit
  <1>4. ASSUME NEW a \in Calls, EnsureConnected(a) PROVE DuplicatesNeedFaults'
    BY <1>4 DEF EnsureConnected, MoveCall
  <1>5. ASSUME NEW a \in Calls, AwaitConnected(a) PROVE DuplicatesNeedFaults'
    BY <1>5 DEF AwaitConnected, Settled, EmissionRaises, Emit, MoveCall
  <1>6. ASSUME NEW a \in Calls, BeginTransaction(a) PROVE DuplicatesNeedFaults'
    BY <1>6 DEF BeginTransaction, Retry, Exhausted, EmissionRaises, Emit, MoveCall
  <1>7. ASSUME NEW a \in Calls, Send(a) PROVE DuplicatesNeedFaults'
    BY <1>7 DEF Send, MoveCall
  <1>8. ASSUME NEW a \in Calls, SendFails(a) PROVE DuplicatesNeedFaults'
    BY <1>8 DEF SendFails, MoveCall, KafkaFault
  <1>9. ASSUME NEW a \in Calls, CommitEnds(a) PROVE DuplicatesNeedFaults'
    <2>1. Committed(a) /\ status[a] \in {"success", "failed"}
      BY <1>9 DEF CommitEnds
    <2>2. /\ records' \in [Calls -> [success : Nat, failed : Nat]]
          /\ \A b \in Calls : b # a => records'[b] = records[b]
          /\ status[a] = "success" => /\ records'[a].success = records[a].success + 1
                                      /\ records'[a].failed = records[a].failed
          /\ status[a] = "failed" => /\ records'[a].success = records[a].success
                                     /\ records'[a].failed = records[a].failed + 1
      BY <2>1, CommittedRecord
    <2> QED BY <1>9, <2>1, <2>2 DEF CommitEnds, AfterEmitted, MoveCall
  <1>10. ASSUME NEW a \in Calls, CommitFails(a) PROVE DuplicatesNeedFaults'
    <2>1. CASE UNCHANGED records
      BY <1>10, <2>1 DEF CommitFails, KafkaFault, AfterCommitError, MoveCall
    <2>2. CASE Committed(a)
      <3>1. status[a] \in {"success", "failed"}
        BY <1>10 DEF CommitFails
      <3>2. /\ records' \in [Calls -> [success : Nat, failed : Nat]]
            /\ \A b \in Calls : b # a => records'[b] = records[b]
            /\ status[a] = "success" => /\ records'[a].success = records[a].success + 1
                                        /\ records'[a].failed = records[a].failed
            /\ status[a] = "failed" => /\ records'[a].success = records[a].success
                                       /\ records'[a].failed = records[a].failed + 1
        BY <2>2, <3>1, CommittedRecord
      <3>3. records[a].success + records[a].failed + 1 <= kafkaFaults'
        BY <1>10 DEF CommitFails, KafkaFault, CutOff
      <3>4. records'[a].success + records'[a].failed <= kafkaFaults'
        BY <3>1, <3>2, <3>3
      <3>5. \A b \in Calls : b # a => callPc'[b] = callPc[b]
        BY <1>10 DEF CommitFails, MoveCall
      <3>6. kafkaFaults' \in {kafkaFaults, kafkaFaults + 1}
        BY <1>10 DEF CommitFails, KafkaFault
      <3> QED BY <3>2, <3>4, <3>5, <3>6
    <2> QED BY <1>10, <2>1, <2>2 DEF CommitFails
  <1>11. ASSUME NEW a \in Calls, Abort(a) PROVE DuplicatesNeedFaults'
    BY <1>11 DEF Abort, KafkaFault, Retry, Exhausted, EmissionRaises, Emit, MoveCall
  <1>12. CASE UNCHANGED soarAuditVars
    BY <1>12 DEF soarAuditVars
  <1> QED
    BY <1>1, <1>2, <1>3, <1>4, <1>5, <1>6, <1>7, <1>8, <1>9, <1>10, <1>11, <1>12
       DEF SoarAuditNext, AuditStep

(* Every step keeps the types: faults bound the records.  *)
LEMMA AuditTypeStep ==
  ASSUME SoarAuditTypeOK, Statuses, DuplicatesNeedFaults, CutOff, [SoarAuditNext]_soarAuditVars
  PROVE  SoarAuditTypeOK'
  <1> USE SoarAuditAssumption DEF call, SoarAuditTypeOK, AuditEnded, Statuses,
         DuplicatesNeedFaults
  <1>1. CASE ConnectEnds
    BY <1>1 DEF ConnectEnds, KafkaFault
  <1>2. CASE Shutdown
    BY <1>2 DEF Shutdown, KafkaFault
  <1>3. ASSUME NEW a \in Calls, Act(a) PROVE SoarAuditTypeOK'
    BY <1>3 DEF Act, Emit
  <1>4. ASSUME NEW a \in Calls, EnsureConnected(a) PROVE SoarAuditTypeOK'
    BY <1>4 DEF EnsureConnected, MoveCall
  <1>5. ASSUME NEW a \in Calls, AwaitConnected(a) PROVE SoarAuditTypeOK'
    <2>1. CASE Retry(a) \/ EmissionRaises(a)
      BY <1>5, <2>1, Raising DEF AwaitConnected
    <2>2. CASE ~(Retry(a) \/ EmissionRaises(a))
      BY <1>5, <2>2 DEF AwaitConnected, MoveCall
    <2> QED BY <2>1, <2>2
  <1>6. ASSUME NEW a \in Calls, BeginTransaction(a) PROVE SoarAuditTypeOK'
    <2>1. CASE Retry(a) \/ EmissionRaises(a)
      BY <1>6, <2>1, Raising DEF BeginTransaction
    <2>2. CASE ~(Retry(a) \/ EmissionRaises(a))
      BY <1>6, <2>2 DEF BeginTransaction, MoveCall
    <2> QED BY <2>1, <2>2
  <1>7. ASSUME NEW a \in Calls, Send(a) PROVE SoarAuditTypeOK'
    BY <1>7 DEF Send, MoveCall
  <1>8. ASSUME NEW a \in Calls, SendFails(a) PROVE SoarAuditTypeOK'
    BY <1>8 DEF SendFails, MoveCall, KafkaFault
  <1>9. ASSUME NEW a \in Calls, CommitEnds(a) PROVE SoarAuditTypeOK'
    <2>0. DuplicatesNeedFaults' /\ kafkaFaults' \in 0 .. MaxKafkaFaults
      BY <1>9, DuplicatesStep DEF CommitEnds
    <2>1. Committed(a) /\ status[a] \in {"success", "failed"}
      BY <1>9 DEF CommitEnds
    <2>2. /\ records' \in [Calls -> [success : Nat, failed : Nat]]
          /\ \A b \in Calls : b # a => records'[b] = records[b]
          /\ status[a] = "success" => /\ records'[a].success = records[a].success + 1
                                      /\ records'[a].failed = records[a].failed
          /\ status[a] = "failed" => /\ records'[a].success = records[a].success
                                     /\ records'[a].failed = records[a].failed + 1
      BY <2>1, CommittedRecord
    <2>4. records' \in [Calls -> [success : 0 .. MaxKafkaFaults + 1,
                                  failed : 0 .. MaxKafkaFaults + 1]]
      BY <2>0, <2>2, RecordsBound
    <2> QED BY <1>9, <2>4 DEF CommitEnds, AfterEmitted, MoveCall
  <1>10. ASSUME NEW a \in Calls, CommitFails(a) PROVE SoarAuditTypeOK'
    <2>0. DuplicatesNeedFaults' /\ kafkaFaults' \in 0 .. MaxKafkaFaults
      BY <1>10, DuplicatesStep DEF CommitFails, KafkaFault
    <2>1. CASE UNCHANGED records
      BY <1>10, <2>1 DEF CommitFails, KafkaFault, AfterCommitError, MoveCall
    <2>2. CASE Committed(a)
      <3>1. status[a] \in {"success", "failed"}
        BY <1>10 DEF CommitFails
      <3>2. /\ records' \in [Calls -> [success : Nat, failed : Nat]]
            /\ \A b \in Calls : b # a => records'[b] = records[b]
            /\ status[a] = "success" => /\ records'[a].success = records[a].success + 1
                                        /\ records'[a].failed = records[a].failed
            /\ status[a] = "failed" => /\ records'[a].success = records[a].success
                                       /\ records'[a].failed = records[a].failed + 1
        BY <2>2, <3>1, CommittedRecord
      <3>4. records' \in [Calls -> [success : 0 .. MaxKafkaFaults + 1,
                                    failed : 0 .. MaxKafkaFaults + 1]]
        BY <2>0, <3>2, RecordsBound
      <3> QED BY <1>10, <2>0, <2>2, <3>4 DEF CommitFails, KafkaFault, AfterCommitError, MoveCall
    <2> QED BY <1>10, <2>1, <2>2 DEF CommitFails
  <1>11. ASSUME NEW a \in Calls, Abort(a) PROVE SoarAuditTypeOK'
    <2>1. CASE Retry(a) \/ EmissionRaises(a)
      <3>1. /\ open' \in {open, Nobody} /\ kafkaFaults' \in 0 .. MaxKafkaFaults
            /\ callPc[a] = "abort" /\ UNCHANGED <<connected, records, broken>>
        BY <1>11 DEF Abort, KafkaFault
      <3>2. /\ callPc' = [callPc EXCEPT ![a] = callPc'[a]]
            /\ callPc'[a] \in {"begin", "connect", "masked"}
            /\ status' \in [Calls -> {"success", "failed", Nobody}]
            /\ tries' \in [Calls -> 0 .. Retries]
        BY <2>1, Raising
      <3>3. \A b \in Calls : callPc'[b] \in {"send", "commit", "abort"} => open' = b
        BY <3>1, <3>2
      <3> QED BY <3>1, <3>2, <3>3
    <2>2. CASE ~(Retry(a) \/ EmissionRaises(a))
      BY <1>11, <2>2 DEF Abort
    <2> QED BY <2>1, <2>2
  <1>12. CASE UNCHANGED soarAuditVars
    BY <1>12 DEF soarAuditVars
  <1> QED
    BY <1>1, <1>2, <1>3, <1>4, <1>5, <1>6, <1>7, <1>8, <1>9, <1>10, <1>11, <1>12
       DEF SoarAuditNext, AuditStep

(* A failed status is never replaced.  *)
LEMMA StatusesStep ==
  ASSUME SoarAuditTypeOK, Statuses, [SoarAuditNext]_soarAuditVars
  PROVE  Statuses'
  <1> USE SoarAuditAssumption DEF call, SoarAuditTypeOK, AuditEnded, Statuses
  <1>1. CASE ConnectEnds
    BY <1>1 DEF ConnectEnds, KafkaFault
  <1>2. CASE Shutdown
    BY <1>2 DEF Shutdown, KafkaFault
  <1>3. ASSUME NEW a \in Calls, Act(a) PROVE Statuses'
    BY <1>3 DEF Act, Emit
  <1>4. ASSUME NEW a \in Calls, EnsureConnected(a) PROVE Statuses'
    BY <1>4 DEF EnsureConnected, MoveCall
  <1>5. ASSUME NEW a \in Calls, AwaitConnected(a) PROVE Statuses'
    BY <1>5 DEF AwaitConnected, Settled, EmissionRaises, Emit, MoveCall
  <1>6. ASSUME NEW a \in Calls, BeginTransaction(a) PROVE Statuses'
    BY <1>6 DEF BeginTransaction, Retry, Exhausted, EmissionRaises, Emit, MoveCall
  <1>7. ASSUME NEW a \in Calls, Send(a) PROVE Statuses'
    BY <1>7 DEF Send, MoveCall
  <1>8. ASSUME NEW a \in Calls, SendFails(a) PROVE Statuses'
    BY <1>8 DEF SendFails, MoveCall, KafkaFault
  <1>9. ASSUME NEW a \in Calls, CommitEnds(a) PROVE Statuses'
    <2>1. Committed(a) /\ status[a] \in {"success", "failed"}
      BY <1>9 DEF CommitEnds
    <2>2. /\ records' \in [Calls -> [success : Nat, failed : Nat]]
          /\ \A b \in Calls : b # a => records'[b] = records[b]
          /\ status[a] = "success" => /\ records'[a].success = records[a].success + 1
                                      /\ records'[a].failed = records[a].failed
          /\ status[a] = "failed" => /\ records'[a].success = records[a].success
                                     /\ records'[a].failed = records[a].failed + 1
      BY <2>1, CommittedRecord
    <2> QED BY <1>9, <2>1, <2>2 DEF CommitEnds, AfterEmitted, MoveCall
  <1>10. ASSUME NEW a \in Calls, CommitFails(a) PROVE Statuses'
    <2>1. CASE UNCHANGED records
      BY <1>10, <2>1 DEF CommitFails, KafkaFault, AfterCommitError, MoveCall
    <2>2. CASE Committed(a)
      <3>1. status[a] \in {"success", "failed"}
        BY <1>10 DEF CommitFails
      <3>2. /\ records' \in [Calls -> [success : Nat, failed : Nat]]
            /\ \A b \in Calls : b # a => records'[b] = records[b]
            /\ status[a] = "success" => /\ records'[a].success = records[a].success + 1
                                        /\ records'[a].failed = records[a].failed
            /\ status[a] = "failed" => /\ records'[a].success = records[a].success
                                       /\ records'[a].failed = records[a].failed + 1
        BY <2>2, <3>1, CommittedRecord
      <3> QED BY <1>10, <2>2, <3>1, <3>2 DEF CommitFails, KafkaFault, AfterCommitError, MoveCall
    <2> QED BY <1>10, <2>1, <2>2 DEF CommitFails
  <1>11. ASSUME NEW a \in Calls, Abort(a) PROVE Statuses'
    BY <1>11 DEF Abort, KafkaFault, Retry, Exhausted, EmissionRaises, Emit, MoveCall
  <1>12. CASE UNCHANGED soarAuditVars
    BY <1>12 DEF soarAuditVars
  <1> QED
    BY <1>1, <1>2, <1>3, <1>4, <1>5, <1>6, <1>7, <1>8, <1>9, <1>10, <1>11, <1>12
       DEF SoarAuditNext, AuditStep

(* A call ends as its action did after a commit only.  *)
LEMMA RecordedOutcomeStep ==
  ASSUME SoarAuditTypeOK, Statuses, OutcomeIsRecorded, [SoarAuditNext]_soarAuditVars
  PROVE  OutcomeIsRecorded'
  <1> USE SoarAuditAssumption DEF call, SoarAuditTypeOK, Statuses, OutcomeIsRecorded
  <1>1. CASE ConnectEnds
    BY <1>1 DEF ConnectEnds, KafkaFault
  <1>2. CASE Shutdown
    BY <1>2 DEF Shutdown, KafkaFault
  <1>3. ASSUME NEW a \in Calls, Act(a) PROVE OutcomeIsRecorded'
    BY <1>3 DEF Act, Emit
  <1>4. ASSUME NEW a \in Calls, EnsureConnected(a) PROVE OutcomeIsRecorded'
    BY <1>4 DEF EnsureConnected, MoveCall
  <1>5. ASSUME NEW a \in Calls, AwaitConnected(a) PROVE OutcomeIsRecorded'
    BY <1>5 DEF AwaitConnected, Settled, EmissionRaises, Emit, MoveCall
  <1>6. ASSUME NEW a \in Calls, BeginTransaction(a) PROVE OutcomeIsRecorded'
    BY <1>6 DEF BeginTransaction, Retry, Exhausted, EmissionRaises, Emit, MoveCall
  <1>7. ASSUME NEW a \in Calls, Send(a) PROVE OutcomeIsRecorded'
    BY <1>7 DEF Send, MoveCall
  <1>8. ASSUME NEW a \in Calls, SendFails(a) PROVE OutcomeIsRecorded'
    BY <1>8 DEF SendFails, MoveCall, KafkaFault
  <1>9. ASSUME NEW a \in Calls, CommitEnds(a) PROVE OutcomeIsRecorded'
    <2>1. Committed(a) /\ status[a] \in {"success", "failed"}
      BY <1>9 DEF CommitEnds
    <2>2. /\ records' \in [Calls -> [success : Nat, failed : Nat]]
          /\ \A b \in Calls : b # a => records'[b] = records[b]
          /\ status[a] = "success" => /\ records'[a].success = records[a].success + 1
                                      /\ records'[a].failed = records[a].failed
          /\ status[a] = "failed" => /\ records'[a].success = records[a].success
                                     /\ records'[a].failed = records[a].failed + 1
      BY <2>1, CommittedRecord
    <2> QED BY <1>9, <2>1, <2>2 DEF CommitEnds, AfterEmitted, MoveCall
  <1>10. ASSUME NEW a \in Calls, CommitFails(a) PROVE OutcomeIsRecorded'
    <2>1. CASE UNCHANGED records
      BY <1>10, <2>1 DEF CommitFails, KafkaFault, AfterCommitError, MoveCall
    <2>2. CASE Committed(a)
      <3>1. status[a] \in {"success", "failed"}
        BY <1>10 DEF CommitFails
      <3>2. /\ records' \in [Calls -> [success : Nat, failed : Nat]]
            /\ \A b \in Calls : b # a => records'[b] = records[b]
            /\ status[a] = "success" => /\ records'[a].success = records[a].success + 1
                                        /\ records'[a].failed = records[a].failed
            /\ status[a] = "failed" => /\ records'[a].success = records[a].success
                                       /\ records'[a].failed = records[a].failed + 1
        BY <2>2, <3>1, CommittedRecord
      <3> QED BY <1>10, <2>2, <3>1, <3>2 DEF CommitFails, KafkaFault, AfterCommitError, MoveCall
    <2> QED BY <1>10, <2>1, <2>2 DEF CommitFails
  <1>11. ASSUME NEW a \in Calls, Abort(a) PROVE OutcomeIsRecorded'
    BY <1>11 DEF Abort, KafkaFault, Retry, Exhausted, EmissionRaises, Emit, MoveCall
  <1>12. CASE UNCHANGED soarAuditVars
    BY <1>12 DEF soarAuditVars
  <1> QED
    BY <1>1, <1>2, <1>3, <1>4, <1>5, <1>6, <1>7, <1>8, <1>9, <1>10, <1>11, <1>12
       DEF SoarAuditNext, AuditStep

(* What is recorded is the status in hand.  *)
LEMMA NoFalseSuccessStep ==
  ASSUME SoarAuditTypeOK, Statuses, NoFalseSuccess, [SoarAuditNext]_soarAuditVars
  PROVE  NoFalseSuccess'
  <1> USE SoarAuditAssumption DEF call, SoarAuditTypeOK, Statuses, NoFalseSuccess
  <1>1. CASE ConnectEnds
    BY <1>1 DEF ConnectEnds, KafkaFault
  <1>2. CASE Shutdown
    BY <1>2 DEF Shutdown, KafkaFault
  <1>3. ASSUME NEW a \in Calls, Act(a) PROVE NoFalseSuccess'
    BY <1>3 DEF Act, Emit
  <1>4. ASSUME NEW a \in Calls, EnsureConnected(a) PROVE NoFalseSuccess'
    BY <1>4 DEF EnsureConnected, MoveCall
  <1>5. ASSUME NEW a \in Calls, AwaitConnected(a) PROVE NoFalseSuccess'
    BY <1>5 DEF AwaitConnected, Settled, EmissionRaises, Emit, MoveCall
  <1>6. ASSUME NEW a \in Calls, BeginTransaction(a) PROVE NoFalseSuccess'
    BY <1>6 DEF BeginTransaction, Retry, Exhausted, EmissionRaises, Emit, MoveCall
  <1>7. ASSUME NEW a \in Calls, Send(a) PROVE NoFalseSuccess'
    BY <1>7 DEF Send, MoveCall
  <1>8. ASSUME NEW a \in Calls, SendFails(a) PROVE NoFalseSuccess'
    BY <1>8 DEF SendFails, MoveCall, KafkaFault
  <1>9. ASSUME NEW a \in Calls, CommitEnds(a) PROVE NoFalseSuccess'
    <2>1. Committed(a) /\ status[a] \in {"success", "failed"}
      BY <1>9 DEF CommitEnds
    <2>2. /\ records' \in [Calls -> [success : Nat, failed : Nat]]
          /\ \A b \in Calls : b # a => records'[b] = records[b]
          /\ status[a] = "success" => /\ records'[a].success = records[a].success + 1
                                      /\ records'[a].failed = records[a].failed
          /\ status[a] = "failed" => /\ records'[a].success = records[a].success
                                     /\ records'[a].failed = records[a].failed + 1
      BY <2>1, CommittedRecord
    <2> QED BY <1>9, <2>1, <2>2 DEF CommitEnds, AfterEmitted, MoveCall
  <1>10. ASSUME NEW a \in Calls, CommitFails(a) PROVE NoFalseSuccess'
    <2>1. CASE UNCHANGED records
      BY <1>10, <2>1 DEF CommitFails, KafkaFault, AfterCommitError, MoveCall
    <2>2. CASE Committed(a)
      <3>1. status[a] \in {"success", "failed"}
        BY <1>10 DEF CommitFails
      <3>2. /\ records' \in [Calls -> [success : Nat, failed : Nat]]
            /\ \A b \in Calls : b # a => records'[b] = records[b]
            /\ status[a] = "success" => /\ records'[a].success = records[a].success + 1
                                        /\ records'[a].failed = records[a].failed
            /\ status[a] = "failed" => /\ records'[a].success = records[a].success
                                       /\ records'[a].failed = records[a].failed + 1
        BY <2>2, <3>1, CommittedRecord
      <3> QED BY <1>10, <2>2, <3>1, <3>2 DEF CommitFails, KafkaFault, AfterCommitError, MoveCall
    <2> QED BY <1>10, <2>1, <2>2 DEF CommitFails
  <1>11. ASSUME NEW a \in Calls, Abort(a) PROVE NoFalseSuccess'
    BY <1>11 DEF Abort, KafkaFault, Retry, Exhausted, EmissionRaises, Emit, MoveCall
  <1>12. CASE UNCHANGED soarAuditVars
    BY <1>12 DEF soarAuditVars
  <1> QED
    BY <1>1, <1>2, <1>3, <1>4, <1>5, <1>6, <1>7, <1>8, <1>9, <1>10, <1>11, <1>12
       DEF SoarAuditNext, AuditStep

(* Closing the connection is a fault, and no commit starts on a closed one.  *)
LEMMA CutOffStep ==
  ASSUME SoarAuditTypeOK, Statuses, DuplicatesNeedFaults, CutOff, [SoarAuditNext]_soarAuditVars
  PROVE  CutOff'
  <1> SUFFICES ASSUME NEW b \in Calls, callPc'[b] = "commit", connected' # "ok"
               PROVE  records'[b].success + records'[b].failed + 1 <= kafkaFaults'
    BY DEF CutOff
  <1> USE SoarAuditAssumption DEF call, SoarAuditTypeOK, CutOff
  <1>1. CASE ConnectEnds
    BY <1>1 DEF ConnectEnds, KafkaFault
  <1>2. CASE Shutdown
    BY <1>2 DEF Shutdown, KafkaFault, DuplicatesNeedFaults
  <1>3. ASSUME NEW a \in Calls, Act(a) \/ AuditStep(a), b = a, connected # "ok" PROVE FALSE
    BY <1>3 DEF Act, AuditStep, EnsureConnected, AwaitConnected, BeginTransaction, Send, SendFails,
         CommitEnds, CommitFails, Abort, AfterEmitted, AfterCommitError, EmissionRaises, Retry,
         Emit, MoveCall
  <1>4. ASSUME NEW a \in Calls, Act(a) \/ AuditStep(a) PROVE connected # "ok"
    BY <1>4 DEF Act, AuditStep, EnsureConnected, AwaitConnected, BeginTransaction, Send, SendFails,
         CommitEnds, CommitFails, Abort
  <1>5. ASSUME NEW a \in Calls, Act(a) \/ AuditStep(a), b # a
        PROVE  /\ callPc'[b] = callPc[b] /\ kafkaFaults' \in {kafkaFaults, kafkaFaults + 1}
               /\ records'[b] = records[b]
    <2>1. CASE CommitEnds(a) \/ CommitFails(a)
      BY <1>5, <2>1 DEF CommitEnds, CommitFails, Committed, MoveCall, KafkaFault
    <2>2. CASE ~(CommitEnds(a) \/ CommitFails(a))
      BY <1>5, <2>2 DEF Act, AuditStep, EnsureConnected, AwaitConnected, BeginTransaction, Send,
           SendFails, Abort, EmissionRaises, Retry, Emit, MoveCall, KafkaFault
    <2> QED BY <2>1, <2>2
  <1>6. ASSUME NEW a \in Calls, Act(a) \/ AuditStep(a)
        PROVE  records'[b].success + records'[b].failed + 1 <= kafkaFaults'
    <2>1. records[b].success + records[b].failed + 1 <= kafkaFaults
      BY <1>3, <1>4, <1>5, <1>6
    <2>2. records'[b] = records[b] /\ kafkaFaults' \in {kafkaFaults, kafkaFaults + 1}
      BY <1>3, <1>4, <1>5, <1>6
    <2>3. records[b].success \in Nat /\ records[b].failed \in Nat /\ kafkaFaults \in Nat
      OBVIOUS
    <2> QED BY <2>1, <2>2, <2>3
  <1>7. CASE UNCHANGED soarAuditVars
    BY <1>7 DEF soarAuditVars
  <1> QED
    BY <1>1, <1>2, <1>6, <1>7 DEF SoarAuditNext

(* SoarAuditIInv is inductive. *)
LEMMA AuditInitially == SoarAuditInit => SoarAuditIInv
  BY SoarAuditAssumption DEF SoarAuditInit, SoarAuditIInv, SoarAuditInv, SoarAuditTypeOK, AuditEnded,
     Statuses, CutOff, OutcomeIsRecorded, DuplicatesNeedFaults, NoFalseSuccess

(* Every step of an audited call keeps the inductive invariant. *)
LEMMA AuditInductive == SoarAuditIInv /\ [SoarAuditNext]_soarAuditVars => SoarAuditIInv'
  BY AuditTypeStep, StatusesStep, RecordedOutcomeStep, DuplicatesStep, NoFalseSuccessStep, CutOffStep
     DEF SoarAuditIInv, SoarAuditInv

(* The records of the audit topic say how each action ended: whoever sees  *)
(* the action's own end can read it there, an action that threw is never   *)
(* recorded as a success, and each further record took a fault of Kafka    *)
(* (kafkaEmitter.ts:50-85).                                                *)
THEOREM AuditIsTrue == SoarAuditSpec => []SoarAuditInv
  <1>1. SoarAuditSpec => []SoarAuditIInv
    BY AuditInitially, AuditInductive, PTL DEF SoarAuditSpec
  <1>2. SoarAuditIInv => SoarAuditInv
    BY DEF SoarAuditIInv
  <1> QED BY <1>1, <1>2, PTL

-----------------------------------------------------------------------------
(* Playbooks                                                               *)

(* Where a run stands, and what it has accepted and counted by then.       *)
RunStages ==
  /\ runPc \in {"isolate_host", "reset_password", "notify", "exec"} =>
       /\ Current <= Len(Steps)
       /\ CurrentStep.type = IF runPc = "exec" THEN "isolate_host" ELSE runPc
  /\ runPc \in {"load", "exit 1"} => results = <<>>
  /\ runPc \notin {"load", "exit 1"} => Accepted
  /\ runPc \in {"success", "partial", "failed"} => Len(results) = Len(Steps)

(* A step that reported success has had its effect.                        *)
EffectsFirst ==
  \A i \in 1 .. Len(results) : results[i] = "success" =>
    \/ Steps[i].type = "notify" /\ (i \in told \/ Steps[i].channel \notin Channels)
    \/ i \in done

(* The overall status sums all results up.                                 *)
SummedUp ==
  /\ runPc = "success" => \A i \in 1 .. Len(results) : results[i] = "success"
  /\ runPc = "failed"  => \A i \in 1 .. Len(results) : results[i] = "failed"

PlaybookIInv == PlaybookTypeOK /\ RunStages /\ EffectsFirst /\ SummedUp

(* The number of steps is a number. *)
LEMMA StepCount == PlaybookTypeOK => Len(Steps) \in Nat /\ Len(results) \in Nat
  BY PlaybookAssumption DEF PlaybookTypeOK, Steps

(* The three overall results. *)
LEMMA OverallIs ==
  ASSUME PlaybookTypeOK
  PROVE  /\ Cardinality(Succeeded) = Len(results) => Overall = "success"
         /\ Cardinality(Succeeded) # Len(results) /\ Succeeded = {} /\ results # <<>>
              => Overall = "failed"
         /\ Cardinality(Succeeded) # Len(results) /\ Succeeded # {} => Overall = "partial"
  <1>1. Cardinality(Succeeded) = Len(results) => Overall = "success"
    <2>1. Succeeded = {} => Cardinality(Succeeded) = 0
      BY FS_EmptySet
    <2>2. Len(results) = 0 => results = <<>>
      <3>1. results \in Seq({"success", "failed"})
        BY DEF PlaybookTypeOK
      <3> QED BY <3>1
    <2>3. ASSUME Cardinality(Succeeded) = Len(results) PROVE ~(Succeeded = {} /\ results # <<>>)
      BY <2>1, <2>2, <2>3
    <2> QED BY <2>3 DEF Overall
  <1>2. Cardinality(Succeeded) # Len(results) /\ Succeeded = {} /\ results # <<>> => Overall = "failed"
    BY DEF Overall
  <1>3. Cardinality(Succeeded) # Len(results) /\ Succeeded # {} => Overall = "partial"
    BY DEF Overall
  <1> QED BY <1>1, <1>2, <1>3

(* Where there is no result, none is counted.                              *)
LEMMA NoResult == results = <<>> => Len(results) = 0
  OBVIOUS

(* A status is one of two.                                                 *)
LEMMA StatusOf ==
  ASSUME PlaybookTypeOK, NEW i \in 1 .. Len(results)
  PROVE  results[i] = "success" \/ results[i] = "failed"
  <1>1. results \in Seq({"success", "failed"})
    BY DEF PlaybookTypeOK
  <1> QED BY <1>1

(* As many successes as results are all of them.                           *)
LEMMA AllSucceeded ==
  ASSUME PlaybookTypeOK, Cardinality(Succeeded) = Len(results)
  PROVE  Succeeded = 1 .. Len(results)
  <1>0. ASSUME NEW n \in Nat PROVE IsFiniteSet(1 .. n) /\ Cardinality(1 .. n) = n
    BY <1>0, FS_Interval
  <1>1. Len(results) \in Nat /\ Succeeded \subseteq 1 .. Len(results)
    BY StepCount DEF Succeeded
  <1>2. IsFiniteSet(1 .. Len(results)) /\ Cardinality(1 .. Len(results)) = Len(results)
    BY <1>0, <1>1
  <1> QED BY <1>1, <1>2, FS_Subset

(* A result is recorded for a step that is there.  *)
LEMMA RunTypeStep ==
  ASSUME PlaybookTypeOK, RunStages, [PlaybookNext]_playbookVars
  PROVE  PlaybookTypeOK'
  <1> USE PlaybookAssumption, StepCount DEF Steps, Current, CurrentStep, PlaybookTypeOK,
         RunEnded, RunStages
  <1>1. CASE LoadPlaybook
    BY <1>1 DEF LoadPlaybook
  <1>2. CASE StartStep
    <2>1. CASE CurrentStep.type \in registry
      BY <1>2, <2>1 DEF StartStep
    <2>2. CASE CurrentStep.type \notin registry
      BY <1>2, <2>2 DEF StartStep, NoHandler, Record
    <2> QED BY <2>1, <2>2
  <1>3. CASE Ready
    BY <1>3 DEF Ready, Record
  <1>4. CASE Unreachable
    BY <1>4 DEF Unreachable, Record
  <1>5. CASE ConnectionBreaks
    BY <1>5 DEF ConnectionBreaks, Record, OnBreak
  <1>6. CASE ResetPassword
    BY <1>6 DEF ResetPassword, Record
  <1>7. CASE NotifyStep
    <2>1. told' = told \/ told' = told \cup {Current}
      BY <1>7 DEF NotifyStep
    <2>2. PICK s \in {"success", "failed"} : Record(s)
      BY <1>7 DEF NotifyStep
    <2> QED BY <1>7, <2>1, <2>2 DEF NotifyStep, Record
  <1>8. CASE Silence
    BY <1>8 DEF Silence, Record
  <1>9. ASSUME NEW i \in remote, NEW code \in {0, 1}, ScriptEnds(i, code) PROVE PlaybookTypeOK'
    <2>1. CASE Settles(i)
      BY <1>9, <2>1 DEF ScriptEnds, Record, Settles, OnClose
    <2>2. CASE ~Settles(i)
      BY <1>9, <2>2 DEF ScriptEnds
    <2> QED BY <2>1, <2>2
  <1>10. CASE Finish
    BY <1>10 DEF Finish, Record, Overall
  <1>11. CASE UNCHANGED playbookVars
    BY <1>11 DEF playbookVars
  <1> QED
    BY <1>1, <1>2, <1>3, <1>4, <1>5, <1>6, <1>7, <1>8, <1>9, <1>10, <1>11
       DEF PlaybookNext, Handler, Remote

(* Steps are taken in their order, once the document is accepted.  *)
LEMMA RunStagesStep ==
  ASSUME PlaybookTypeOK, RunStages, [PlaybookNext]_playbookVars
  PROVE  RunStages'
  <1> USE PlaybookAssumption, StepCount DEF Steps, Current, CurrentStep, PlaybookTypeOK,
         RunEnded, RunStages, Accepted
  <1>1. CASE LoadPlaybook
    BY <1>1 DEF LoadPlaybook
  <1>2. CASE StartStep
    BY <1>2 DEF StartStep, Record, NoHandler
  <1>3. CASE Ready
    BY <1>3 DEF Ready, Record
  <1>4. CASE Unreachable
    BY <1>4 DEF Unreachable, Record
  <1>5. CASE ConnectionBreaks
    BY <1>5 DEF ConnectionBreaks, Record, OnBreak
  <1>6. CASE ResetPassword
    BY <1>6 DEF ResetPassword, Record
  <1>7. CASE NotifyStep
    BY <1>7 DEF NotifyStep, Record
  <1>8. CASE Silence
    BY <1>8 DEF Silence, Record
  <1>9. ASSUME NEW i \in remote, NEW code \in {0, 1}, ScriptEnds(i, code) PROVE RunStages'
    BY <1>9 DEF ScriptEnds, Record, Settles, OnClose
  <1>10. CASE Finish
    BY <1>10 DEF Finish, Record, Overall
  <1>11. CASE UNCHANGED playbookVars
    BY <1>11 DEF playbookVars
  <1> HIDE DEF PlaybookTypeOK, RunStages, Accepted
  <1> QED
    BY <1>1, <1>2, <1>3, <1>4, <1>5, <1>6, <1>7, <1>8, <1>9, <1>10, <1>11
       DEF PlaybookNext, Handler, Remote

(* A handler reports success after the effect.  *)
LEMMA EffectsStep ==
  ASSUME PlaybookTypeOK, RunStages, EffectsFirst, [PlaybookNext]_playbookVars
  PROVE  EffectsFirst'
  <1> USE PlaybookAssumption, StepCount DEF Steps, Current, CurrentStep, PlaybookTypeOK,
         RunStages, EffectsFirst
  <1>1. CASE LoadPlaybook
    BY <1>1 DEF LoadPlaybook
  <1>2. CASE StartStep
    BY <1>2 DEF StartStep, Record, NoHandler
  <1>3. CASE Ready
    BY <1>3 DEF Ready, Record
  <1>4. CASE Unreachable
    BY <1>4 DEF Unreachable, Record
  <1>5. CASE ConnectionBreaks
    BY <1>5 DEF ConnectionBreaks, Record, OnBreak
  <1>6. CASE ResetPassword
    BY <1>6 DEF ResetPassword, Record
  <1>7. CASE NotifyStep
    <2>1. ASSUME NEW out \in BOOLEAN, NEW ok \in BOOLEAN, ok => out, CurrentStep.channel \in Channels,
                 told' = IF out THEN told \cup {Current} ELSE told,
                 Record(IF ok THEN "success" ELSE "failed")
          PROVE  EffectsFirst'
      <3>1. CASE ok
        BY <1>7, <2>1, <3>1 DEF NotifyStep, Record
      <3>2. CASE ~ok
        BY <1>7, <2>1, <3>2 DEF NotifyStep, Record
      <3> QED BY <3>1, <3>2
    <2>2. CASE CurrentStep.channel \notin Channels /\ Record("success") /\ UNCHANGED told
      BY <1>7, <2>2 DEF NotifyStep, Record
    <2> QED BY <1>7, <2>1, <2>2 DEF NotifyStep
  <1>8. CASE Silence
    BY <1>8 DEF Silence, Record
  <1>9. ASSUME NEW i \in remote, NEW code \in {0, 1}, ScriptEnds(i, code) PROVE EffectsFirst'
    <2>1. CASE Settles(i)
      BY <1>9, <2>1 DEF ScriptEnds, Record, Settles, OnClose
    <2>2. CASE ~Settles(i)
      BY <1>9, <2>2 DEF ScriptEnds
    <2> QED BY <2>1, <2>2
  <1>10. CASE Finish
    BY <1>10 DEF Finish, Record, Overall
  <1>11. CASE UNCHANGED playbookVars
    BY <1>11 DEF playbookVars
  <1> QED
    BY <1>1, <1>2, <1>3, <1>4, <1>5, <1>6, <1>7, <1>8, <1>9, <1>10, <1>11
       DEF PlaybookNext, Handler, Remote

(* Nothing is recorded after the end.  *)
LEMMA SummedUpStep ==
  ASSUME PlaybookTypeOK, RunStages, SummedUp, [PlaybookNext]_playbookVars
  PROVE  SummedUp'
  <1> USE PlaybookAssumption, StepCount DEF Steps, Current, CurrentStep, PlaybookTypeOK,
         RunStages, SummedUp
  <1>1. CASE LoadPlaybook
    BY <1>1 DEF LoadPlaybook
  <1>2. CASE StartStep
    BY <1>2 DEF StartStep, Record, NoHandler
  <1>3. CASE Ready
    BY <1>3 DEF Ready, Record
  <1>4. CASE Unreachable
    BY <1>4 DEF Unreachable, Record
  <1>5. CASE ConnectionBreaks
    BY <1>5 DEF ConnectionBreaks, Record, OnBreak
  <1>6. CASE ResetPassword
    BY <1>6 DEF ResetPassword, Record
  <1>7. CASE NotifyStep
    BY <1>7 DEF NotifyStep, Record
  <1>8. CASE Silence
    BY <1>8 DEF Silence, Record
  <1>9. ASSUME NEW i \in remote, NEW code \in {0, 1}, ScriptEnds(i, code) PROVE SummedUp'
    BY <1>9 DEF ScriptEnds, Record, Settles, OnClose
  <1>10. CASE Finish
    <2>1. CASE Cardinality(Succeeded) = Len(results)
      <3>1. Succeeded = 1 .. Len(results)
        BY <2>1, AllSucceeded
      <3>2. Overall = "success"
        BY <2>1, OverallIs
      <3> QED BY <1>10, <3>1, <3>2 DEF Finish, Succeeded
    <2>2. CASE Cardinality(Succeeded) # Len(results) /\ Succeeded = {}
      <3>1. Len(results) # 0
        <4>1. Len(results) = 0 => Cardinality(Succeeded) = 0
          BY <2>2, FS_EmptySet
        <4> QED BY <2>2, <4>1
      <3>2. Overall = "failed"
        <4>1. results # <<>>
          BY <3>1, NoResult
        <4> QED BY <2>2, <4>1, OverallIs
      <3>3. ASSUME NEW i \in 1 .. Len(results) PROVE results[i] = "failed"
        <4>1. results[i] = "success" \/ results[i] = "failed"
          BY <3>3, StatusOf
        <4>2. i \notin Succeeded
          BY <2>2
        <4> QED BY <4>1, <4>2 DEF Succeeded
      <3> QED BY <1>10, <3>2, <3>3 DEF Finish
    <2>3. CASE Cardinality(Succeeded) # Len(results) /\ Succeeded # {}
      <3>1. Overall = "partial"
        BY <2>3, OverallIs
      <3> QED BY <1>10, <3>1 DEF Finish
    <2> QED BY <2>1, <2>2, <2>3
  <1>11. CASE UNCHANGED playbookVars
    BY <1>11 DEF playbookVars
  <1> QED
    BY <1>1, <1>2, <1>3, <1>4, <1>5, <1>6, <1>7, <1>8, <1>9, <1>10, <1>11
       DEF PlaybookNext, Handler, Remote

(* PlaybookIInv is inductive. *)
LEMMA RunInitially == PlaybookInit => PlaybookIInv
  BY PlaybookAssumption DEF PlaybookInit, PlaybookIInv, PlaybookTypeOK, RunEnded, RunStages, EffectsFirst, SummedUp, Steps

(* Every step of a run keeps the inductive invariant. *)
LEMMA RunInductive == PlaybookIInv /\ [PlaybookNext]_playbookVars => PlaybookIInv'
  BY RunTypeStep, RunStagesStep, EffectsStep, SummedUpStep DEF PlaybookIInv

(* A reported success has had its effect, a reported failure was tried,    *)
(* and no result is taken for that of another step (engine/index.ts).      *)
THEOREM RunReportsTruly ==
  PlaybookSpec => [](PlaybookTypeOK /\ SuccessMeansDone /\ FailedMeansTried /\ ResultsHaveTheirStep)
  <1>1. PlaybookSpec => []PlaybookIInv
    BY RunInitially, RunInductive, PTL DEF PlaybookSpec
  <1>2. PlaybookIInv => PlaybookTypeOK /\ SuccessMeansDone /\ FailedMeansTried /\ ResultsHaveTheirStep
    <2> SUFFICES ASSUME PlaybookIInv
                 PROVE  PlaybookTypeOK /\ SuccessMeansDone /\ FailedMeansTried /\ ResultsHaveTheirStep
      OBVIOUS
    <2>0. Len(Steps) \in Nat /\ Len(results) \in Nat /\ Len(results) <= Len(Steps)
      BY StepCount DEF PlaybookIInv, PlaybookTypeOK
    <2>1. SuccessMeansDone
      BY <2>0 DEF SuccessMeansDone, PlaybookIInv, RunStages, EffectsFirst, SummedUp
    <2>2. FailedMeansTried
      BY <2>0 DEF FailedMeansTried, PlaybookIInv, PlaybookTypeOK, RunStages, SummedUp
    <2>3. ResultsHaveTheirStep
      <3> SUFFICES ASSUME NEW i \in 1 .. Len(results), NEW j \in 1 .. Len(results),
                          Steps[i].id = Steps[j].id
                   PROVE  i = j
        BY DEF ResultsHaveTheirStep
      <3>1. Accepted
        <4>1. results # <<>>
          BY <2>0
        <4> QED BY <4>1 DEF PlaybookIInv, RunStages
      <3>2. i \in 1 .. Len(Steps) /\ j \in 1 .. Len(Steps)
        BY <2>0
      <3> QED BY <3>1, <3>2 DEF Accepted
    <2> QED BY <2>1, <2>2, <2>3 DEF PlaybookIInv
  <1> QED BY <1>1, <1>2, PTL

-----------------------------------------------------------------------------
(* Built-in actions                                                        *)

(* What an action that is under way has done by then.                      *)
ActionStages ==
  \A a \in Actions :
    /\ actionPc[a] \in {"INPUT", "OUTPUT"} => type[a] = "isolate_host"
    /\ actionPc[a] = "OUTPUT" => "INPUT" \in rules[host[a]]
    /\ actionPc[a] = "chpasswd" => type[a] = "reset_password"

(* What stands on a host, some action of the right kind has put there.     *)
HostsTouched ==
  \A h \in Hosts :
    /\ "OUTPUT" \in rules[h] => "INPUT" \in rules[h]
    /\ password[h] # NoReset => password[h] \in Of("reset_password", h)

ActionsIInv ==
  /\ SoarActionsTypeOK /\ ActionStages /\ HostsTouched
  /\ SuccessIsReal /\ HalfIsolatedIsReported

(* Every step keeps the types.  *)
LEMMA ActionTypeStep ==
  ASSUME SoarActionsTypeOK, [SoarActionsNext]_soarActionsVars
  PROVE  SoarActionsTypeOK'
  <1> USE SoarActionsAssumption DEF SoarActionsTypeOK, Types
  <1>1. ASSUME NEW a \in Actions, Notify(a) PROVE SoarActionsTypeOK'
    BY <1>1 DEF Notify, MoveAction
  <1>2. ASSUME NEW a \in Actions, ConnectHost(a) PROVE SoarActionsTypeOK'
    BY <1>2 DEF ConnectHost, MoveAction
  <1>3. ASSUME NEW a \in Actions, AppendRule(a) PROVE SoarActionsTypeOK'
    BY <1>3 DEF AppendRule, AfterRule, MoveAction
  <1>4. ASSUME NEW a \in Actions, Chpasswd(a) PROVE SoarActionsTypeOK'
    BY <1>4 DEF Chpasswd, Reset, MoveAction
  <1>5. ASSUME NEW a \in Actions, ExecFails(a) PROVE SoarActionsTypeOK'
    BY <1>5 DEF ExecFails, Reset, OnError, MoveAction
  <1>6. CASE UNCHANGED soarActionsVars
    BY <1>6 DEF soarActionsVars
  <1> QED
    BY <1>1, <1>2, <1>3, <1>4, <1>5, <1>6 DEF SoarActionsNext, ActionStep

(* The second rule follows the first.  *)
LEMMA ActionStagesStep ==
  ASSUME SoarActionsTypeOK, ActionStages, [SoarActionsNext]_soarActionsVars
  PROVE  ActionStages'
  <1> USE SoarActionsAssumption DEF SoarActionsTypeOK, ActionStages
  <1>1. ASSUME NEW a \in Actions, Notify(a) PROVE ActionStages'
    BY <1>1 DEF Notify, MoveAction
  <1>2. ASSUME NEW a \in Actions, ConnectHost(a) PROVE ActionStages'
    BY <1>2 DEF ConnectHost, MoveAction
  <1>3. ASSUME NEW a \in Actions, AppendRule(a) PROVE ActionStages'
    BY <1>3 DEF AppendRule, AfterRule, MoveAction
  <1>4. ASSUME NEW a \in Actions, Chpasswd(a) PROVE ActionStages'
    BY <1>4 DEF Chpasswd, Reset, MoveAction
  <1>5. ASSUME NEW a \in Actions, ExecFails(a) PROVE ActionStages'
    BY <1>5 DEF ExecFails, Reset, OnError, MoveAction
  <1>6. CASE UNCHANGED soarActionsVars
    BY <1>6 DEF soarActionsVars
  <1> QED
    BY <1>1, <1>2, <1>3, <1>4, <1>5, <1>6 DEF SoarActionsNext, ActionStep

(* Only isolations write rules, and only resets passwords.  *)
LEMMA HostsTouchedStep ==
  ASSUME SoarActionsTypeOK, ActionStages, HostsTouched, [SoarActionsNext]_soarActionsVars
  PROVE  HostsTouched'
  <1> USE SoarActionsAssumption DEF SoarActionsTypeOK, ActionStages, HostsTouched, Of
  <1>1. ASSUME NEW a \in Actions, Notify(a) PROVE HostsTouched'
    BY <1>1 DEF Notify, MoveAction
  <1>2. ASSUME NEW a \in Actions, ConnectHost(a) PROVE HostsTouched'
    BY <1>2 DEF ConnectHost, MoveAction
  <1>3. ASSUME NEW a \in Actions, AppendRule(a) PROVE HostsTouched'
    BY <1>3 DEF AppendRule, AfterRule, MoveAction
  <1>4. ASSUME NEW a \in Actions, Chpasswd(a) PROVE HostsTouched'
    BY <1>4 DEF Chpasswd, Reset, MoveAction
  <1>5. ASSUME NEW a \in Actions, ExecFails(a) PROVE HostsTouched'
    BY <1>5 DEF ExecFails, Reset, OnError, MoveAction
  <1>6. CASE UNCHANGED soarActionsVars
    BY <1>6 DEF soarActionsVars
  <1> QED
    BY <1>1, <1>2, <1>3, <1>4, <1>5, <1>6 DEF SoarActionsNext, ActionStep

(* An action reports success after its last command.  *)
LEMMA SuccessStep ==
  ASSUME SoarActionsTypeOK, ActionStages, HostsTouched, SuccessIsReal, [SoarActionsNext]_soarActionsVars
  PROVE  SuccessIsReal'
  <1> USE SoarActionsAssumption DEF SoarActionsTypeOK, ActionStages, HostsTouched,
         SuccessIsReal, Of
  <1>1. ASSUME NEW a \in Actions, Notify(a) PROVE SuccessIsReal'
    BY <1>1 DEF Notify, MoveAction
  <1>2. ASSUME NEW a \in Actions, ConnectHost(a) PROVE SuccessIsReal'
    BY <1>2 DEF ConnectHost, MoveAction
  <1>3. ASSUME NEW a \in Actions, AppendRule(a) PROVE SuccessIsReal'
    BY <1>3 DEF AppendRule, AfterRule, MoveAction
  <1>4. ASSUME NEW a \in Actions, Chpasswd(a) PROVE SuccessIsReal'
    BY <1>4 DEF Chpasswd, Reset, MoveAction
  <1>5. ASSUME NEW a \in Actions, ExecFails(a) PROVE SuccessIsReal'
    BY <1>5 DEF ExecFails, Reset, OnError, MoveAction
  <1>6. CASE UNCHANGED soarActionsVars
    BY <1>6 DEF soarActionsVars
  <1> QED
    BY <1>1, <1>2, <1>3, <1>4, <1>5, <1>6 DEF SoarActionsNext, ActionStep

(* The first rule comes with an isolation that goes on or reports a failure.  *)
LEMMA HalfIsolatedStep ==
  ASSUME SoarActionsTypeOK, ActionStages, HostsTouched, HalfIsolatedIsReported, [SoarActionsNext]_soarActionsVars
  PROVE  HalfIsolatedIsReported'
  <1> USE SoarActionsAssumption DEF SoarActionsTypeOK, ActionStages, HostsTouched,
         HalfIsolatedIsReported, Of
  <1>1. ASSUME NEW a \in Actions, Notify(a) PROVE HalfIsolatedIsReported'
    BY <1>1 DEF Notify, MoveAction
  <1>2. ASSUME NEW a \in Actions, ConnectHost(a) PROVE HalfIsolatedIsReported'
    BY <1>2 DEF ConnectHost, MoveAction
  <1>3. ASSUME NEW a \in Actions, AppendRule(a) PROVE HalfIsolatedIsReported'
    BY <1>3 DEF AppendRule, AfterRule, MoveAction
  <1>4. ASSUME NEW a \in Actions, Chpasswd(a) PROVE HalfIsolatedIsReported'
    BY <1>4 DEF Chpasswd, Reset, MoveAction
  <1>5. ASSUME NEW a \in Actions, ExecFails(a) PROVE HalfIsolatedIsReported'
    BY <1>5 DEF ExecFails, Reset, OnError, MoveAction
  <1>6. CASE UNCHANGED soarActionsVars
    BY <1>6 DEF soarActionsVars
  <1> QED
    BY <1>1, <1>2, <1>3, <1>4, <1>5, <1>6 DEF SoarActionsNext, ActionStep

(* ActionsIInv is inductive. *)
LEMMA ActionsInitially == SoarActionsInit => ActionsIInv
  BY SoarActionsAssumption DEF SoarActionsInit, ActionsIInv, SoarActionsTypeOK, Types, ActionStages,
     HostsTouched, SuccessIsReal, HalfIsolatedIsReported

(* Every step of an action keeps the inductive invariant. *)
LEMMA ActionsInductive == ActionsIInv /\ [SoarActionsNext]_soarActionsVars => ActionsIInv'
  BY ActionTypeStep, ActionStagesStep, HostsTouchedStep, SuccessStep, HalfIsolatedStep
     DEF ActionsIInv

(* An action that reports success has isolated its host, reset its         *)
(* password or sent its message, and a host that drops in one direction    *)
(* only is being isolated or was reported (soar-service/src/actions).      *)
THEOREM ActionsReportTruly ==
  SoarActionsSpec => [](SoarActionsTypeOK /\ SuccessIsReal /\ HalfIsolatedIsReported)
  <1>1. SoarActionsSpec => []ActionsIInv
    BY ActionsInitially, ActionsInductive, PTL DEF SoarActionsSpec
  <1>2. ActionsIInv => SoarActionsTypeOK /\ SuccessIsReal /\ HalfIsolatedIsReported
    BY DEF ActionsIInv
  <1> QED BY <1>1, <1>2, PTL

-----------------------------------------------------------------------------
(* The parts side by side                                                  *)

(* What playbooks and actions report of their hosts is so, whenever a      *)
(* connection broke (soar-service/src/engine, soar-service/src/actions).   *)
THEOREM SoarReportsTruly == PlaybookSpec /\ SoarActionsSpec => []SoarInv
  BY RunReportsTruly, ActionsReportTruly, PTL DEF SoarInv

(* A behaviour of the composition is one of every part of it.              *)
THEOREM PartsBehave ==
  Spec => SoarAuditSpec /\ PlaybookSpec /\ SoarActionsSpec /\ LedgerSpec
  <1> USE DEF OfAudit, OfPlaybook, OfActions, OfLedger
  <1>1. Init => SoarAuditInit /\ PlaybookInit /\ SoarActionsInit /\ LedgerInit
    BY DEF Init
  <1>2. [Next]_responseVars => [SoarAuditNext]_soarAuditVars
    BY DEF Next, responseVars
  <1>3. [Next]_responseVars => [PlaybookNext]_playbookVars
    BY DEF Next, responseVars
  <1>4. [Next]_responseVars => [SoarActionsNext]_soarActionsVars
    BY DEF Next, responseVars
  <1>5. [Next]_responseVars => [LedgerNext]_ledgerVars
    BY DEF Next, responseVars
  <1> QED BY <1>1, <1>2, <1>3, <1>4, <1>5, PTL
          DEF Spec, SoarAuditSpec, PlaybookSpec, SoarActionsSpec, LedgerSpec

(* The invariants of all parts hold of the composition, and its ledger     *)
(* implements the abstract log.                                            *)
THEOREM ResponseIsTrue == Spec => [](SoarAuditInv /\ SoarInv /\ LedgerInv) /\ ImplementsLog
  BY PartsBehave, AuditIsTrue, SoarReportsTruly, LedgerIsHonest, LedgerRefinement, PTL
=============================================================================
