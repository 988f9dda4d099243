----------------------------- MODULE MCResponse -----------------------------
(***************************************************************************)
(* Three parts of src/soar-service and the ledger service.  They share no  *)
(* state, so a behaviour is a behaviour of one of them while the others    *)
(* rest at a state they may begin in.                                      *)
(***************************************************************************)
EXTENDS SoarAudit, Playbook, SoarActions, Ledger

CONSTANTS isolate, notify, other, run, otherRun

VARIABLE part

(* Playbooks of up to three steps over two ids, and refused documents.     *)
StepsOf(ids) ==
  [id : ids, type : {"isolate_host", "reset_password"}, channel : {"none"}]
    \cup [id : ids, type : {"notify"}, channel : {"slack", "pager"}]

MCSteps ==
  {<<>>} \cup {<<a>> : a \in StepsOf({1})}
    \cup {<<a, b>> : a \in StepsOf({1}), b \in StepsOf({1, 2})}
    \cup {<<a, b, c>> : a \in StepsOf({1}), b \in StepsOf({2}), c \in StepsOf({3})}

Flagged(p, f, z, s) == [parses |-> p, fits |-> f, strict |-> z, steps |-> s]

Empty == Flagged(TRUE, TRUE, TRUE, <<>>)

MCDocuments ==
  {Flagged(TRUE, TRUE, TRUE, s) : s \in MCSteps}
    \cup {Flagged(FALSE, FALSE, FALSE, <<>>), Flagged(TRUE, FALSE, FALSE, <<>>),
          Flagged(TRUE, TRUE, FALSE, <<>>)}

MCTypes == {"isolate_host", "reset_password", "notify"}

(* Two steps of a run with one timestamp, and an event of another run.     *)
MCKey == [v \in Events |-> IF v = other THEN otherRun ELSE run]

-----------------------------------------------------------------------------
responseVars == <<part, soarAuditVars, playbookVars, soarActionsVars, ledgerVars>>

Init ==
  /\ part \in {"audit", "playbook", "actions", "ledger"}
  /\ part # "playbook" => doc = Empty /\ registry = StepTypes
  /\ part # "actions" => /\ type = [a \in Actions |-> "notify"] /\ keeps = {}
                         /\ host = [a \in Actions |-> CHOOSE h \in Hosts : TRUE]
  /\ part # "ledger" => /\ event = [r \in Requests |-> isolate]
                        /\ kind = [r \in Requests |-> "log"]
  /\ SoarAuditInit /\ PlaybookInit /\ SoarActionsInit /\ LedgerInit

(* An action of one part; the others rest.                                 *)
OfAudit(A) ==
  part = "audit" /\ A /\ UNCHANGED <<part, playbookVars, soarActionsVars, ledgerVars>>

OfPlaybook(A) ==
  part = "playbook" /\ A /\ UNCHANGED <<part, soarAuditVars, soarActionsVars, ledgerVars>>

OfActions(A) ==
  part = "actions" /\ A /\ UNCHANGED <<part, soarAuditVars, playbookVars, ledgerVars>>

OfLedger(A) ==
  part = "ledger" /\ A /\ UNCHANGED <<part, soarAuditVars, playbookVars, soarActionsVars>>

Next ==
  \/ OfAudit(SoarAuditNext)
  \/ OfPlaybook(PlaybookNext)
  \/ OfActions(SoarActionsNext)
  \/ OfLedger(LedgerNext)

Spec == Init /\ [][Next]_responseVars

(* Node resumes the calls whose await or timer is over; see the operators. *)
FairSpec ==
  /\ Spec
  /\ WF_responseVars(OfAudit(AuditProgress) \/ OfPlaybook(RunProgress) \/ OfLedger(LedgerProgress))

-----------------------------------------------------------------------------
(* What playbooks and actions report of their hosts is so, whenever a      *)
(* connection broke (soar-service/src/engine, soar-service/src/actions).   *)
SoarInv ==
  /\ PlaybookTypeOK /\ SuccessMeansDone /\ FailedMeansTried /\ ResultsHaveTheirStep
  /\ SoarActionsTypeOK /\ SuccessIsReal /\ HalfIsolatedIsReported

(* Audited calls, playbooks and ledger requests end, each as far as what   *)
(* it waits for does.                                                      *)
ResponseEnds == EveryCallEnds /\ RunEnds /\ EveryRequestAnswered
=============================================================================
