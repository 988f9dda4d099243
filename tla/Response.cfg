SPECIFICATION FairSpec
CONSTANTS
  Calls = {c1, c2}
  Retries = 2
  Nobody = Nobody
  MaxKafkaFaults = 3
  StepTypes <- MCTypes
  Documents <- MCDocuments
  Channels = {"slack", "sns"}
  Actions = {a1, a2, a3}
  Hosts = {h1, h2}
  NoReset = NoReset
  Requests = {r1, r2}
  isolate = isolate
  notify = notify
  other = other
  Events = {isolate, notify}
  run = run
  otherRun = otherRun
  Key <- MCKey
  Attempts = 3
  None = None
  MaxFaults = 2
INVARIANTS SoarAuditInv SoarInv LedgerInv
PROPERTIES ImplementsLog ResponseEnds
CHECK_DEADLOCK FALSE
