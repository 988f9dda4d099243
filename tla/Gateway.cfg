SPECIFICATION FairSpec
CONSTANTS
  Requests = {r1, r2}
  alerts = alerts
  soar = soar
  ledger = ledger
  Routes = {alerts, soar, ledger}
  item = item
  list = list
  record = record
  Endpoints <- MCEndpoints
  Fits = {item, record}
  Configured = {alerts, soar}
  None = None
  MaxFires = 2
  a2 = a2
  Arrivals = {a1, a2}
  Services <- MCServices
  Ledger <- MCLedger
  WithUrl <- MCWithUrl
  Sockets = {s1, s2}
  Never = Never
  IdleLimit = 2
  MaxTime = 5
INVARIANTS GatewayInv
PROPERTIES GatewayRecovers
CHECK_DEADLOCK FALSE
