\* Fair scheduling; an irrelevant alert beside one for all sessions.
CONSTANTS
  a1 = a1  a2 = a2  a3 = a3  t1 = t1  t2 = t2
  Tokens = {t1, t2}
  Alerts = {a1, a3}
  Target <- MCTarget
  AllTokens = AllTokens
  Irrelevant = Irrelevant
  Requests = {}
  Jti <- MCJti
  Life <- MCLife
  DeleteTtl = 2
  RevokerTtl = 3
  MaxDeliveries <- MCDeliveries
  MaxFaults = 1
  MaxTime = 0
SPECIFICATION FairSpec
PROPERTIES EveryAlertPassed
\* Every alert passed, every request answered, the clock at its bound.
CHECK_DEADLOCK FALSE
