\* Two tokens, an alert for all sessions and one for a token, one DELETE;
\* t1 has no expiry and outlives the key of the DELETE.
CONSTANTS
  a1 = a1  a2 = a2  a3 = a3  t1 = t1  t2 = t2
  Tokens = {t1, t2}
  Alerts = {a1, a2}
  Target <- MCTarget
  AllTokens = AllTokens
  Irrelevant = Irrelevant
  Requests = {q1}
  Jti <- MCJti
  Life <- MCLife
  DeleteTtl = 1
  RevokerTtl = 2
  MaxDeliveries <- MCDeliveries
  MaxFaults = 1
  MaxTime = 1
SPECIFICATION Spec
INVARIANTS TypeOK RevokedMeansRefused RecordedOnce OffsetMeansHandled HandledAlertIsComplete
PROPERTIES RefusedStaysRefused
\* Every alert passed, every request answered, the clock at its bound.
CHECK_DEADLOCK FALSE
