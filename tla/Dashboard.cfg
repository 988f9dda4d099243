SPECIFICATION FairSpec
CONSTANTS
  Ids = {1, 2, 3}
  NoSocket = 0
  MaxDrops = 3
  MaxErrors = 3
  MaxRenders = 2
  Events = {"createdHigh", "createdLow", "updated"}
  Urgent = {"createdHigh"}
  MaxEvents = 3
  Queries = {"/api/alerts", "ledger", "category"}
  Submissions = {f1, f2}
  MaxFeedbackFaults = 1
  Menus = 2
  Values = {a, b}
  NoValue = NoValue
  MaxOptionFaults = 1
  Pages = 4
  MaxScrolls = 6
  MaxPageFaults = 1
  Searches <- MCSearches
  Empty = ""
  MaxPage = 2
  Found <- MCFound
  Absent = Absent
  Refusal = Refusal
  MaxRequestFaults = 1
  Alerts <- MCAlerts
  At <- MCAt
  Parts = 2
  High <- MCHigh
  CardCount = 2
  Undefined = Undefined
  FirstDay = 7
  LastDay = 14
  Saves = {s1, s2}
  MaxDialogs = 2
INVARIANTS DashboardInv
PROPERTIES DashboardCatchesUp
CHECK_DEADLOCK FALSE
