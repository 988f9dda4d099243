\* Three calls, two of one event; a second process may fence the first;
\* fair scheduling of the calls.
CONSTANTS
  c1 = c1  c2 = c2  c3 = c3  v1 = v1  v2 = v2
  Emits = {c1, c2, c3}
  Event <- MCEvent
  Processes = {p1, p2}
  None = None
  MaxFaults = 3
SPECIFICATION FairSpec
INVARIANTS TypeOK PublishedHasRow RowsAreAnnounced DlqNotPublished
PROPERTIES PublishedRowStays TransactionCloses
\* Every call has ended.
CHECK_DEADLOCK FALSE
