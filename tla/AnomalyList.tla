---------------------------- MODULE AnomalyList -----------------------------
(***************************************************************************)
(* src/ui-dashboard/pages/AnomalyViewer.tsx: a searched and paged list of  *)
(* anomalies beside a panel that shows the selected one.  The search is    *)
(* debounced by 300 ms; a query per search and page fetches the rows, and  *)
(* answers arrive in any order.  res.json() is taken for rows whatever the *)
(* status was: an answer that is not a list ends the page when it is shown.*)
(***************************************************************************)
EXTENDS Naturals, Sequences, Functions

CONSTANTS
  Searches, Empty,  \* what may stand in the search field; Empty is one of them
  MaxPage,          \* bound: how far Next is pressed
  Found,            \* what the server finds: per search and page, a sequence of anomalies
  Absent, Refusal,  \* no data, and the body of an answer that is not a list
  MaxRequestFaults  \* bound: requests that fail or are refused

Keys == Searches \X (1 .. MaxPage)

ASSUME ListAssumption ==
  /\ Empty \in Searches /\ MaxPage \in Nat \ {0} /\ MaxRequestFaults \in Nat
  /\ DOMAIN Found = Keys /\ \A k \in Keys : Found[k] \in Seq(Range(Found[k]))

VARIABLES
  search,           \* the text in the field
  debouncedSearch,  \* useDebounce(search, 300)
  searchTimer,      \* whether its timeout runs
  page,
  queryCache,       \* per key: Absent, Refusal or rows
  inFlight,         \* requests under way: the key, and the search and page asked for
  failedKeys,       \* keys whose request failed
  panel,            \* the anomaly in the panel, or Absent
  anomalyFaults,
  chosen            \* the anomaly that the user chose last, or Absent (history)

view == <<search, debouncedSearch, searchTimer, page>>
anomalyListVars == <<view, queryCache, inFlight, failedKeys, panel, anomalyFaults, chosen>>

AnomalyListInit ==
  /\ search = Empty /\ debouncedSearch = Empty /\ searchTimer = FALSE /\ page = 1
  /\ queryCache = [k \in Keys |-> Absent] /\ inFlight = {} /\ failedKeys = {}
  /\ panel = Absent /\ anomalyFaults = 0 /\ chosen = Absent

-----------------------------------------------------------------------------
(* The query's key: the list shows the rows of this one and no other.      *)
Key == <<debouncedSearch, page>>

Data == queryCache[Key]

Shown == IF Data \in {Absent, Refusal} THEN <<>> ELSE Data

Alive == Data # Refusal

TypeSearch(s) ==
  /\ Alive /\ s # search /\ search' = s /\ searchTimer' = TRUE
  /\ UNCHANGED <<debouncedSearch, page, queryCache, inFlight, failedKeys, panel,
                 anomalyFaults, chosen>>

(* The timeout's value: each keystroke starts it again.                    *)
SettledSearch == search

DebounceSearch ==
  /\ Alive /\ searchTimer /\ searchTimer' = FALSE /\ debouncedSearch' = SettledSearch
  /\ UNCHANGED <<search, page, queryCache, inFlight, failedKeys, panel, anomalyFaults, chosen>>

(* Prev and Next; a new search leaves the page as it is.                   *)
TurnPage(p) ==
  /\ Alive /\ p \in {page - 1, page + 1} \cap (1 .. MaxPage) /\ page' = p
  /\ UNCHANGED <<search, debouncedSearch, searchTimer, queryCache, inFlight, failedKeys,
                 panel, anomalyFaults, chosen>>

FetchPage ==
  /\ Data = Absent /\ Key \notin failedKeys /\ \A f \in inFlight : f[1] # Key
  /\ inFlight' = inFlight \cup {<<Key, <<debouncedSearch, page>>>>}
  /\ UNCHANGED <<view, queryCache, failedKeys, panel, anomalyFaults, chosen>>

Answer(f) ==
  /\ inFlight' = inFlight \ {f} /\ queryCache' = [queryCache EXCEPT ![f[1]] = Found[f[2]]]
  /\ UNCHANGED <<view, failedKeys, panel, anomalyFaults, chosen>>

(* The request fails, or is answered by an error with a body of its own.   *)
FetchPageFails(f) ==
  /\ anomalyFaults < MaxRequestFaults /\ anomalyFaults' = anomalyFaults + 1
  /\ inFlight' = inFlight \ {f}
  /\ \/ failedKeys' = failedKeys \cup {f[1]} /\ UNCHANGED queryCache
     \/ queryCache' = [queryCache EXCEPT ![f[1]] = Refusal] /\ UNCHANGED failedKeys
  /\ UNCHANGED <<view, panel, chosen>>

ToSelect == Shown # <<>> /\ panel = Absent

(* The effect on [data, selected].                                         *)
SelectFirst ==
  /\ ToSelect /\ panel' = Shown[1]
  /\ UNCHANGED <<view, queryCache, inFlight, failedKeys, anomalyFaults, chosen>>

(* A click, or an arrow key: the row next to the one that has the focus.   *)
Select(i) ==
  /\ i \in DOMAIN Shown /\ panel' = Shown[i] /\ chosen' = Shown[i]
  /\ UNCHANGED <<view, queryCache, inFlight, failedKeys, anomalyFaults>>

AnomalyListNext ==
  \/ DebounceSearch \/ FetchPage \/ SelectFirst
  \/ \E s \in Searches : TypeSearch(s)
  \/ \E p \in 1 .. MaxPage : TurnPage(p)
  \/ \E f \in inFlight : Answer(f) \/ FetchPageFails(f)
  \/ \E i \in DOMAIN Shown : Select(i)

AnomalyListSpec == AnomalyListInit /\ [][AnomalyListNext]_anomalyListVars

(* Timeouts fire, effects run, and a request ends.                         *)
ListProgress == DebounceSearch \/ FetchPage \/ SelectFirst \/ \E f \in inFlight : Answer(f)

-----------------------------------------------------------------------------
Anomalies == UNION {Range(Found[k]) : k \in Keys}

(* Every variable has its type.                                            *)
AnomalyListTypeOK ==
  /\ {search, debouncedSearch} \subseteq Searches
  /\ searchTimer \in BOOLEAN /\ page \in 1 .. MaxPage
  /\ (~searchTimer => debouncedSearch = search)
  /\ \A k \in Keys : queryCache[k] \in {Absent, Refusal} \cup Range(Found)
  /\ inFlight \subseteq Keys \X Keys /\ failedKeys \subseteq Keys
  /\ {panel, chosen} \subseteq Anomalies \cup {Absent}
  /\ anomalyFaults \in 0 .. MaxRequestFaults

(* In whatever order answers arrive, the rows in the list are those of the *)
(* search and the page that the user sees.                                 *)
ListIsForInputs ==
  Data \notin {Absent, Refusal} => Shown = Found[<<debouncedSearch, page>>]

(* What the user chose stays in the panel until the next choice: no late   *)
(* answer, page or search replaces it by the first row of another list.    *)
ChoiceStays == chosen # Absent => panel = chosen

(* The user who searches or turns pages, and stops, gets a list for what   *)
(* is asked for or a message that it failed, unless a refusal has ended    *)
(* the page.                                                               *)
ListCatchesUp ==
  (<>[][FALSE]_<<search, page>> /\ <>(<<search, page>> # <<Empty, 1>>)) =>
    <>[](~Alive \/ (debouncedSearch = search /\ (Data # Absent \/ Key \in failedKeys)))
=============================================================================
