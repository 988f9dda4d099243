--------------------------- MODULE DashboardData ----------------------------
(***************************************************************************)
(* What the dashboard (src/ui-dashboard/pages/Dashboard.tsx) makes of the  *)
(* alerts it fetched: cards of the newest, and a count of high alerts per  *)
(* day of the last week, which components/SeverityHeatmap.tsx draws in a   *)
(* grid of weekdays and weeks.  The counts are computed when the alerts    *)
(* change, and for the day it is then.  The heat map reads other names than*)
(* the page gives it, so that no count reaches a colour.  Days are         *)
(* numbered; day 0 is the first of a week.                                 *)
(***************************************************************************)
EXTENDS Integers, FiniteSets, FiniteSetsExt

CONSTANTS
  Alerts,
  At,          \* per alert, its time, in parts of a day
  Parts,       \* how many parts a day has
  High,        \* the alerts of severity high
  CardCount,   \* 6 in the code
  Undefined,   \* what a property that an object lacks reads as
  FirstDay, LastDay \* bound: the days on which the page is open

ASSUME DayAssumption ==
  /\ IsFiniteSet(Alerts) /\ At \in [Alerts -> Nat] /\ Parts \in Nat \ {0}
  /\ High \subseteq Alerts /\ CardCount \in Nat \ {0}
  /\ FirstDay \in Nat /\ FirstDay >= 6 /\ LastDay \in Nat /\ FirstDay <= LastDay
  /\ Undefined \notin Nat

VARIABLES
  today,
  overview,      \* "up" or "dead": an error while rendering ends the page
  alerts,        \* the answer of /api/alerts
  alertsFailed,  \* whether the last fetch of them was rejected
  heat,          \* heatData: of each day it is for, an object with its count
  cells          \* the heatmap's cells: of each day, its row, column and colour

dashboardDataVars == <<today, overview, alerts, alertsFailed, heat, cells>>
Day(a) == At[a] \div Parts

-----------------------------------------------------------------------------
(* eachDayOfInterval, from subDays(new Date(), 6).                         *)
Window(day) == day - 6 .. day

HeatData(S, day) ==
  [d \in Window(day) |-> [count |-> Cardinality({a \in S \cap High : Day(a) = d})]]

(* differenceInCalendarWeeks(today, date).                                 *)
Col(d, day) == (day \div 7) - (d \div 7)

(* JavaScript's o.name.                                                    *)
Read(o, n) == IF n \in DOMAIN o THEN o[n] ELSE Undefined

(* undefined equals no number and is below none.                           *)
ColorClass(high) ==
  CASE high = 0 -> "none" [] high \in 1 .. 3 -> "light" [] high \in 4 .. 6 -> "medium"
    [] OTHER -> "dark"

(* getDay and the distance in weeks, and the colour of day.high: the page  *)
(* has put the number into day.count.                                      *)
Cells(data, day) ==
  [d \in DOMAIN data |->
     [row |-> d % 7, col |-> Col(d, day), color |-> ColorClass(Read(data[d], "high"))]]

MaxCol == Max({0} \cup {cells[d].col : d \in DOMAIN cells})

(* Where a cell is drawn, in cells from the left.                          *)
X(d) == MaxCol - cells[d].col

(* The comparator of the cards: the newer of two comes first.              *)
Compare(a, b) == At[b] - At[a]

(* The results Array.sort may have: no element is less than an earlier one.*)
Sorts(S) ==
  {s \in [1 .. Cardinality(S) -> S] :
     \A i, j \in DOMAIN s : i < j => s[i] # s[j] /\ Compare(s[i], s[j]) <= 0}

(* slice(0, 6)                                                             *)
Cards(s) == {s[i] : i \in DOMAIN s \cap 1 .. CardCount}

-----------------------------------------------------------------------------
DashboardDataInit ==
  /\ today = FirstDay /\ overview = "up" /\ alerts = {} /\ alertsFailed = FALSE
  /\ heat = HeatData({}, FirstDay) /\ cells = Cells(heat, FirstDay)

(* Alerts that are there by now; the memo is computed if they changed.     *)
Fetch(S) ==
  /\ overview = "up" /\ \A a \in S : Day(a) <= today
  /\ alerts' = S /\ alertsFailed' = FALSE
  /\ IF S = alerts THEN UNCHANGED <<heat, cells>>
     ELSE heat' = HeatData(S, today) /\ cells' = Cells(heat', today)
  /\ UNCHANGED <<today, overview>>

(* A rejected fetch: the data stays, the cards give way to a message.      *)
FetchRejected ==
  /\ overview = "up" /\ alertsFailed' = TRUE
  /\ UNCHANGED <<today, overview, alerts, heat, cells>>

(* The body of an error is taken for the list: alerts.filter is no function*)
(* there, and the page ends.                                               *)
FetchRefused ==
  /\ overview = "up" /\ overview' = "dead"
  /\ UNCHANGED <<today, alerts, alertsFailed, heat, cells>>

Midnight ==
  /\ today < LastDay /\ today' = today + 1
  /\ UNCHANGED <<overview, alerts, alertsFailed, heat, cells>>

DashboardDataNext ==
  Midnight \/ FetchRejected \/ FetchRefused \/ \E S \in SUBSET Alerts : Fetch(S)

DashboardDataSpec == DashboardDataInit /\ [][DashboardDataNext]_dashboardDataVars

-----------------------------------------------------------------------------
(* Every variable has its type, and the cells are those of the counts; and *)
(* each has the colour of seven alerts or more, whatever its count is: the *)
(* heat map of the source tells nothing of the alerts.                     *)
DashboardDataTypeOK ==
  /\ today \in FirstDay .. LastDay /\ alerts \subseteq Alerts
  /\ overview \in {"up", "dead"} /\ alertsFailed \in BOOLEAN
  /\ \A d \in DOMAIN heat : heat[d].count \in 0 .. Cardinality(Alerts)
  /\ DOMAIN cells = DOMAIN heat /\ Cardinality(DOMAIN heat) = 7
  /\ \A d \in DOMAIN cells : cells[d].row \in 0 .. 6 /\ cells[d].color = "dark"

(* Whatever weekday the week of the heatmap begins on, and wherever it     *)
(* crosses into a new calendar week, no two days share a cell and every    *)
(* later day stands to the right of or below an earlier one.               *)
CellsApart ==
  \A d, e \in DOMAIN cells :
    d < e => X(d) < X(e) \/ (X(d) = X(e) /\ cells[d].row < cells[e].row)

(* However the sort orders alerts of one moment, an alert without a card is*)
(* no newer than one with a card, and only a full grid leaves one out.     *)
CardsAreNewest ==
  \A s \in Sorts(alerts) :
    \A b \in alerts \ Cards(s) :
      /\ \A a \in Cards(s) : At[a] >= At[b]
      /\ CardCount \in DOMAIN s

(* heatData counts a high alert of the last week on its day, though        *)
(* midnight may have passed since it was computed: it is one day late for  *)
(* each, and keeps a high alert until its day leaves the window.  (It is   *)
(* the number that the heat map does not read.)                            *)
HighAlertIsCounted ==
  \A a \in alerts \cap High :
    Day(a) > today - 7 => Day(a) \in DOMAIN heat /\ heat[Day(a)].count > 0
=============================================================================
