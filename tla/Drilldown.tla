----------------------------- MODULE Drilldown ------------------------------
(***************************************************************************)
(* src/ui-dashboard/components/FiltersDrilldown.tsx with                   *)
(* hooks/useDebounce.ts: a row of menus, each one's options depending on   *)
(* what is selected in those before it.  The options are fetched for the   *)
(* selection as it was 200 ms ago; whether they are fetched is decided by  *)
(* the selection of now.  A fetch may fail: its menu is empty then, without*)
(* a word, until react-query has a reason to fetch for it again.           *)
(***************************************************************************)
EXTENDS Naturals, Sequences, FiniteSets

CONSTANTS
  Menus,   \* how many categories
  Values,  \* the values of a category, for any selection
  NoValue, \* nothing selected
  MaxOptionFaults \* bound: fetches of options that fail

ASSUME MenuAssumption ==
  Menus \in Nat \ {0} /\ NoValue \notin Values /\ MaxOptionFaults \in Nat

Menu == 1 .. Menus

VARIABLES
  selected,   \* per menu, a value or NoValue
  debounced,  \* per menu, the selection before it as its useDebounce has it
  timer,      \* per menu, whether the debounce's timeout runs
  cache,      \* per menu, the keys whose options were fetched
  fetching,   \* per menu, the keys whose options are being fetched
  unanswered, \* per menu, whether the fetch for it failed (isError, never read)
  optionFaults,
  open,       \* per menu, whether it is open
  reported,   \* the selection that onFilterChange got last
  rendered    \* whether the effect of the last render is done

queries == <<cache, fetching, unanswered, optionFaults>>
drilldownVars == <<selected, debounced, timer, queries, open, reported, rendered>>

(* The menus before m in which something is selected, and the k-th of them.*)
Filled(m) == {i \in 1 .. m - 1 : selected[i] # NoValue}
FilledAt(m, k) == CHOOSE i \in Filled(m) : Cardinality(Filled(i)) = k - 1

(* parentSelection of menu m: what is selected before it, without the gaps.*)
(* Its join is the key of the menu's query.                                *)
Before(m) == [k \in 1 .. Cardinality(Filled(m)) |-> selected[FilledAt(m, k)]]

DrilldownInit ==
  /\ selected = [m \in Menu |-> NoValue]
  /\ debounced = [m \in Menu |-> <<>>] /\ timer = [m \in Menu |-> FALSE]
  /\ cache = [m \in Menu |-> {}] /\ fetching = [m \in Menu |-> {}]
  /\ unanswered = [m \in Menu |-> FALSE] /\ optionFaults = 0
  /\ open = [m \in Menu |-> FALSE]
  /\ reported = selected /\ rendered = TRUE

-----------------------------------------------------------------------------
(* The query is enabled when every menu before this one is filled in.      *)
Enabled(m) == Len(Before(m)) = m - 1

Cached(m, key) == key \in cache[m] \cup fetching[m]

(* useQuery fetches the options of the debounced key, once.                *)
FetchOptions(m) ==
  /\ Enabled(m) /\ ~Cached(m, debounced[m]) /\ ~unanswered[m]
  /\ fetching' = [fetching EXCEPT ![m] = @ \cup {debounced[m]}]
  /\ UNCHANGED <<selected, debounced, timer, cache, unanswered, optionFaults, open, reported,
                 rendered>>

FetchEnds(m, key) ==
  /\ key \in fetching[m]
  /\ fetching' = [fetching EXCEPT ![m] = @ \ {key}]
  /\ cache' = [cache EXCEPT ![m] = @ \cup {key}]
  /\ UNCHANGED <<selected, debounced, timer, unanswered, optionFaults, open, reported,
                 rendered>>

(* fetchOptions rejects, the library's retries included: if the menu is    *)
(* still for this key, it has no options to offer.                         *)
FetchOptionsFails(m, key) ==
  /\ key \in fetching[m] /\ optionFaults < MaxOptionFaults
  /\ optionFaults' = optionFaults + 1
  /\ fetching' = [fetching EXCEPT ![m] = @ \ {key}]
  /\ unanswered' = [unanswered EXCEPT ![m] = @ \/ (Enabled(m) /\ debounced[m] = key)]
  /\ UNCHANGED <<selected, debounced, timer, cache, open, reported, rendered>>

(* The window gets the focus: what failed is fetched again.                *)
Focus ==
  /\ unanswered' = [m \in Menu |-> FALSE]
  /\ UNCHANGED <<selected, debounced, timer, cache, fetching, optionFaults, open, reported,
                 rendered>>

Toggle(m) ==
  /\ open' = [open EXCEPT ![m] = ~@]
  /\ UNCHANGED <<selected, debounced, timer, queries, reported, rendered>>

(* The value of menu m, and none in the menus after it.                    *)
Below(m, v) == [i \in Menu |-> IF i < m THEN selected[i] ELSE IF i = m THEN v ELSE NoValue]

(* An option of an open menu is chosen: the options shown are those of the *)
(* debounced key.  Each useDebounce whose value changes starts its timeout *)
(* again.  A query that is disabled is fetched when it is enabled again.   *)
HandleSelect(m, v) ==
  /\ open[m] /\ debounced[m] \in cache[m]
  /\ selected' = Below(m, v) /\ open' = [open EXCEPT ![m] = FALSE]
  /\ timer' = [i \in Menu |-> timer[i] \/ Before(i)' # Before(i)]
  /\ rendered' = (rendered /\ selected' = selected)
  /\ unanswered' = [i \in Menu |-> unanswered[i] /\ Enabled(i)']
  /\ UNCHANGED <<debounced, cache, fetching, optionFaults, reported>>

(* The timeout's value: the value of the render that started it, which is  *)
(* the last one that changed it.                                           *)
Debounced(m) == Before(m)

(* Another key is another query.                                           *)
UseDebounce(m) ==
  /\ timer[m] /\ timer' = [timer EXCEPT ![m] = FALSE]
  /\ debounced' = [debounced EXCEPT ![m] = Debounced(m)]
  /\ unanswered' = [unanswered EXCEPT ![m] = @ /\ Debounced(m) = debounced[m]]
  /\ UNCHANGED <<selected, cache, fetching, optionFaults, open, reported, rendered>>

(* The effect on [selected].                                               *)
Report ==
  /\ ~rendered /\ rendered' = TRUE /\ reported' = selected
  /\ UNCHANGED <<selected, debounced, timer, queries, open>>

-----------------------------------------------------------------------------
DrilldownNext ==
  \/ Report \/ Focus
  \/ \E m \in Menu :
       \/ FetchOptions(m) \/ Toggle(m) \/ UseDebounce(m)
       \/ \E key \in fetching[m] : FetchEnds(m, key) \/ FetchOptionsFails(m, key)
       \/ \E v \in Values : HandleSelect(m, v)

DrilldownSpec == DrilldownInit /\ [][DrilldownNext]_drilldownVars

(* Timeouts fire, effects run and requests end.                            *)
DrilldownProgress ==
  \/ Report
  \/ \E m \in Menu : \/ FetchOptions(m) \/ UseDebounce(m)
                     \/ \E key \in fetching[m] : FetchEnds(m, key)

-----------------------------------------------------------------------------
(* Every variable has its type.                                            *)
DrilldownTypeOK ==
  /\ selected \in [Menu -> Values \cup {NoValue}]
  /\ reported \in [Menu -> Values \cup {NoValue}]
  /\ timer \in [Menu -> BOOLEAN] /\ open \in [Menu -> BOOLEAN] /\ rendered \in BOOLEAN
  /\ \A m \in Menu : \A key \in cache[m] \cup fetching[m] \cup {debounced[m]} :
       Len(key) < m /\ \A i \in 1 .. Len(key) : key[i] \in Values
  /\ \A m \in Menu : cache[m] \cap fetching[m] = {}
  /\ unanswered \in [Menu -> BOOLEAN] /\ optionFaults \in 0 .. MaxOptionFaults
  /\ \A m \in Menu : unanswered[m] => Enabled(m) /\ ~Cached(m, debounced[m])

(* However fast two menus are changed, the second has no value without the *)
(* first: that would filter by a path that nobody chose.  (A third menu    *)
(* can be left so: once it is enabled, it fetches the options of the path  *)
(* of 200 ms ago, and offers them when its parents are incomplete again.)  *)
NoHoles == \A m \in Menu : selected[m] # NoValue => Len(Before(m)) = m - 1

(* Between two timeouts the options may be those of another selection, but *)
(* never for longer: when no timeout runs, each menu shows the options of  *)
(* the selection before it.                                                *)
SettledMeansCurrent == \A m \in Menu : ~timer[m] => debounced[m] = Before(m)

(* Once the user has chosen and leaves the menus alone, the page has been  *)
(* told of the selection, and each menu that can be used has its options,  *)
(* or the fetch for the selection of now, and for no other, has failed.    *)
PageCatchesUp ==
  (<>[][FALSE]_selected /\ <>(\E m \in Menu : selected[m] # NoValue)) =>
    <>[](/\ reported = selected
         /\ \A m \in Menu : Enabled(m) =>
              \/ Before(m) \in cache[m]
              \/ unanswered[m] /\ debounced[m] = Before(m))
=============================================================================
