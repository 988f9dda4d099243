---------------------------- MODULE AuditScroll -----------------------------
(***************************************************************************)
(* src/ui-dashboard/pages/AuditLedger.tsx: the endless list of the audit   *)
(* ledger.  A scroll to the bottom fetches the next page, through the      *)
(* file's own throttle of 300 ms.  react-query returns a new result object *)
(* at each render, and so each render makes a new throttle, whose function *)
(* sees that result; the timeout of an older one runs on and sees what was.*)
(* Only scroll events fetch: a page too short to move the user away from   *)
(* the bottom brings none by itself.                                       *)
(***************************************************************************)
EXTENDS Naturals

CONSTANTS
  Pages,         \* pages of the ledger
  MaxScrolls,    \* bound: scroll events
  MaxPageFaults  \* bound: fetches that fail or are refused

ASSUME PageAssumption == Pages \in Nat \ {0} /\ MaxScrolls \in Nat /\ MaxPageFaults \in Nat

VARIABLES
  pageMounted,   \* FALSE too once an error while rendering has ended the page
  atBottom,      \* el.scrollTop + el.clientHeight >= el.scrollHeight - 20
  pages,         \* pages shown
  fetchingPage,  \* query.isFetchingNextPage
  ready,         \* the throttle: 300 ms have passed since it last ran its function
  scrollTimer,   \* the throttle's timeout: "none", "runs" or "due"
  stale,         \* timeouts of earlier throttles, with what their function sees
  scrolls, pageFaults,
  requests,      \* fetches begun (history)
  asked          \* a scroll to the bottom came while no page was fetched, and
                 \* no fetch has begun since (history)

auditScrollVars == <<pageMounted, atBottom, pages, fetchingPage, ready, scrollTimer, stale,
                     scrolls, pageFaults, requests, asked>>

(* What the function of the current throttle sees.                         *)
Seen == [fetching |-> fetchingPage, hasNext |-> pages < Pages]

(* The first page is there.                                                *)
AuditScrollInit ==
  /\ pageMounted = TRUE /\ atBottom = FALSE /\ pages = 1 /\ fetchingPage = FALSE
  /\ ready = TRUE /\ scrollTimer = "none" /\ stale = {}
  /\ scrolls = 0 /\ pageFaults = 0 /\ requests = 0 /\ asked = FALSE

-----------------------------------------------------------------------------
(* The component renders: a new throttle, with last = 0, while the timeout *)
(* of the one before stays what it is.                                     *)
Fresh(others, mine) ==
  /\ ready' = TRUE /\ scrollTimer' = "none"
  /\ stale' = others \cup (IF mine = "none" THEN {} ELSE {Seen})

(* query.isFetchingNextPage and query.hasNextPage, as the closure has them.*)
Wanted(seen) == ~seen.fetching /\ seen.hasNext

(* fetchNextPage: a fetch under way is given up for a new one; beyond the  *)
(* last page the library fetches nothing.                                  *)
Fetches(seen) == pageMounted /\ atBottom' /\ Wanted(seen) /\ pages < Pages

FetchNextPage ==
  /\ fetchingPage' = TRUE /\ requests' = requests + 1

NoFetch == UNCHANGED <<fetchingPage, requests>>

(* The function runs with what it sees; a fetch that begins is a render.   *)
(* Else ready is as given, and the timeouts left are mine and the others.  *)
(* Now tells whether a scroll has asked for a page by then.                *)
Run(seen, others, mine, then, now) ==
  /\ IF Fetches(seen) THEN FetchNextPage ELSE NoFetch
  /\ asked' = (now /\ ~Fetches(seen))
  /\ IF Fetches(seen) /\ ~fetchingPage
     THEN Fresh(others, mine)
     ELSE ready' = then /\ scrollTimer' = mine /\ stale' = others

Waits_Dropped(t) == t

(* The call is put off to the end of the 300 ms, in place of an earlier.   *)
Waits(t) == "runs"

Scroll(b) ==
  /\ pageMounted /\ scrolls < MaxScrolls /\ scrolls' = scrolls + 1
  /\ atBottom' = b
  /\ IF ready THEN Run(Seen, stale, scrollTimer, FALSE, b /\ ~fetchingPage)
     ELSE /\ scrollTimer' = Waits(scrollTimer) /\ NoFetch /\ UNCHANGED <<ready, stale>>
          /\ asked' = (b /\ ~fetchingPage)
  /\ UNCHANGED <<pageMounted, pages, pageFaults>>

(* 300 ms have passed since the function ran.                              *)
DelayEnds ==
  /\ ~ready /\ ready' = TRUE
  /\ scrollTimer' = IF scrollTimer = "runs" THEN "due" ELSE scrollTimer
  /\ UNCHANGED <<pageMounted, atBottom, pages, fetchingPage, stale, scrolls, pageFaults,
                 requests, asked>>

TimeoutRuns ==
  /\ scrollTimer = "due" /\ UNCHANGED atBottom
  /\ Run(Seen, stale, "none", FALSE, asked)
  /\ UNCHANGED <<pageMounted, pages, scrolls, pageFaults>>

(* The timeout of an earlier render's throttle.                            *)
StaleTimeoutRuns(seen) ==
  /\ UNCHANGED atBottom
  /\ Run(seen, stale \ {seen}, scrollTimer, ready, asked)
  /\ UNCHANGED <<pageMounted, pages, scrolls, pageFaults>>

(* The page arrives: the list is longer than what is in view, unless the   *)
(* page has few rows or none.                                              *)
PageArrives ==
  /\ pageMounted /\ fetchingPage /\ fetchingPage' = FALSE
  /\ pages' = pages + 1 /\ atBottom' \in {FALSE, atBottom}
  /\ Fresh(stale, scrollTimer)
  /\ UNCHANGED <<pageMounted, scrolls, pageFaults, requests, asked>>

(* res.json() is taken for a page whatever the status is: an error's body  *)
(* has no data, its row is undefined, and drawing it ends the page.        *)
PageRefused ==
  /\ pageMounted /\ fetchingPage /\ fetchingPage' = FALSE
  /\ pageFaults < MaxPageFaults /\ pageFaults' = pageFaults + 1
  /\ pageMounted' = FALSE
  /\ UNCHANGED <<atBottom, pages, ready, scrollTimer, stale, scrolls, requests, asked>>

FetchFails ==
  /\ pageMounted /\ fetchingPage /\ fetchingPage' = FALSE
  /\ pageFaults < MaxPageFaults /\ pageFaults' = pageFaults + 1
  /\ Fresh(stale, scrollTimer)
  /\ UNCHANGED <<pageMounted, atBottom, pages, scrolls, requests, asked>>

(* An entry is opened or closed, or a toast is shown or dismissed.         *)
RenderPage ==
  /\ pageMounted /\ Fresh(stale, scrollTimer)
  /\ UNCHANGED <<pageMounted, atBottom, pages, fetchingPage, scrolls, pageFaults,
                 requests, asked>>

(* containerRef.current is null from now on.                               *)
UnmountPage ==
  /\ pageMounted /\ pageMounted' = FALSE
  /\ UNCHANGED <<atBottom, pages, fetchingPage, ready, scrollTimer, stale, scrolls,
                 pageFaults, requests, asked>>

-----------------------------------------------------------------------------
AuditScrollNext ==
  \/ PageArrives \/ PageRefused \/ FetchFails \/ RenderPage \/ UnmountPage
  \/ DelayEnds \/ TimeoutRuns
  \/ \E seen \in stale : StaleTimeoutRuns(seen)
  \/ \E b \in BOOLEAN : Scroll(b)

AuditScrollSpec == AuditScrollInit /\ [][AuditScrollNext]_auditScrollVars

(* Timeouts fire, and the server sends its pages.                          *)
ScrollProgress ==
  DelayEnds \/ TimeoutRuns \/ PageArrives \/ \E seen \in stale : StaleTimeoutRuns(seen)

-----------------------------------------------------------------------------
(* Every variable has its type, and no page is fetched beyond the last.    *)
AuditScrollTypeOK ==
  /\ {pageMounted, atBottom, fetchingPage, ready, asked} \subseteq BOOLEAN
  /\ scrollTimer \in {"none", "runs", "due"} /\ (scrollTimer = "runs" => ~ready)
  /\ pages \in 1 .. Pages /\ (fetchingPage => pages < Pages)
  /\ stale \subseteq [fetching : BOOLEAN, hasNext : BOOLEAN]
  /\ scrolls \in 0 .. MaxScrolls /\ requests \in 0 .. MaxScrolls

(* Scrolling on while a page is fetched does not start its fetch again:    *)
(* only the timeout of a throttle that an earlier render left behind can.  *)
OnlyStaleRestarts ==
  [][fetchingPage /\ requests' # requests =>
       \E seen \in stale : seen \notin stale']_auditScrollVars

(* A scroll to the bottom brings the next page if the user stays there,    *)
(* whichever of the throttle's calls was the last and whatever was rendered*)
(* in between.  Not so a scroll while a page is fetched: when that page    *)
(* fails or leaves the user at the bottom, another scroll is needed.       *)
BottomFetches ==
  (asked /\ pages < Pages)
    ~> (fetchingPage \/ ~atBottom \/ ~pageMounted)
=============================================================================
