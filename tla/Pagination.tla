----------------------------- MODULE Pagination -----------------------------
(***************************************************************************)
(* The listings of src/iam-service/src/routes: roles.ts, rules.ts and      *)
(* sessions.ts.  A client walks one of them page by page, handing back the *)
(* cursor it got, while rows come and go.  Each request takes one row more *)
(* than a page shows; the key of that row is the cursor, and the next page *)
(* begins strictly after the cursor.                                       *)
(***************************************************************************)
EXTENDS Integers, FiniteSets, FiniteSetsExt

CONSTANTS
  Rows,
  Id,   \* per row, its unique id: the order of roles and rules
  Age,  \* per row, how long ago it was created: the order of sessions
  PageSize

ASSUME RowAssumption ==
  /\ IsFiniteSet(Rows)
  /\ Id \in [Rows -> Nat] /\ \A r, s \in Rows : Id[r] = Id[s] => r = s
  /\ Age \in [Rows -> Nat] /\ PageSize \in Nat \ {0}

VARIABLES
  route,     \* the listing: "roles", "rules" or "sessions"
  caller,    \* what the token says: admin, the permissions to read, whether the
             \* sessions asked for are the caller's own
  present,   \* rows of the table that a listing sees: not yet soft-deleted
  created,   \* rows that were created so far
  cursor,    \* what the client hands over: Start, a key, or Done
  answer,    \* the last answer's status
  shown,     \* rows on a page of this walk (history)
  repeated,  \* rows on two pages of this walk (history)
  cursors,   \* cursors of this walk (history)
  steady     \* rows present during all of this walk (history)

walk == <<cursor, answer, shown, repeated, cursors>>
paginationVars == <<route, caller, present, created, steady, walk>>

Start == -1
Done  == -2

PaginationInit ==
  /\ route \in {"roles", "rules", "sessions"}
  /\ caller \in [admin : BOOLEAN, reads : SUBSET {"roles", "rules"}, own : BOOLEAN]
  /\ present \in SUBSET Rows /\ created = present /\ steady = present
  /\ cursor = Start /\ answer = "none"
  /\ shown = {} /\ repeated = {} /\ cursors = {}

-----------------------------------------------------------------------------
(* gt, or for sessions lt a point in time.                                 *)
After(key, c) == c = Start \/ key > c

Taken_PageSize == PageSize

(* take: one row more than the page shows.                                 *)
Taken == PageSize + 1

(* The first n of the rows in the order of key; equal keys in any order.   *)
Firsts(rows, key, n) ==
  {S \in kSubset(Min({n, Cardinality(rows)}), rows) :
     \A r \in S, s \in rows \ S : key[r] <= key[s]}

Show(page, next) ==
  /\ answer' = "200" /\ cursor' = next
  /\ shown' = shown \cup page /\ repeated' = repeated \cup (shown \cap page)
  /\ cursors' = cursors \cup ({next} \ {Done})

(* slice(0, limit).                                                        *)
Sliced(list, last) == list \ {last}

(* findMany, the next cursor and the page.                                 *)
Page(key) ==
  \E list \in Firsts({r \in present : After(key[r], cursor)}, key, Taken) :
    IF Cardinality(list) > PageSize
    THEN \E last \in {r \in list : \A s \in list : key[s] <= key[r]} :
           Show(Sliced(list, last), key[last])
    ELSE Show(list, Done)

Forbidden ==
  /\ answer' = "403" /\ cursor' = Done
  /\ UNCHANGED <<shown, repeated, cursors>>

ListRoles ==
  /\ route = "roles" /\ cursor # Done
  /\ IF caller.admin \/ "roles" \in caller.reads THEN Page(Id) ELSE Forbidden
  /\ UNCHANGED <<route, caller, present, created, steady>>

ListRules ==
  /\ route = "rules" /\ cursor # Done
  /\ IF caller.admin \/ "rules" \in caller.reads THEN Page(Id) ELSE Forbidden
  /\ UNCHANGED <<route, caller, present, created, steady>>

(* Without a userId, the caller's own; of another user for an admin only.  *)
ListSessions ==
  /\ route = "sessions" /\ cursor # Done
  /\ IF caller.admin \/ caller.own THEN Page(Age) ELSE Forbidden
  /\ UNCHANGED <<route, caller, present, created, steady>>

-----------------------------------------------------------------------------
(* A role or rule is created with any id; a session is the newest.         *)
Create(r) ==
  /\ r \notin created
  /\ route = "sessions" => \A s \in created : Age[r] <= Age[s]
  /\ created' = created \cup {r} /\ present' = present \cup {r}
  /\ UNCHANGED <<route, caller, steady, walk>>

(* deleted_at is set; a session's row stays in its listing.                *)
Delete(r) ==
  /\ route # "sessions" /\ r \in present
  /\ present' = present \ {r} /\ steady' = steady \ {r}
  /\ UNCHANGED <<route, caller, created, walk>>

(* The client asks for the next page.                                      *)
NextPage == ListRoles \/ ListRules \/ ListSessions

PaginationNext ==
  \/ NextPage
  \/ \E r \in Rows : Create(r) \/ Delete(r)

PaginationSpec == PaginationInit /\ [][PaginationNext]_paginationVars

-----------------------------------------------------------------------------
KeyOf(r) == IF route = "sessions" THEN Age[r] ELSE Id[r]

(* Every variable has its type, and a walk has given out a cursor for each *)
(* full page it went on from.                                              *)
PaginationTypeOK ==
  /\ route \in {"roles", "rules", "sessions"}
  /\ present \subseteq created /\ created \subseteq Rows /\ steady \subseteq present
  /\ cursor \in {Start, Done} \cup {KeyOf(r) : r \in created}
  /\ answer \in {"none", "200", "403"}
  /\ repeated \subseteq shown /\ shown \subseteq created
  /\ Cardinality(shown) >= PageSize * Cardinality(cursors)

(* No row is on two pages of a walk, whatever is created or deleted in     *)
(* between, rows of equal age included.                                    *)
NoRowTwice == repeated = {}

(* A finished walk has shown every row that was there all along, except    *)
(* those whose key was a cursor: the row that gives the cursor is on no    *)
(* page, and takes the sessions of the same instant with it.               *)
OnlyCursorsAreMissed ==
  (cursor = Done /\ answer = "200") => \A r \in steady \ shown : KeyOf(r) \in cursors

(* A walk that has begun comes to its end, though rows are created before  *)
(* it (roles.ts:41-48 and its likes).                                      *)
WalkEnds == cursor # Start ~> cursor = Done

(* Of a walk: no row is shown twice, and none is missed but those that the *)
(* cursors point at (routes/roles.ts:24-54 and its like).                  *)
PaginationInv == PaginationTypeOK /\ NoRowTwice /\ OnlyCursorsAreMissed
=============================================================================
