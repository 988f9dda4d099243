----------------------------- MODULE RoleEvents -----------------------------
(***************************************************************************)
(* src/iam-service/src/routes/roles.ts and rules.ts: an admin creates,     *)
(* changes and soft-deletes roles and rules.  Each handler writes one row, *)
(* waits, and then publishes what it wrote as role.updated or rule.updated *)
(* for whoever keeps a copy.  Requests overlap, and an error of either     *)
(* call ends the request with 500 and leaves the rest undone.              *)
(* app.locals.kafka is set, as in tests/roles.test.ts:47.                  *)
(***************************************************************************)
EXTENDS Naturals, Sequences, SequencesExt, FiniteSets

CONSTANTS
  Editors,
  RoleIds, RuleIds, NoRow,  \* ids in the two tables
  MaxRoleFaults             \* bound: calls of Postgres or Kafka that fail

Ids == RoleIds \cup RuleIds
Row == [by : Editors, deleted : BOOLEAN]

Bodies == {"good", "bad_logic", "misfit"}

(* What a request asks for; the caller's token says whether it is an admin.*)
Calls == [op : {"create", "update", "delete"}, id : Ids, body : Bodies, admin : BOOLEAN]

ASSUME RoleAssumption ==
  /\ RoleIds \cap RuleIds = {} /\ NoRow \notin Ids /\ NoRow \notin Editors
  /\ NoRow \notin Row /\ NoRow \notin Calls
  /\ MaxRoleFaults \in Nat

VARIABLES
  roleRow,   \* per id: None, or the request that wrote it last and whether it is deleted
  events,    \* the topic: what was published, in order
  changePc,  \* per request: "idle", "write", "publish" or the status of its answer
  call,      \* per request: what it does, and to which id
  result,    \* per request: the row that its write returned
  roleFaults,
  history,   \* states that each row had, with their id (history)
  overlap    \* ids that two requests worked on at once (history)

roleEventsVars == <<roleRow, events, changePc, call, result, roleFaults, history, overlap>>

Status == {"200", "204", "400", "403", "500"}

RoleEventsInit ==
  /\ roleRow = [i \in Ids |-> NoRow] /\ events = <<>>
  /\ changePc = [r \in Editors |-> "idle"] /\ call = [r \in Editors |-> NoRow]
  /\ result = [r \in Editors |-> NoRow]
  /\ roleFaults = 0 /\ history = {} /\ overlap = {}

Busy(i) == {r \in Editors : changePc[r] \in {"write", "publish"} /\ call[r].id = i}

-----------------------------------------------------------------------------
(* The call that comes first.                                              *)
First == "write"

(* A request gets to its first await, or is refused before it.             *)
BeginChange(r, c, refused) ==
  /\ changePc[r] = "idle" /\ call' = [call EXCEPT ![r] = c]
  /\ changePc' = [changePc EXCEPT ![r] =
                    IF ~c.admin THEN "403" ELSE IF refused THEN "400" ELSE First]
  /\ overlap' = overlap \cup {i \in {c.id} : changePc'[r] = First /\ Busy(i) # {}}
  /\ UNCHANGED <<roleRow, events, result, roleFaults, history>>

(* The database gives a new row an id of its own.                          *)
New(c) == c.op = "create" /\ roleRow[c.id] = NoRow /\ Busy(c.id) = {}

CreateRole(r, c) == c.id \in RoleIds /\ New(c) /\ BeginChange(r, c, c.body = "misfit")

UpdateRole(r, c) == c.id \in RoleIds /\ c.op = "update" /\ BeginChange(r, c, c.body = "misfit")

DeleteRole(r, c) == c.id \in RoleIds /\ c.op = "delete" /\ BeginChange(r, c, FALSE)

(* validateLogic: the rule is applied to nothing, and may raise.           *)
CreateRule(r, c) == c.id \in RuleIds /\ New(c) /\ BeginChange(r, c, c.body # "good")

UpdateRule(r, c) == c.id \in RuleIds /\ c.op = "update" /\ BeginChange(r, c, c.body # "good")

DeleteRule(r, c) == c.id \in RuleIds /\ c.op = "delete" /\ BeginChange(r, c, FALSE)

(* create, or update of the fields that the body or the deletion sets.     *)
Written(r) ==
  LET c == call[r]
  IN  CASE c.op = "create" -> [by |-> r, deleted |-> FALSE]
        [] c.op = "update" -> [roleRow[c.id] EXCEPT !.by = r]
        [] c.op = "delete" -> [roleRow[c.id] EXCEPT !.deleted = TRUE]

Write(r) ==
  LET i == call[r].id
  IN  /\ changePc[r] = "write"
      /\ call[r].op = "create" \/ roleRow[i] # NoRow
      /\ roleRow' = [roleRow EXCEPT ![i] = Written(r)]
      /\ result' = [result EXCEPT ![r] = Written(r)]
      /\ history' = history \cup {<<i, Written(r)>>}
      /\ changePc' = [changePc EXCEPT ![r] = "publish"]
      /\ UNCHANGED <<events, call, roleFaults, overlap>>

Message_Body(r) == [by |-> r, deleted |-> FALSE]

(* The row as the write returned it; for a deletion no more than that.     *)
Message(r) == result[r]

AfterSend(r) == IF call[r].op = "delete" THEN "204" ELSE "200"

Publish(r) ==
  /\ changePc[r] = "publish"
  /\ events' = Append(events, <<call[r].id, Message(r)>>)
  /\ changePc' = [changePc EXCEPT ![r] = AfterSend(r)]
  /\ UNCHANGED <<roleRow, call, result, roleFaults, history, overlap>>

(* The rejection reaches express, which answers 500.                       *)
AfterChangeError(r) == "500"

(* No such row, or the database or the broker raises; a write may have     *)
(* taken effect all the same.                                              *)
ChangeFails(r) ==
  /\ changePc[r] \in {"write", "publish"}
  /\ \/ /\ changePc[r] = "write" /\ call[r].op # "create" /\ roleRow[call[r].id] = NoRow
        /\ UNCHANGED <<roleRow, history, roleFaults>>
     \/ /\ roleFaults < MaxRoleFaults /\ roleFaults' = roleFaults + 1
        /\ UNCHANGED <<roleRow, history>>
     \/ /\ roleFaults < MaxRoleFaults /\ roleFaults' = roleFaults + 1
        /\ changePc[r] = "write" /\ (call[r].op = "create" \/ roleRow[call[r].id] # NoRow)
        /\ roleRow' = [roleRow EXCEPT ![call[r].id] = Written(r)]
        /\ history' = history \cup {<<call[r].id, Written(r)>>}
  /\ changePc' = [changePc EXCEPT ![r] = AfterChangeError(r)]
  /\ UNCHANGED <<events, call, result, overlap>>

-----------------------------------------------------------------------------
Handle(r) == Write(r) \/ Publish(r) \/ ChangeFails(r)

RoleEventsNext ==
  \E r \in Editors :
    \/ Handle(r)
    \/ \E c \in Calls : \/ CreateRole(r, c) \/ UpdateRole(r, c) \/ DeleteRole(r, c)
                        \/ CreateRule(r, c) \/ UpdateRule(r, c) \/ DeleteRule(r, c)

RoleEventsSpec == RoleEventsInit /\ [][RoleEventsNext]_roleEventsVars

-----------------------------------------------------------------------------
Ended(r) == changePc[r] \in Status

(* Every variable has its type.                                            *)
RoleEventsTypeOK ==
  /\ roleRow \in [Ids -> Row \cup {NoRow}] /\ events \in Seq(Ids \X Row)
  /\ changePc \in [Editors -> {"idle", "write", "publish"} \cup Status]
  /\ call \in [Editors -> Calls \cup {NoRow}] /\ result \in [Editors -> Row \cup {NoRow}]
  /\ \A r \in Editors : Ended(r) => call[r] # NoRow
  /\ history \subseteq Ids \X Row
  /\ roleFaults \in 0 .. MaxRoleFaults /\ overlap \subseteq Ids

(* What is published is a state that the row had, a deletion included,     *)
(* whatever other requests did between the write and the event.            *)
EventsAreStates == Range(events) \subseteq history

(* A client that is told 200 or 204 has both: the row was written and the  *)
(* event is on the topic.                                                  *)
AnsweredMeansPublished ==
  \A r \in Editors :
    changePc[r] \in {"200", "204"} =>
      result[r] # NoRow /\ \E e \in Range(events) : e[1] = call[r].id /\ e[2] = result[r]

(* When nobody is at work on a row, the last event about it shows its      *)
(* state, unless two requests overlapped or one failed: the order of the   *)
(* events is otherwise the order of the writes.                            *)
LastEventIsCurrent ==
  \A i \in Ids :
    (/\ Busy(i) = {} /\ i \notin overlap /\ roleRow[i] # NoRow
     /\ \A r \in Editors : changePc[r] = "500" => call[r].id # i)
      => \E n \in 1 .. Len(events) :
           /\ events[n] = <<i, roleRow[i]>>
           /\ \A m \in n + 1 .. Len(events) : events[m][1] # i

(* What listeners hear of a row is what was stored in it, and what callers *)
(* were told (routes/roles.ts:56-90, routes/rules.ts:66-104).              *)
RoleEventsInv ==
  RoleEventsTypeOK /\ EventsAreStates /\ AnsweredMeansPublished /\ LastEventIsCurrent
=============================================================================
