----------------------------- MODULE Revocation -----------------------------
(***************************************************************************)
(* Token revocation in the IAM service.  Two paths end a session:          *)
(*   - DELETE /sessions/{jti}, src/iam-service/src/routes/sessions.ts,     *)
(*     puts the token on the Redis blacklist and then marks its row;       *)
(*   - src/iam-service/cmd/token-revoker consumes alerts and, in one       *)
(*     Postgres transaction per alert, blacklists the tokens of a user or  *)
(*     one token, records what it did and marks the user's rows.           *)
(* validateJwt (src/iam-service/src/lib/jwt.ts) refuses a token that is on *)
(* the blacklist or past its expiry.                                       *)
(*                                                                         *)
(* Every alert is in a partition of its own (sarama runs one ConsumeClaim  *)
(* goroutine per partition).  It is delivered again when its offset was    *)
(* not committed, even while an execution that lost the partition in a     *)
(* rebalance is still running.  The sessions and alerts are those of one   *)
(* user, so that the advisory lock is one lock.  Session rows are written  *)
(* by the login path, which is not in the repository.                      *)
(***************************************************************************)
EXTENDS Integers

CONSTANTS
  Tokens,        \* jti values, one session row each
  Alerts,        \* records of the topic alerts
  Target,        \* per alert: a token, AllTokens or Irrelevant
  AllTokens,     \* the alert carries no jti: all of the user's sessions
  Irrelevant,    \* not JSON, or ShouldProcess is false
  Requests,      \* concurrent DELETE requests, already authorized
  Jti,           \* per request, the token it names
  Life,          \* per token, its lifetime (15 min, 30 days); 0: no exp claim (sign)
  DeleteTtl,     \* blacklist time of deleteSession (900 s)
  RevokerTtl,    \* blacklist time of the revoker (24 h)
  MaxDeliveries, \* bound: executions per alert
  MaxFaults,     \* bound: errors and crashes
  MaxTime        \* bound: clock ticks

ASSUME RevocationAssumption ==
  /\ Target \in [Alerts -> Tokens \cup {AllTokens, Irrelevant}]
  /\ Jti \in [Requests -> Tokens]
  /\ AllTokens \notin Tokens /\ Irrelevant \notin Tokens /\ AllTokens # Irrelevant
  /\ Life \in [Tokens -> Nat] /\ DeleteTtl \in Nat \ {0} /\ RevokerTtl \in Nat \ {0}
  /\ MaxDeliveries \in [Alerts -> Nat] /\ MaxFaults \in Nat /\ MaxTime \in Nat

Executions == UNION {{a} \X (1 .. MaxDeliveries[a]) : a \in Alerts}
alertOf(e) == e[1]

VARIABLES
  now,        \* the clock, in units that divide the lifetimes
  row,        \* per token, its session row: "none", "active" or "revoked"
  exp,        \* per token, the exp claim
  until,      \* per token, when its blacklist key expires
  revokedAlerts, \* table revoked_alerts
  revocations,   \* table token_revocations: <<alert, token>> -> rows
  offsets,    \* alerts whose offset is committed
  pc,         \* per execution, where process stands
  todo,       \* per execution, tokens selected and not yet blacklisted
  tx,         \* per execution, its uncommitted writes
  reqPc,      \* per request, where deleteSession stands
  faults,     \* errors and crashes so far
  \* history
  selected,   \* per alert, the tokens its committed execution selected
  raced,      \* tokens whose row appeared between a SELECT and its UPDATE
  failed      \* alerts an execution of which ended in an error

db       == <<row, revokedAlerts, revocations>>
alerts   == <<offsets, pc, todo, tx>>
history  == <<selected, raced, failed>>
vars == <<now, exp, until, db, alerts, reqPc, faults, history>>

\* The uncommitted writes of one transaction.
NoWrites == [alert |-> FALSE, rows |-> {}, upd |-> {}, sel |-> {}]

Init ==
  /\ now = 0
  /\ row = [t \in Tokens |-> "none"]
  /\ exp = [t \in Tokens |-> 0] /\ until = [t \in Tokens |-> 0]
  /\ revokedAlerts = {} /\ revocations = [r \in Alerts \X Tokens |-> 0]
  /\ offsets = {}
  /\ pc = [e \in Executions |-> "waiting"]
  /\ todo = [e \in Executions |-> {}]
  /\ tx = [e \in Executions |-> NoWrites]
  /\ reqPc = [q \in Requests |-> "idle"]
  /\ faults = 0
  /\ selected = [a \in Alerts |-> {}] /\ raced = {} /\ failed = {}

Fault == faults < MaxFaults /\ faults' = faults + 1

-----------------------------------------------------------------------------
(* validateJwt: jwtVerify wants exp, when there is one, in the future, then *)
(* the blacklist key must be absent.                                       *)
Unexpired(t) == Life[t] = 0 \/ now < exp[t]
Listed(t) == now < until[t]
Accepts(t) == row[t] # "none" /\ Unexpired(t) /\ ~Listed(t)

(* The clock.                                                              *)
Tick ==
  /\ now < MaxTime
  /\ now' = now + 1
  /\ UNCHANGED <<exp, until, db, alerts, reqPc, faults, history>>

\* Executions that have selected the user's sessions and not updated them.
InWindow == {e \in Executions : pc[e] \in {"redis", "update"} /\ Target[alertOf(e)] = AllTokens}

(* A login issues a token (issueJwt with its two lifetimes, or sign) and   *)
(* inserts its row.                                                        *)
Login(t) ==
  /\ row[t] = "none"
  /\ row' = [row EXCEPT ![t] = "active"]
  /\ exp' = [exp EXCEPT ![t] = now + Life[t]]
  /\ raced' = IF InWindow # {} THEN raced \cup {t} ELSE raced
  /\ UNCHANGED <<now, until, revokedAlerts, revocations, alerts, reqPc, faults, selected, failed>>

-----------------------------------------------------------------------------
(* deleteSession: findUnique, then setex, then update, with an await       *)
(* between each; the row it read decides, whatever happened since.         *)

At(q, p) == reqPc[q] = p

Answer(q) == reqPc' = [reqPc EXCEPT ![q] = "done"]

DeleteFinds_UpdatesFirst(q) ==
  /\ At(q, "idle") /\ row[Jti[q]] = "active"
  /\ row' = [row EXCEPT ![Jti[q]] = "revoked"]
  /\ reqPc' = [reqPc EXCEPT ![q] = "redis"]
  /\ UNCHANGED <<now, exp, until, revokedAlerts, revocations, alerts, faults, history>>

DeleteFinds(q) ==
  /\ At(q, "idle")
  /\ CASE row[Jti[q]] = "active"  -> reqPc' = [reqPc EXCEPT ![q] = "redis"]
       [] row[Jti[q]] = "revoked" -> Answer(q)
       [] OTHER -> reqPc' = [reqPc EXCEPT ![q] = "notfound"]
  /\ UNCHANGED <<now, exp, until, db, alerts, faults, history>>

KeyRunsOut_Shorter == now + DeleteTtl - 1

KeyRunsOut == now + DeleteTtl

DeleteBlacklists(q) ==
  /\ At(q, "redis")
  /\ until' = [until EXCEPT ![Jti[q]] = KeyRunsOut]
  /\ reqPc' = [reqPc EXCEPT ![q] = "update"]
  /\ UNCHANGED <<now, exp, db, alerts, faults, history>>

\* The row is locked while a transaction holds an uncommitted update of it.
DeleteUpdates(q) ==
  /\ At(q, "update") /\ \A e \in Executions : Jti[q] \notin tx[e].upd
  /\ row' = [row EXCEPT ![Jti[q]] = "revoked"]
  /\ Answer(q)
  /\ UNCHANGED <<now, exp, until, revokedAlerts, revocations, alerts, faults, history>>

(* Redis or Postgres fails, or the process dies: the handler does not      *)
(* catch, so the request ends where it stands.                             *)
DeleteFails(q) ==
  /\ reqPc[q] \in {"idle", "redis", "update"} /\ Fault
  /\ reqPc' = [reqPc EXCEPT ![q] = "failed"]
  /\ UNCHANGED <<now, exp, until, db, alerts, history>>

-----------------------------------------------------------------------------
(* The token revoker: ConsumeClaim, process and revokeToken.               *)

Goto(e, p) == pc' = [pc EXCEPT ![e] = p]

\* Transactions that hold the advisory lock of the user.
Holding == {e \in Executions : pc[e] \in {"insert", "select", "redis", "update", "commit"}}

FirstStep_SkipsIrrelevant(e) == IF Target[alertOf(e)] = Irrelevant THEN "done" ELSE "lock"

FirstStep_Inverted(e) == IF Target[alertOf(e)] = Irrelevant THEN "lock" ELSE "mark"

(* json.Unmarshal and ShouldProcess: an alert that does not concern the    *)
(* revoker is only marked.                                                 *)
FirstStep(e) == IF Target[alertOf(e)] = Irrelevant THEN "mark" ELSE "lock"

(* An alert whose offset is not committed is handed to an execution, in    *)
(* the order of deliveries.  An alert names a token that was issued.       *)
Deliver(e) ==
  /\ pc[e] = "waiting" /\ alertOf(e) \notin offsets
  /\ \A d \in 1 .. (e[2] - 1) : pc[<<alertOf(e), d>>] # "waiting"
  /\ Target[alertOf(e)] \in Tokens => row[Target[alertOf(e)]] # "none"
  /\ Goto(e, FirstStep(e))
  /\ UNCHANGED <<now, exp, until, db, offsets, todo, tx, reqPc, faults, history>>

(* BeginTx and pg_advisory_xact_lock.                                      *)
Lock(e) ==
  /\ pc[e] = "lock" /\ Holding = {}
  /\ Goto(e, "insert")
  /\ UNCHANGED <<now, exp, until, db, offsets, todo, tx, reqPc, faults, history>>

Conflict_Ignored(e) == FALSE

Conflict(e) == alertOf(e) \in revokedAlerts

(* INSERT .. ON CONFLICT DO NOTHING: an alert already recorded goes        *)
(* straight to the commit.                                                 *)
InsertAlert(e) ==
  /\ pc[e] = "insert"
  /\ IF Conflict(e)
     THEN Goto(e, "commit") /\ UNCHANGED tx
     ELSE Goto(e, "select") /\ tx' = [tx EXCEPT ![e].alert = TRUE]
  /\ UNCHANGED <<now, exp, until, db, offsets, todo, reqPc, faults, history>>

Active == {t \in Tokens : row[t] = "active"}

ToRevoke_AlertJti(e) == {Target[alertOf(e)]}

(* The tokens to revoke: the alert's jti, or what the SELECT returns.      *)
ToRevoke(e) == IF Target[alertOf(e)] = AllTokens THEN Active ELSE {Target[alertOf(e)]}

Select(e) ==
  /\ pc[e] = "select"
  /\ todo' = [todo EXCEPT ![e] = ToRevoke(e)]
  /\ tx' = [tx EXCEPT ![e].sel = ToRevoke(e)]
  /\ Goto(e, "redis")
  /\ UNCHANGED <<now, exp, until, db, offsets, reqPc, faults, history>>

(* revokeToken: the blacklist key is set at once, whatever becomes of the  *)
(* transaction that the row for token_revocations waits in.                *)
Blacklist(e, t) ==
  /\ pc[e] = "redis" /\ t \in todo[e]
  /\ until' = [until EXCEPT ![t] = now + RevokerTtl]
  /\ tx' = [tx EXCEPT ![e].rows = @ \cup {t}]
  /\ todo' = [todo EXCEPT ![e] = @ \ {t}]
  /\ UNCHANGED <<now, exp, db, offsets, pc, reqPc, faults, history>>

LoopEnds_AfterFirst(e) == tx[e].rows # {}

LoopEnds(e) == todo[e] = {}

(* The loop over the selected tokens ends.                                 *)
AllRevoked(e) ==
  /\ pc[e] = "redis" /\ LoopEnds(e)
  /\ Goto(e, IF Target[alertOf(e)] = AllTokens THEN "update" ELSE "commit")
  /\ UNCHANGED <<now, exp, until, db, offsets, todo, tx, reqPc, faults, history>>

(* UPDATE sessions: every row of the user that is active by now.           *)
UpdateRows(e) ==
  /\ pc[e] = "update"
  /\ tx' = [tx EXCEPT ![e].upd = Active]
  /\ Goto(e, "commit")
  /\ UNCHANGED <<now, exp, until, db, offsets, todo, reqPc, faults, history>>

Applied(e) ==
  /\ row' = [t \in Tokens |-> IF t \in tx[e].upd THEN "revoked" ELSE row[t]]
  /\ revokedAlerts' = IF tx[e].alert THEN revokedAlerts \cup {alertOf(e)} ELSE revokedAlerts
  /\ revocations' = [r \in Alerts \X Tokens |->
       IF r[1] = alertOf(e) /\ r[2] \in tx[e].rows THEN revocations[r] + 1 ELSE revocations[r]]
  /\ selected' = IF tx[e].alert THEN [selected EXCEPT ![alertOf(e)] = tx[e].sel] ELSE selected

Commit(e) ==
  /\ pc[e] = "commit"
  /\ Applied(e)
  /\ tx' = [tx EXCEPT ![e] = NoWrites]
  /\ Goto(e, "mark")
  /\ UNCHANGED <<now, exp, until, offsets, todo, reqPc, faults, raced, failed>>

(* tx.Commit returns an error for a transaction that did commit.           *)
CommitUnknown(e) ==
  /\ pc[e] = "commit" /\ Fault
  /\ Applied(e)
  /\ tx' = [tx EXCEPT ![e] = NoWrites]
  /\ failed' = failed \cup {alertOf(e)}
  /\ Goto(e, "mark")
  /\ UNCHANGED <<now, exp, until, offsets, todo, reqPc, raced>>

Rollback(e) ==
  /\ tx' = [tx EXCEPT ![e] = NoWrites] /\ todo' = [todo EXCEPT ![e] = {}]
  /\ UNCHANGED <<db, selected>>

(* A step of process returns an error: the deferred Rollback drops its     *)
(* writes and ConsumeClaim logs the error and marks the message.           *)
ProcessFails(e) ==
  /\ pc[e] \in {"lock", "insert", "select", "redis", "update", "commit"} /\ Fault
  /\ Rollback(e)
  /\ failed' = failed \cup {alertOf(e)}
  /\ Goto(e, "mark")
  /\ UNCHANGED <<now, exp, until, offsets, reqPc, raced>>

(* The process dies, or its session ends, before the mark is committed.    *)
RevokerDies(e) ==
  /\ pc[e] \notin {"waiting", "dead", "done"} /\ Fault
  /\ Rollback(e)
  /\ Goto(e, "dead")
  /\ UNCHANGED <<now, exp, until, offsets, reqPc, raced, failed>>

(* MarkMessage, and the commit of the marked offset that follows it.       *)
Mark(e) ==
  /\ pc[e] = "mark"
  /\ offsets' = offsets \cup {alertOf(e)}
  /\ Goto(e, "done")
  /\ UNCHANGED <<now, exp, until, db, todo, tx, reqPc, faults, history>>

-----------------------------------------------------------------------------
Process(e) ==
  \/ Lock(e) \/ InsertAlert(e) \/ Select(e) \/ AllRevoked(e) \/ UpdateRows(e)
  \/ Commit(e) \/ Mark(e) \/ \E t \in Tokens : Blacklist(e, t)

Delete(q) == DeleteFinds(q) \/ DeleteBlacklists(q) \/ DeleteUpdates(q)

Next ==
  \/ Tick
  \/ \E t \in Tokens : Login(t)
  \/ \E q \in Requests : Delete(q) \/ DeleteFails(q)
  \/ \E e \in Executions : Deliver(e) \/ Process(e) \/ CommitUnknown(e)
                            \/ ProcessFails(e) \/ RevokerDies(e)

Spec == Init /\ [][Next]_vars

(* The goroutine of a partition keeps running, Postgres grants the         *)
(* advisory lock in the order it was asked for, and a restarted consumer   *)
(* (restart policy of the deployment) is handed what was not committed.    *)
FairSpec ==
  /\ Spec
  /\ \A e \in Executions : WF_vars(Deliver(e)) /\ WF_vars(Process(e)) /\ SF_vars(Lock(e))

-----------------------------------------------------------------------------
(* Every variable has its type.                                            *)
TypeOK ==
  /\ now \in 0 .. MaxTime
  /\ row \in [Tokens -> {"none", "active", "revoked"}]
  /\ exp \in [Tokens -> Nat] /\ until \in [Tokens -> Nat]
  /\ revokedAlerts \in SUBSET Alerts /\ offsets \in SUBSET Alerts /\ failed \in SUBSET Alerts
  /\ revocations \in [Alerts \X Tokens -> Nat]
  /\ pc \in [Executions -> {"waiting", "lock", "insert", "select", "redis", "update", "commit",
                            "mark", "done", "dead"}]
  /\ todo \in [Executions -> SUBSET Tokens]
  /\ tx \in [Executions -> [alert : BOOLEAN, rows : SUBSET Tokens, upd : SUBSET Tokens,
                            sel : SUBSET Tokens]]
  /\ reqPc \in [Requests -> {"idle", "redis", "update", "done", "notfound", "failed"}]
  /\ faults \in 0 .. MaxFaults
  /\ selected \in [Alerts -> SUBSET Tokens] /\ raced \in SUBSET Tokens

\* The token may live longer than one of the two paths keeps it on the blacklist.
Outlives(t) == Life[t] = 0 \/ Life[t] > DeleteTtl \/ Life[t] > RevokerTtl

\* It does, and the last key set for it has run out.
KeyOver(t) == Outlives(t) /\ until[t] # 0 /\ until[t] <= now

(* A token validateJwt refuses stays refused, also when one path           *)
(* overwrites the key of the other by a shorter one (jwt.ts:74,            *)
(* sessions.ts:103, main.go:168).  Only a token of sign, which has no exp, *)
(* or a refresh token outlives its keys: it passes again, not before and   *)
(* not by anything else than the instant its last key runs out.            *)
RefusedStaysRefused ==
  [][\A t \in Tokens : row[t] # "none" /\ ~Accepts(t) =>
       ~Accepts(t)' \/ (Outlives(t) /\ now' = until[t] /\ until' = until)]_vars

(* A session shown as revoked has a refused token, whatever failed between *)
(* Redis and Postgres (sessions.ts:103-104, main.go:158-168), unless it    *)
(* outlived its key, or its row appeared between the revoker's SELECT and  *)
(* its UPDATE (lines 139-158): that UPDATE revokes a row whose token was   *)
(* never blacklisted.                                                      *)
RevokedMeansRefused ==
  \A t \in Tokens : row[t] = "revoked" => ~Accepts(t) \/ KeyOver(t) \/ t \in raced

(* Redelivery, rebalance overlap and crashes never record the revocation   *)
(* of a token for one alert twice (main.go:122-132).                       *)
RecordedOnce == \A r \in Alerts \X Tokens : revocations[r] <= 1

(* An alert whose offset is committed was handled or had failed: no crash  *)
(* loses it in between (main.go:107-110).                                  *)
OffsetMeansHandled ==
  \A a \in offsets : Target[a] = Irrelevant \/ a \in revokedAlerts \/ a \in failed

(* An alert in revoked_alerts is complete: every token its transaction     *)
(* selected is recorded, and refused until it outlives its key, and its    *)
(* row is revoked when the alert is for all the user's sessions            *)
(* (main.go:134-163).                                                      *)
HandledAlertIsComplete ==
  \A a \in revokedAlerts : \A t \in selected[a] :
    /\ revocations[<<a, t>>] = 1 /\ (~Accepts(t) \/ KeyOver(t))
    /\ Target[a] = AllTokens => row[t] = "revoked"

(* Every delivered alert is passed in the end, or all its executions died: *)
(* the advisory lock and the error paths hold nothing up (main.go:95-164). *)
EveryAlertPassed ==
  \A a \in Alerts : (\E d \in 1 .. MaxDeliveries[a] : pc[<<a, d>>] # "waiting") ~>
    (a \in offsets \/ \A d \in 1 .. MaxDeliveries[a] : pc[<<a, d>>] = "dead")
=============================================================================
