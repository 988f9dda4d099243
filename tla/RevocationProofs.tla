--------------------------- MODULE RevocationProofs ---------------------------
(***************************************************************************)
(* Theorems about Revocation for every set of tokens, alerts and requests, *)
(* every lifetime and every bound.                                         *)
(*                                                                         *)
(* The inductive invariant is IInv.  A blacklist key that was ever set     *)
(* covers its token to its expiry, unless the token outlives it            *)
(* (KeyCovers), so that "until is not 0" stands for "refused, or outlived  *)
(* its key" in every other part.                                           *)
(***************************************************************************)
EXTENDS Revocation, TLAPS

Keyed(t) == until[t] # 0

(* A key is set for an issued token only, and outlives it.                 *)
KeyCovers ==
  \A t \in Tokens :
    /\ row[t] = "none" => ~Keyed(t)
    /\ row[t] # "none" => exp[t] <= now + Life[t]
    /\ Keyed(t) /\ ~Outlives(t) => exp[t] <= until[t]

(* What executions and requests work on has been issued.                   *)
Issued ==
  /\ \A e \in Executions :
       /\ pc[e] \notin {"waiting", "mark", "done", "dead"} => Target[alertOf(e)] # Irrelevant
       /\ pc[e] # "waiting" /\ Target[alertOf(e)] \in Tokens => row[Target[alertOf(e)]] # "none"
       /\ \A t \in tx[e].sel \cup tx[e].upd : row[t] # "none"
  /\ \A q \in Requests :
       /\ reqPc[q] \in {"redis", "update"} => row[Jti[q]] # "none"
       /\ reqPc[q] = "update" => Keyed(Jti[q])

(* One transaction at a time, and what it has written at each of its steps.*)
TxnShape ==
  /\ \A e, f \in Holding : e = f
  /\ \A e \in Executions :
       /\ pc[e] # "redis" => todo[e] = {}
       /\ pc[e] # "commit" => tx[e].upd = {}
       /\ pc[e] \in {"select", "redis", "update"} => tx[e].alert
       /\ pc[e] \notin {"select", "redis", "update", "commit"} => ~tx[e].alert
       /\ pc[e] = "select" \/ ~tx[e].alert => tx[e].sel = {}
       /\ pc[e] = "update" => Target[alertOf(e)] = AllTokens
       /\ tx[e].sel = tx[e].rows \cup todo[e]

(* The alert of a transaction is not recorded before it commits, and what  *)
(* it has written for a token comes with a key.                            *)
TxnEffect ==
  \A e \in Executions :
    /\ tx[e].alert => alertOf(e) \notin revokedAlerts
    /\ pc[e] = "commit" => tx[e].alert \/ alertOf(e) \in revokedAlerts
    /\ \A t \in tx[e].rows : Keyed(t)
    /\ pc[e] = "commit" /\ Target[alertOf(e)] = AllTokens =>
         \A t \in tx[e].sel : t \in tx[e].upd \/ row[t] = "revoked"

(* From the SELECT on, an active token is still to be blacklisted, has its *)
(* key, or appeared since; whatever is revoked has its key or appeared.    *)
WindowCovered ==
  /\ \A e \in InWindow : \A t \in Tokens :
       row[t] = "active" => t \in todo[e] \/ Keyed(t) \/ t \in raced
  /\ \A e \in Executions : \A t \in tx[e].upd : Keyed(t) \/ t \in raced
  /\ \A t \in Tokens : row[t] = "revoked" => Keyed(t) \/ t \in raced

(* token_revocations has rows only for alerts that are recorded.           *)
Recorded ==
  \A a \in Alerts, t \in Tokens :
    /\ revocations[<<a, t>>] <= 1
    /\ a \notin revokedAlerts => revocations[<<a, t>>] = 0

(* What HandledAlertIsComplete says, with the key for the refusal.         *)
Complete ==
  \A a \in Alerts, t \in Tokens :
    a \in revokedAlerts /\ t \in selected[a] =>
      /\ revocations[<<a, t>>] = 1 /\ Keyed(t)
      /\ Target[a] = AllTokens => row[t] = "revoked"

Handled(a) == Target[a] = Irrelevant \/ a \in revokedAlerts \/ a \in failed

(* An execution that is about to mark its alert has handled it.            *)
MarkMeansHandled ==
  /\ \A e \in Executions : pc[e] = "mark" => Handled(alertOf(e))
  /\ \A a \in offsets : Handled(a)

IInv ==
  /\ TypeOK /\ KeyCovers /\ Issued /\ TxnShape /\ TxnEffect
  /\ WindowCovered /\ Recorded /\ Complete /\ MarkMeansHandled

-----------------------------------------------------------------------------
(* What is assumed of the constants, the lifetimes of tokens aside. *)
LEMMA Constants ==
  /\ Target \in [Alerts -> Tokens \cup {AllTokens, Irrelevant}] /\ Jti \in [Requests -> Tokens]
  /\ AllTokens \notin Tokens /\ Irrelevant \notin Tokens /\ AllTokens # Irrelevant
  /\ DeleteTtl \in Nat \ {0} /\ RevokerTtl \in Nat \ {0}
  /\ MaxDeliveries \in [Alerts -> Nat] /\ MaxFaults \in Nat /\ MaxTime \in Nat
  BY RevocationAssumption

(* An execution works on one alert. *)
LEMMA AlertOfType == \A e \in Executions : alertOf(e) \in Alerts
  BY DEF Executions, alertOf

(* A blacklist key that was ever set refuses its token, until it is outlived. *)
LEMMA RefusedByKey ==
  TypeOK /\ KeyCovers => \A t \in Tokens : Keyed(t) => ~Accepts(t) \/ KeyOver(t)
  <1> SUFFICES ASSUME TypeOK, KeyCovers, NEW t \in Tokens, Keyed(t), Accepts(t) PROVE KeyOver(t)
    OBVIOUS
  <1>1. now \in Nat /\ exp[t] \in Nat /\ until[t] \in Nat
    BY RevocationAssumption DEF TypeOK
  <1>2. until[t] <= now
    BY <1>1 DEF Accepts, Listed
  <1>3. CASE ~Outlives(t)
    BY <1>1, <1>2, <1>3 DEF KeyCovers, Accepts, Unexpired, Outlives
  <1>4. CASE Outlives(t)
    BY <1>2, <1>4 DEF KeyOver, Keyed
  <1> QED BY <1>3, <1>4

Writes == [alert : BOOLEAN, rows : SUBSET Tokens, upd : SUBSET Tokens, sel : SUBSET Tokens]

(* What an execution selects are tokens. *)
LEMMA SelectedAreTokens ==
  ASSUME TypeOK, NEW e \in Executions, Target[alertOf(e)] # Irrelevant
  PROVE  ToRevoke(e) \subseteq Tokens /\ Active \subseteq Tokens
  BY AlertOfType, RevocationAssumption DEF ToRevoke, Active

(* The INSERT changes one field of one transaction. *)
LEMMA InsertWrites ==
  ASSUME TypeOK, NEW e \in Executions,
         tx' = [tx EXCEPT ![e].alert = TRUE]
  PROVE  /\ tx' \in [Executions -> Writes]
         /\ \A f \in Executions : f # e => tx'[f] = tx[f]
         /\ tx'[e].alert = TRUE
         /\ tx'[e].rows = tx[e].rows /\ tx'[e].upd = tx[e].upd /\ tx'[e].sel = tx[e].sel
  <1>1. tx \in [Executions -> Writes] /\ tx[e] \in Writes
    BY DEF TypeOK, Writes
  <1>2. tx' = [tx EXCEPT ![e] = [tx[e] EXCEPT !.alert = TRUE]]
    OBVIOUS
  <1>3. [tx[e] EXCEPT !.alert = TRUE] \in Writes
    BY <1>1 DEF Writes
  <1> QED BY <1>1, <1>2, <1>3 DEF Writes

(* The SELECT changes one field of one transaction. *)
LEMMA SelectWrites ==
  ASSUME TypeOK, NEW e \in Executions, ToRevoke(e) \subseteq Tokens,
         tx' = [tx EXCEPT ![e].sel = ToRevoke(e)]
  PROVE  /\ tx' \in [Executions -> Writes]
         /\ \A f \in Executions : f # e => tx'[f] = tx[f]
         /\ tx'[e].sel = ToRevoke(e)
         /\ tx'[e].alert = tx[e].alert /\ tx'[e].rows = tx[e].rows /\ tx'[e].upd = tx[e].upd
  <1>1. tx \in [Executions -> Writes] /\ tx[e] \in Writes
    BY DEF TypeOK, Writes
  <1>2. tx' = [tx EXCEPT ![e] = [tx[e] EXCEPT !.sel = ToRevoke(e)]]
    OBVIOUS
  <1>3. [tx[e] EXCEPT !.sel = ToRevoke(e)] \in Writes
    BY <1>1 DEF Writes
  <1> QED BY <1>1, <1>2, <1>3 DEF Writes

(* revokeToken adds a row to those of one transaction. *)
LEMMA BlacklistWrites ==
  ASSUME TypeOK, NEW e \in Executions, NEW t \in Tokens,
         tx' = [tx EXCEPT ![e].rows = @ \cup {t}]
  PROVE  /\ tx' \in [Executions -> Writes]
         /\ \A f \in Executions : f # e => tx'[f] = tx[f]
         /\ tx'[e].rows = tx[e].rows \cup {t}
         /\ tx'[e].alert = tx[e].alert /\ tx'[e].upd = tx[e].upd /\ tx'[e].sel = tx[e].sel
  <1>1. tx \in [Executions -> Writes] /\ tx[e] \in Writes
    BY DEF TypeOK, Writes
  <1>2. tx' = [tx EXCEPT ![e] = [tx[e] EXCEPT !.rows = tx[e].rows \cup {t}]]
    OBVIOUS
  <1>3. [tx[e] EXCEPT !.rows = tx[e].rows \cup {t}] \in Writes
    BY <1>1 DEF Writes
  <1> QED BY <1>1, <1>2, <1>3 DEF Writes

(* The UPDATE changes one field of one transaction. *)
LEMMA UpdateWrites ==
  ASSUME TypeOK, NEW e \in Executions,
         tx' = [tx EXCEPT ![e].upd = Active]
  PROVE  /\ tx' \in [Executions -> Writes]
         /\ \A f \in Executions : f # e => tx'[f] = tx[f]
         /\ tx'[e].upd = Active
         /\ tx'[e].alert = tx[e].alert /\ tx'[e].rows = tx[e].rows /\ tx'[e].sel = tx[e].sel
  <1>1. tx \in [Executions -> Writes] /\ tx[e] \in Writes
    BY DEF TypeOK, Writes
  <1>2. tx' = [tx EXCEPT ![e] = [tx[e] EXCEPT !.upd = Active]]
    OBVIOUS
  <1>3. [tx[e] EXCEPT !.upd = Active] \in Writes
    BY <1>1 DEF Writes, Active
  <1> QED BY <1>1, <1>2, <1>3 DEF Writes

(* Every step keeps the types: a transaction selects tokens.                   *)
LEMMA TypeStep ==
  ASSUME TypeOK, Issued, [Next]_vars
  PROVE  TypeOK'
  <1> USE Constants DEF db, alerts, history, TypeOK
  <1>1. CASE Tick
    BY <1>1 DEF Tick
  <1>2. ASSUME NEW t \in Tokens, Login(t) PROVE TypeOK'
    <2>1. Life[t] \in Nat
      BY RevocationAssumption
    <2> QED BY <1>2, <2>1 DEF Login, InWindow
  <1>3. ASSUME NEW q \in Requests, DeleteFinds(q) PROVE TypeOK'
    BY <1>3 DEF DeleteFinds, At, Answer
  <1>4. ASSUME NEW q \in Requests, DeleteBlacklists(q) PROVE TypeOK'
    BY <1>4 DEF DeleteBlacklists, At, KeyRunsOut
  <1>5. ASSUME NEW q \in Requests, DeleteUpdates(q) PROVE TypeOK'
    BY <1>5 DEF DeleteUpdates, At, Answer
  <1>6. ASSUME NEW q \in Requests, DeleteFails(q) PROVE TypeOK'
    BY <1>6 DEF DeleteFails, Fault
  <1>7. ASSUME NEW e \in Executions, Deliver(e) PROVE TypeOK'
    BY <1>7 DEF Deliver, FirstStep, Goto
  <1>8. ASSUME NEW e \in Executions, Lock(e) PROVE TypeOK'
    BY <1>8 DEF Lock, Goto
  <1>9. ASSUME NEW e \in Executions, InsertAlert(e) PROVE TypeOK'
    <2>1. CASE Conflict(e)
      BY <1>9, <2>1 DEF InsertAlert, Conflict, Goto
    <2>2. CASE ~Conflict(e)
      <3>1. tx' = [tx EXCEPT ![e].alert = TRUE] /\ pc' = [pc EXCEPT ![e] = "select"]
        BY <1>9, <2>2 DEF InsertAlert, Goto
      <3>2. /\ tx' \in [Executions -> Writes]
            /\ \A f \in Executions : f # e => tx'[f] = tx[f]
            /\ tx'[e].rows = tx[e].rows /\ tx'[e].upd = tx[e].upd /\ tx'[e].sel = tx[e].sel
        BY <3>1, InsertWrites
      <3> QED BY <1>9, <3>1, <3>2 DEF InsertAlert, Writes
    <2> QED BY <2>1, <2>2
  <1>10. ASSUME NEW e \in Executions, Select(e) PROVE TypeOK'
    BY <1>10, AlertOfType, SelectWrites, SelectedAreTokens
       DEF Select, ToRevoke, Active, Issued, Writes, Goto
  <1>11. ASSUME NEW e \in Executions, NEW t \in Tokens, Blacklist(e, t) PROVE TypeOK'
    <2>1. tx' \in [Executions -> Writes]
      BY <1>11, BlacklistWrites DEF Blacklist
    <2>2. until' \in [Tokens -> Nat] /\ todo' \in [Executions -> SUBSET Tokens]
      BY <1>11 DEF Blacklist
    <2> QED BY <1>11, <2>1, <2>2 DEF Blacklist, Writes
  <1>12. ASSUME NEW e \in Executions, AllRevoked(e) PROVE TypeOK'
    BY <1>12 DEF AllRevoked, LoopEnds, Goto
  <1>13. ASSUME NEW e \in Executions, UpdateRows(e) PROVE TypeOK'
    BY <1>13, UpdateWrites DEF UpdateRows, Active, Writes, Goto
  <1>14. ASSUME NEW e \in Executions, Commit(e) PROVE TypeOK'
    BY <1>14, AlertOfType DEF Commit, Applied, NoWrites, Goto
  <1>15. ASSUME NEW e \in Executions, CommitUnknown(e) PROVE TypeOK'
    BY <1>15, AlertOfType DEF CommitUnknown, Applied, Fault, NoWrites, Goto
  <1>16. ASSUME NEW e \in Executions, ProcessFails(e) PROVE TypeOK'
    BY <1>16, AlertOfType DEF ProcessFails, Rollback, Fault, NoWrites, Goto
  <1>17. ASSUME NEW e \in Executions, RevokerDies(e) PROVE TypeOK'
    BY <1>17 DEF RevokerDies, Rollback, Fault, NoWrites, Goto
  <1>18. ASSUME NEW e \in Executions, Mark(e) PROVE TypeOK'
    BY <1>18, AlertOfType DEF Mark, Goto
  <1>19. CASE UNCHANGED vars
    BY <1>19 DEF vars
  <1> QED
    BY <1>1, <1>2, <1>3, <1>4, <1>5, <1>6, <1>7, <1>8, <1>9, <1>10, <1>11, <1>12, <1>13, <1>14,
       <1>15, <1>16, <1>17, <1>18, <1>19 DEF Next, Delete, Process

(* A key is set with a lifetime no shorter than the token's, or is outlived.     *)
LEMMA KeyCoversStep ==
  ASSUME TypeOK, KeyCovers, Issued, TxnShape, [Next]_vars
  PROVE  KeyCovers'
  <1> USE RevocationAssumption DEF db, alerts, history, TypeOK, KeyCovers, Keyed, Outlives
  <1>1. CASE Tick
    BY <1>1 DEF Tick
  <1>2. ASSUME NEW t \in Tokens, Login(t) PROVE KeyCovers'
    BY <1>2 DEF Login, InWindow
  <1>3. ASSUME NEW q \in Requests, DeleteFinds(q) PROVE KeyCovers'
    BY <1>3 DEF DeleteFinds, At, Answer
  <1>4. ASSUME NEW q \in Requests, DeleteBlacklists(q) PROVE KeyCovers'
    BY <1>4 DEF DeleteBlacklists, At, KeyRunsOut, Issued
  <1>5. ASSUME NEW q \in Requests, DeleteUpdates(q) PROVE KeyCovers'
    BY <1>5 DEF DeleteUpdates, At, Answer, Issued
  <1>6. ASSUME NEW q \in Requests, DeleteFails(q) PROVE KeyCovers'
    BY <1>6 DEF DeleteFails, Fault
  <1>7. ASSUME NEW e \in Executions, Deliver(e) PROVE KeyCovers'
    BY <1>7 DEF Deliver, FirstStep, Goto
  <1>8. ASSUME NEW e \in Executions, Lock(e) PROVE KeyCovers'
    BY <1>8 DEF Lock, Goto
  <1>9. ASSUME NEW e \in Executions, InsertAlert(e) PROVE KeyCovers'
    BY <1>9, InsertWrites DEF InsertAlert, Conflict, Goto
  <1>10. ASSUME NEW e \in Executions, Select(e) PROVE KeyCovers'
    BY <1>10, SelectWrites, SelectedAreTokens DEF Select, ToRevoke, Active, Goto
  <1>11. ASSUME NEW e \in Executions, NEW t \in Tokens, Blacklist(e, t) PROVE KeyCovers'
    BY <1>11 DEF Blacklist, Issued, TxnShape
  <1>12. ASSUME NEW e \in Executions, AllRevoked(e) PROVE KeyCovers'
    BY <1>12 DEF AllRevoked, LoopEnds, Goto
  <1>13. ASSUME NEW e \in Executions, UpdateRows(e) PROVE KeyCovers'
    BY <1>13, UpdateWrites DEF UpdateRows, Active, Goto
  <1>14. ASSUME NEW e \in Executions, Commit(e) PROVE KeyCovers'
    BY <1>14 DEF Commit, Applied, Issued, NoWrites, Goto
  <1>15. ASSUME NEW e \in Executions, CommitUnknown(e) PROVE KeyCovers'
    BY <1>15 DEF CommitUnknown, Applied, Fault, Issued, NoWrites, Goto
  <1>16. ASSUME NEW e \in Executions, ProcessFails(e) PROVE KeyCovers'
    BY <1>16 DEF ProcessFails, Rollback, Fault, Goto
  <1>17. ASSUME NEW e \in Executions, RevokerDies(e) PROVE KeyCovers'
    BY <1>17 DEF RevokerDies, Rollback, Fault, Goto
  <1>18. ASSUME NEW e \in Executions, Mark(e) PROVE KeyCovers'
    BY <1>18 DEF Mark, Goto
  <1>19. CASE UNCHANGED vars
    BY <1>19 DEF vars
  <1> QED
    BY <1>1, <1>2, <1>3, <1>4, <1>5, <1>6, <1>7, <1>8, <1>9, <1>10, <1>11, <1>12, <1>13, <1>14,
       <1>15, <1>16, <1>17, <1>18, <1>19 DEF Next, Delete, Process

(* No session row is ever removed.                                              *)
LEMMA IssuedStep ==
  ASSUME TypeOK, Issued, TxnShape, [Next]_vars
  PROVE  Issued'
  <1> USE Constants DEF db, alerts, history, TypeOK, Issued, Keyed
  <1>1. CASE Tick
    BY <1>1, AlertOfType DEF Tick
  <1>2. ASSUME NEW t \in Tokens, Login(t) PROVE Issued'
    BY <1>2, AlertOfType DEF Login, InWindow
  <1>3. ASSUME NEW q \in Requests, DeleteFinds(q) PROVE Issued'
    BY <1>3, AlertOfType DEF DeleteFinds, At, Answer
  <1>4. ASSUME NEW q \in Requests, DeleteBlacklists(q) PROVE Issued'
    BY <1>4, AlertOfType DEF DeleteBlacklists, At, KeyRunsOut
  <1>5. ASSUME NEW q \in Requests, DeleteUpdates(q) PROVE Issued'
    BY <1>5, AlertOfType DEF DeleteUpdates, At, Answer
  <1>6. ASSUME NEW q \in Requests, DeleteFails(q) PROVE Issued'
    BY <1>6, AlertOfType DEF DeleteFails, Fault
  <1>7. ASSUME NEW e \in Executions, Deliver(e) PROVE Issued'
    BY <1>7, AlertOfType DEF Deliver, FirstStep, Goto
  <1>8. ASSUME NEW e \in Executions, Lock(e) PROVE Issued'
    BY <1>8, AlertOfType DEF Lock, Goto
  <1>9. ASSUME NEW e \in Executions, InsertAlert(e) PROVE Issued'
    <2>1. CASE Conflict(e)
      BY <1>9, <2>1 DEF InsertAlert, Conflict, Goto
    <2>2. CASE ~Conflict(e)
      <3>1. tx' = [tx EXCEPT ![e].alert = TRUE] /\ pc' = [pc EXCEPT ![e] = "select"]
        BY <1>9, <2>2 DEF InsertAlert, Goto
      <3>2. /\ tx' \in [Executions -> Writes]
            /\ \A f \in Executions : f # e => tx'[f] = tx[f]
            /\ tx'[e].rows = tx[e].rows /\ tx'[e].upd = tx[e].upd /\ tx'[e].sel = tx[e].sel
        BY <3>1, InsertWrites
      <3> QED BY <1>9, <3>1, <3>2, AlertOfType DEF InsertAlert
    <2> QED BY <2>1, <2>2
  <1>10. ASSUME NEW e \in Executions, Select(e) PROVE Issued'
    BY <1>10, SelectWrites, SelectedAreTokens, AlertOfType DEF Select, ToRevoke, Active, Goto
  <1>11. ASSUME NEW e \in Executions, NEW t \in Tokens, Blacklist(e, t) PROVE Issued'
    BY <1>11, AlertOfType DEF Blacklist
  <1>12. ASSUME NEW e \in Executions, AllRevoked(e) PROVE Issued'
    BY <1>12, AlertOfType DEF AllRevoked, LoopEnds, Goto
  <1>13. ASSUME NEW e \in Executions, UpdateRows(e) PROVE Issued'
    BY <1>13, UpdateWrites, AlertOfType DEF UpdateRows, Active, Goto
  <1>14. ASSUME NEW e \in Executions, Commit(e) PROVE Issued'
    BY <1>14, AlertOfType DEF Commit, Applied, NoWrites, Goto
  <1>15. ASSUME NEW e \in Executions, CommitUnknown(e) PROVE Issued'
    BY <1>15, AlertOfType DEF CommitUnknown, Applied, Fault, NoWrites, Goto
  <1>16. ASSUME NEW e \in Executions, ProcessFails(e) PROVE Issued'
    BY <1>16, AlertOfType DEF ProcessFails, Rollback, Fault, NoWrites, Goto
  <1>17. ASSUME NEW e \in Executions, RevokerDies(e) PROVE Issued'
    BY <1>17, AlertOfType DEF RevokerDies, Rollback, Fault, NoWrites, Goto
  <1>18. ASSUME NEW e \in Executions, Mark(e) PROVE Issued'
    BY <1>18, AlertOfType DEF Mark, Goto
  <1>19. CASE UNCHANGED vars
    BY <1>19 DEF vars
  <1> QED
    BY <1>1, <1>2, <1>3, <1>4, <1>5, <1>6, <1>7, <1>8, <1>9, <1>10, <1>11, <1>12, <1>13, <1>14,
       <1>15, <1>16, <1>17, <1>18, <1>19 DEF Next, Delete, Process

(* The advisory lock keeps transactions apart.                                  *)
LEMMA TxnShapeStep ==
  ASSUME TypeOK, TxnShape, [Next]_vars
  PROVE  TxnShape'
  <1> USE Constants DEF db, alerts, history, TypeOK, TxnShape, Holding
  <1>1. CASE Tick
    BY <1>1 DEF Tick
  <1>2. ASSUME NEW t \in Tokens, Login(t) PROVE TxnShape'
    BY <1>2 DEF Login, InWindow
  <1>3. ASSUME NEW q \in Requests, DeleteFinds(q) PROVE TxnShape'
    BY <1>3 DEF DeleteFinds, At, Answer
  <1>4. ASSUME NEW q \in Requests, DeleteBlacklists(q) PROVE TxnShape'
    BY <1>4 DEF DeleteBlacklists, At, KeyRunsOut
  <1>5. ASSUME NEW q \in Requests, DeleteUpdates(q) PROVE TxnShape'
    BY <1>5 DEF DeleteUpdates, At, Answer
  <1>6. ASSUME NEW q \in Requests, DeleteFails(q) PROVE TxnShape'
    BY <1>6 DEF DeleteFails, Fault
  <1>7. ASSUME NEW e \in Executions, Deliver(e) PROVE TxnShape'
    BY <1>7 DEF Deliver, FirstStep, Goto
  <1>8. ASSUME NEW e \in Executions, Lock(e) PROVE TxnShape'
    BY <1>8 DEF Lock, Goto
  <1>9. ASSUME NEW e \in Executions, InsertAlert(e) PROVE TxnShape'
    <2>1. CASE Conflict(e)
      BY <1>9, <2>1 DEF InsertAlert, Goto
    <2>2. CASE ~Conflict(e)
      <3>1. tx' = [tx EXCEPT ![e].alert = TRUE]
        BY <1>9, <2>2 DEF InsertAlert
      <3>2. /\ \A f \in Executions : f # e => tx'[f] = tx[f]
            /\ tx'[e].alert = TRUE
            /\ tx'[e].rows = tx[e].rows /\ tx'[e].upd = tx[e].upd /\ tx'[e].sel = tx[e].sel
        BY <3>1, InsertWrites
      <3>3. pc[e] = "insert" /\ pc' = [pc EXCEPT ![e] = "select"] /\ todo' = todo
        BY <1>9, <2>2 DEF InsertAlert, Goto
      <3>4. Holding' = Holding
        BY <3>3
      <3>5. \A f \in Executions : f # e => pc'[f] = pc[f]
        BY <3>3
      <3>6. pc'[e] = "select" /\ tx[e].upd = {} /\ tx[e].sel = {} /\ todo[e] = {}
        <4>1. pc'[e] = "select"
          BY <3>3
        <4>2. /\ pc[e] # "redis" => todo[e] = {}
              /\ pc[e] # "commit" => tx[e].upd = {}
              /\ pc[e] \notin {"select", "redis", "update", "commit"} => ~tx[e].alert
              /\ ~tx[e].alert => tx[e].sel = {}
          BY DEF TxnShape
        <4> QED BY <3>3, <4>1, <4>2
      <3> QED BY <3>2, <3>3, <3>4, <3>5, <3>6
    <2> QED BY <2>1, <2>2
  <1>10. ASSUME NEW e \in Executions, Select(e) PROVE TxnShape'
    BY <1>10, SelectWrites, SelectedAreTokens DEF Select, ToRevoke, Active, Goto
  <1>11. ASSUME NEW e \in Executions, NEW t \in Tokens, Blacklist(e, t) PROVE TxnShape'
    BY <1>11, BlacklistWrites DEF Blacklist
  <1>12. ASSUME NEW e \in Executions, AllRevoked(e) PROVE TxnShape'
    BY <1>12 DEF AllRevoked, LoopEnds, Goto
  <1>13. ASSUME NEW e \in Executions, UpdateRows(e) PROVE TxnShape'
    BY <1>13, UpdateWrites DEF UpdateRows, Active, Goto
  <1>14. ASSUME NEW e \in Executions, Commit(e) PROVE TxnShape'
    BY <1>14 DEF Commit, Applied, NoWrites, Goto
  <1>15. ASSUME NEW e \in Executions, CommitUnknown(e) PROVE TxnShape'
    BY <1>15 DEF CommitUnknown, Applied, Fault, NoWrites, Goto
  <1>16. ASSUME NEW e \in Executions, ProcessFails(e) PROVE TxnShape'
    BY <1>16 DEF ProcessFails, Rollback, Fault, NoWrites, Goto
  <1>17. ASSUME NEW e \in Executions, RevokerDies(e) PROVE TxnShape'
    BY <1>17 DEF RevokerDies, Rollback, Fault, NoWrites, Goto
  <1>18. ASSUME NEW e \in Executions, Mark(e) PROVE TxnShape'
    BY <1>18 DEF Mark, Goto
  <1>19. CASE UNCHANGED vars
    BY <1>19 DEF vars
  <1> QED
    BY <1>1, <1>2, <1>3, <1>4, <1>5, <1>6, <1>7, <1>8, <1>9, <1>10, <1>11, <1>12, <1>13, <1>14,
       <1>15, <1>16, <1>17, <1>18, <1>19 DEF Next, Delete, Process

(* Only the holder of the lock changes revoked_alerts.                          *)
LEMMA TxnEffectStep ==
  ASSUME TypeOK, Issued, TxnShape, TxnEffect, [Next]_vars
  PROVE  TxnEffect'
  <1> USE Constants DEF db, alerts, history, TypeOK, TxnShape, TxnEffect, Holding,
         Keyed
  <1>1. CASE Tick
    BY <1>1, AlertOfType DEF Tick
  <1>2. ASSUME NEW t \in Tokens, Login(t) PROVE TxnEffect'
    BY <1>2, AlertOfType DEF Login, InWindow
  <1>3. ASSUME NEW q \in Requests, DeleteFinds(q) PROVE TxnEffect'
    BY <1>3, AlertOfType DEF DeleteFinds, At, Answer
  <1>4. ASSUME NEW q \in Requests, DeleteBlacklists(q) PROVE TxnEffect'
    BY <1>4, AlertOfType DEF DeleteBlacklists, At, KeyRunsOut
  <1>5. ASSUME NEW q \in Requests, DeleteUpdates(q) PROVE TxnEffect'
    BY <1>5, AlertOfType DEF DeleteUpdates, At, Answer
  <1>6. ASSUME NEW q \in Requests, DeleteFails(q) PROVE TxnEffect'
    BY <1>6, AlertOfType DEF DeleteFails, Fault
  <1>7. ASSUME NEW e \in Executions, Deliver(e) PROVE TxnEffect'
    BY <1>7, AlertOfType DEF Deliver, FirstStep, Goto
  <1>8. ASSUME NEW e \in Executions, Lock(e) PROVE TxnEffect'
    BY <1>8, AlertOfType DEF Lock, Goto
  <1>9. ASSUME NEW e \in Executions, InsertAlert(e) PROVE TxnEffect'
    BY <1>9, InsertWrites, AlertOfType DEF InsertAlert, Conflict, Goto
  <1>10. ASSUME NEW e \in Executions, Select(e) PROVE TxnEffect'
    BY <1>10, SelectWrites, SelectedAreTokens, AlertOfType DEF Select, ToRevoke, Active, Goto
  <1>11. ASSUME NEW e \in Executions, NEW t \in Tokens, Blacklist(e, t) PROVE TxnEffect'
    BY <1>11, AlertOfType DEF Blacklist
  <1>12. ASSUME NEW e \in Executions, AllRevoked(e) PROVE TxnEffect'
    BY <1>12, AlertOfType DEF AllRevoked, LoopEnds, Goto
  <1>13. ASSUME NEW e \in Executions, UpdateRows(e) PROVE TxnEffect'
    BY <1>13, UpdateWrites, AlertOfType DEF UpdateRows, Active, Issued, Goto
  <1>14. ASSUME NEW e \in Executions, Commit(e) PROVE TxnEffect'
    BY <1>14, AlertOfType DEF Commit, Applied, NoWrites, Goto
  <1>15. ASSUME NEW e \in Executions, CommitUnknown(e) PROVE TxnEffect'
    BY <1>15, AlertOfType DEF CommitUnknown, Applied, Fault, NoWrites, Goto
  <1>16. ASSUME NEW e \in Executions, ProcessFails(e) PROVE TxnEffect'
    BY <1>16, AlertOfType DEF ProcessFails, Rollback, Fault, NoWrites, Goto
  <1>17. ASSUME NEW e \in Executions, RevokerDies(e) PROVE TxnEffect'
    BY <1>17, AlertOfType DEF RevokerDies, Rollback, Fault, NoWrites, Goto
  <1>18. ASSUME NEW e \in Executions, Mark(e) PROVE TxnEffect'
    BY <1>18, AlertOfType DEF Mark, Goto
  <1>19. CASE UNCHANGED vars
    BY <1>19 DEF vars
  <1> QED
    BY <1>1, <1>2, <1>3, <1>4, <1>5, <1>6, <1>7, <1>8, <1>9, <1>10, <1>11, <1>12, <1>13, <1>14,
       <1>15, <1>16, <1>17, <1>18, <1>19 DEF Next, Delete, Process

(* A row becomes active at a login only, which is seen by the open window.      *)
LEMMA WindowStep ==
  ASSUME TypeOK, Issued, TxnShape, WindowCovered, [Next]_vars
  PROVE  WindowCovered'
  <1> USE Constants DEF db, alerts, history, TypeOK, TxnShape, WindowCovered,
         InWindow, Keyed
  <1>1. CASE Tick
    BY <1>1 DEF Tick
  <1>2. ASSUME NEW t \in Tokens, Login(t) PROVE WindowCovered'
    BY <1>2 DEF Login, InWindow
  <1>3. ASSUME NEW q \in Requests, DeleteFinds(q) PROVE WindowCovered'
    BY <1>3 DEF DeleteFinds, At, Answer
  <1>4. ASSUME NEW q \in Requests, DeleteBlacklists(q) PROVE WindowCovered'
    BY <1>4 DEF DeleteBlacklists, At, KeyRunsOut
  <1>5. ASSUME NEW q \in Requests, DeleteUpdates(q) PROVE WindowCovered'
    BY <1>5 DEF DeleteUpdates, At, Answer, Issued
  <1>6. ASSUME NEW q \in Requests, DeleteFails(q) PROVE WindowCovered'
    BY <1>6 DEF DeleteFails, Fault
  <1>7. ASSUME NEW e \in Executions, Deliver(e) PROVE WindowCovered'
    BY <1>7 DEF Deliver, FirstStep, Goto
  <1>8. ASSUME NEW e \in Executions, Lock(e) PROVE WindowCovered'
    BY <1>8 DEF Lock, Goto
  <1>9. ASSUME NEW e \in Executions, InsertAlert(e) PROVE WindowCovered'
    <2>1. CASE Conflict(e)
      BY <1>9, <2>1 DEF InsertAlert, Conflict, Goto
    <2>2. CASE ~Conflict(e)
      <3>1. tx' = [tx EXCEPT ![e].alert = TRUE] /\ pc' = [pc EXCEPT ![e] = "select"]
        BY <1>9, <2>2 DEF InsertAlert, Goto
      <3>2. /\ tx' \in [Executions -> Writes]
            /\ \A f \in Executions : f # e => tx'[f] = tx[f]
            /\ tx'[e].rows = tx[e].rows /\ tx'[e].upd = tx[e].upd /\ tx'[e].sel = tx[e].sel
        BY <3>1, InsertWrites
      <3> QED BY <1>9, <3>1, <3>2 DEF InsertAlert
    <2> QED BY <2>1, <2>2
  <1>10. ASSUME NEW e \in Executions, Select(e) PROVE WindowCovered'
    BY <1>10, SelectWrites, SelectedAreTokens DEF Select, ToRevoke, Active, Goto
  <1>11. ASSUME NEW e \in Executions, NEW t \in Tokens, Blacklist(e, t) PROVE WindowCovered'
    BY <1>11 DEF Blacklist
  <1>12. ASSUME NEW e \in Executions, AllRevoked(e) PROVE WindowCovered'
    BY <1>12 DEF AllRevoked, LoopEnds, Goto
  <1>13. ASSUME NEW e \in Executions, UpdateRows(e) PROVE WindowCovered'
    <2>1. e \in InWindow /\ todo[e] = {}
      BY <1>13 DEF UpdateRows
    <2>2. \A t \in Active : Keyed(t) \/ t \in raced
      BY <2>1 DEF Active
    <2> QED BY <1>13, <2>1, <2>2, UpdateWrites DEF UpdateRows, Goto
  <1>14. ASSUME NEW e \in Executions, Commit(e) PROVE WindowCovered'
    BY <1>14 DEF Commit, Applied, NoWrites, Goto
  <1>15. ASSUME NEW e \in Executions, CommitUnknown(e) PROVE WindowCovered'
    BY <1>15 DEF CommitUnknown, Applied, Fault, NoWrites, Goto
  <1>16. ASSUME NEW e \in Executions, ProcessFails(e) PROVE WindowCovered'
    BY <1>16 DEF ProcessFails, Rollback, Fault, NoWrites, Goto
  <1>17. ASSUME NEW e \in Executions, RevokerDies(e) PROVE WindowCovered'
    BY <1>17 DEF RevokerDies, Rollback, Fault, NoWrites, Goto
  <1>18. ASSUME NEW e \in Executions, Mark(e) PROVE WindowCovered'
    BY <1>18 DEF Mark, Goto
  <1>19. CASE UNCHANGED vars
    BY <1>19 DEF vars
  <1> QED
    BY <1>1, <1>2, <1>3, <1>4, <1>5, <1>6, <1>7, <1>8, <1>9, <1>10, <1>11, <1>12, <1>13, <1>14,
       <1>15, <1>16, <1>17, <1>18, <1>19 DEF Next, Delete, Process

(* A commit that records an alert finds no row of it.                           *)
LEMMA RecordedStep ==
  ASSUME TypeOK, TxnShape, TxnEffect, Recorded, [Next]_vars
  PROVE  Recorded'
  <1> USE Constants DEF db, alerts, history, TypeOK, TxnShape, TxnEffect, Recorded
  <1>1. CASE Tick
    BY <1>1 DEF Tick
  <1>2. ASSUME NEW t \in Tokens, Login(t) PROVE Recorded'
    BY <1>2 DEF Login, InWindow
  <1>3. ASSUME NEW q \in Requests, DeleteFinds(q) PROVE Recorded'
    BY <1>3 DEF DeleteFinds, At, Answer
  <1>4. ASSUME NEW q \in Requests, DeleteBlacklists(q) PROVE Recorded'
    BY <1>4 DEF DeleteBlacklists, At, KeyRunsOut
  <1>5. ASSUME NEW q \in Requests, DeleteUpdates(q) PROVE Recorded'
    BY <1>5 DEF DeleteUpdates, At, Answer
  <1>6. ASSUME NEW q \in Requests, DeleteFails(q) PROVE Recorded'
    BY <1>6 DEF DeleteFails, Fault
  <1>7. ASSUME NEW e \in Executions, Deliver(e) PROVE Recorded'
    BY <1>7 DEF Deliver, FirstStep, Goto
  <1>8. ASSUME NEW e \in Executions, Lock(e) PROVE Recorded'
    BY <1>8 DEF Lock, Goto
  <1>9. ASSUME NEW e \in Executions, InsertAlert(e) PROVE Recorded'
    <2>1. revocations' = revocations /\ revokedAlerts' = revokedAlerts
      BY <1>9 DEF InsertAlert
    <2> QED BY <2>1
  <1>10. ASSUME NEW e \in Executions, Select(e) PROVE Recorded'
    BY <1>10, SelectWrites, SelectedAreTokens DEF Select, ToRevoke, Active, Goto
  <1>11. ASSUME NEW e \in Executions, NEW t \in Tokens, Blacklist(e, t) PROVE Recorded'
    BY <1>11 DEF Blacklist
  <1>12. ASSUME NEW e \in Executions, AllRevoked(e) PROVE Recorded'
    BY <1>12 DEF AllRevoked, LoopEnds, Goto
  <1>13. ASSUME NEW e \in Executions, UpdateRows(e) PROVE Recorded'
    BY <1>13, UpdateWrites DEF UpdateRows, Active, Goto
  <1>14. ASSUME NEW e \in Executions, Commit(e) PROVE Recorded'
    <2>1. ASSUME NEW a \in Alerts, NEW t \in Tokens
          PROVE  revocations'[<<a, t>>] = IF a = alertOf(e) /\ t \in tx[e].rows
                   THEN revocations[<<a, t>>] + 1 ELSE revocations[<<a, t>>]
      BY <1>14 DEF Commit, Applied
    <2>2. tx[e].rows # {} => tx[e].alert /\ alertOf(e) \notin revokedAlerts
      OBVIOUS
    <2>3. revokedAlerts' = IF tx[e].alert THEN revokedAlerts \cup {alertOf(e)} ELSE revokedAlerts
      BY <1>14 DEF Commit, Applied
    <2>4. ASSUME NEW a \in Alerts, NEW t \in Tokens
          PROVE  /\ revocations'[<<a, t>>] <= 1
                 /\ a \notin revokedAlerts' => revocations'[<<a, t>>] = 0
      <3>1. CASE a = alertOf(e) /\ t \in tx[e].rows
        BY <2>1, <2>2, <2>3, <3>1
      <3>2. CASE ~(a = alertOf(e) /\ t \in tx[e].rows)
        BY <2>1, <2>3, <3>2
      <3> QED BY <3>1, <3>2
    <2> QED BY <2>4
  <1>15. ASSUME NEW e \in Executions, CommitUnknown(e) PROVE Recorded'
    <2>1. ASSUME NEW a \in Alerts, NEW t \in Tokens
          PROVE  revocations'[<<a, t>>] = IF a = alertOf(e) /\ t \in tx[e].rows
                   THEN revocations[<<a, t>>] + 1 ELSE revocations[<<a, t>>]
      BY <1>15 DEF CommitUnknown, Applied
    <2>2. tx[e].rows # {} => tx[e].alert /\ alertOf(e) \notin revokedAlerts
      OBVIOUS
    <2>3. revokedAlerts' = IF tx[e].alert THEN revokedAlerts \cup {alertOf(e)} ELSE revokedAlerts
      BY <1>15 DEF CommitUnknown, Applied
    <2>4. ASSUME NEW a \in Alerts, NEW t \in Tokens
          PROVE  /\ revocations'[<<a, t>>] <= 1
                 /\ a \notin revokedAlerts' => revocations'[<<a, t>>] = 0
      <3>1. CASE a = alertOf(e) /\ t \in tx[e].rows
        BY <2>1, <2>2, <2>3, <3>1
      <3>2. CASE ~(a = alertOf(e) /\ t \in tx[e].rows)
        BY <2>1, <2>3, <3>2
      <3> QED BY <3>1, <3>2
    <2> QED BY <2>4
  <1>16. ASSUME NEW e \in Executions, ProcessFails(e) PROVE Recorded'
    BY <1>16 DEF ProcessFails, Rollback, Fault, Goto
  <1>17. ASSUME NEW e \in Executions, RevokerDies(e) PROVE Recorded'
    BY <1>17 DEF RevokerDies, Rollback, Fault, Goto
  <1>18. ASSUME NEW e \in Executions, Mark(e) PROVE Recorded'
    BY <1>18 DEF Mark, Goto
  <1>19. CASE UNCHANGED vars
    BY <1>19 DEF vars
  <1> QED
    BY <1>1, <1>2, <1>3, <1>4, <1>5, <1>6, <1>7, <1>8, <1>9, <1>10, <1>11, <1>12, <1>13, <1>14,
       <1>15, <1>16, <1>17, <1>18, <1>19 DEF Next, Delete, Process

(* What a commit records is complete, and stays so.                             *)
LEMMA CompleteStep ==
  ASSUME TypeOK, TxnShape, TxnEffect, Recorded, Complete, [Next]_vars
  PROVE  Complete'
  <1> USE Constants DEF db, alerts, history, TypeOK, TxnShape, TxnEffect, Complete,
         Keyed
  <1>1. CASE Tick
    BY <1>1 DEF Tick
  <1>2. ASSUME NEW t \in Tokens, Login(t) PROVE Complete'
    BY <1>2 DEF Login, InWindow
  <1>3. ASSUME NEW q \in Requests, DeleteFinds(q) PROVE Complete'
    BY <1>3 DEF DeleteFinds, At, Answer
  <1>4. ASSUME NEW q \in Requests, DeleteBlacklists(q) PROVE Complete'
    BY <1>4 DEF DeleteBlacklists, At, KeyRunsOut
  <1>5. ASSUME NEW q \in Requests, DeleteUpdates(q) PROVE Complete'
    BY <1>5 DEF DeleteUpdates, At, Answer
  <1>6. ASSUME NEW q \in Requests, DeleteFails(q) PROVE Complete'
    BY <1>6 DEF DeleteFails, Fault
  <1>7. ASSUME NEW e \in Executions, Deliver(e) PROVE Complete'
    BY <1>7 DEF Deliver, FirstStep, Goto
  <1>8. ASSUME NEW e \in Executions, Lock(e) PROVE Complete'
    BY <1>8 DEF Lock, Goto
  <1>9. ASSUME NEW e \in Executions, InsertAlert(e) PROVE Complete'
    BY <1>9, InsertWrites DEF InsertAlert, Conflict, Goto
  <1>10. ASSUME NEW e \in Executions, Select(e) PROVE Complete'
    BY <1>10, SelectWrites, SelectedAreTokens DEF Select, ToRevoke, Active, Goto
  <1>11. ASSUME NEW e \in Executions, NEW t \in Tokens, Blacklist(e, t) PROVE Complete'
    BY <1>11 DEF Blacklist
  <1>12. ASSUME NEW e \in Executions, AllRevoked(e) PROVE Complete'
    BY <1>12 DEF AllRevoked, LoopEnds, Goto
  <1>13. ASSUME NEW e \in Executions, UpdateRows(e) PROVE Complete'
    BY <1>13, UpdateWrites DEF UpdateRows, Active, Goto
  <1>14. ASSUME NEW e \in Executions, Commit(e) PROVE Complete'
    BY <1>14, AlertOfType DEF Commit, Applied, Recorded, Goto
  <1>15. ASSUME NEW e \in Executions, CommitUnknown(e) PROVE Complete'
    BY <1>15, AlertOfType DEF CommitUnknown, Applied, Fault, Recorded, Goto
  <1>16. ASSUME NEW e \in Executions, ProcessFails(e) PROVE Complete'
    BY <1>16 DEF ProcessFails, Rollback, Fault, Goto
  <1>17. ASSUME NEW e \in Executions, RevokerDies(e) PROVE Complete'
    BY <1>17 DEF RevokerDies, Rollback, Fault, Goto
  <1>18. ASSUME NEW e \in Executions, Mark(e) PROVE Complete'
    BY <1>18 DEF Mark, Goto
  <1>19. CASE UNCHANGED vars
    BY <1>19 DEF vars
  <1> QED
    BY <1>1, <1>2, <1>3, <1>4, <1>5, <1>6, <1>7, <1>8, <1>9, <1>10, <1>11, <1>12, <1>13, <1>14,
       <1>15, <1>16, <1>17, <1>18, <1>19 DEF Next, Delete, Process

(* An execution comes to its mark by a commit, an error, or at once.            *)
LEMMA MarkStep ==
  ASSUME TypeOK, Issued, TxnEffect, MarkMeansHandled, [Next]_vars
  PROVE  MarkMeansHandled'
  <1> USE Constants DEF db, alerts, history, TypeOK, MarkMeansHandled, Handled
  <1>1. CASE Tick
    BY <1>1, AlertOfType DEF Tick
  <1>2. ASSUME NEW t \in Tokens, Login(t) PROVE MarkMeansHandled'
    BY <1>2, AlertOfType DEF Login, InWindow
  <1>3. ASSUME NEW q \in Requests, DeleteFinds(q) PROVE MarkMeansHandled'
    BY <1>3, AlertOfType DEF DeleteFinds, At, Answer
  <1>4. ASSUME NEW q \in Requests, DeleteBlacklists(q) PROVE MarkMeansHandled'
    BY <1>4, AlertOfType DEF DeleteBlacklists, At, KeyRunsOut
  <1>5. ASSUME NEW q \in Requests, DeleteUpdates(q) PROVE MarkMeansHandled'
    BY <1>5, AlertOfType DEF DeleteUpdates, At, Answer
  <1>6. ASSUME NEW q \in Requests, DeleteFails(q) PROVE MarkMeansHandled'
    BY <1>6, AlertOfType DEF DeleteFails, Fault
  <1>7. ASSUME NEW e \in Executions, Deliver(e) PROVE MarkMeansHandled'
    BY <1>7, AlertOfType DEF Deliver, FirstStep, Goto
  <1>8. ASSUME NEW e \in Executions, Lock(e) PROVE MarkMeansHandled'
    BY <1>8, AlertOfType DEF Lock, Goto
  <1>9. ASSUME NEW e \in Executions, InsertAlert(e) PROVE MarkMeansHandled'
    BY <1>9, InsertWrites, AlertOfType DEF InsertAlert, Conflict, Goto
  <1>10. ASSUME NEW e \in Executions, Select(e) PROVE MarkMeansHandled'
    BY <1>10, SelectWrites, SelectedAreTokens, AlertOfType DEF Select, ToRevoke, Active, Goto
  <1>11. ASSUME NEW e \in Executions, NEW t \in Tokens, Blacklist(e, t) PROVE MarkMeansHandled'
    BY <1>11, AlertOfType DEF Blacklist
  <1>12. ASSUME NEW e \in Executions, AllRevoked(e) PROVE MarkMeansHandled'
    BY <1>12, AlertOfType DEF AllRevoked, LoopEnds, Goto
  <1>13. ASSUME NEW e \in Executions, UpdateRows(e) PROVE MarkMeansHandled'
    BY <1>13, UpdateWrites, AlertOfType DEF UpdateRows, Active, Goto
  <1>14. ASSUME NEW e \in Executions, Commit(e) PROVE MarkMeansHandled'
    BY <1>14, AlertOfType DEF Commit, Applied, TxnEffect, Goto
  <1>15. ASSUME NEW e \in Executions, CommitUnknown(e) PROVE MarkMeansHandled'
    BY <1>15, AlertOfType DEF CommitUnknown, Applied, Fault, TxnEffect, Goto
  <1>16. ASSUME NEW e \in Executions, ProcessFails(e) PROVE MarkMeansHandled'
    BY <1>16, AlertOfType DEF ProcessFails, Rollback, Fault, Goto
  <1>17. ASSUME NEW e \in Executions, RevokerDies(e) PROVE MarkMeansHandled'
    BY <1>17, AlertOfType DEF RevokerDies, Rollback, Fault, Goto
  <1>18. ASSUME NEW e \in Executions, Mark(e) PROVE MarkMeansHandled'
    BY <1>18, AlertOfType DEF Mark, Goto
  <1>19. CASE UNCHANGED vars
    BY <1>19 DEF vars
  <1> QED
    BY <1>1, <1>2, <1>3, <1>4, <1>5, <1>6, <1>7, <1>8, <1>9, <1>10, <1>11, <1>12, <1>13, <1>14,
       <1>15, <1>16, <1>17, <1>18, <1>19 DEF Next, Delete, Process

-----------------------------------------------------------------------------
(* IInv is inductive. *)
LEMMA Initially == Init => IInv
  <1> SUFFICES ASSUME Init PROVE IInv
    OBVIOUS
  <1> USE RevocationAssumption DEF Init, NoWrites, Keyed
  <1>1. TypeOK
    BY DEF TypeOK
  <1>2. KeyCovers /\ Issued
    BY DEF KeyCovers, Issued
  <1>3. TxnShape /\ TxnEffect
    BY DEF TxnShape, TxnEffect, Holding
  <1>4. WindowCovered /\ Recorded /\ Complete
    BY DEF WindowCovered, InWindow, Recorded, Complete
  <1>5. MarkMeansHandled
    BY DEF MarkMeansHandled
  <1> QED BY <1>1, <1>2, <1>3, <1>4, <1>5 DEF IInv

(* Every step keeps the inductive invariant, part by part. *)
LEMMA Inductive == IInv /\ [Next]_vars => IInv'
  BY TypeStep, KeyCoversStep, IssuedStep, TxnShapeStep, TxnEffectStep, WindowStep,
     RecordedStep, CompleteStep, MarkStep DEF IInv

(* The inductive invariant holds of every behaviour of the two paths that    *)
(* end sessions.                                                             *)
THEOREM Invariance == Spec => []IInv
  BY Initially, Inductive, PTL DEF Spec

(* Type correctness. *)
THEOREM TypeCorrect == Spec => []TypeOK
  <1>1. IInv => TypeOK
    BY DEF IInv
  <1> QED BY <1>1, Invariance, PTL

(* A session shown as revoked has a refused token, unless that outlived its  *)
(* key or its row appeared between the revoker's SELECT and its UPDATE       *)
(* (jwt.ts, main.go).                                                        *)
THEOREM RevokedAreRefused == Spec => []RevokedMeansRefused
  <1>1. IInv => RevokedMeansRefused
    BY RefusedByKey DEF IInv, WindowCovered, RevokedMeansRefused
  <1> QED BY <1>1, Invariance, PTL

(* However often an alert is delivered, the revocation of a token for it is  *)
(* recorded once (main.go:122-132).                                          *)
THEOREM OneRecord == Spec => []RecordedOnce
  <1>1. IInv => RecordedOnce
    BY DEF IInv, Recorded, RecordedOnce
  <1> QED BY <1>1, Invariance, PTL

(* No alert is lost between its delivery and its offset (main.go:107-110).   *)
THEOREM NoAlertLost == Spec => []OffsetMeansHandled
  <1>1. IInv => OffsetMeansHandled
    BY DEF IInv, MarkMeansHandled, Handled, OffsetMeansHandled
  <1> QED BY <1>1, Invariance, PTL

(* An alert in revoked_alerts has had its whole effect (main.go:134-163).    *)
THEOREM RecordedIsComplete == Spec => []HandledAlertIsComplete
  <1>1. IInv => HandledAlertIsComplete
    <2> SUFFICES ASSUME IInv, NEW a \in revokedAlerts, NEW t \in selected[a]
                 PROVE  /\ revocations[<<a, t>>] = 1 /\ (~Accepts(t) \/ KeyOver(t))
                        /\ Target[a] = AllTokens => row[t] = "revoked"
      BY DEF HandledAlertIsComplete
    <2>0. revokedAlerts \subseteq Alerts /\ selected \in [Alerts -> SUBSET Tokens]
      BY DEF IInv, TypeOK
    <2>1. a \in Alerts /\ t \in Tokens
      BY <2>0
    <2> QED BY <2>1, RefusedByKey DEF IInv, Complete
  <1> QED BY <1>1, Invariance, PTL

(* A refused token stays refused, whatever its lifetime and though each path *)
(* overwrites the blacklist key of the other by a shorter one (jwt.ts:74,    *)
(* sessions.ts:103, main.go:168); one that outlives its keys passes again at *)
(* the instant the last of them runs out, and in no other way.               *)
THEOREM RefusalIsFinal == Spec => RefusedStaysRefused
  <1>1. IInv /\ [Next]_vars =>
          [\A t \in Tokens : row[t] # "none" /\ ~Accepts(t) =>
             ~Accepts(t)' \/ (Outlives(t) /\ now' = until[t] /\ until' = until)]_vars
    <2> SUFFICES ASSUME IInv, [Next]_vars, NEW t \in Tokens, row[t] # "none", ~Accepts(t), Accepts(t)'
                 PROVE  Outlives(t) /\ now' = until[t] /\ until' = until
      OBVIOUS
    <2>1. IInv'
      BY Inductive
    <2>2. /\ now \in Nat /\ now' \in Nat /\ exp[t] \in Nat /\ until[t] \in Nat
          /\ exp'[t] \in Nat /\ until'[t] \in Nat
      BY <2>1, RevocationAssumption DEF IInv, TypeOK
    <2> DEFINE Lasting ==
          /\ exp'[t] = exp[t]
          /\ \/ until' = until /\ now' \in {now, now + 1}
             \/ now' = now /\ (until'[t] = until[t] \/ until'[t] > now)
    <2>4. Lasting
      <3> USE RevocationAssumption, <2>2 DEF Keyed, db, alerts, history
      <3>1. CASE Tick
        BY <3>1 DEF Tick
      <3>2. ASSUME NEW u \in Tokens, Login(u)
            PROVE  Lasting
        BY <3>2 DEF Login, IInv, TypeOK
      <3>3. ASSUME NEW q \in Requests, DeleteFinds(q)
            PROVE  Lasting
        BY <3>3 DEF DeleteFinds
      <3>4. ASSUME NEW q \in Requests, DeleteBlacklists(q)
            PROVE  Lasting
        BY <3>4 DEF DeleteBlacklists, KeyRunsOut, IInv, TypeOK
      <3>5. ASSUME NEW q \in Requests, DeleteUpdates(q)
            PROVE  Lasting
        BY <3>5 DEF DeleteUpdates
      <3>6. ASSUME NEW q \in Requests, DeleteFails(q)
            PROVE  Lasting
        BY <3>6 DEF DeleteFails
      <3>7. ASSUME NEW e \in Executions, Deliver(e)
            PROVE  Lasting
        BY <3>7 DEF Deliver
      <3>8. ASSUME NEW e \in Executions, Lock(e)
            PROVE  Lasting
        BY <3>8 DEF Lock
      <3>9. ASSUME NEW e \in Executions, InsertAlert(e)
            PROVE  Lasting
        BY <3>9 DEF InsertAlert
      <3>10. ASSUME NEW e \in Executions, Select(e)
            PROVE  Lasting
        BY <3>10 DEF Select
      <3>11. ASSUME NEW e \in Executions, NEW u \in Tokens, Blacklist(e, u)
            PROVE  Lasting
        BY <3>11 DEF Blacklist, IInv, TypeOK
      <3>12. ASSUME NEW e \in Executions, AllRevoked(e)
            PROVE  Lasting
        BY <3>12 DEF AllRevoked
      <3>13. ASSUME NEW e \in Executions, UpdateRows(e)
            PROVE  Lasting
        BY <3>13 DEF UpdateRows
      <3>14. ASSUME NEW e \in Executions, Commit(e)
            PROVE  Lasting
        BY <3>14 DEF Commit, Applied
      <3>15. ASSUME NEW e \in Executions, CommitUnknown(e)
            PROVE  Lasting
        BY <3>15 DEF CommitUnknown, Applied
      <3>16. ASSUME NEW e \in Executions, ProcessFails(e)
            PROVE  Lasting
        BY <3>16 DEF ProcessFails, Rollback
      <3>17. ASSUME NEW e \in Executions, RevokerDies(e)
            PROVE  Lasting
        BY <3>17 DEF RevokerDies, Rollback
      <3>18. ASSUME NEW e \in Executions, Mark(e)
            PROVE  Lasting
        BY <3>18 DEF Mark
      <3>19. CASE UNCHANGED vars
        BY <3>19 DEF vars
      <3> QED
        BY <3>1, <3>2, <3>3, <3>4, <3>5, <3>6, <3>7, <3>8, <3>9, <3>10, <3>11, <3>12, <3>13,
           <3>14, <3>15, <3>16, <3>17, <3>18, <3>19 DEF Next, Delete, Process
    <2>5. Unexpired(t)' => Unexpired(t)
      BY <2>2, <2>4 DEF Unexpired
    <2>6. Listed(t) /\ ~Listed(t)'
      BY <2>5 DEF Accepts
    <2>7. until' = until /\ now' = until[t]
      BY <2>2, <2>4, <2>6 DEF Listed
    <2>8. Outlives(t)
      <3>1. Keyed(t) /\ until[t] > now
        BY <2>2, <2>6 DEF Listed, Keyed
      <3>2. ~Outlives(t) => exp[t] <= until[t] /\ Life[t] # 0
        BY <3>1 DEF IInv, KeyCovers, Outlives
      <3>3. Life[t] # 0 => now' < exp[t]
        BY <2>4 DEF Accepts, Unexpired
      <3> QED BY <2>2, <2>7, <3>2, <3>3
    <2> QED BY <2>7, <2>8
  <1> QED BY <1>1, Invariance, PTL DEF Spec, RefusedStaysRefused
=============================================================================
